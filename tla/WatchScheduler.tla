---------------------------- MODULE WatchScheduler ----------------------------
(***************************************************************************)
(* One Watch subscription: its schedule, the collections it starts, the    *)
(* notes they queue and the delivery of those notes                        *)
(* (src/src/prm/runtime/scheduler.py, and the Watch half of                *)
(* src/src/prm/runtime/delivery.py).                                       *)
(*                                                                         *)
(* A step is one transaction. A guarded call is a state: while a collector *)
(* reads a source, or a sender talks to Telegram, its session holds the    *)
(* row of the schedule FOR UPDATE, until it ends or is lost. Durations are *)
(* order: a slot falls due, a lease lapses, a day ends when they do.       *)
(***************************************************************************)
EXTENDS Naturals, FiniteSets

CONSTANTS Subjects,      \* what the subscription watches
          Prints,        \* fingerprints of the evidence about a subject
          Tickers,       \* processes that run tick
          Collectors,    \* processes that run run_once
          Senders,       \* processes that deliver
          DailyCap,
          MaxRevision,   \* bound: confirmed revisions
          MaxSlot,       \* bound: due times ever set
          MaxDay         \* bound: local days

ASSUME WatchAssumption ==
  /\ {DailyCap, MaxRevision, MaxSlot} \subseteq Nat
  /\ MaxDay \in Nat \ {0}

VARIABLES schedule,   \* pa_schedule.schedules: revision and lifecycle
          slot,       \* next_due, and whether it has come
          token,      \* the lease of a ticker
          ticking,    \* tickers between claim_due and advance
          job,        \* the occurrence of each slot and its job
          collector,  \* what each collector is doing
          source,     \* the fingerprint each source would show now
          subject,    \* pa_schedule.subjects
          baseline,   \* pa_schedule.baselines
          note,       \* pa_schedule.notifications
          attempt,    \* pa_delivery.attempts
          quota,      \* pa_delivery.quotas: the day a note counts for
          reserved,   \* notes whose operation reference is used
          sender,     \* what each sender is doing
          day,        \* the local day
          sentOn      \* requests made on each day

timing == <<slot, token, ticking>>
collecting == <<job, collector>>
evidence == <<subject, baseline, note>>
sending == <<attempt, quota, reserved, sender, sentOn>>
vars == <<schedule, timing, collecting, source, evidence, sending, day>>

None == "none"
Unseen == "unseen"
Seen == Prints \cup {Unseen}
Slots == 1..MaxSlot

\* A note is identified by its subject and the change it tells of: from, to.
Notes == Subjects \X Seen \X Prints
NoNote == [status |-> "none", revision |-> 0]
NoJob == [status |-> "none", revision |-> 0, by |-> None]
Resting == [phase |-> "idle", slot |-> 0, guarded |-> FALSE, seen |-> [s \in Subjects |-> Unseen]]
Idle == [phase |-> "idle", note |-> <<>>, guarded |-> FALSE, outcome |-> "unknown"]

Init ==
  /\ schedule = [revision |-> 0, lifecycle |-> "none"]
  /\ slot = [id |-> 0, due |-> FALSE]
  /\ token = [by |-> None, live |-> FALSE]
  /\ ticking = {}
  /\ job = [n \in Slots |-> NoJob]
  /\ collector = [c \in Collectors |-> Resting]
  /\ source \in [Subjects -> Prints]
  /\ subject = [s \in Subjects |-> "active"]
  /\ baseline = [s \in Subjects |-> Unseen]
  /\ note = [k \in Notes |-> NoNote]
  /\ attempt = [k \in Notes |-> "none"]
  /\ quota = [k \in Notes |-> 0]
  /\ reserved = {}
  /\ sender = [s \in Senders |-> Idle]
  /\ day = 1
  /\ sentOn = [d \in 1..MaxDay |-> 0]

Reading == {c \in Collectors : collector[c].phase = "reading" /\ collector[c].guarded}
Calling == {s \in Senders : sender[s].phase = "calling" /\ sender[s].guarded}

\* Defective variant: the schedule is read without FOR UPDATE.
ScheduleAlwaysFree == TRUE

ScheduleFree == Reading = {} /\ Calling = {}
Active == schedule.lifecycle = "active"

\* Those of ks that are queued are cancelled, in the caller's transaction.
Without(ks) ==
  [k \in Notes |-> IF note[k].status = "queued" /\ k \in ks
                   THEN [note[k] EXCEPT !.status = "cancelled"] ELSE note[k]]

-----------------------------------------------------------------------------
(* The owner: confirm, feedback, complete_subject.                          *)

NextSlot(due) == /\ slot.id < MaxSlot
                 /\ slot' = [id |-> slot.id + 1, due |-> due]
                 /\ token' = [by |-> None, live |-> FALSE]

\* A confirmed preview starts the next revision, whatever became of the last.
Confirm ==
  /\ ScheduleFree
  /\ schedule.revision < MaxRevision
  /\ schedule' = [revision |-> schedule.revision + 1, lifecycle |-> "active"]
  /\ \E due \in BOOLEAN : NextSlot(due)
  /\ note' = Without(Notes)
  /\ UNCHANGED <<ticking, collecting, source, subject, baseline, sending, day>>

\* Resume, pause, snooze; unsubscribe and done end the subscription.
Feedback(lifecycle) ==
  /\ ScheduleFree
  /\ schedule.lifecycle \notin {"none", "ended"}
  /\ schedule' = [schedule EXCEPT !.lifecycle = lifecycle]
  /\ NextSlot(lifecycle # "snoozed")
  /\ note' = Without(IF lifecycle = "active" THEN {} ELSE Notes)
  /\ UNCHANGED <<ticking, collecting, source, subject, baseline, sending, day>>

\* A snooze ends at the very time the next slot was set to.
SnoozeOver ==
  /\ schedule.lifecycle = "snoozed"
  /\ schedule' = [schedule EXCEPT !.lifecycle = "active"]
  /\ slot' = [slot EXCEPT !.due = TRUE]
  /\ UNCHANGED <<token, ticking, collecting, source, evidence, sending, day>>

CompleteSubject(s) ==
  /\ ScheduleFree
  /\ schedule.revision > 0 /\ subject[s] = "active"
  /\ subject' = [subject EXCEPT ![s] = "completed"]
  /\ note' = Without({k \in Notes : k[1] = s})
  /\ UNCHANGED <<schedule, timing, collecting, source, baseline, sending, day>>

-----------------------------------------------------------------------------
(* tick: claim_due, then advance.                                           *)

FallDue ==
  /\ slot.id > 0 /\ ~slot.due
  /\ schedule.lifecycle # "snoozed"
  /\ slot' = [slot EXCEPT !.due = TRUE]
  /\ UNCHANGED <<schedule, token, ticking, collecting, source, evidence, sending, day>>

ClaimDue(t) ==
  /\ t \notin ticking
  /\ slot.due /\ ScheduleFree
  /\ ~token.live
  /\ token' = [by |-> t, live |-> TRUE]
  /\ ticking' = ticking \cup {t}
  /\ UNCHANGED <<schedule, slot, collecting, source, evidence, sending, day>>

LapseToken ==
  /\ token.live
  /\ token' = [token EXCEPT !.live = FALSE]
  /\ UNCHANGED <<schedule, slot, ticking, collecting, source, evidence, sending, day>>

\* Defective variant: advance trusts the lease it once had.
AdvanceUnfenced(t) ==
  /\ t \in ticking /\ ScheduleFree
  /\ \E granted \in BOOLEAN :
       job' = IF Active /\ granted
              THEN [job EXCEPT ![slot.id] = [status |-> "queued", revision |-> schedule.revision, by |-> None]]
              ELSE job
  /\ NextSlot(FALSE)
  /\ ticking' = ticking \ {t}
  /\ UNCHANGED <<schedule, collector, source, evidence, sending, day>>

\* The lease stands for the slot: whether that is due is not looked at again.
\* Job, occurrence and next due time are one transaction.
Advance(t) ==
  /\ t \in ticking /\ ScheduleFree
  /\ token = [by |-> t, live |-> TRUE]
  /\ \E granted \in BOOLEAN :
       job' = IF Active /\ granted
              THEN [job EXCEPT ![slot.id] = [status |-> "queued", revision |-> schedule.revision, by |-> None]]
              ELSE job
  /\ NextSlot(FALSE)
  /\ ticking' = ticking \ {t}
  /\ UNCHANGED <<schedule, collector, source, evidence, sending, day>>

\* Stale lease, lost commit or crash: the next tick starts afresh.
TickFails(t) ==
  /\ t \in ticking
  /\ token.by = t => ~token.live
  /\ ticking' = ticking \ {t}
  /\ UNCHANGED <<schedule, slot, token, collecting, source, evidence, sending, day>>

-----------------------------------------------------------------------------
(* run_once of a collector.                                                 *)

Rest(c) == collector' = [collector EXCEPT ![c] = Resting]
Fenced(c) == job[collector[c].slot].status = "leased" /\ job[collector[c].slot].by = c
SameRevision(c) == job[collector[c].slot].revision = schedule.revision

Change(s) ==
  /\ \E p \in Prints : p # source[s] /\ source' = [source EXCEPT ![s] = p]
  /\ UNCHANGED <<schedule, timing, collecting, evidence, sending, day>>

ClaimJob(c, n) ==
  /\ collector[c].phase = "idle"
  /\ job[n].status = "queued"
  /\ job' = [job EXCEPT ![n].status = "leased", ![n].by = c]
  /\ collector' = [collector EXCEPT ![c] = [Resting EXCEPT !.phase = "claimed", !.slot = n]]
  /\ UNCHANGED <<schedule, timing, source, evidence, sending, day>>

LapseJob(n) ==
  /\ job[n].status = "leased"
  /\ \E status \in {"queued", "done"} : job' = [job EXCEPT ![n].status = status, ![n].by = None]
  /\ UNCHANGED <<schedule, timing, collector, source, evidence, sending, day>>

Denied(c) ==
  /\ collector[c].phase = "claimed"
  /\ Fenced(c)
  /\ job' = [job EXCEPT ![collector[c].slot].status = "done", ![collector[c].slot].by = None]
  /\ Rest(c)
  /\ UNCHANGED <<schedule, timing, source, evidence, sending, day>>

Read(c) ==
  /\ collector[c].phase = "claimed"
  /\ ScheduleFree
  /\ SameRevision(c) /\ Active /\ Fenced(c)
  /\ collector' = [collector EXCEPT ![c].phase = "reading", ![c].guarded = TRUE]
  /\ UNCHANGED <<schedule, timing, job, source, evidence, sending, day>>

\* What was read counts only if the session lasted.
Collected(c) ==
  /\ c \in Reading
  /\ collector' = [collector EXCEPT ![c].phase = "collected", ![c].guarded = FALSE, ![c].seen = source]
  /\ UNCHANGED <<schedule, timing, job, source, evidence, sending, day>>

New(s, p) == subject[s] = "active" /\ baseline[s] # p

Told(seen) == {<<s, baseline[s], seen[s]>> : s \in {t \in Subjects : New(t, seen[t])}}
Superseded(seen) == {k \in Notes : New(k[1], seen[k[1]]) /\ k[3] # seen[k[1]]}

\* Defective variant: the revision and lifecycle are not checked again.
QueueNotesUnchecked(c) ==
  LET seen == collector[c].seen
  IN
  /\ collector[c].phase = "collected"
  /\ ScheduleFree
  /\ Fenced(c)
  /\ note' = [k \in Notes |->
       IF k \in Told(seen) /\ note[k].status = "none"
       THEN [status |-> "queued", revision |-> job[collector[c].slot].revision]
       ELSE Without(Superseded(seen))[k]]
  /\ baseline' = [s \in Subjects |-> IF New(s, seen[s]) THEN seen[s] ELSE baseline[s]]
  /\ job' = [job EXCEPT ![collector[c].slot].status = "done", ![collector[c].slot].by = None]
  /\ Rest(c)
  /\ UNCHANGED <<schedule, timing, source, subject, sending, day>>

\* A note whose change was told of before is not inserted again, but what it
\* supersedes is cancelled and the baseline moves all the same.
QueueNotes(c) ==
  LET seen == collector[c].seen
  IN
  /\ collector[c].phase = "collected"
  /\ ScheduleFree
  /\ SameRevision(c) /\ Active /\ Fenced(c)
  /\ note' = [k \in Notes |->
       IF k \in Told(seen) /\ note[k].status = "none"
       THEN [status |-> "queued", revision |-> schedule.revision]
       ELSE Without(Superseded(seen))[k]]
  /\ baseline' = [s \in Subjects |-> IF New(s, seen[s]) THEN seen[s] ELSE baseline[s]]
  /\ job' = [job EXCEPT ![collector[c].slot].status = "done", ![collector[c].slot].by = None]
  /\ Rest(c)
  /\ UNCHANGED <<schedule, timing, source, subject, sending, day>>

\* Refused, failed or crashed: the job keeps its lease until that lapses.
CollectionFails(c) ==
  /\ collector[c].phase # "idle"
  /\ Rest(c)
  /\ UNCHANGED <<schedule, timing, job, source, evidence, sending, day>>

LoseReading(c) ==
  /\ c \in Reading
  /\ collector' = [collector EXCEPT ![c].guarded = FALSE]
  /\ UNCHANGED <<schedule, timing, job, source, evidence, sending, day>>

-----------------------------------------------------------------------------
(* deliver_watch and its guards. Quiet hours, source grants, policy and     *)
(* locks may refuse at any time; the message itself is DeliveryExecutor's.  *)

Goto(s, phase) == [sender EXCEPT ![s].phase = phase]
Back(s) == [sender EXCEPT ![s] = Idle]

Mentionable(k) == /\ note[k].status = "queued" /\ note[k].revision = schedule.revision
                  /\ Active

\* The note is read, its one operation reserved.
Start(s, k) ==
  /\ sender[s].phase = "idle"
  /\ Mentionable(k) /\ attempt[k] = "none"
  /\ k \notin reserved
  /\ reserved' = reserved \cup {k}
  /\ sender' = [sender EXCEPT ![s] = [Idle EXCEPT !.phase = "reserved", !.note = k]]
  /\ UNCHANGED <<schedule, timing, collecting, source, evidence, attempt, quota, sentOn, day>>

CountedOn(d) == {k \in Notes : quota[k] = d}

\* The place in today's quota and the attempt are one transaction.
Fence(s) ==
  LET k == sender[s].note IN
  /\ sender[s].phase = "reserved"
  /\ ScheduleFree
  /\ Mentionable(k)
  /\ Cardinality(CountedOn(day)) < DailyCap
  /\ quota' = [quota EXCEPT ![k] = day]
  /\ attempt' = [attempt EXCEPT ![k] = "unknown"]
  /\ sender' = Goto(s, "fenced")
  /\ UNCHANGED <<schedule, timing, collecting, source, evidence, reserved, sentOn, day>>

\* Defective variant: a place in any day's quota will do.
CallOnAnyDay(s) ==
  LET k == sender[s].note IN
  /\ sender[s].phase = "fenced"
  /\ ScheduleFree
  /\ Mentionable(k) /\ attempt[k] = "unknown"
  /\ sender' = [sender EXCEPT ![s].phase = "calling", ![s].guarded = TRUE]
  /\ sentOn' = [sentOn EXCEPT ![day] = @ + 1]
  /\ UNCHANGED <<schedule, timing, collecting, source, evidence, attempt, quota, reserved, day>>

Call(s) ==
  LET k == sender[s].note IN
  /\ sender[s].phase = "fenced"
  /\ ScheduleFree
  /\ Mentionable(k) /\ attempt[k] = "unknown"
  /\ quota[k] = day
  /\ sender' = [sender EXCEPT ![s].phase = "calling", ![s].guarded = TRUE]
  /\ sentOn' = [sentOn EXCEPT ![day] = @ + 1]
  /\ UNCHANGED <<schedule, timing, collecting, source, evidence, attempt, quota, reserved, day>>

\* The attempt stays unknown, the quota used and the note queued.
CallRefused(s) ==
  /\ sender[s].phase = "fenced"
  /\ sender' = Goto(s, "answered")
  /\ UNCHANGED <<schedule, timing, collecting, source, evidence, attempt, quota, reserved, sentOn, day>>

LoseCall(s) ==
  /\ s \in Calling
  /\ sender' = [sender EXCEPT ![s].guarded = FALSE]
  /\ UNCHANGED <<schedule, timing, collecting, source, evidence, attempt, quota, reserved, sentOn, day>>

Answered(s) ==
  /\ sender[s].phase = "calling"
  /\ \E outcome \in {"sent", "not_sent", "unknown"} :
       /\ outcome = "sent" => sender[s].guarded
       /\ sender' = [sender EXCEPT ![s].phase = "answered", ![s].guarded = FALSE, ![s].outcome = outcome]
  /\ UNCHANGED <<schedule, timing, collecting, source, evidence, attempt, quota, reserved, sentOn, day>>

\* Defective variant: an unknown outcome goes to the note too.
SettledAsIs(k, outcome) ==
  IF attempt[k] = "unknown"
  THEN /\ attempt' = [attempt EXCEPT ![k] = outcome]
       /\ note' = [note EXCEPT ![k].status = outcome]
  ELSE UNCHANGED <<attempt, note>>

\* The outcome goes to the note as well, even to one cancelled meanwhile.
Settled(k, outcome) ==
  IF attempt[k] = "unknown" /\ outcome # "unknown"
  THEN /\ attempt' = [attempt EXCEPT ![k] = outcome]
       /\ note' = [note EXCEPT ![k].status = outcome]
  ELSE UNCHANGED <<attempt, note>>

Settle(s) ==
  /\ sender[s].phase = "answered"
  /\ Settled(sender[s].note, sender[s].outcome)
  /\ sender' = Back(s)
  /\ UNCHANGED <<schedule, timing, collecting, source, subject, baseline, quota, reserved, sentOn, day>>

\* Before the fence the reservation is given up, after it the attempt stays.
SenderFails(s) ==
  /\ sender[s].phase # "idle"
  /\ sender' = Back(s)
  /\ UNCHANGED <<schedule, timing, collecting, source, evidence, attempt, quota, reserved, sentOn, day>>

Reconcile(k) ==
  /\ ScheduleFree
  /\ attempt[k] = "unknown"
  /\ \E outcome \in {"sent", "not_sent"} : Settled(k, outcome)
  /\ UNCHANGED <<schedule, timing, collecting, source, subject, baseline, quota, reserved, sender, sentOn, day>>

NextDay ==
  /\ day < MaxDay
  /\ day' = day + 1
  /\ UNCHANGED <<schedule, timing, collecting, source, evidence, sending>>

-----------------------------------------------------------------------------
Owner ==
  \/ Confirm \/ SnoozeOver
  \/ \E lifecycle \in {"active", "paused", "snoozed", "ended"} : Feedback(lifecycle)
  \/ \E s \in Subjects : CompleteSubject(s)

Ticker(t) == ClaimDue(t) \/ Advance(t) \/ TickFails(t)

Collector(c) ==
  \/ \E n \in Slots : ClaimJob(c, n)
  \/ Denied(c) \/ Read(c) \/ Collected(c) \/ QueueNotes(c) \/ CollectionFails(c) \/ LoseReading(c)

Sender(s) ==
  \/ \E k \in Notes : Start(s, k)
  \/ Fence(s) \/ Call(s) \/ CallRefused(s) \/ LoseCall(s) \/ Answered(s) \/ Settle(s) \/ SenderFails(s)

Environment ==
  \/ FallDue \/ LapseToken \/ NextDay
  \/ \E n \in Slots : LapseJob(n)
  \/ \E s \in Subjects : Change(s)
  \/ \E k \in Notes : Reconcile(k)

Next ==
  \/ Owner \/ Environment
  \/ \E t \in Tickers : Ticker(t)
  \/ \E c \in Collectors : Collector(c)
  \/ \E s \in Senders : Sender(s)

Spec == Init /\ [][Next]_vars

-----------------------------------------------------------------------------
(* Properties.                                                             *)

\* The shape of the tables and of what the processes keep in memory; a note is
\* never left with the status of an attempt whose outcome is unknown
\* (scheduler.py:24-39, delivery.py:330-336).
TypeOK ==
  /\ schedule \in [revision: 0..MaxRevision,
                   lifecycle: {"none", "active", "paused", "snoozed", "ended"}]
  /\ slot \in [id: 0..MaxSlot, due: BOOLEAN]
  /\ token \in [by: Tickers \cup {None}, live: BOOLEAN]
  /\ ticking \subseteq Tickers
  /\ job \in [Slots -> [status: {"none", "queued", "leased", "done"}, revision: 0..MaxRevision,
                        by: Collectors \cup {None}]]
  /\ collector \in [Collectors -> [phase: {"idle", "claimed", "reading", "collected"},
                                   slot: 0..MaxSlot, guarded: BOOLEAN, seen: [Subjects -> Seen]]]
  /\ source \in [Subjects -> Prints]
  /\ subject \in [Subjects -> {"active", "completed"}]
  /\ baseline \in [Subjects -> Seen]
  /\ note \in [Notes -> [status: {"none", "queued", "cancelled", "sent", "not_sent"},
                         revision: 0..MaxRevision]]
  /\ attempt \in [Notes -> {"none", "unknown", "sent", "not_sent"}]
  /\ quota \in [Notes -> 0..MaxDay]
  /\ reserved \subseteq Notes
  /\ sender \in [Senders -> [phase: {"idle", "reserved", "fenced", "calling", "answered"},
                             note: Notes \cup {<<>>}, guarded: BOOLEAN,
                             outcome: {"unknown", "sent", "not_sent"}]]
  /\ day \in 1..MaxDay
  /\ sentOn \in [1..MaxDay -> Nat]

\* What is queued is what the owner asked for and what is true now: a note of
\* the current revision, of a subscription neither paused nor ended, about a
\* subject still watched, telling of the latest evidence (scheduler.py:316-350).
QueuedIsCurrent ==
  \A k \in Notes : note[k].status = "queued" =>
    /\ note[k].revision = schedule.revision
    /\ schedule.lifecycle = "active"
    /\ subject[k[1]] = "active"
    /\ baseline[k[1]] = k[3]

\* While a guarded read or message is under way the owner neither pauses, ends
\* nor revises the subscription, nor completes the subject: he wins before it or
\* waits for it (delivery.py:189-215, scheduler.py:297-310).
GuardedCallsStayCurrent ==
  /\ \A c \in Reading : SameRevision(c) /\ Active
  /\ \A s \in Calling : Mentionable(sender[s].note) /\ subject[sender[s].note[1]] = "active"

\* Never more messages on one local day than the cap, counting the day on which
\* they are made, not the one on which they were prepared (delivery.py:204-215).
CapRespected == \A d \in 1..MaxDay : sentOn[d] <= DailyCap

\* A collection starts only for a slot that has come, and once for each: the
\* lease of a ticker that was revised, paused or overtaken meanwhile is worth
\* nothing (scheduler.py:176-214).
CollectsOnlyWhatIsDue ==
  [][\A n \in Slots : job[n].status = "none" /\ job'[n].status # "none"
                        => n = slot.id /\ slot.due]_vars

=============================================================================
