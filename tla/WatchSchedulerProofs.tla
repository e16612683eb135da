------------------------- MODULE WatchSchedulerProofs -------------------------
(* Theorems about WatchScheduler, for any number of subjects, fingerprints,  *)
(* processes and days.                                                      *)
EXTENDS WatchScheduler, Integers, FiniteSetTheorems, TLAPS

-----------------------------------------------------------------------------
(* The rows of the tables and what the processes remember.                  *)

Lifecycles == {"none", "active", "paused", "snoozed", "ended"}
Schedule == [revision: 0..MaxRevision, lifecycle: Lifecycles]
Job == [status: {"none", "queued", "leased", "done"}, revision: 0..MaxRevision,
        by: Collectors \cup {None}]
Work == [phase: {"idle", "claimed", "reading", "collected"}, slot: 0..MaxSlot,
         guarded: BOOLEAN, seen: [Subjects -> Seen]]
Note == [status: {"none", "queued", "cancelled", "sent", "not_sent"}, revision: 0..MaxRevision]
Outcomes == {"unknown", "sent", "not_sent"}
Errand == [phase: {"idle", "reserved", "fenced", "calling", "answered"},
           note: Notes \cup {<<>>}, guarded: BOOLEAN, outcome: Outcomes]
Days == 1..MaxDay

Typed ==
  /\ schedule \in Schedule
  /\ slot \in [id: 0..MaxSlot, due: BOOLEAN]
  /\ token \in [by: Tickers \cup {None}, live: BOOLEAN]
  /\ ticking \subseteq Tickers
  /\ job \in [Slots -> Job]
  /\ collector \in [Collectors -> Work]
  /\ source \in [Subjects -> Prints]
  /\ subject \in [Subjects -> {"active", "completed"}]
  /\ baseline \in [Subjects -> Seen]
  /\ note \in [Notes -> Note]
  /\ attempt \in [Notes -> {"none", "unknown", "sent", "not_sent"}]
  /\ quota \in [Notes -> 0..MaxDay]
  /\ reserved \subseteq Notes
  /\ sender \in [Senders -> Errand]
  /\ day \in Days
  /\ sentOn \in [Days -> Nat]

-----------------------------------------------------------------------------
(* The inductive invariant.                                                 *)

\* A lease is only ever held on a slot that has come.
LeasedWhenDue == token.live => slot.due

\* Whoever collects, collects for a slot.
Occupied == \A c \in Collectors : collector[c].phase # "idle" => collector[c].slot \in Slots

Busy(s) == sender[s].phase # "idle"

\* A note has one operation, and with it one sender at most.
OneSender ==
  /\ \A s \in Senders : Busy(s) => sender[s].note \in reserved
  /\ \A s, t \in Senders : Busy(s) /\ Busy(t) /\ sender[s].note = sender[t].note => s = t

\* A note counts for a day from its fence on, never before.
Uncounted ==
  /\ \A k \in Notes \ reserved : quota[k] = 0
  /\ \A s \in Senders : sender[s].phase = "reserved" => quota[sender[s].note] = 0

\* The notes of a day that are fenced and may still be called on it.
Pending(d) == {k \in CountedOn(d) : \E s \in Senders : sender[s].phase = "fenced" /\ sender[s].note = k}

\* What was called and what still may be are together no more than what counts.
Counted ==
  \A d \in Days :
    /\ IsFiniteSet(CountedOn(d))
    /\ sentOn[d] + Cardinality(Pending(d)) <= Cardinality(CountedOn(d))
    /\ Cardinality(CountedOn(d)) <= DailyCap

IInv ==
  /\ Typed /\ LeasedWhenDue /\ Occupied /\ OneSender /\ Uncounted /\ Counted
  /\ QueuedIsCurrent /\ GuardedCallsStayCurrent

-----------------------------------------------------------------------------
(* What the tables look like after a step.                                  *)

JobTable(n, status, by) == [job EXCEPT ![n].status = status, ![n].by = by]
WorkTable(c, phase, guarded) == [collector EXCEPT ![c].phase = phase, ![c].guarded = guarded]
ErrandTable(s, phase, guarded) == [sender EXCEPT ![s].phase = phase, ![s].guarded = guarded]

LEMMA JobLeaves ==
  ASSUME Typed, NEW n \in Slots, NEW status \in {"none", "queued", "leased", "done"},
         NEW by \in Collectors \cup {None}
  PROVE  /\ JobTable(n, status, by) \in [Slots -> Job]
         /\ JobTable(n, status, by)[n].status = status
         /\ \A m \in Slots : JobTable(n, status, by)[m].revision = job[m].revision
         /\ \A m \in Slots \ {n} : JobTable(n, status, by)[m] = job[m]
<1> DEFINE half == [job EXCEPT ![n].status = status]
           full == [half EXCEPT ![n].by = by]
<1>1. JobTable(n, status, by) = full
      BY DEF JobTable
<1>2. /\ half \in [Slots -> Job] /\ half[n].status = status
      /\ \A m \in Slots : half[m].revision = job[m].revision
      /\ \A m \in Slots \ {n} : half[m] = job[m]
      BY DEF Typed, Job
<1> HIDE DEF half
<1>3. /\ full \in [Slots -> Job] /\ full[n].status = status
      /\ \A m \in Slots : full[m].revision = half[m].revision
      /\ \A m \in Slots \ {n} : full[m] = half[m]
      BY <1>2 DEF Job
<1> HIDE DEF full
<1> QED BY <1>1, <1>2, <1>3

LEMMA WorkLeaves ==
  ASSUME Typed, NEW c \in Collectors, NEW phase \in {"idle", "claimed", "reading", "collected"},
         NEW guarded \in BOOLEAN
  PROVE  /\ WorkTable(c, phase, guarded) \in [Collectors -> Work]
         /\ WorkTable(c, phase, guarded)[c].phase = phase
         /\ WorkTable(c, phase, guarded)[c].slot = collector[c].slot
         /\ WorkTable(c, phase, guarded)[c].guarded = guarded
         /\ \A d \in Collectors \ {c} : WorkTable(c, phase, guarded)[d] = collector[d]
<1> DEFINE half == [collector EXCEPT ![c].phase = phase]
           full == [half EXCEPT ![c].guarded = guarded]
<1>1. WorkTable(c, phase, guarded) = full
      BY DEF WorkTable
<1>2. /\ half \in [Collectors -> Work] /\ half[c].phase = phase /\ half[c].slot = collector[c].slot
      /\ \A d \in Collectors \ {c} : half[d] = collector[d]
      BY DEF Typed, Work
<1> HIDE DEF half
<1>3. /\ full \in [Collectors -> Work] /\ full[c].phase = phase /\ full[c].slot = half[c].slot
      /\ full[c].guarded = guarded
      /\ \A d \in Collectors \ {c} : full[d] = half[d]
      BY <1>2 DEF Work
<1> HIDE DEF full
<1> QED BY <1>1, <1>2, <1>3

LEMMA ErrandLeaves ==
  ASSUME Typed, NEW s \in Senders, NEW phase \in {"idle", "reserved", "fenced", "calling", "answered"},
         NEW guarded \in BOOLEAN
  PROVE  /\ ErrandTable(s, phase, guarded) \in [Senders -> Errand]
         /\ ErrandTable(s, phase, guarded)[s].phase = phase
         /\ ErrandTable(s, phase, guarded)[s].note = sender[s].note
         /\ ErrandTable(s, phase, guarded)[s].guarded = guarded
         /\ \A t \in Senders \ {s} : ErrandTable(s, phase, guarded)[t] = sender[t]
<1> DEFINE half == [sender EXCEPT ![s].phase = phase]
           full == [half EXCEPT ![s].guarded = guarded]
<1>1. ErrandTable(s, phase, guarded) = full
      BY DEF ErrandTable
<1>2. /\ half \in [Senders -> Errand] /\ half[s].phase = phase /\ half[s].note = sender[s].note
      /\ \A t \in Senders \ {s} : half[t] = sender[t]
      BY DEF Typed, Errand
<1> HIDE DEF half
<1>3. /\ full \in [Senders -> Errand] /\ full[s].phase = phase /\ full[s].note = half[s].note
      /\ full[s].guarded = guarded
      /\ \A t \in Senders \ {s} : full[t] = half[t]
      BY <1>2 DEF Errand
<1> HIDE DEF full
<1> QED BY <1>1, <1>2, <1>3

LEMMA WithoutLeaves ==
  ASSUME Typed, NEW ks
  PROVE  /\ Without(ks) \in [Notes -> Note]
         /\ \A k \in Notes : \/ Without(ks)[k] = note[k]
                             \/ Without(ks)[k].status = "cancelled"
         /\ \A k \in Notes : Without(ks)[k].status = "queued" => k \notin ks /\ Without(ks)[k] = note[k]
<1>1. ASSUME NEW k \in Notes
      PROVE  /\ Without(ks)[k] \in Note
             /\ Without(ks)[k] = note[k] \/ Without(ks)[k].status = "cancelled"
             /\ Without(ks)[k].status = "queued" => k \notin ks /\ Without(ks)[k] = note[k]
  <2> DEFINE row == [note[k] EXCEPT !.status = "cancelled"]
  <2>1. note[k] \in Note
        BY DEF Typed
  <2>2. row \in Note /\ row.status = "cancelled"
        BY <2>1 DEF Note
  <2>3. Without(ks)[k] = IF note[k].status = "queued" /\ k \in ks THEN row ELSE note[k]
        BY DEF Without
  <2> HIDE DEF row
  <2> QED BY <2>1, <2>2, <2>3
<1>2. Without(ks) = [k \in Notes |-> Without(ks)[k]]
      BY DEF Without
<1>3. Without(ks) \in [Notes -> Note]
      BY <1>1, <1>2
<1> QED BY <1>1, <1>3

\* The next slot and the free lease are set together.
LEMMA NextSlotLeaves ==
  ASSUME Typed, NEW due \in BOOLEAN, NextSlot(due)
  PROVE  /\ slot' \in [id: 0..MaxSlot, due: BOOLEAN] /\ token' \in [by: Tickers \cup {None}, live: BOOLEAN]
         /\ token'.live = FALSE
BY WatchAssumption DEF Typed, NextSlot

-----------------------------------------------------------------------------
(* Types.                                                                   *)

LEMMA OwnerType == Typed /\ Owner => Typed'
<1> SUFFICES ASSUME Typed, Owner PROVE Typed'
    OBVIOUS
<1>0. /\ schedule \in Schedule /\ slot \in [id: 0..MaxSlot, due: BOOLEAN]
      /\ subject \in [Subjects -> {"active", "completed"}]
      BY DEF Typed
<1>1. CASE Confirm
  <2>1. schedule' \in Schedule
        BY <1>0, <1>1, WatchAssumption DEF Confirm, Schedule, Lifecycles
  <2>2. PICK due \in BOOLEAN : NextSlot(due)
        BY <1>1 DEF Confirm
  <2>3. note' \in [Notes -> Note]
        BY <1>1, WithoutLeaves DEF Confirm
  <2> QED BY <1>1, <2>1, <2>2, <2>3, NextSlotLeaves DEF Confirm, Typed, collecting, sending
<1>2. ASSUME NEW lifecycle \in {"active", "paused", "snoozed", "ended"}, Feedback(lifecycle)
      PROVE  Typed'
  <2>1. schedule' \in Schedule
        BY <1>0, <1>2 DEF Feedback, Schedule, Lifecycles
  <2>2. NextSlot(lifecycle # "snoozed") /\ (lifecycle # "snoozed") \in BOOLEAN
        BY <1>2 DEF Feedback
  <2>3. note' \in [Notes -> Note]
        BY <1>2, WithoutLeaves DEF Feedback
  <2>4. slot' \in [id: 0..MaxSlot, due: BOOLEAN] /\ token' \in [by: Tickers \cup {None}, live: BOOLEAN]
        BY <2>2, NextSlotLeaves
  <2> QED BY <1>2, <2>1, <2>3, <2>4 DEF Feedback, Typed, collecting, sending
<1>3. CASE SnoozeOver
  <2>1. schedule' \in Schedule /\ slot' \in [id: 0..MaxSlot, due: BOOLEAN]
        BY <1>0, <1>3 DEF SnoozeOver, Schedule, Lifecycles
  <2> QED BY <1>3, <2>1 DEF SnoozeOver, Typed, collecting, evidence, sending
<1>4. ASSUME NEW s \in Subjects, CompleteSubject(s) PROVE Typed'
  <2>1. subject' \in [Subjects -> {"active", "completed"}]
        BY <1>0, <1>4 DEF CompleteSubject
  <2>2. note' \in [Notes -> Note]
        BY <1>4, WithoutLeaves DEF CompleteSubject
  <2> QED BY <1>4, <2>1, <2>2 DEF CompleteSubject, Typed, timing, collecting, sending
<1> QED BY <1>1, <1>2, <1>3, <1>4 DEF Owner

LEMMA TickerType == ASSUME Typed, NEW t \in Tickers, Ticker(t) PROVE Typed'
<1>1. CASE ClaimDue(t)
      BY <1>1 DEF ClaimDue, Typed, collecting, evidence, sending
<1>2. CASE Advance(t)
  <2> DEFINE row == [status |-> "queued", revision |-> schedule.revision, by |-> None]
  <2>1. row \in Job
        BY DEF Typed, Schedule, Job
  <2>2. job' = [job EXCEPT ![slot.id] = row] \/ job' = job
        BY <1>2 DEF Advance
  <2> HIDE DEF row
  <2>3. job' \in [Slots -> Job]
        BY <2>1, <2>2 DEF Typed
  <2>4. NextSlot(FALSE) /\ ticking' \subseteq Tickers
        BY <1>2 DEF Advance, Typed
  <2> QED BY <1>2, <2>3, <2>4, NextSlotLeaves DEF Advance, Typed, evidence, sending
<1>3. CASE TickFails(t)
      BY <1>3 DEF TickFails, Typed, collecting, evidence, sending
<1> QED BY <1>1, <1>2, <1>3 DEF Ticker

\* What a collector may do to its work, to the jobs and to the notes.
Collects(c) ==
  /\ collector' \in [Collectors -> Work] /\ job' \in [Slots -> Job]
  /\ \A d \in Collectors \ {c} : collector'[d] = collector[d]
  /\ \A n \in Slots : /\ job'[n].revision = job[n].revision
                      /\ job[n].status = "none" => job'[n].status = "none"
  /\ collector'[c].phase # "idle" => collector'[c].slot \in Slots
  /\ collector'[c].phase = "reading" /\ collector'[c].guarded
       => /\ collector'[c].slot = collector[c].slot /\ collector[c].slot \in Slots
          /\ c \in Reading \/ (SameRevision(c) /\ Active)
  /\ UNCHANGED <<note, baseline>> \/ QueueNotes(c)
  /\ UNCHANGED <<schedule, timing, source, subject, sending, day>>

LEMMA RestLeaves ==
  ASSUME Typed, NEW c \in Collectors, Rest(c)
  PROVE  /\ collector' \in [Collectors -> Work] /\ collector'[c].phase = "idle"
         /\ \A d \in Collectors \ {c} : collector'[d] = collector[d]
<1>1. Resting \in Work /\ Resting.phase = "idle"
      BY WatchAssumption DEF Resting, Work, Seen
<1> QED BY <1>1 DEF Typed, Rest

LEMMA CollectorStep ==
  ASSUME Typed, Occupied, NEW c \in Collectors, Collector(c)
  PROVE  Collects(c)
<1>0. /\ collector \in [Collectors -> Work] /\ job \in [Slots -> Job]
      /\ collector[c].phase # "idle" => collector[c].slot \in Slots
      BY DEF Typed, Occupied
<1>1. ASSUME NEW n \in Slots, ClaimJob(c, n) PROVE Collects(c)
  <2> DEFINE half == [Resting EXCEPT !.phase = "claimed"]
             row == [half EXCEPT !.slot = n]
  <2>1. half \in Work /\ half.phase = "claimed"
    <3>1. Resting \in Work
          BY WatchAssumption DEF Resting, Work, Seen
    <3> QED BY <3>1 DEF Work
  <2>2. collector' = [collector EXCEPT ![c] = row] /\ job' = JobTable(n, "leased", c)
        BY <1>1 DEF ClaimJob, JobTable
  <2> HIDE DEF half
  <2>3. row \in Work /\ row.phase = "claimed" /\ row.slot = n
        BY <2>1, WatchAssumption DEF Work, Slots
  <2> HIDE DEF row
  <2>4. /\ collector' \in [Collectors -> Work] /\ collector'[c] = row
        /\ \A d \in Collectors \ {c} : collector'[d] = collector[d]
        BY <1>0, <2>2, <2>3
  <2>5. /\ job' \in [Slots -> Job] /\ \A m \in Slots : job'[m].revision = job[m].revision
        /\ \A m \in Slots \ {n} : job'[m] = job[m]
        BY <2>2, JobLeaves
  <2>6. job[n].status = "queued"
        BY <1>1 DEF ClaimJob
  <2>7. UNCHANGED <<schedule, timing, source, evidence, sending, day>>
        BY <1>1 DEF ClaimJob
  <2> QED BY <2>3, <2>4, <2>5, <2>6, <2>7 DEF Collects, evidence
<1>2. ASSUME Fenced(c), collector[c].slot \in Slots,
             job' = [job EXCEPT ![collector[c].slot].status = "done", ![collector[c].slot].by = None]
      PROVE  /\ job' \in [Slots -> Job]
             /\ \A n \in Slots : /\ job'[n].revision = job[n].revision
                                 /\ job[n].status = "none" => job'[n].status = "none"
  <2>1. PICK m \in Slots : m = collector[c].slot /\ job' = JobTable(m, "done", None)
        BY <1>2 DEF JobTable
  <2>2. /\ job' \in [Slots -> Job] /\ \A n \in Slots : job'[n].revision = job[n].revision
        /\ \A n \in Slots \ {m} : job'[n] = job[n]
        BY <2>1, JobLeaves
  <2> QED BY <1>2, <2>1, <2>2 DEF Fenced
<1>3. CASE Denied(c)
  <2>1. Fenced(c) /\ collector[c].slot \in Slots /\ Rest(c)
        BY <1>0, <1>3 DEF Denied
  <2>2. /\ job' = [job EXCEPT ![collector[c].slot].status = "done", ![collector[c].slot].by = None]
        /\ UNCHANGED <<schedule, timing, source, evidence, sending, day>>
        BY <1>3 DEF Denied
  <2> QED BY <1>2, <2>1, <2>2, RestLeaves DEF Collects, evidence
<1>4. CASE QueueNotes(c)
  <2>1. Fenced(c) /\ collector[c].slot \in Slots /\ Rest(c)
        BY <1>0, <1>4 DEF QueueNotes
  <2>2. /\ job' = [job EXCEPT ![collector[c].slot].status = "done", ![collector[c].slot].by = None]
        /\ UNCHANGED <<schedule, timing, source, subject, sending, day>>
        BY <1>4 DEF QueueNotes
  <2> QED BY <1>2, <1>4, <2>1, <2>2, RestLeaves DEF Collects
<1>5. CASE Read(c)
  <2>1. /\ collector' = WorkTable(c, "reading", TRUE) /\ SameRevision(c) /\ Active
        /\ collector[c].slot \in Slots
        BY <1>0, <1>5 DEF Read, WorkTable
  <2>2. UNCHANGED <<schedule, timing, job, source, evidence, sending, day>>
        BY <1>5 DEF Read
  <2>3. /\ collector' \in [Collectors -> Work] /\ collector'[c].slot = collector[c].slot
        /\ \A d \in Collectors \ {c} : collector'[d] = collector[d]
        BY <2>1, WorkLeaves
  <2> QED BY <1>0, <2>1, <2>2, <2>3 DEF Collects, evidence
<1>6. CASE Collected(c)
  <2> DEFINE full == [WorkTable(c, "collected", FALSE) EXCEPT ![c].seen = source]
  <2>1. collector' = full /\ collector[c].slot \in Slots
        BY <1>0, <1>6 DEF Collected, WorkTable, Reading
  <2>2. source \in [Subjects -> Seen]
        BY DEF Typed, Seen
  <2>3. /\ WorkTable(c, "collected", FALSE) \in [Collectors -> Work]
        /\ WorkTable(c, "collected", FALSE)[c].phase = "collected"
        /\ WorkTable(c, "collected", FALSE)[c].slot = collector[c].slot
        /\ \A d \in Collectors \ {c} : WorkTable(c, "collected", FALSE)[d] = collector[d]
        BY WorkLeaves
  <2>4. /\ full \in [Collectors -> Work] /\ full[c].phase = "collected" /\ full[c].slot = collector[c].slot
        /\ \A d \in Collectors \ {c} : full[d] = collector[d]
        BY <2>2, <2>3 DEF Work
  <2> HIDE DEF full
  <2>5. UNCHANGED <<schedule, timing, job, source, evidence, sending, day>>
        BY <1>6 DEF Collected
  <2> QED BY <1>0, <2>1, <2>4, <2>5 DEF Collects, evidence
<1>7. CASE CollectionFails(c)
      BY <1>0, <1>7, RestLeaves DEF CollectionFails, Collects, evidence
<1>8. CASE LoseReading(c)
  <2>1. /\ collector' \in [Collectors -> Work] /\ collector'[c].slot = collector[c].slot
        /\ collector'[c].guarded = FALSE /\ collector[c].slot \in Slots
        /\ \A d \in Collectors \ {c} : collector'[d] = collector[d]
        BY <1>0, <1>8 DEF LoseReading, Reading, Work
  <2>2. UNCHANGED <<schedule, timing, job, source, evidence, sending, day>>
        BY <1>8 DEF LoseReading
  <2> QED BY <1>0, <2>1, <2>2 DEF Collects, evidence
<1> QED BY <1>1, <1>3, <1>4, <1>5, <1>6, <1>7, <1>8 DEF Collector

LEMMA QueueNotesType ==
  ASSUME Typed, NEW c \in Collectors, QueueNotes(c)
  PROVE  note' \in [Notes -> Note] /\ baseline' \in [Subjects -> Seen]
<1> DEFINE seen == collector[c].seen
           fresh == [status |-> "queued", revision |-> schedule.revision]
<1>1. seen \in [Subjects -> Seen] /\ fresh \in Note
      BY DEF Typed, Work, Schedule, Note
<1>2. Without(Superseded(seen)) \in [Notes -> Note]
      BY WithoutLeaves
<1>3. note' = [k \in Notes |-> IF k \in Told(seen) /\ note[k].status = "none" THEN fresh
                               ELSE Without(Superseded(seen))[k]]
      BY DEF QueueNotes
<1>4. baseline' = [s \in Subjects |-> IF New(s, seen[s]) THEN seen[s] ELSE baseline[s]]
      BY DEF QueueNotes
<1>5. baseline \in [Subjects -> Seen]
      BY DEF Typed
<1> HIDE DEF seen, fresh
<1> QED BY <1>1, <1>2, <1>3, <1>4, <1>5

LEMMA CollectorType == ASSUME Typed, Occupied, NEW c \in Collectors, Collector(c) PROVE Typed'
<1>1. Collects(c)
      BY CollectorStep
<1>2. note' \in [Notes -> Note] /\ baseline' \in [Subjects -> Seen]
      BY <1>1, QueueNotesType DEF Collects, Typed
<1> QED BY <1>1, <1>2 DEF Collects, Typed, timing, sending

\* What a sender may do to its errand, to the operations, the quotas and the requests.
Aside(s) == \A t \in Senders \ {s} : sender'[t] = sender[t]

Takes(s) ==
  \E k \in Notes \ reserved :
    /\ sender[s].phase = "idle" /\ sender'[s].phase = "reserved" /\ sender'[s].note = k
    /\ reserved' = reserved \cup {k} /\ UNCHANGED <<attempt, note, quota, sentOn>>

Fences(s) ==
  /\ sender[s].phase = "reserved" /\ sender'[s].phase = "fenced" /\ sender'[s].note = sender[s].note
  /\ Cardinality(CountedOn(day)) < DailyCap
  /\ quota' = [quota EXCEPT ![sender[s].note] = day]
  /\ attempt' = [attempt EXCEPT ![sender[s].note] = "unknown"]
  /\ UNCHANGED <<note, reserved, sentOn>>

CallsOut(s) ==
  /\ sender[s].phase = "fenced" /\ sender'[s].phase = "calling" /\ sender'[s].note = sender[s].note
  /\ Mentionable(sender[s].note) /\ quota[sender[s].note] = day
  /\ sentOn' = [sentOn EXCEPT ![day] = @ + 1]
  /\ UNCHANGED <<attempt, note, quota, reserved>>

\* The call is refused, loses its guard, is answered, settled, or never ends.
Leaves(s) ==
  /\ Busy(s)
  /\ \/ sender'[s].phase = "calling" /\ ~sender'[s].guarded /\ sender'[s].note = sender[s].note
     \/ sender'[s].phase = "answered" /\ sender'[s].note = sender[s].note
     \/ sender'[s].phase = "idle"
  /\ \/ UNCHANGED <<attempt, note>>
     \/ /\ sender[s].phase = "answered"
        /\ Settled(sender[s].note, sender[s].outcome)
  /\ UNCHANGED <<quota, reserved, sentOn>>

LEMMA BackLeaves ==
  ASSUME Typed, NEW s \in Senders, sender' = Back(s)
  PROVE  sender' \in [Senders -> Errand] /\ sender'[s].phase = "idle" /\ Aside(s)
<1>1. Idle \in Errand /\ Idle.phase = "idle"
      BY DEF Idle, Errand, Outcomes
<1> QED BY <1>1 DEF Typed, Back, Aside

LEMMA GotoLeaves ==
  ASSUME Typed, NEW s \in Senders, NEW phase \in {"fenced", "answered"}, sender' = Goto(s, phase)
  PROVE  /\ sender' \in [Senders -> Errand] /\ sender'[s].phase = phase
         /\ sender'[s].note = sender[s].note /\ Aside(s)
BY DEF Typed, Errand, Goto, Aside

LEMMA SenderStep ==
  ASSUME Typed, NEW s \in Senders, Sender(s)
  PROVE  /\ sender' \in [Senders -> Errand] /\ Aside(s)
         /\ Takes(s) \/ Fences(s) \/ CallsOut(s) \/ Leaves(s)
         /\ UNCHANGED <<schedule, timing, collecting, source, subject, baseline, day>>
<1> DEFINE Goal == /\ sender' \in [Senders -> Errand] /\ Aside(s)
                   /\ Takes(s) \/ Fences(s) \/ CallsOut(s) \/ Leaves(s)
                   /\ UNCHANGED <<schedule, timing, collecting, source, subject, baseline, day>>
<1>0. sender \in [Senders -> Errand]
      BY DEF Typed
<1>1. ASSUME NEW k \in Notes, Start(s, k) PROVE Goal
  <2> DEFINE half == [Idle EXCEPT !.phase = "reserved"]
             row == [half EXCEPT !.note = k]
  <2>1. half \in Errand /\ half.phase = "reserved"
        BY DEF Idle, Errand, Outcomes
  <2>2. sender' = [sender EXCEPT ![s] = row]
        BY <1>1 DEF Start
  <2> HIDE DEF half
  <2>3. row \in Errand /\ row.phase = "reserved" /\ row.note = k
        BY <2>1 DEF Errand
  <2> HIDE DEF row
  <2>4. sender' \in [Senders -> Errand] /\ sender'[s] = row /\ Aside(s)
        BY <1>0, <2>2, <2>3 DEF Aside
  <2>5. Takes(s)
        BY <1>1, <2>3, <2>4 DEF Start, Takes, evidence
  <2> QED BY <1>1, <2>4, <2>5 DEF Start, evidence
<1>2. CASE Fence(s)
  <2>1. sender' = Goto(s, "fenced") /\ sender[s].phase = "reserved"
        BY <1>2 DEF Fence
  <2>2. Fences(s)
        BY <1>2, <2>1, GotoLeaves DEF Fence, Fences, evidence
  <2> QED BY <1>2, <2>1, <2>2, GotoLeaves DEF Fence, evidence
<1>3. CASE Call(s)
  <2>1. sender' = ErrandTable(s, "calling", TRUE)
        BY <1>3 DEF Call, ErrandTable
  <2>2. /\ sender' \in [Senders -> Errand] /\ sender'[s].phase = "calling"
        /\ sender'[s].note = sender[s].note /\ Aside(s)
        BY <2>1, ErrandLeaves DEF Aside
  <2>3. CallsOut(s)
        BY <1>3, <2>2 DEF Call, CallsOut, evidence
  <2> QED BY <1>3, <2>2, <2>3 DEF Call, evidence
<1>4. CASE CallRefused(s)
  <2>1. sender' = Goto(s, "answered") /\ sender[s].phase = "fenced"
        BY <1>4 DEF CallRefused
  <2>2. Leaves(s)
        BY <1>4, <2>1, GotoLeaves DEF CallRefused, Leaves, Busy, evidence
  <2> QED BY <1>4, <2>1, <2>2, GotoLeaves DEF CallRefused, evidence
<1>5. CASE LoseCall(s)
  <2>1. /\ sender' \in [Senders -> Errand] /\ sender'[s].phase = "calling" /\ ~sender'[s].guarded
        /\ sender'[s].note = sender[s].note /\ Aside(s) /\ Busy(s)
        BY <1>0, <1>5 DEF LoseCall, Calling, Errand, Aside, Busy
  <2>2. Leaves(s)
        BY <1>5, <2>1 DEF LoseCall, Leaves, evidence
  <2> QED BY <1>5, <2>1, <2>2 DEF LoseCall, evidence
<1>6. CASE Answered(s)
  <2>1. PICK outcome \in Outcomes :
          sender' = [ErrandTable(s, "answered", FALSE) EXCEPT ![s].outcome = outcome]
        BY <1>6 DEF Answered, ErrandTable, Outcomes
  <2>2. /\ ErrandTable(s, "answered", FALSE) \in [Senders -> Errand]
        /\ ErrandTable(s, "answered", FALSE)[s].phase = "answered"
        /\ ErrandTable(s, "answered", FALSE)[s].note = sender[s].note
        /\ \A t \in Senders \ {s} : ErrandTable(s, "answered", FALSE)[t] = sender[t]
        BY ErrandLeaves
  <2>3. /\ sender' \in [Senders -> Errand] /\ sender'[s].phase = "answered"
        /\ sender'[s].note = sender[s].note /\ Aside(s)
        BY <2>1, <2>2 DEF Errand, Aside
  <2>4. Leaves(s)
        BY <1>6, <2>3 DEF Answered, Leaves, Busy, evidence
  <2> QED BY <1>6, <2>3, <2>4 DEF Answered, evidence
<1>7. CASE Settle(s)
  <2>1. Leaves(s)
        BY <1>7, BackLeaves DEF Settle, Leaves, Busy
  <2> QED BY <1>7, <2>1, BackLeaves DEF Settle
<1>8. CASE SenderFails(s)
  <2>1. Leaves(s)
        BY <1>8, BackLeaves DEF SenderFails, Leaves, Busy, evidence
  <2> QED BY <1>8, <2>1, BackLeaves DEF SenderFails, evidence
<1> QED BY <1>1, <1>2, <1>3, <1>4, <1>5, <1>6, <1>7, <1>8 DEF Sender

\* A settled attempt and its note: the note is not queued any more.
LEMMA SettledLeaves ==
  ASSUME Typed, NEW k, NEW outcome \in Outcomes, Settled(k, outcome)
  PROVE  /\ attempt' \in [Notes -> {"none", "unknown", "sent", "not_sent"}] /\ note' \in [Notes -> Note]
         /\ \A n \in Notes : \/ note'[n] = note[n]
                             \/ note'[n].status # "queued" /\ n = k
<1>1. CASE attempt[k] = "unknown" /\ outcome # "unknown"
  <2>1. /\ attempt' = [attempt EXCEPT ![k] = outcome]
        /\ note' = [note EXCEPT ![k].status = outcome] /\ outcome \in {"sent", "not_sent"}
        BY <1>1 DEF Settled, Outcomes
  <2>2. note \in [Notes -> Note]
        BY DEF Typed
  <2>3. note' \in [Notes -> Note] /\ \A n \in Notes \ {k} : note'[n] = note[n]
        BY <2>1, <2>2 DEF Note
  <2>4. k \in Notes => note'[k].status # "queued"
        BY <2>1, <2>2 DEF Note
  <2>5. attempt' \in [Notes -> {"none", "unknown", "sent", "not_sent"}]
        BY <2>1 DEF Typed
  <2> QED BY <2>3, <2>4, <2>5
<1>2. CASE ~(attempt[k] = "unknown" /\ outcome # "unknown")
      BY <1>2 DEF Settled, Typed
<1> QED BY <1>1, <1>2

LEMMA SenderType == ASSUME Typed, NEW s \in Senders, Sender(s) PROVE Typed'
<1>1. /\ sender' \in [Senders -> Errand]
      /\ Takes(s) \/ Fences(s) \/ CallsOut(s) \/ Leaves(s)
      /\ UNCHANGED <<schedule, timing, collecting, source, subject, baseline, day>>
      BY SenderStep
<1>2. attempt' \in [Notes -> {"none", "unknown", "sent", "not_sent"}] /\ note' \in [Notes -> Note]
  <2>1. sender[s].outcome \in Outcomes
        BY DEF Typed, Errand
  <2>2. Leaves(s) => UNCHANGED <<attempt, note>> \/ Settled(sender[s].note, sender[s].outcome)
        BY DEF Leaves
  <2>3. Fences(s) => note' = note /\ attempt' = [attempt EXCEPT ![sender[s].note] = "unknown"]
        BY DEF Fences
  <2>4. Takes(s) \/ CallsOut(s) => UNCHANGED <<attempt, note>>
        BY DEF Takes, CallsOut
  <2> QED BY <1>1, <2>1, <2>2, <2>3, <2>4, SettledLeaves DEF Typed
<1>3. quota' \in [Notes -> 0..MaxDay] /\ reserved' \subseteq Notes /\ sentOn' \in [Days -> Nat]
  <2>1. day \in 0..MaxDay
        BY DEF Typed, Days
  <2>2. Fences(s) => quota' = [quota EXCEPT ![sender[s].note] = day] /\ UNCHANGED <<reserved, sentOn>>
        BY DEF Fences
  <2>3. CallsOut(s) => sentOn' = [sentOn EXCEPT ![day] = @ + 1] /\ UNCHANGED <<quota, reserved>>
        BY DEF CallsOut
  <2>4. Leaves(s) => UNCHANGED <<quota, reserved, sentOn>>
        BY DEF Leaves
  <2>5. Takes(s) => reserved' \subseteq Notes /\ UNCHANGED <<quota, sentOn>>
        BY DEF Takes, Typed
  <2> QED BY <1>1, <2>1, <2>2, <2>3, <2>4, <2>5 DEF Typed
<1> QED BY <1>1, <1>2, <1>3 DEF Typed, timing, collecting

LEMMA EnvironmentType == Typed /\ Environment => Typed'
<1> SUFFICES ASSUME Typed, Environment PROVE Typed'
    OBVIOUS
<1>1. CASE FallDue
      BY <1>1 DEF FallDue, Typed, collecting, evidence, sending
<1>2. CASE LapseToken
      BY <1>2 DEF LapseToken, Typed, collecting, evidence, sending
<1>3. CASE NextDay
      BY <1>3, WatchAssumption DEF NextDay, Typed, timing, collecting, evidence, sending, Days
<1>4. ASSUME NEW n \in Slots, LapseJob(n) PROVE Typed'
  <2>1. PICK status \in {"queued", "done"} : job' = JobTable(n, status, None)
        BY <1>4 DEF LapseJob, JobTable
  <2>2. job' \in [Slots -> Job]
        BY <2>1, JobLeaves
  <2> QED BY <1>4, <2>2 DEF LapseJob, Typed, timing, evidence, sending
<1>5. ASSUME NEW s \in Subjects, Change(s) PROVE Typed'
      BY <1>5 DEF Change, Typed, timing, collecting, evidence, sending
<1>6. ASSUME NEW k \in Notes, Reconcile(k) PROVE Typed'
  <2>1. PICK outcome \in Outcomes : Settled(k, outcome)
        BY <1>6 DEF Reconcile, Outcomes
  <2> QED BY <1>6, <2>1, SettledLeaves DEF Reconcile, Typed, timing, collecting
<1> QED BY <1>1, <1>2, <1>3, <1>4, <1>5, <1>6 DEF Environment

LEMMA TypedStep == Typed /\ Occupied /\ [Next]_vars => Typed'
<1>1. Typed /\ UNCHANGED vars => Typed'
      BY DEF Typed, vars, timing, collecting, evidence, sending
<1> QED BY <1>1, OwnerType, TickerType, CollectorType, SenderType, EnvironmentType DEF Next

-----------------------------------------------------------------------------
(* Leases and slots.                                                        *)

LEMMA LeasesStep == Typed /\ LeasedWhenDue /\ Occupied /\ [Next]_vars => LeasedWhenDue'
<1> SUFFICES ASSUME Typed, LeasedWhenDue, Occupied, [Next]_vars PROVE LeasedWhenDue'
    OBVIOUS
<1>1. ASSUME NEW due \in BOOLEAN, NextSlot(due) PROVE LeasedWhenDue'
      BY <1>1, NextSlotLeaves DEF LeasedWhenDue
<1>2. CASE UNCHANGED timing
      BY <1>2 DEF timing, LeasedWhenDue
<1>3. CASE Owner
  <2>1. ASSUME NEW lifecycle \in {"active", "paused", "snoozed", "ended"}, Feedback(lifecycle)
        PROVE  LeasedWhenDue'
    <3>1. NextSlot(lifecycle # "snoozed") /\ (lifecycle # "snoozed") \in BOOLEAN
          BY <2>1 DEF Feedback
    <3> QED BY <1>1, <3>1
  <2>2. CASE Confirm
        BY <1>1, <2>2 DEF Confirm
  <2>3. CASE SnoozeOver
        BY <2>3 DEF SnoozeOver, LeasedWhenDue, Typed
  <2>4. ASSUME NEW s \in Subjects, CompleteSubject(s) PROVE LeasedWhenDue'
        BY <1>2, <2>4 DEF CompleteSubject
  <2> QED BY <1>3, <2>1, <2>2, <2>3, <2>4 DEF Owner
<1>4. ASSUME NEW t \in Tickers, Ticker(t) PROVE LeasedWhenDue'
      BY <1>1, <1>4 DEF Ticker, ClaimDue, Advance, TickFails, LeasedWhenDue
<1>5. ASSUME NEW c \in Collectors, Collector(c) PROVE LeasedWhenDue'
      BY <1>2, <1>5, CollectorStep DEF Collects
<1>6. ASSUME NEW s \in Senders, Sender(s) PROVE LeasedWhenDue'
      BY <1>2, <1>6, SenderStep
<1>7. CASE Environment
  <2>1. CASE FallDue \/ LapseToken
        BY <2>1 DEF FallDue, LapseToken, LeasedWhenDue, Typed
  <2>2. CASE NextDay \/ \E n \in Slots : LapseJob(n)
        BY <1>2, <2>2 DEF NextDay, LapseJob
  <2>3. CASE \E s \in Subjects : Change(s)
        BY <1>2, <2>3 DEF Change
  <2>4. CASE \E k \in Notes : Reconcile(k)
        BY <1>2, <2>4 DEF Reconcile
  <2> QED BY <1>7, <2>1, <2>2, <2>3, <2>4 DEF Environment
<1>8. CASE UNCHANGED vars
      BY <1>2, <1>8 DEF vars
<1> QED BY <1>3, <1>4, <1>5, <1>6, <1>7, <1>8 DEF Next

\* Only collectors change what a collector does.
LEMMA OnlyCollectors ==
  ASSUME [Next]_vars, NEW c \in Collectors, collector' # collector
  PROVE  \E d \in Collectors : Collector(d)
<1>1. ~Owner
      BY DEF Owner, Confirm, Feedback, SnoozeOver, CompleteSubject, collecting
<1>2. \A t \in Tickers : ~Ticker(t)
      BY DEF Ticker, ClaimDue, Advance, TickFails, collecting
<1>3. \A s \in Senders : ~Sender(s)
      BY DEF Sender, Start, Fence, Call, CallRefused, LoseCall, Answered, Settle, SenderFails, collecting
<1>4. ~Environment
      BY DEF Environment, FallDue, LapseToken, NextDay, LapseJob, Change, Reconcile, collecting
<1>5. ~UNCHANGED vars
      BY DEF vars, collecting
<1> QED BY <1>1, <1>2, <1>3, <1>4, <1>5 DEF Next

LEMMA OccupiedStep == Typed /\ Occupied /\ [Next]_vars => Occupied'
<1> SUFFICES ASSUME Typed, Occupied, [Next]_vars, NEW c \in Collectors, collector'[c].phase # "idle"
             PROVE  collector'[c].slot \in Slots
    BY DEF Occupied, Slots
<1>1. CASE collector' = collector
      BY <1>1 DEF Occupied
<1>2. ASSUME NEW d \in Collectors, Collector(d) PROVE collector'[c].slot \in Slots
  <2>1. Collects(d)
        BY <1>2, CollectorStep
  <2> QED BY <2>1 DEF Collects, Occupied
<1> QED BY <1>1, <1>2, OnlyCollectors

-----------------------------------------------------------------------------
(* Notes.                                                                   *)

LEMMA QueuedStep == Typed /\ Occupied /\ QueuedIsCurrent /\ [Next]_vars => QueuedIsCurrent'
<1> SUFFICES ASSUME Typed, Occupied, QueuedIsCurrent, [Next]_vars,
                    NEW k \in Notes, note'[k].status = "queued"
             PROVE  /\ note'[k].revision = schedule'.revision /\ schedule'.lifecycle = "active"
                    /\ subject'[k[1]] = "active" /\ baseline'[k[1]] = k[3]
    BY DEF QueuedIsCurrent, Notes, Seen
<1> DEFINE Current == /\ note'[k].revision = schedule'.revision /\ schedule'.lifecycle = "active"
                      /\ subject'[k[1]] = "active" /\ baseline'[k[1]] = k[3]
<1>0. k[1] \in Subjects /\ k[3] \in Prints
      BY DEF Notes
<1>1. note[k].status = "queued" => /\ note[k].revision = schedule.revision /\ schedule.lifecycle = "active"
                                   /\ subject[k[1]] = "active" /\ baseline[k[1]] = k[3]
      BY DEF QueuedIsCurrent
<1>2. CASE note'[k] = note[k] /\ UNCHANGED <<schedule, subject, baseline>>
      BY <1>1, <1>2
<1> HIDE DEF Current
<1>3. CASE Owner
  <2>1. CASE Confirm
        BY <2>1, WithoutLeaves DEF Confirm
  <2>2. ASSUME NEW lifecycle \in {"active", "paused", "snoozed", "ended"}, Feedback(lifecycle) PROVE Current
    <3>1. lifecycle = "active" /\ note'[k] = note[k]
          BY <2>2, WithoutLeaves DEF Feedback
    <3>2. schedule'.revision = schedule.revision /\ schedule'.lifecycle = "active"
          BY <2>2, <3>1 DEF Feedback, Typed, Schedule
    <3>3. UNCHANGED <<subject, baseline>>
          BY <2>2 DEF Feedback
    <3> QED BY <1>1, <3>1, <3>2, <3>3 DEF Current
  <2>3. CASE SnoozeOver
        BY <1>1, <2>3 DEF SnoozeOver, evidence
  <2>4. ASSUME NEW s \in Subjects, CompleteSubject(s) PROVE Current
    <3>1. k[1] # s /\ note'[k] = note[k]
          BY <2>4, WithoutLeaves DEF CompleteSubject
    <3>2. subject'[k[1]] = subject[k[1]] /\ UNCHANGED <<schedule, baseline>>
          BY <1>0, <2>4, <3>1 DEF CompleteSubject, Typed
    <3> QED BY <1>1, <3>1, <3>2 DEF Current
  <2> QED BY <1>3, <2>1, <2>2, <2>3, <2>4 DEF Owner, Current
<1>4. ASSUME NEW t \in Tickers, Ticker(t) PROVE Current
      BY <1>2, <1>4 DEF Ticker, ClaimDue, Advance, TickFails, evidence, Current
<1>5. ASSUME NEW c \in Collectors, Collector(c) PROVE Current
  <2>1. CASE UNCHANGED <<note, baseline>>
        BY <1>2, <1>5, <2>1, CollectorStep DEF Collects, Current
  <2>2. CASE QueueNotes(c)
    <3> DEFINE seen == collector[c].seen
    <3>1. /\ note'[k] = IF k \in Told(seen) /\ note[k].status = "none"
                        THEN [status |-> "queued", revision |-> schedule.revision]
                        ELSE Without(Superseded(seen))[k]
          /\ baseline'[k[1]] = IF New(k[1], seen[k[1]]) THEN seen[k[1]] ELSE baseline[k[1]]
          /\ schedule' = schedule /\ subject' = subject /\ schedule.lifecycle = "active"
          BY <1>0, <2>2 DEF QueueNotes, Active
    <3>2. CASE k \in Told(seen) /\ note[k].status = "none"
      <4>1. k[3] = seen[k[1]] /\ New(k[1], seen[k[1]])
            BY <3>2 DEF Told
      <4>2. note'[k].revision = schedule.revision
            BY <3>1, <3>2
      <4> QED BY <3>1, <4>1, <4>2 DEF New, Current
    <3>3. CASE ~(k \in Told(seen) /\ note[k].status = "none")
      <4>1. note'[k] = note[k] /\ k \notin Superseded(seen)
            BY <3>1, <3>3, WithoutLeaves
      <4>2. ~New(k[1], seen[k[1]]) \/ k[3] = seen[k[1]]
            BY <4>1 DEF Superseded
      <4> HIDE DEF seen
      <4> QED BY <1>1, <3>1, <4>1, <4>2 DEF Current
    <3> QED BY <3>2, <3>3
  <2> QED BY <1>5, <2>1, <2>2, CollectorStep DEF Collects
<1>6. ASSUME NEW s \in Senders, Sender(s) PROVE Current
  <2>1. UNCHANGED <<schedule, subject, baseline>>
        BY <1>6, SenderStep
  <2>2. sender[s].outcome \in Outcomes
        BY DEF Typed, Errand
  <2>3. note' = note \/ Settled(sender[s].note, sender[s].outcome)
        BY <1>6, SenderStep DEF Takes, Fences, CallsOut, Leaves
  <2> QED BY <1>2, <2>1, <2>2, <2>3, SettledLeaves DEF Current
<1>7. CASE Environment
  <2>1. ASSUME NEW n \in Notes, Reconcile(n) PROVE Current
    <3>1. PICK outcome \in Outcomes : Settled(n, outcome)
          BY <2>1 DEF Reconcile, Outcomes
    <3> QED BY <1>2, <2>1, <3>1, SettledLeaves DEF Reconcile, Current
  <2>2. CASE FallDue \/ LapseToken \/ NextDay
        BY <1>2, <2>2 DEF FallDue, LapseToken, NextDay, evidence, Current
  <2>3. CASE \E n \in Slots : LapseJob(n)
        BY <1>2, <2>3 DEF LapseJob, evidence, Current
  <2>4. CASE \E s \in Subjects : Change(s)
        BY <1>2, <2>4 DEF Change, evidence, Current
  <2> QED BY <1>7, <2>1, <2>2, <2>3, <2>4 DEF Environment, Current
<1>8. CASE UNCHANGED vars
      BY <1>2, <1>8 DEF vars, evidence, Current
<1> QED BY <1>3, <1>4, <1>5, <1>6, <1>7, <1>8 DEF Next, Current

-----------------------------------------------------------------------------
(* Senders and their notes.                                                 *)

\* Only senders change what a sender does, what is reserved, counted and made.
LEMMA OnlySenders ==
  ASSUME [Next]_vars
  PROVE  \/ UNCHANGED <<reserved, sender, quota, sentOn>>
         \/ \E s \in Senders : Sender(s)
<1>1. CASE Owner
      BY <1>1 DEF Owner, Confirm, Feedback, SnoozeOver, CompleteSubject, sending
<1>2. ASSUME NEW t \in Tickers, Ticker(t) PROVE UNCHANGED <<reserved, sender, quota, sentOn>>
      BY <1>2 DEF Ticker, ClaimDue, Advance, TickFails, sending
<1>3. ASSUME NEW c \in Collectors, Collector(c) PROVE UNCHANGED <<reserved, sender, quota, sentOn>>
      BY <1>3 DEF Collector, ClaimJob, Denied, Read, Collected, QueueNotes, CollectionFails, LoseReading,
         sending
<1>4. CASE Environment
      BY <1>4 DEF Environment, FallDue, LapseToken, NextDay, LapseJob, Change, Reconcile, sending
<1>5. CASE UNCHANGED vars
      BY <1>5 DEF vars, sending
<1> QED BY <1>1, <1>2, <1>3, <1>4, <1>5 DEF Next

LEMMA OneSenderStep == Typed /\ OneSender /\ [Next]_vars => OneSender'
<1> SUFFICES ASSUME Typed, OneSender, [Next]_vars PROVE OneSender'
    OBVIOUS
<1>1. CASE UNCHANGED <<reserved, sender, quota, sentOn>>
      BY <1>1 DEF OneSender, Busy
<1>2. ASSUME NEW s \in Senders, Sender(s) PROVE OneSender'
  <2>1. /\ Aside(s) /\ (Takes(s) \/ Fences(s) \/ CallsOut(s) \/ Leaves(s))
        BY <1>2, SenderStep
  <2>2. CASE Takes(s)
    <3>1. PICK k \in Notes \ reserved :
            sender'[s].phase = "reserved" /\ sender'[s].note = k /\ reserved' = reserved \cup {k}
          BY <2>2 DEF Takes
    <3>2. \A t \in Senders \ {s} : Busy(t) => sender[t].note # k
          BY <3>1 DEF OneSender
    <3> QED BY <2>1, <3>1, <3>2 DEF OneSender, Busy, Aside
  <2>3. CASE Fences(s) \/ CallsOut(s) \/ Leaves(s)
    <3>1. /\ reserved' = reserved /\ Busy(s)
          /\ sender'[s].phase # "idle" => sender'[s].note = sender[s].note
          BY <2>3 DEF Fences, CallsOut, Leaves, Busy
    <3> QED BY <2>1, <3>1 DEF OneSender, Busy, Aside
  <2> QED BY <2>1, <2>2, <2>3
<1> QED BY <1>1, <1>2, OnlySenders

LEMMA UncountedStep == Typed /\ OneSender /\ Uncounted /\ [Next]_vars => Uncounted'
<1> SUFFICES ASSUME Typed, OneSender, Uncounted, [Next]_vars PROVE Uncounted'
    OBVIOUS
<1>1. CASE UNCHANGED <<reserved, sender, quota, sentOn>>
      BY <1>1 DEF Uncounted
<1>2. ASSUME NEW s \in Senders, Sender(s) PROVE Uncounted'
  <2>1. /\ Aside(s) /\ (Takes(s) \/ Fences(s) \/ CallsOut(s) \/ Leaves(s))
        BY <1>2, SenderStep
  <2>2. CASE Takes(s)
    <3>1. PICK k \in Notes \ reserved :
            /\ sender'[s].phase = "reserved" /\ sender'[s].note = k /\ reserved' = reserved \cup {k}
            /\ quota' = quota
          BY <2>2 DEF Takes
    <3> QED BY <2>1, <3>1 DEF Uncounted, Aside
  <2>3. CASE Fences(s)
    <3>1. /\ sender[s].phase = "reserved" /\ sender'[s].phase = "fenced" /\ reserved' = reserved
          /\ quota' = [quota EXCEPT ![sender[s].note] = day]
          BY <2>3 DEF Fences
    <3>2. sender[s].note \in reserved /\ Busy(s)
          BY <3>1 DEF OneSender, Busy
    <3>3. \A k \in Notes \ {sender[s].note} : quota'[k] = quota[k]
          BY <3>1 DEF Typed
    <3>4. \A t \in Senders \ {s} : sender[t].phase = "reserved"
             => sender[t].note # sender[s].note /\ sender[t].note \in Notes
          BY <3>2 DEF OneSender, Busy, Typed
    <3> QED BY <2>1, <3>1, <3>2, <3>3, <3>4 DEF Uncounted, Aside
  <2>4. CASE CallsOut(s) \/ Leaves(s)
    <3>1. reserved' = reserved /\ quota' = quota /\ sender'[s].phase # "reserved"
          BY <2>4 DEF CallsOut, Leaves
    <3> QED BY <2>1, <3>1 DEF Uncounted, Aside
  <2> QED BY <2>1, <2>2, <2>3, <2>4
<1> QED BY <1>1, <1>2, OnlySenders

-----------------------------------------------------------------------------
(* The daily cap.                                                           *)

CountedAt(d) ==
  /\ IsFiniteSet(CountedOn(d))
  /\ sentOn[d] + Cardinality(Pending(d)) <= Cardinality(CountedOn(d))
  /\ Cardinality(CountedOn(d)) <= DailyCap

LEMMA CountedStep == Typed /\ OneSender /\ Uncounted /\ Counted /\ [Next]_vars => Counted'
<1> SUFFICES ASSUME Typed, OneSender, Uncounted, Counted, [Next]_vars, NEW d \in Days PROVE CountedAt(d)'
    BY DEF Counted, CountedAt, Days
<1>1. CountedAt(d)
      BY DEF Counted, CountedAt
<1>2. /\ IsFiniteSet(CountedOn(d)) /\ IsFiniteSet(Pending(d))
      /\ Cardinality(CountedOn(d)) \in Nat /\ Cardinality(Pending(d)) \in Nat /\ sentOn[d] \in Nat
  <2>1. Pending(d) \in SUBSET CountedOn(d)
        BY DEF Pending
  <2> QED BY <1>1, <2>1, FS_Subset, FS_CardinalityType DEF CountedAt, Typed
<1>3. DailyCap \in Nat
      BY WatchAssumption
<1>4. ASSUME CountedOn(d)' = CountedOn(d), Pending(d)' \subseteq Pending(d), sentOn'[d] = sentOn[d]
      PROVE  CountedAt(d)'
  <2>1. Cardinality(Pending(d)') <= Cardinality(Pending(d)) /\ Cardinality(Pending(d)') \in Nat
        BY <1>2, <1>4, FS_Subset, FS_CardinalityType
  <2>2. IsFiniteSet(CountedOn(d)') /\ Cardinality(CountedOn(d)') = Cardinality(CountedOn(d))
        BY <1>2, <1>4
  <2> QED BY <1>1, <1>2, <1>3, <1>4, <2>1, <2>2 DEF CountedAt
<1>5. CASE UNCHANGED <<reserved, sender, quota, sentOn>>
  <2>1. CountedOn(d)' = CountedOn(d) /\ Pending(d)' = Pending(d) /\ sentOn'[d] = sentOn[d]
        BY <1>5 DEF CountedOn, Pending
  <2> QED BY <1>4, <2>1
<1>6. ASSUME NEW s \in Senders, Sender(s) PROVE CountedAt(d)'
  <2>1. Aside(s) /\ (Takes(s) \/ Fences(s) \/ CallsOut(s) \/ Leaves(s))
        BY <1>6, SenderStep
  <2>2. CASE Takes(s) \/ Leaves(s)
    <3>1. quota' = quota /\ sentOn' = sentOn /\ sender'[s].phase # "fenced"
          BY <2>2 DEF Takes, Leaves
    <3>2. CountedOn(d)' = CountedOn(d) /\ Pending(d)' \subseteq Pending(d)
          BY <2>1, <3>1 DEF CountedOn, Pending, Aside
    <3> QED BY <1>4, <3>1, <3>2
  <2>3. CASE Fences(s)
    <3> DEFINE k == sender[s].note
    <3>1. /\ sender[s].phase = "reserved" /\ sender'[s].phase = "fenced" /\ sender'[s].note = k
          /\ Cardinality(CountedOn(day)) < DailyCap /\ quota' = [quota EXCEPT ![k] = day] /\ sentOn' = sentOn
          BY <2>3 DEF Fences
    <3>2. k \in Notes /\ quota[k] = 0
          BY <3>1 DEF OneSender, Busy, Uncounted, Typed
    <3>3. \A n \in Notes \ {k} : quota'[n] = quota[n]
          BY <3>1 DEF Typed
    <3>4. quota'[k] = day
          BY <3>1, <3>2 DEF Typed
    <3>5. \A t \in Senders : t # s => sender'[t] = sender[t]
          BY <2>1 DEF Aside
    <3> HIDE DEF k
    <3>6. d # 0 /\ k \notin CountedOn(d) /\ k \notin Pending(d)
          BY <3>2 DEF CountedOn, Pending, Days
    <3>7. CASE d # day
      <4>1. CountedOn(d)' = CountedOn(d)
            BY <3>2, <3>3, <3>4, <3>6, <3>7 DEF CountedOn
      <4>2. Pending(d)' \subseteq Pending(d)
            BY <3>1, <3>3, <3>4, <3>5, <3>7 DEF CountedOn, Pending
      <4> QED BY <1>4, <3>1, <4>1, <4>2
    <3>8. CASE d = day
      <4>1. CountedOn(d)' = CountedOn(d) \cup {k}
            BY <3>2, <3>3, <3>4, <3>6, <3>8 DEF CountedOn
      <4>2. Pending(d)' \subseteq Pending(d) \cup {k}
            BY <3>1, <3>3, <3>4, <3>5 DEF CountedOn, Pending
      <4>3. /\ IsFiniteSet(CountedOn(d)')
            /\ Cardinality(CountedOn(d)') = Cardinality(CountedOn(d)) + 1
            BY <1>2, <3>6, <4>1, FS_AddElement
      <4>4. /\ IsFiniteSet(Pending(d) \cup {k})
            /\ Cardinality(Pending(d) \cup {k}) = Cardinality(Pending(d)) + 1
            BY <1>2, <3>6, FS_AddElement
      <4>5. Cardinality(Pending(d)') <= Cardinality(Pending(d)) + 1 /\ Cardinality(Pending(d)') \in Nat
            BY <4>2, <4>4, FS_Subset, FS_CardinalityType
      <4> QED BY <1>1, <1>2, <1>3, <3>1, <3>8, <4>3, <4>5 DEF CountedAt
    <3> QED BY <3>7, <3>8
  <2>4. CASE CallsOut(s)
    <3> DEFINE k == sender[s].note
    <3>1. /\ sender[s].phase = "fenced" /\ sender'[s].phase = "calling"
          /\ quota[k] = day /\ quota' = quota /\ sentOn' = [sentOn EXCEPT ![day] = @ + 1]
          BY <2>4 DEF CallsOut
    <3>2. k \in Notes /\ \A t \in Senders : Busy(t) /\ sender[t].note = k => t = s
          BY <3>1 DEF OneSender, Busy, Typed
    <3>3. \A t \in Senders : t # s => sender'[t] = sender[t]
          BY <2>1 DEF Aside
    <3> HIDE DEF k
    <3>4. CountedOn(d)' = CountedOn(d) /\ Pending(d)' \subseteq Pending(d)
          BY <3>1, <3>3 DEF CountedOn, Pending
    <3>5. CASE d # day
      <4>1. sentOn'[d] = sentOn[d]
            BY <3>1, <3>5 DEF Typed
      <4> QED BY <1>4, <3>4, <4>1
    <3>6. CASE d = day
      <4>1. k \in Pending(d)
            BY <3>1, <3>2, <3>6 DEF Pending, CountedOn, k
      <4>2. Pending(d)' \subseteq Pending(d) \ {k}
            BY <3>1, <3>2, <3>3, <3>4 DEF Pending, Busy
      <4>3. /\ IsFiniteSet(Pending(d) \ {k})
            /\ Cardinality(Pending(d) \ {k}) = Cardinality(Pending(d)) - 1
            BY <1>2, <4>1, FS_RemoveElement
      <4>4. Cardinality(Pending(d)') <= Cardinality(Pending(d)) - 1 /\ Cardinality(Pending(d)') \in Nat
            BY <4>2, <4>3, FS_Subset, FS_CardinalityType
      <4>5. sentOn'[d] = sentOn[d] + 1
            BY <3>1, <3>6 DEF Typed
      <4>6. IsFiniteSet(CountedOn(d)') /\ Cardinality(CountedOn(d)') = Cardinality(CountedOn(d))
            BY <1>2, <3>4
      <4> QED BY <1>1, <1>2, <1>3, <4>4, <4>5, <4>6 DEF CountedAt
    <3> QED BY <3>5, <3>6
  <2> QED BY <2>1, <2>2, <2>3, <2>4
<1> QED BY <1>5, <1>6, OnlySenders

-----------------------------------------------------------------------------
(* Guarded reads and calls.                                                 *)

LEMMA ReadingStep ==
  ASSUME Typed, Occupied, GuardedCallsStayCurrent, [Next]_vars, NEW c \in Collectors, (c \in Reading)'
  PROVE  job'[collector'[c].slot].revision = schedule'.revision /\ schedule'.lifecycle = "active"
<1>0. collector'[c].phase = "reading" /\ collector'[c].guarded
      BY DEF Reading
<1>1. c \in Reading => /\ SameRevision(c) /\ Active /\ ~ScheduleFree
                       /\ collector[c].slot \in Slots
      BY DEF GuardedCallsStayCurrent, ScheduleFree, Reading, Occupied
<1>2. collector' = collector => c \in Reading
      BY <1>0 DEF Reading
<1>3. CASE UNCHANGED <<collector, job, schedule>>
      BY <1>1, <1>2, <1>3 DEF SameRevision, Active
<1>4. CASE Owner
  <2>1. collector' = collector
        BY <1>4 DEF Owner, Confirm, Feedback, SnoozeOver, CompleteSubject, collecting
  <2>2. ~ScheduleFree /\ schedule.lifecycle = "active"
        BY <1>1, <1>2, <2>1 DEF Active
  <2> QED BY <1>4, <2>2 DEF Owner, Confirm, Feedback, SnoozeOver, CompleteSubject
<1>5. ASSUME NEW t \in Tickers, Ticker(t)
      PROVE  job'[collector'[c].slot].revision = schedule'.revision /\ schedule'.lifecycle = "active"
  <2>1. collector' = collector
        BY <1>5 DEF Ticker, ClaimDue, Advance, TickFails, collecting
  <2>2. ~ScheduleFree
        BY <1>1, <1>2, <2>1
  <2>3. TickFails(t)
        BY <1>5, <2>2 DEF Ticker, ClaimDue, Advance
  <2> QED BY <1>3, <2>3 DEF TickFails, collecting
<1>6. ASSUME NEW d \in Collectors, Collector(d)
      PROVE  job'[collector'[c].slot].revision = schedule'.revision /\ schedule'.lifecycle = "active"
  <2>1. Collects(d) /\ schedule' = schedule
        BY <1>6, CollectorStep DEF Collects
  <2>2. /\ collector'[c].slot = collector[c].slot /\ collector[c].slot \in Slots
        /\ c \in Reading \/ (SameRevision(c) /\ Active)
    <3>1. CASE c = d
          BY <1>0, <2>1, <3>1 DEF Collects
    <3>2. CASE c # d
      <4>1. collector'[c] = collector[c]
            BY <2>1, <3>2 DEF Collects
      <4> QED BY <1>0, <1>1, <4>1 DEF Reading
    <3> QED BY <3>1, <3>2
  <2>3. SameRevision(c) /\ Active
        BY <1>1, <2>2
  <2>4. job'[collector[c].slot].revision = job[collector[c].slot].revision
        BY <2>1, <2>2 DEF Collects
  <2> QED BY <2>1, <2>2, <2>3, <2>4 DEF SameRevision, Active
<1>7. ASSUME NEW s \in Senders, Sender(s)
      PROVE  job'[collector'[c].slot].revision = schedule'.revision /\ schedule'.lifecycle = "active"
      BY <1>3, <1>7, SenderStep DEF collecting
<1>8. CASE Environment
  <2>1. CASE FallDue \/ LapseToken \/ NextDay
        BY <1>3, <2>1 DEF FallDue, LapseToken, NextDay, collecting
  <2>2. ASSUME NEW n \in Slots, LapseJob(n)
        PROVE  job'[collector'[c].slot].revision = schedule'.revision /\ schedule'.lifecycle = "active"
    <3>1. PICK status \in {"queued", "done"} : job' = JobTable(n, status, None)
          BY <2>2 DEF LapseJob, JobTable
    <3>2. \A m \in Slots : job'[m].revision = job[m].revision
          BY <3>1, JobLeaves
    <3>3. collector' = collector /\ schedule' = schedule
          BY <2>2 DEF LapseJob
    <3> QED BY <1>1, <1>2, <3>2, <3>3 DEF SameRevision, Active
  <2>3. CASE \E s \in Subjects : Change(s)
        BY <1>3, <2>3 DEF Change, collecting
  <2>4. CASE \E k \in Notes : Reconcile(k)
        BY <1>3, <2>4 DEF Reconcile, collecting
  <2> QED BY <1>8, <2>1, <2>2, <2>3, <2>4 DEF Environment
<1>9. CASE UNCHANGED vars
      BY <1>3, <1>9 DEF vars, collecting
<1> QED BY <1>4, <1>5, <1>6, <1>7, <1>8, <1>9 DEF Next

LEMMA CallingStep ==
  ASSUME Typed, Occupied, OneSender, GuardedCallsStayCurrent, [Next]_vars, NEW s \in Senders, (s \in Calling)'
  PROVE  sender'[s].note \in Notes /\ note'[sender'[s].note].status = "queued"
<1>0. sender'[s].phase = "calling" /\ sender'[s].guarded
      BY DEF Calling
<1>1. s \in Calling => /\ Busy(s) /\ note[sender[s].note].status = "queued" /\ sender[s].note \in Notes
                       /\ ~ScheduleFree
      BY DEF GuardedCallsStayCurrent, ScheduleFree, Calling, Mentionable, OneSender, Busy, Typed
<1>2. sender' = sender => s \in Calling
      BY <1>0 DEF Calling
<1>3. CASE note' = note /\ sender' = sender
      BY <1>1, <1>2, <1>3
<1>4. ASSUME NEW t \in Senders, Sender(t)
      PROVE  sender'[s].note \in Notes /\ note'[sender'[s].note].status = "queued"
  <2>1. Aside(t) /\ (Takes(t) \/ Fences(t) \/ CallsOut(t) \/ Leaves(t))
        BY <1>4, SenderStep
  <2>2. CASE s = t
    <3>1. CallsOut(s)
          BY <1>0, <2>1, <2>2 DEF Takes, Fences, Leaves
    <3> QED BY <3>1 DEF CallsOut, Mentionable, OneSender, Busy, Typed
  <2>3. CASE s # t
    <3>1. sender'[s] = sender[s] /\ s \in Calling
          BY <1>0, <2>1, <2>3 DEF Aside, Calling
    <3>2. Busy(t) => sender[t].note # sender[s].note
          BY <1>1, <2>3, <3>1 DEF OneSender
    <3>3. sender[t].outcome \in Outcomes
          BY DEF Typed, Errand
    <3>4. note' = note \/ (Busy(t) /\ Settled(sender[t].note, sender[t].outcome))
          BY <2>1 DEF Takes, Fences, CallsOut, Leaves
    <3>5. note'[sender[s].note] = note[sender[s].note]
          BY <1>1, <3>1, <3>2, <3>3, <3>4, SettledLeaves
    <3> QED BY <1>1, <3>1, <3>5
  <2> QED BY <2>2, <2>3
<1>5. CASE Owner
  <2>1. sender' = sender
        BY <1>5 DEF Owner, Confirm, Feedback, SnoozeOver, CompleteSubject, sending
  <2>2. SnoozeOver
        BY <1>1, <1>2, <1>5, <2>1 DEF Owner, Confirm, Feedback, CompleteSubject
  <2> QED BY <1>3, <2>1, <2>2 DEF SnoozeOver, evidence
<1>6. ASSUME NEW t \in Tickers, Ticker(t)
      PROVE  sender'[s].note \in Notes /\ note'[sender'[s].note].status = "queued"
      BY <1>3, <1>6 DEF Ticker, ClaimDue, Advance, TickFails, evidence, sending
<1>7. ASSUME NEW c \in Collectors, Collector(c)
      PROVE  sender'[s].note \in Notes /\ note'[sender'[s].note].status = "queued"
  <2>1. Collects(c) /\ sender' = sender
        BY <1>7, CollectorStep DEF Collects, sending
  <2>2. ~QueueNotes(c)
        BY <1>1, <1>2, <2>1 DEF QueueNotes
  <2> QED BY <1>3, <2>1, <2>2 DEF Collects
<1>8. CASE Environment
  <2>1. sender' = sender
        BY <1>8 DEF Environment, FallDue, LapseToken, NextDay, LapseJob, Change, Reconcile, sending
  <2>2. note' = note
        BY <1>1, <1>2, <1>8, <2>1 DEF Environment, FallDue, LapseToken, NextDay, LapseJob, Change, Reconcile,
           evidence
  <2> QED BY <1>3, <2>1, <2>2
<1>9. CASE UNCHANGED vars
      BY <1>3, <1>9 DEF vars, evidence, sending
<1> QED BY <1>4, <1>5, <1>6, <1>7, <1>8, <1>9 DEF Next

LEMMA GuardedStep ==
  ASSUME Typed, Occupied, OneSender, QueuedIsCurrent, GuardedCallsStayCurrent, [Next]_vars
  PROVE  GuardedCallsStayCurrent'
<1>1. ASSUME NEW c \in Collectors, (c \in Reading)'
      PROVE  job'[collector'[c].slot].revision = schedule'.revision /\ schedule'.lifecycle = "active"
      BY <1>1, ReadingStep
<1>2. ASSUME NEW s \in Senders, (s \in Calling)'
      PROVE  /\ note'[sender'[s].note].status = "queued"
             /\ note'[sender'[s].note].revision = schedule'.revision /\ schedule'.lifecycle = "active"
             /\ subject'[sender'[s].note[1]] = "active"
  <2>1. sender'[s].note \in Notes /\ note'[sender'[s].note].status = "queued"
        BY <1>2, CallingStep
  <2>2. QueuedIsCurrent'
        BY QueuedStep
  <2>3. \A k \in Notes : note'[k].status = "queued" =>
          note'[k].revision = schedule'.revision /\ schedule'.lifecycle = "active" /\ subject'[k[1]] = "active"
        BY <2>2 DEF QueuedIsCurrent, Notes, Seen
  <2> QED BY <2>1, <2>3
<1> QED BY <1>1, <1>2 DEF GuardedCallsStayCurrent, Reading, Calling, SameRevision, Active, Mentionable

-----------------------------------------------------------------------------
(* The theorems.                                                            *)

LEMMA InitIInv == Init => IInv
<1> SUFFICES ASSUME Init PROVE IInv
    OBVIOUS
<1>1. Typed
  <2>1. /\ 0 \in 0..MaxRevision /\ 0 \in 0..MaxSlot /\ 0 \in 0..MaxDay /\ 1 \in Days
        /\ Resting \in Work /\ Idle \in Errand /\ NoJob \in Job /\ NoNote \in Note
        BY WatchAssumption DEF Days, Resting, Work, Seen, Idle, Errand, Outcomes, NoJob, Job, NoNote, Note
  <2>2. \A d \in Days : sentOn[d] = 0
        BY DEF Init, Days
  <2>3. sentOn \in [Days -> Nat]
        BY DEF Init, Days
  <2> QED BY <2>1, <2>3 DEF Init, Typed, Schedule, Lifecycles, Seen
<1>2. LeasedWhenDue /\ Occupied /\ OneSender /\ Uncounted
      BY DEF Init, LeasedWhenDue, Occupied, OneSender, Uncounted, Busy, Resting, Idle
<1>3. Counted
  <2>1. ASSUME NEW d \in Days PROVE CountedAt(d)
    <3>1. CountedOn(d) = {} /\ Pending(d) = {} /\ sentOn[d] = 0
          BY DEF Init, Days, CountedOn, Pending
    <3> QED BY <3>1, FS_EmptySet, WatchAssumption DEF CountedAt
  <2> QED BY <2>1 DEF Counted, CountedAt
<1>4. QueuedIsCurrent
      BY DEF Init, QueuedIsCurrent, NoNote
<1>5. GuardedCallsStayCurrent
      BY DEF Init, GuardedCallsStayCurrent, Reading, Calling, Resting, Idle
<1> QED BY <1>1, <1>2, <1>3, <1>4, <1>5 DEF IInv

\* The invariant the theorems below are read from: it holds at the start, and every step of
\* the owner, the tickers, the collectors and the senders keeps it
\* (runtime/scheduler.py, runtime/delivery.py:180-340).
THEOREM Invariance == Spec => []IInv
<1>1. IInv /\ [Next]_vars => IInv'
      BY TypedStep, LeasesStep, OccupiedStep, OneSenderStep, UncountedStep, CountedStep, QueuedStep,
         GuardedStep DEF IInv
<1> QED BY <1>1, InitIInv, PTL DEF Spec

\* The tables and the processes' memory keep the shape that the DDL gives them; a note never
\* takes the status of an attempt whose outcome is unknown (scheduler.py:24-39,
\* delivery.py:330-336).
THEOREM TypeCorrect == Spec => []TypeOK
<1>1. IInv => TypeOK
      BY DEF IInv, Typed, TypeOK, Schedule, Lifecycles, Job, Work, Note, Errand, Outcomes, Days
<1> QED BY <1>1, Invariance, PTL

\* For any number of collectors that read at the same time and of revisions the owner makes
\* meanwhile: what is queued is of the current revision, wanted, and the latest evidence
\* (scheduler.py:316-350).
THEOREM QueuedNotesAreCurrent == Spec => []QueuedIsCurrent
<1>1. IInv => QueuedIsCurrent
      BY DEF IInv
<1> QED BY <1>1, Invariance, PTL

\* A read or a message that holds the row of the schedule goes on under the revision it was
\* decided on: who would change that waits (delivery.py:189-215, scheduler.py:297-310).
THEOREM GuardsHold == Spec => []GuardedCallsStayCurrent
<1>1. IInv => GuardedCallsStayCurrent
      BY DEF IInv
<1> QED BY <1>1, Invariance, PTL

\* However many senders prepare and call, on either side of midnight, no day sees more
\* messages than its cap (delivery.py:204-215).
THEOREM CapIsRespected == Spec => []CapRespected
<1>1. IInv => CapRespected
  <2> SUFFICES ASSUME IInv, NEW d \in Days PROVE sentOn[d] <= DailyCap
      BY DEF CapRespected, Days
  <2>1. Pending(d) \in SUBSET CountedOn(d)
        BY DEF Pending
  <2>2. CountedAt(d) /\ sentOn[d] \in Nat
        BY DEF IInv, Counted, CountedAt, Typed
  <2>3. Cardinality(Pending(d)) \in Nat /\ Cardinality(CountedOn(d)) \in Nat
        BY <2>1, <2>2, FS_Subset, FS_CardinalityType DEF CountedAt
  <2> QED BY <2>2, <2>3, WatchAssumption DEF CountedAt
<1> QED BY <1>1, Invariance, PTL

\* A collection starts for a slot that has come, and once for each, whatever becomes of the
\* lease of the ticker that starts it (scheduler.py:176-214).
THEOREM DueSlotsAreCollected == Spec => CollectsOnlyWhatIsDue
<1>1. ASSUME IInv, [Next]_vars, NEW n \in Slots, job[n].status = "none", job'[n].status # "none"
      PROVE  n = slot.id /\ slot.due
  <2>1. CASE job' = job
        BY <1>1, <2>1
  <2>2. CASE Owner
        BY <1>1, <2>2 DEF Owner, Confirm, Feedback, SnoozeOver, CompleteSubject, collecting
  <2>3. ASSUME NEW t \in Tickers, Ticker(t) PROVE n = slot.id /\ slot.due
    <3>1. Advance(t)
          BY <1>1, <2>3 DEF Ticker, ClaimDue, TickFails, collecting
    <3>2. slot.due
          BY <1>1, <3>1 DEF Advance, IInv, LeasedWhenDue
    <3>3. n # slot.id => job'[n] = job[n]
          BY <1>1, <3>1 DEF Advance, IInv, Typed
    <3> QED BY <1>1, <3>2, <3>3
  <2>4. ASSUME NEW c \in Collectors, Collector(c) PROVE FALSE
        BY <1>1, <2>4, CollectorStep DEF IInv, Collects
  <2>5. ASSUME NEW s \in Senders, Sender(s) PROVE FALSE
        BY <1>1, <2>5, SenderStep DEF IInv, collecting
  <2>6. ASSUME NEW m \in Slots, LapseJob(m) PROVE FALSE
    <3>1. PICK status \in {"queued", "done"} : job' = JobTable(m, status, None) /\ job[m].status = "leased"
          BY <2>6 DEF LapseJob, JobTable
    <3>2. \A i \in Slots \ {m} : job'[i] = job[i]
          BY <1>1, <3>1, JobLeaves DEF IInv
    <3> QED BY <1>1, <3>1, <3>2
  <2>7. CASE FallDue \/ LapseToken \/ NextDay
        BY <1>1, <2>7 DEF FallDue, LapseToken, NextDay, collecting
  <2>8. CASE (\E s \in Subjects : Change(s)) \/ (\E k \in Notes : Reconcile(k))
        BY <1>1, <2>8 DEF Change, Reconcile, collecting
  <2>9. CASE UNCHANGED vars
        BY <1>1, <2>9 DEF vars, collecting
  <2> QED BY <1>1, <2>2, <2>3, <2>4, <2>5, <2>6, <2>7, <2>8, <2>9 DEF Next, Environment
<1>2. IInv /\ [Next]_vars =>
        \A n \in Slots : job[n].status = "none" /\ job'[n].status # "none" => n = slot.id /\ slot.due
      BY <1>1
<1> QED BY <1>2, Invariance, PTL DEF Spec, CollectsOnlyWhatIsDue

=============================================================================
