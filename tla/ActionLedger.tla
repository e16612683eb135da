---------------------------- MODULE ActionLedger ----------------------------
(***************************************************************************)
(* Writes to mail and calendar: proposals that are previewed, edited,      *)
(* confirmed and executed (src/src/prm/storage/actions.py and              *)
(* src/src/prm/runtime/actions.py). A version stands for its digest: every *)
(* edit takes the next one.                                                *)
(*                                                                         *)
(* Several assistant workers may answer at once: the queue serves one at a *)
(* time, but a worker that lost its lease keeps running. A step is one     *)
(* transaction of DurableActionStore, one read of confirm_and_execute, or  *)
(* the provider's. A guarded call is a state: its session holds the row of *)
(* the proposal FOR UPDATE until the answer, or until the session is lost. *)
(***************************************************************************)
EXTENDS Naturals, FiniteSets

CONSTANTS Proposals,
          MaxVersion,        \* bound: edits of a proposal
          Callers,           \* workers that confirm, execute
          Traceable          \* proposals whose effect a lookup can find

ASSUME ActionAssumption ==
  /\ MaxVersion \in Nat \ {0}
  /\ Traceable \subseteq Proposals

VARIABLES proposal,      \* pa_actions.proposals
          confirmation,  \* pa_actions.confirmations, by idempotency key
          attempt,       \* pa_actions.attempts: the status of the receipt
          preview,       \* how far the preview of each version has come
          visible,       \* current_confirmation_ref of the conversation
          caller,        \* what each worker is doing
          reservation,   \* the budget reservation it was given
          calls,         \* requests made to the provider
          effect         \* what became of them there

rows == <<proposal, confirmation, attempt>>
provider == <<calls, effect>>
chat == <<preview, visible>>
vars == <<rows, chat, caller, reservation, provider>>

Keys == Proposals \X (1..MaxVersion)
Nothing == <<>>
Settled == {"succeeded", "failed_known"}
NoProposal == [version |-> 0, status |-> "none", live |-> FALSE]
NoConfirmation == [status |-> "none", live |-> FALSE]
Idle == [phase |-> "idle", by |-> "yes", key |-> Nothing, guarded |-> FALSE, outcome |-> "unknown"]

Current(p) == <<p, proposal[p].version>>

Init ==
  /\ proposal = [p \in Proposals |-> NoProposal]
  /\ confirmation = [k \in Keys |-> NoConfirmation]
  /\ attempt = [k \in Keys |-> "none"]
  /\ preview = [k \in Keys |-> "none"]
  /\ visible = Nothing
  /\ caller = [c \in Callers |-> Idle]
  /\ reservation = [c \in Callers |-> "none"]
  /\ calls = [k \in Keys |-> 0]
  /\ effect = [k \in Keys |-> "none"]

\* Defective variant: the call does not keep the row of its proposal.
NeverLocked(p) == FALSE

\* The proposal's row is held through a guarded call; who waits longer than the
\* lock timeout gives up and changes nothing.
Locked(p) == \E c \in Callers : caller[c].phase = "calling" /\ caller[c].guarded
                                /\ caller[c].key[1] = p

-----------------------------------------------------------------------------
(* register, _show, cancel; the delivery of the answer that shows a preview *)

Register(p) ==
  /\ proposal[p].version = 0
  /\ proposal' = [proposal EXCEPT ![p] = [version |-> 1, status |-> "prepared", live |-> TRUE]]
  /\ preview' = [preview EXCEPT ![<<p, 1>>] = "registered"]
  /\ UNCHANGED <<confirmation, attempt, visible, caller, reservation, provider>>

Edit(p) ==
  /\ proposal[p].version \in 1..(MaxVersion - 1)
  /\ ~Locked(p)
  /\ \A v \in 1..MaxVersion : attempt[<<p, v>>] # "unknown"
  /\ LET v == proposal[p].version + 1 IN
       /\ proposal' = [proposal EXCEPT ![p] = [version |-> v, status |-> "prepared", live |-> TRUE]]
       /\ preview' = [preview EXCEPT ![<<p, v>>] = "registered"]
  /\ UNCHANGED <<confirmation, attempt, visible, caller, reservation, provider>>

\* A transaction of its own, later: the newest preview is not always the last shown.
Show(k) ==
  /\ preview[k] = "registered"
  /\ preview' = [preview EXCEPT ![k] = "shown"]
  /\ visible' = k
  /\ UNCHANGED <<rows, caller, reservation, provider>>

\* The answer that carries the preview has reached the owner: attempt 'sent'.
Deliver(k) ==
  /\ preview[k] = "shown"
  /\ preview' = [preview EXCEPT ![k] = "delivered"]
  /\ UNCHANGED <<rows, visible, caller, reservation, provider>>

\* record_response, begin_new_topic, cancel: another answer is on the screen.
Hide ==
  /\ visible # Nothing
  /\ visible' = Nothing
  /\ UNCHANGED <<rows, preview, caller, reservation, provider>>

Cancel(p) ==
  /\ proposal[p].version > 0 /\ proposal[p].status # "cancelled"
  /\ ~Locked(p)
  /\ proposal' = [proposal EXCEPT ![p].status = "cancelled"]
  /\ UNCHANGED <<confirmation, attempt, chat, caller, reservation, provider>>

ExpireProposal(p) ==
  /\ proposal[p].live
  /\ proposal' = [proposal EXCEPT ![p].live = FALSE]
  /\ UNCHANGED <<confirmation, attempt, chat, caller, reservation, provider>>

ExpireConfirmation(k) ==
  /\ confirmation[k].live
  /\ confirmation' = [confirmation EXCEPT ![k].live = FALSE]
  /\ UNCHANGED <<proposal, attempt, chat, caller, reservation, provider>>

-----------------------------------------------------------------------------
(* What the owner says, and the reads and checks of confirm_and_execute.    *)

Goto(c, phase) == [caller EXCEPT ![c].phase = phase]
Back(c) == [caller EXCEPT ![c] = Idle]

\* A plain yes means the one visible preview, current and fully delivered.
Yes(c, k) ==
  /\ caller[c].phase = "idle"
  /\ visible = k
  /\ Current(k[1]) = k /\ proposal[k[1]].status = "prepared" /\ proposal[k[1]].live
  /\ preview[k] = "delivered"
  /\ caller' = [caller EXCEPT ![c] = [Idle EXCEPT !.phase = "asked", !.key = k]]
  /\ UNCHANGED <<rows, chat, reservation, provider>>

\* /actconfirm names the version and digest of a preview the owner has read.
Command(c, k) ==
  /\ caller[c].phase = "idle"
  /\ preview[k] = "delivered"
  /\ caller' = [caller EXCEPT ![c] = [Idle EXCEPT !.phase = "asked", !.by = "command", !.key = k]]
  /\ UNCHANGED <<rows, chat, reservation, provider>>

\* A plain yes passes no expected version; an attempt of the current one answers.
LoadProposal(c) ==
  LET k == caller[c].key
      differs == caller[c].by = "command" /\ Current(k[1]) # k
      found == attempt[Current(k[1])] # "none"
  IN
  /\ caller[c].phase = "asked"
  /\ caller' = IF differs \/ found THEN Back(c) ELSE Goto(c, "loaded")
  /\ UNCHANGED <<rows, chat, reservation, provider>>

\* The version that is visible now, whichever was asked for.
CheckVisible(c) ==
  LET p == caller[c].key[1] IN
  /\ caller[c].phase = "loaded"
  /\ caller' = IF visible = Current(p)
               THEN [caller EXCEPT ![c].phase = "checked", ![c].key = Current(p)]
               ELSE Back(c)
  /\ UNCHANGED <<rows, chat, reservation, provider>>

\* The preflight reads fail, the calendar is busy, a scope or budget is denied.
GiveUp(c) ==
  /\ caller[c].phase \in {"checked", "confirmed"}
  /\ caller' = Back(c)
  /\ UNCHANGED <<rows, chat, reservation, provider>>

CanConfirm(p) ==
  /\ ~Locked(p)
  /\ proposal[p].status = "prepared" /\ proposal[p].live
  /\ \/ confirmation[Current(p)].status = "none"
     \/ confirmation[Current(p)] = [status |-> "open", live |-> TRUE]

\* Defective variant: the version confirmed is not compared with the visible one.
ConfirmAny(c) ==
  LET p == caller[c].key[1] IN
  /\ caller[c].phase = "checked"
  /\ CanConfirm(p)
  /\ confirmation' = [confirmation EXCEPT ![Current(p)] = [status |-> "open", live |-> TRUE]]
  /\ caller' = [caller EXCEPT ![c].phase = "confirmed", ![c].key = Current(p)]
  /\ UNCHANGED <<proposal, attempt, chat, reservation, provider>>

\* The confirmation of whatever version is current is stored, or an open one is
\* used again; only then is that version compared with the visible one.
Confirm(c) ==
  LET p == caller[c].key[1] IN
  /\ caller[c].phase = "checked"
  /\ CanConfirm(p)
  /\ confirmation' = [confirmation EXCEPT ![Current(p)] = [status |-> "open", live |-> TRUE]]
  /\ caller' = IF caller[c].key = Current(p) THEN Goto(c, "confirmed") ELSE Back(c)
  /\ UNCHANGED <<proposal, attempt, chat, reservation, provider>>

Reserve(c) ==
  /\ caller[c].phase = "confirmed"
  /\ reservation' = [reservation EXCEPT ![c] = "held"]
  /\ caller' = Goto(c, "reserved")
  /\ UNCHANGED <<rows, chat, provider>>

-----------------------------------------------------------------------------
(* DurableActionStore.execute.                                              *)

FindAttempt(c) ==
  /\ caller[c].phase = "reserved"
  /\ IF attempt[caller[c].key] = "none"
     THEN /\ caller' = Goto(c, "executing")
          /\ UNCHANGED reservation
     ELSE /\ caller' = Back(c)
          /\ reservation' = [reservation EXCEPT ![c] = "none"]
  /\ UNCHANGED <<rows, chat, provider>>

CanFence(k) ==
  /\ Current(k[1]) = k /\ proposal[k[1]].status = "prepared" /\ proposal[k[1]].live
  /\ confirmation[k].status = "open" /\ confirmation[k].live

\* Defective variant: the confirmation is not used up.
FenceKeepingConfirmation(c) ==
  LET k == caller[c].key IN
  /\ caller[c].phase = "executing"
  /\ ~Locked(k[1])
  /\ CanFence(k)
  /\ proposal' = [proposal EXCEPT ![k[1]].status = "consumed"]
  /\ attempt' = [attempt EXCEPT ![k] = "unknown"]
  /\ caller' = Goto(c, "fenced")
  /\ UNCHANGED <<confirmation, chat, reservation, provider>>

Fence(c) ==
  LET k == caller[c].key IN
  /\ caller[c].phase = "executing"
  /\ ~Locked(k[1])
  /\ CanFence(k)
  /\ proposal' = [proposal EXCEPT ![k[1]].status = "consumed"]
  /\ confirmation' = [confirmation EXCEPT ![k].status = "consumed"]
  /\ attempt' = [attempt EXCEPT ![k] = "unknown"]
  /\ caller' = Goto(c, "fenced")
  /\ UNCHANGED <<chat, reservation, provider>>

\* Stale, expired or unconfirmed, or somebody else's attempt was found: either
\* way the reservation stays as it is.
FenceRefused(c) ==
  LET k == caller[c].key IN
  /\ caller[c].phase = "executing"
  /\ ~Locked(k[1])
  /\ ~CanFence(k)
  /\ caller' = Back(c)
  /\ UNCHANGED <<rows, chat, reservation, provider>>

CanDispatch(k) ==
  /\ Current(k[1]) = k /\ proposal[k[1]].status # "cancelled" /\ proposal[k[1]].live
  /\ confirmation[k].live

\* Defective variant: the provider is asked before the attempt is committed.
DispatchUnfenced(c) ==
  LET k == caller[c].key IN
  /\ caller[c].phase \in {"executing", "fenced"}
  /\ ~Locked(k[1])
  /\ CanDispatch(k)
  /\ caller' = [caller EXCEPT ![c].phase = "calling", ![c].guarded = TRUE]
  /\ reservation' = [reservation EXCEPT ![c] = "spent"]
  /\ calls' = [calls EXCEPT ![k] = @ + 1]
  /\ effect' = [effect EXCEPT ![k] = "inflight"]
  /\ UNCHANGED <<rows, chat>>

Dispatch(c) ==
  LET k == caller[c].key IN
  /\ caller[c].phase = "fenced"
  /\ ~Locked(k[1])
  /\ CanDispatch(k)
  /\ caller' = [caller EXCEPT ![c].phase = "calling", ![c].guarded = TRUE]
  /\ reservation' = [reservation EXCEPT ![c] = "spent"]
  /\ calls' = [calls EXCEPT ![k] = @ + 1]
  /\ effect' = [effect EXCEPT ![k] = "inflight"]
  /\ UNCHANGED <<rows, chat>>

\* Policy or the re-check says no, or the row is waited for too long.
DispatchRefused(c) ==
  /\ caller[c].phase = "fenced"
  /\ caller' = [caller EXCEPT ![c].phase = "answered", ![c].outcome = "unknown"]
  /\ reservation' = [reservation EXCEPT ![c] = "spent"]
  /\ UNCHANGED <<rows, chat, provider>>

LoseSession(c) ==
  /\ caller[c].phase = "calling" /\ caller[c].guarded
  /\ caller' = [caller EXCEPT ![c].guarded = FALSE]
  /\ UNCHANGED <<rows, chat, reservation, provider>>

\* Only an answer with the provider's object, in a session that lasted, is a
\* success; a 202, an error, a time-out or a lost session is unknown.
Answered(c) ==
  LET k == caller[c].key IN
  /\ caller[c].phase = "calling"
  /\ \E outcome \in {"succeeded", "unknown"} :
       /\ outcome = "succeeded" => effect[k] = "made" /\ caller[c].guarded
       /\ caller' = [caller EXCEPT ![c].phase = "answered", ![c].guarded = FALSE,
                                   ![c].outcome = outcome]
  /\ UNCHANGED <<rows, chat, reservation, provider>>

\* Defective variant: the receipt is written whatever it was before.
PutAlways(c) ==
  /\ caller[c].phase = "answered"
  /\ attempt' = [attempt EXCEPT ![caller[c].key] = caller[c].outcome]
  /\ caller' = Back(c)
  /\ reservation' = [reservation EXCEPT ![c] = "none"]
  /\ UNCHANGED <<proposal, confirmation, chat, provider>>

\* A settled receipt is never rewritten: a conflict is raised instead.
Put(c) ==
  LET k == caller[c].key IN
  /\ caller[c].phase = "answered"
  /\ attempt' = IF attempt[k] = "unknown" THEN [attempt EXCEPT ![k] = caller[c].outcome]
                ELSE attempt
  /\ caller' = Back(c)
  /\ reservation' = [reservation EXCEPT ![c] = "none"]
  /\ UNCHANGED <<proposal, confirmation, chat, provider>>

\* The process dies; another starts with nothing in memory.
Crash(c) ==
  /\ caller[c].phase # "idle"
  /\ caller' = Back(c)
  /\ reservation' = [reservation EXCEPT ![c] = "none"]
  /\ UNCHANGED <<rows, chat, provider>>

-----------------------------------------------------------------------------
(* Reconciliation, and the provider.                                        *)

\* Under the locks of the proposal and the attempt: the effect is found at the
\* provider, or an adapter has evidence that there is none.
Reconcile(k) ==
  /\ attempt[k] = "unknown"
  /\ ~Locked(k[1])
  /\ \/ /\ k[1] \in Traceable /\ effect[k] = "made" /\ Current(k[1]) = k
        /\ attempt' = [attempt EXCEPT ![k] = "succeeded"]
     \/ /\ effect[k] \in {"none", "lost"}
        /\ attempt' = [attempt EXCEPT ![k] = "failed_known"]
  /\ UNCHANGED <<proposal, confirmation, chat, caller, reservation, provider>>

Land(k) ==
  /\ effect[k] = "inflight"
  /\ \E outcome \in {"made", "lost"} : effect' = [effect EXCEPT ![k] = outcome]
  /\ UNCHANGED <<rows, chat, caller, reservation, calls>>

-----------------------------------------------------------------------------
Execute(c) ==
  \/ FindAttempt(c) \/ Fence(c) \/ FenceRefused(c)
  \/ Dispatch(c) \/ DispatchRefused(c) \/ LoseSession(c) \/ Answered(c) \/ Put(c)

Worker(c) ==
  \/ \E k \in Keys : Yes(c, k) \/ Command(c, k)
  \/ LoadProposal(c) \/ CheckVisible(c) \/ GiveUp(c) \/ Confirm(c) \/ Reserve(c)
  \/ Execute(c)
  \/ Crash(c)

Owner ==
  \/ Hide
  \/ \E p \in Proposals : Register(p) \/ Edit(p) \/ Cancel(p) \/ ExpireProposal(p)
  \/ \E k \in Keys : Show(k) \/ Deliver(k) \/ ExpireConfirmation(k)

Provider == \E k \in Keys : Land(k) \/ Reconcile(k)

Next == Owner \/ Provider \/ \E c \in Callers : Worker(c)

Spec == Init /\ [][Next]_vars

-----------------------------------------------------------------------------
(* Properties.                                                             *)

\* The shape of the three tables, of the conversation and of what a worker keeps
\* in memory: past the fence it always has an attempt on record.
TypeOK ==
  /\ proposal \in [Proposals -> [version: 0..MaxVersion, live: BOOLEAN,
                                 status: {"none", "prepared", "consumed", "cancelled"}]]
  /\ confirmation \in [Keys -> [status: {"none", "open", "consumed"}, live: BOOLEAN]]
  /\ attempt \in [Keys -> {"none", "unknown"} \cup Settled]
  /\ preview \in [Keys -> {"none", "registered", "shown", "delivered"}]
  /\ visible \in Keys \cup {Nothing}
  /\ caller \in [Callers -> [phase: {"idle", "asked", "loaded", "checked", "confirmed",
                                     "reserved", "executing", "fenced", "calling", "answered"},
                             by: {"yes", "command"}, key: Keys \cup {Nothing},
                             guarded: BOOLEAN, outcome: {"unknown", "succeeded"}]]
  /\ reservation \in [Callers -> {"none", "held", "spent"}]
  /\ calls \in [Keys -> Nat]
  /\ effect \in [Keys -> {"none", "inflight", "made", "lost"}]
  /\ \A c \in Callers : caller[c].phase \in {"fenced", "calling", "answered"}
                           => attempt[caller[c].key] # "none"

\* execute writes three rows at once and nothing else touches them apart: an
\* attempt exists exactly when its confirmation is used up, and its version is
\* never prepared again (storage/actions.py:188-190).
OneUse ==
  \A k \in Keys :
    /\ (attempt[k] # "none") <=> (confirmation[k].status = "consumed")
    /\ attempt[k] # "none" /\ Current(k[1]) = k => proposal[k[1]].status # "prepared"

\* While a guarded request is under way the owner neither edits nor cancels what
\* is being sent: he wins before it or waits for it (storage/actions.py:193-203).
DispatchExcludesChange ==
  \A c \in Callers : caller[c].phase = "calling" /\ caller[c].guarded =>
    /\ Current(caller[c].key[1]) = caller[c].key
    /\ proposal[caller[c].key[1]].status = "consumed"

\* No version is sent that no conversation ever showed: the row may have been
\* edited between any two reads of confirm_and_execute
\* (runtime/actions.py:188-197).
SentWasShown == \A k \in Keys : calls[k] > 0 => preview[k] \in {"shown", "delivered"}

\* "Act requires exact current fully delivered owner-visible preview"
\* (docs/PRODUCT_OPERATING_MODEL.md:35): what is sent had reached the owner.
SentWasDelivered == \A k \in Keys : calls[k] > 0 => preview[k] = "delivered"

\* Every version of every proposal is an effect that is asked for at most once,
\* never without its attempt, and whose success, once recorded, is true and
\* stays. A failure is not mapped: it may be recorded before the request, which
\* looks at the proposal again but not at the attempt.
EffectStatus(s) == CASE s = "succeeded" -> "done" [] s = "failed_known" -> "unknown" [] OTHER -> s

Once == INSTANCE EffectOnce WITH
  Effects <- Keys,
  attempt <- [k \in Keys |-> EffectStatus(attempt[k])],
  requests <- calls

EachVersionTakesEffectOnce == Once!Spec

=============================================================================
