--------------------------- MODULE DeliveryExecutor ---------------------------
(***************************************************************************)
(* Telegram delivery of answers (src/src/prm/runtime/delivery.py). A short *)
(* answer is one message; a long one is split into parts, sent in order    *)
(* under an aggregate attempt. A message is identified by its delivery id, *)
(* from which its operation reference is derived.                          *)
(*                                                                         *)
(* Several processes send: the delivery service and the ingress, which     *)
(* serves /result. A step is one transaction, or the provider's. A guarded *)
(* call is a state: its session holds the owner's lineage lock, the source *)
(* grants and the row of the attempt until the answer, or until it is lost.*)
(***************************************************************************)
EXTENDS Naturals

CONSTANTS Results,    \* completed jobs with an answer to deliver
          PartsOf,    \* into how many messages each answer is split
          Senders,    \* processes that deliver
          Sources,    \* source grants
          SourcesOf   \* those an answer was made from

ASSUME DeliveryAssumption ==
  /\ PartsOf \in [Results -> Nat \ {0}]
  /\ SourcesOf \in [Results -> SUBSET Sources]

VARIABLES result,      \* pa_runtime: the answer, until the owner deletes it
          source,      \* pa_policy.grants of the sources
          attempt,     \* pa_delivery.attempts, of each message
          aggregate,   \* pa_delivery.attempts, of a whole split answer
          operation,   \* pa_policy.operations: the reservation of each message
          sender,      \* what each process is doing
          pending,     \* attempts a reconciliation has read as unknown
          requests,    \* calls of the Bot API
          effect       \* what became of them there

rows == <<attempt, aggregate>>
owner == <<result, source>>
provider == <<requests, effect>>
vars == <<owner, rows, operation, sender, pending, provider>>

Messages == UNION {{r} \X (1..PartsOf[r]) : r \in Results}
Split == {r \in Results : PartsOf[r] > 1}
Nothing == <<>>
Idle == [phase |-> "idle", message |-> Nothing, guarded |-> FALSE, outcome |-> "unknown"]

Init ==
  /\ result = [r \in Results |-> "absent"]
  /\ source = [g \in Sources |-> "granted"]
  /\ attempt = [m \in Messages |-> "none"]
  /\ aggregate = [r \in Split |-> "none"]
  /\ operation = [m \in Messages |-> "none"]
  /\ sender = [s \in Senders |-> Idle]
  /\ pending = {}
  /\ requests = [m \in Messages |-> 0]
  /\ effect = [m \in Messages |-> "none"]

Guarding == {s \in Senders : sender[s].phase = "calling" /\ sender[s].guarded}

\* One lock for all derived data of the owner: whoever sends an answer holds it,
\* and so does whoever creates or deletes one.
LineageFree == Guarding = {}
RowFree(m) == \A s \in Guarding : sender[s].message # m

\* Defective variant: the source grants are read without FOR SHARE.
SourceNeverInUse(g) == FALSE

SourceInUse(g) == \E s \in Guarding : g \in SourcesOf[sender[s].message[1]]

-----------------------------------------------------------------------------
(* The owner, and the jobs that produce answers.                            *)

Complete(r) ==
  /\ result[r] = "absent"
  /\ LineageFree
  /\ result' = [result EXCEPT ![r] = "present"]
  /\ UNCHANGED <<source, rows, operation, sender, pending, provider>>

\* The attempts stay, but their text is gone and no longer has its digest.
Delete(r) ==
  /\ result[r] = "present"
  /\ LineageFree
  /\ \A m \in Messages : m[1] = r => RowFree(m)
  /\ result' = [result EXCEPT ![r] = "deleted"]
  /\ UNCHANGED <<source, rows, operation, sender, pending, provider>>

Revoke(g) ==
  /\ source[g] = "granted"
  /\ ~SourceInUse(g)
  /\ source' = [source EXCEPT ![g] = "revoked"]
  /\ UNCHANGED <<result, rows, operation, sender, pending, provider>>

-----------------------------------------------------------------------------
(* deliver_result: the answer is read, and its aggregate opened.            *)

Goto(s, phase) == [sender EXCEPT ![s].phase = phase]
Back(s) == [sender EXCEPT ![s] = Idle]
At(s, m, phase) == [sender EXCEPT ![s] = [Idle EXCEPT !.phase = phase, !.message = m]]

Start(s, r) ==
  /\ sender[s].phase = "idle"
  /\ result[r] = "present"
  /\ sender' = At(s, <<r, 1>>, IF r \in Split THEN "opening" ELSE "seeking")
  /\ UNCHANGED <<owner, rows, operation, pending, provider>>

\* The whole is unknown before any part is tried; who finds it open leaves.
OpenAggregate(s) ==
  LET r == sender[s].message[1] IN
  /\ sender[s].phase = "opening"
  /\ IF aggregate[r] = "none"
     THEN /\ aggregate' = [aggregate EXCEPT ![r] = "unknown"]
          /\ sender' = Goto(s, "seeking")
     ELSE /\ sender' = Back(s)
          /\ UNCHANGED aggregate
  /\ UNCHANGED <<owner, attempt, operation, pending, provider>>

-----------------------------------------------------------------------------
(* _deliver.                                                                *)

FindAttempt(s) ==
  /\ sender[s].phase = "seeking"
  /\ sender' = Goto(s, IF attempt[sender[s].message] = "none" THEN "reserving" ELSE "delivered")
  /\ UNCHANGED <<owner, rows, operation, pending, provider>>

\* Defective variant: a reservation in another sender's hands is shared.
ReserveShared(s) ==
  LET m == sender[s].message IN
  /\ sender[s].phase = "reserving"
  /\ operation[m] \in {"none", "reserved"}
  /\ operation' = [operation EXCEPT ![m] = "reserved"]
  /\ sender' = Goto(s, "reserved")
  /\ UNCHANGED <<owner, rows, pending, provider>>

Reserve(s) ==
  LET m == sender[s].message IN
  /\ sender[s].phase = "reserving"
  /\ operation[m] = "none"
  /\ operation' = [operation EXCEPT ![m] = "reserved"]
  /\ sender' = Goto(s, "reserved")
  /\ UNCHANGED <<owner, rows, pending, provider>>

\* No grant or budget, or the operation has been tried before: an attempt made
\* meanwhile is returned, otherwise the denial is raised.
ReserveDenied(s) ==
  /\ sender[s].phase = "reserving"
  /\ sender' = IF attempt[sender[s].message] = "none" THEN Back(s) ELSE Goto(s, "delivered")
  /\ UNCHANGED <<owner, rows, operation, pending, provider>>

\* The next data class is denied, or the insert fails: the operation is
\* cancelled, and its reference with it.
Abandon(s) ==
  LET m == sender[s].message IN
  /\ sender[s].phase = "reserved"
  /\ operation' = [operation EXCEPT ![m] = IF @ = "reserved" THEN "cancelled" ELSE @]
  /\ sender' = Back(s)
  /\ UNCHANGED <<owner, rows, pending, provider>>

Fence(s) ==
  LET m == sender[s].message IN
  /\ sender[s].phase = "reserved"
  /\ attempt[m] = "none"
  /\ attempt' = [attempt EXCEPT ![m] = "unknown"]
  /\ sender' = Goto(s, "fenced")
  /\ UNCHANGED <<owner, aggregate, operation, pending, provider>>

\* Defective variant: the process only remembers that it prepared the operation.
PrepareInMemory(s) ==
  /\ sender[s].phase = "fenced"
  /\ operation[sender[s].message] = "reserved"
  /\ sender' = Goto(s, "prepared")
  /\ UNCHANGED <<owner, rows, operation, pending, provider>>

\* The durable preparation of the policy ledger, which may also refuse.
Prepare(s) ==
  LET m == sender[s].message IN
  /\ sender[s].phase = "fenced"
  /\ operation[m] = "reserved"
  /\ \/ /\ operation' = [operation EXCEPT ![m] = "prepared"]
        /\ sender' = Goto(s, "prepared")
     \/ /\ operation' = [operation EXCEPT ![m] = "cancelled"]
        /\ sender' = Goto(s, "answered")
  /\ UNCHANGED <<owner, rows, pending, provider>>

CanSend(m) ==
  /\ LineageFree
  /\ result[m[1]] = "present"
  /\ \A g \in SourcesOf[m[1]] : source[g] = "granted"

\* Defective variant: the request trusts the attempt it inserted.
CallUnchecked(s) ==
  LET m == sender[s].message IN
  /\ sender[s].phase = "prepared"
  /\ CanSend(m)
  /\ sender' = [sender EXCEPT ![s].phase = "calling", ![s].guarded = TRUE]
  /\ requests' = [requests EXCEPT ![m] = @ + 1]
  /\ effect' = [effect EXCEPT ![m] = "inflight"]
  /\ UNCHANGED <<owner, rows, operation, pending>>

Call(s) ==
  LET m == sender[s].message IN
  /\ sender[s].phase = "prepared"
  /\ CanSend(m) /\ attempt[m] = "unknown"
  /\ sender' = [sender EXCEPT ![s].phase = "calling", ![s].guarded = TRUE]
  /\ requests' = [requests EXCEPT ![m] = @ + 1]
  /\ effect' = [effect EXCEPT ![m] = "inflight"]
  /\ UNCHANGED <<owner, rows, operation, pending>>

\* The last checks or a lock say no, or the process could not begin: unknown,
\* unless the adapter, having passed the checks, proves it made no call.
CallRefused(s) ==
  /\ sender[s].phase = "prepared"
  /\ \E outcome \in {"unknown", "not_sent"} :
       /\ outcome = "not_sent" => CanSend(sender[s].message) /\ attempt[sender[s].message] = "unknown"
       /\ sender' = [sender EXCEPT ![s].phase = "answered", ![s].outcome = outcome]
  /\ UNCHANGED <<owner, rows, operation, pending, provider>>

LoseSession(s) ==
  /\ s \in Guarding
  /\ sender' = [sender EXCEPT ![s].guarded = FALSE]
  /\ UNCHANGED <<owner, rows, operation, pending, provider>>

\* A receipt counts only if the session lasted; a rejection is evidence without
\* it. An error, a time-out and a receipt without its session are unknown.
Answered(s) ==
  LET m == sender[s].message IN
  /\ sender[s].phase = "calling"
  /\ \E outcome \in {"sent", "not_sent", "unknown"} :
       /\ outcome = "sent" => effect[m] = "made" /\ sender[s].guarded
       /\ outcome = "not_sent" => effect[m] = "lost"
       /\ sender' = [sender EXCEPT ![s].phase = "answered", ![s].guarded = FALSE, ![s].outcome = outcome]
  /\ UNCHANGED <<owner, rows, operation, pending, provider>>

\* Who cannot write keeps the attempt unknown: that is a crash here.
Settle(s) ==
  LET m == sender[s].message IN
  /\ sender[s].phase = "answered"
  /\ RowFree(m)
  /\ attempt' = [attempt EXCEPT ![m] = IF @ = "unknown" THEN sender[s].outcome ELSE @]
  /\ sender' = Goto(s, "delivered")
  /\ UNCHANGED <<owner, aggregate, operation, pending, provider>>

-----------------------------------------------------------------------------
(* Back in deliver_result: the attempt is read again. A settled one does not *)
(* change any more, so reading it and what follows are one step.            *)

Done(s) ==
  LET m == sender[s].message IN
  /\ sender[s].phase = "delivered"
  /\ m[1] \in Split => attempt[m] = "unknown" \/ (attempt[m] = "not_sent" /\ m[2] > 1)
  /\ sender' = Back(s)
  /\ UNCHANGED <<owner, rows, operation, pending, provider>>

\* Defective variant: a part of unknown fate does not stop the rest.
NextPartAnyway(s) ==
  LET m == sender[s].message IN
  /\ sender[s].phase = "delivered"
  /\ m[2] < PartsOf[m[1]] /\ attempt[m] # "not_sent"
  /\ sender' = At(s, <<m[1], m[2] + 1>>, "seeking")
  /\ UNCHANGED <<owner, rows, operation, pending, provider>>

NextPart(s) ==
  LET m == sender[s].message IN
  /\ sender[s].phase = "delivered"
  /\ m[2] < PartsOf[m[1]] /\ attempt[m] = "sent"
  /\ sender' = At(s, <<m[1], m[2] + 1>>, "seeking")
  /\ UNCHANGED <<owner, rows, operation, pending, provider>>

\* Defective variant: any rejected part makes the whole not sent.
CloseOnAnyRejection(s) ==
  LET m == sender[s].message IN
  /\ sender[s].phase = "delivered"
  /\ m[1] \in Split
  /\ attempt[m] \in {"sent", "not_sent"}
  /\ attempt[m] = "sent" => m[2] = PartsOf[m[1]]
  /\ aggregate' = [aggregate EXCEPT ![m[1]] = IF @ = "unknown" THEN attempt[m] ELSE @]
  /\ sender' = Back(s)
  /\ UNCHANGED <<owner, attempt, operation, pending, provider>>

\* The last part was sent, or the first was certainly not.
CloseAggregate(s) ==
  LET m == sender[s].message IN
  /\ sender[s].phase = "delivered"
  /\ m[1] \in Split
  /\ \/ attempt[m] = "sent" /\ m[2] = PartsOf[m[1]]
     \/ attempt[m] = "not_sent" /\ m[2] = 1
  /\ aggregate' = [aggregate EXCEPT ![m[1]] = IF @ = "unknown" THEN attempt[m] ELSE @]
  /\ sender' = Back(s)
  /\ UNCHANGED <<owner, attempt, operation, pending, provider>>

Crash(s) ==
  /\ sender[s].phase # "idle"
  /\ sender' = Back(s)
  /\ UNCHANGED <<owner, rows, operation, pending, provider>>

-----------------------------------------------------------------------------
(* reconcile, and Telegram.                                                 *)

\* The digest of a deleted answer no longer matches.
ReadPending(m) ==
  /\ attempt[m] = "unknown" /\ m \notin pending
  /\ result[m[1]] # "deleted"
  /\ pending' = pending \cup {m}
  /\ UNCHANGED <<owner, rows, operation, sender, provider>>

\* The attempt is looked at again under its lock; the evidence may be missing.
Reconcile(m) ==
  /\ m \in pending
  /\ RowFree(m)
  /\ \E outcome \in {"sent", "not_sent", "unknown"} :
       /\ outcome = "sent" => effect[m] = "made"
       /\ outcome = "not_sent" => effect[m] \in {"none", "lost"}
       /\ attempt' = [attempt EXCEPT ![m] = IF @ = "unknown" THEN outcome ELSE @]
  /\ pending' = pending \ {m}
  /\ UNCHANGED <<owner, aggregate, operation, sender, provider>>

\* Only when every part turns out to be sent.
ReconcileAggregate(r) ==
  /\ result[r] # "deleted"
  /\ aggregate[r] = "unknown"
  /\ \A i \in 1..PartsOf[r] : attempt[<<r, i>>] = "sent"
  /\ aggregate' = [aggregate EXCEPT ![r] = "sent"]
  /\ UNCHANGED <<owner, attempt, operation, sender, pending, provider>>

Land(m) ==
  /\ effect[m] = "inflight"
  /\ \E outcome \in {"made", "lost"} : effect' = [effect EXCEPT ![m] = outcome]
  /\ UNCHANGED <<owner, rows, operation, sender, pending, requests>>

-----------------------------------------------------------------------------
Deliver(s) ==
  \/ FindAttempt(s) \/ Reserve(s) \/ ReserveDenied(s) \/ Abandon(s) \/ Fence(s) \/ Prepare(s)
  \/ Call(s) \/ CallRefused(s) \/ LoseSession(s) \/ Answered(s) \/ Settle(s)

Sender(s) ==
  \/ \E r \in Results : Start(s, r)
  \/ OpenAggregate(s) \/ Deliver(s) \/ Done(s) \/ NextPart(s) \/ CloseAggregate(s)
  \/ Crash(s)

Next ==
  \/ \E s \in Senders : Sender(s)
  \/ \E r \in Results : Complete(r) \/ Delete(r)
  \/ \E g \in Sources : Revoke(g)
  \/ \E r \in Split : ReconcileAggregate(r)
  \/ \E m \in Messages : ReadPending(m) \/ Reconcile(m) \/ Land(m)

Spec == Init /\ [][Next]_vars

-----------------------------------------------------------------------------
(* Properties.                                                             *)

\* The shape of the tables and of what a sender keeps in memory: past the fence
\* there is an attempt, past the preparation its operation is used up.
TypeOK ==
  /\ result \in [Results -> {"absent", "present", "deleted"}]
  /\ source \in [Sources -> {"granted", "revoked"}]
  /\ attempt \in [Messages -> {"none", "unknown", "sent", "not_sent"}]
  /\ aggregate \in [Split -> {"none", "unknown", "sent", "not_sent"}]
  /\ operation \in [Messages -> {"none", "reserved", "prepared", "cancelled"}]
  /\ sender \in [Senders -> [phase: {"idle", "opening", "seeking", "reserving", "reserved", "fenced",
                                     "prepared", "calling", "answered", "delivered"},
                             message: Messages \cup {Nothing}, guarded: BOOLEAN,
                             outcome: {"unknown", "sent", "not_sent"}]]
  /\ pending \subseteq Messages
  /\ requests \in [Messages -> Nat]
  /\ effect \in [Messages -> {"none", "inflight", "made", "lost"}]
  /\ \A s \in Senders :
       LET m == sender[s].message IN
       /\ sender[s].phase \in {"fenced", "prepared", "calling", "answered"} => attempt[m] # "none"
       /\ sender[s].phase \in {"prepared", "calling", "answered"}
            => operation[m] \in {"prepared", "cancelled"}

\* One sender per message: between its reservation and its settlement nobody
\* else works on it, whoever crashed before (delivery.py:253-279).
OneSenderPerMessage ==
  \A s, t \in Senders :
    /\ {sender[s].phase, sender[t].phase}
         \subseteq {"reserved", "fenced", "prepared", "calling", "answered"}
    /\ sender[s].message = sender[t].message
    => s = t

\* While a guarded request is under way the answer is neither deleted nor its
\* source revoked: the owner wins before it or waits (delivery.py:282-298).
GuardedSendKeepsAnswer ==
  \A s \in Guarding :
    LET m == sender[s].message IN
    /\ result[m[1]] = "present"
    /\ \A g \in SourcesOf[m[1]] : source[g] = "granted"

\* What is recorded of a split answer is true of its messages: sent means every
\* part arrived, not_sent that none did or ever will (delivery.py:151-167).
AggregateIsTrue ==
  \A r \in Split :
    /\ aggregate[r] = "sent" => \A i \in 1..PartsOf[r] : effect[<<r, i>>] = "made"
    /\ aggregate[r] = "not_sent" => \A i \in 1..PartsOf[r] : effect[<<r, i>>] \in {"none", "lost"}

\* A part is asked for only after all before it were recorded as sent, also
\* after a restart and after a late reconciliation (delivery.py:148-163).
PartsInOrder ==
  \A m \in Messages : requests[m] > 0 => \A i \in 1..(m[2] - 1) : attempt[<<m[1], i>>] = "sent"

\* Every message is an effect that is asked for at most once, never without its
\* attempt; once settled, either way, the attempt is true and stays.
AttemptStatus(a) == CASE a = "sent" -> "done" [] a = "not_sent" -> "undone" [] OTHER -> a

Once == INSTANCE EffectOnce WITH
  Effects <- Messages,
  attempt <- [m \in Messages |-> AttemptStatus(attempt[m])]

EachMessageTakesEffectOnce == Once!Spec

=============================================================================
