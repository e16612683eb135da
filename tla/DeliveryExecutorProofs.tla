----------------------- MODULE DeliveryExecutorProofs -----------------------
(* Theorems about DeliveryExecutor, for any number of answers, parts and    *)
(* senders, and the proof that it implements EffectOnce.                    *)
EXTENDS DeliveryExecutor, TLAPS

-----------------------------------------------------------------------------
(* The columns of the tables and the fields of what a sender remembers.     *)

Answers == {"absent", "present", "deleted"}
Attempts == {"none", "unknown", "sent", "not_sent"}
Operations == {"none", "reserved", "prepared", "cancelled"}
Fates == {"none", "inflight", "made", "lost"}
Outcomes == {"unknown", "sent", "not_sent"}
Phases == {"idle", "opening", "seeking", "reserving", "reserved", "fenced",
           "prepared", "calling", "answered", "delivered"}
Process == [phase: Phases, message: Messages \cup {Nothing}, guarded: BOOLEAN, outcome: Outcomes]

Typed ==
  /\ result \in [Results -> Answers]
  /\ source \in [Sources -> {"granted", "revoked"}]
  /\ attempt \in [Messages -> Attempts]
  /\ aggregate \in [Split -> Attempts]
  /\ operation \in [Messages -> Operations]
  /\ sender \in [Senders -> Process]
  /\ pending \subseteq Messages
  /\ requests \in [Messages -> Nat]
  /\ effect \in [Messages -> Fates]

\* Past the fence there is an attempt, past the preparation the operation is used up.
PastFence(s) == sender[s].phase \in {"fenced", "prepared", "calling", "answered"}
PastPreparation(s) == sender[s].phase \in {"prepared", "calling", "answered"}

Attempted ==
  \A s \in Senders :
    /\ PastFence(s) => attempt[sender[s].message] # "none"
    /\ PastPreparation(s) => operation[sender[s].message] \in {"prepared", "cancelled"}

LEMMA TypeParts == TypeOK <=> Typed /\ Attempted
BY DEF TypeOK, Typed, Attempted, PastFence, PastPreparation, Phases, Process, Answers, Attempts,
       Operations, Fates, Outcomes

-----------------------------------------------------------------------------
(* The inductive invariant.                                                 *)

\* A sender that is not idle is about a message, the first while it opens the whole,
\* and has no news of it before it is answered.
Busy ==
  \A s \in Senders :
    /\ sender[s].phase # "idle" => sender[s].message \in Messages
    /\ sender[s].phase = "opening" => sender[s].message[2] = 1
    /\ sender[s].phase \notin {"answered", "delivered"} => sender[s].outcome = "unknown"

\* From its reservation to its settlement a message is in one sender's hands.
Working(s) == sender[s].phase \in {"reserved", "fenced", "prepared", "calling", "answered"}

Claimed == \A s \in Senders : Working(s) => operation[sender[s].message] # "none"

OneSender ==
  \A s, t \in Senders : Working(s) /\ Working(t) /\ sender[s].message = sender[t].message => s = t

\* Nothing is asked before the operation is reserved and the attempt on record, and
\* what is on record of a message is true of it.
Asked ==
  \A m \in Messages :
    /\ attempt[m] = "none" \/ operation[m] = "none" => requests[m] = 0
    /\ requests[m] = 0 => effect[m] = "none"
    /\ attempt[m] = "sent" => effect[m] = "made"
    /\ attempt[m] = "not_sent" => effect[m] \in {"none", "lost"}

\* So is what its sender knows: nothing before it asks, and then the truth.
Knows ==
  \A s \in Senders :
    /\ sender[s].phase \in {"reserved", "fenced", "prepared"} => requests[sender[s].message] = 0
    /\ sender[s].phase = "answered" /\ sender[s].outcome = "sent"
         => effect[sender[s].message] = "made"
    /\ sender[s].phase = "answered" /\ sender[s].outcome = "not_sent"
         => effect[sender[s].message] \in {"none", "lost"}

\* Whoever is at a part has seen those before it sent.
Before(m) == \A i \in 1..(m[2] - 1) : attempt[<<m[1], i>>] = "sent"

Ordered == \A s \in Senders : sender[s].phase # "idle" => Before(sender[s].message)

\* A whole is closed on the attempts of its parts.
Closed ==
  \A r \in Split :
    /\ aggregate[r] = "sent" => \A i \in 1..PartsOf[r] : attempt[<<r, i>>] = "sent"
    /\ aggregate[r] = "not_sent" => attempt[<<r, 1>>] = "not_sent"

IInv ==
  /\ Typed /\ Attempted /\ Busy /\ Claimed /\ OneSender /\ Asked /\ Knows
  /\ GuardedSendKeepsAnswer /\ Ordered /\ PartsInOrder /\ Closed

-----------------------------------------------------------------------------
(* Every conjunct is preserved.                                             *)

LEMMA MessageParts ==
  ASSUME NEW m \in Messages
  PROVE  m[1] \in Results /\ m[2] \in 1..PartsOf[m[1]] /\ m = <<m[1], m[2]>> /\ m # Nothing
BY DEF Messages, Nothing

LEMMA PartIsMessage ==
  ASSUME NEW r \in Results, NEW i \in 1..PartsOf[r]
  PROVE  <<r, i>> \in Messages
BY DEF Messages

LEMMA FirstIsMessage ==
  ASSUME NEW r \in Results
  PROVE  <<r, 1>> \in Messages
BY PartIsMessage, DeliveryAssumption

LEMMA InitIInv == Init => IInv
<1> SUFFICES ASSUME Init PROVE IInv
    OBVIOUS
<1> USE DEF Init, Idle
<1>1. Typed
  <2>1. Idle \in Process
        BY DEF Process, Phases, Outcomes
  <2> QED BY <2>1 DEF Typed, Answers, Attempts, Operations, Fates
<1>2. Attempted /\ Busy /\ Claimed /\ OneSender /\ Knows /\ Ordered
      BY DEF Attempted, PastFence, PastPreparation, Busy, Claimed, Working, OneSender, Knows, Ordered
<1>3. Asked /\ GuardedSendKeepsAnswer /\ PartsInOrder /\ Closed
      BY DEF Asked, GuardedSendKeepsAnswer, Guarding, PartsInOrder, Closed
<1> QED BY <1>1, <1>2, <1>3 DEF IInv

\* A sender goes on, is done, or takes up a message.
LEMMA GotoType ==
  ASSUME Typed, NEW s \in Senders, NEW x \in Phases
  PROVE  Goto(s, x) \in [Senders -> Process]
BY DEF Typed, Goto, Process

LEMMA BackType ==
  ASSUME Typed, NEW s \in Senders
  PROVE  Back(s) \in [Senders -> Process]
<1>1. Idle \in Process
      BY DEF Idle, Process, Phases, Outcomes
<1> QED BY <1>1 DEF Typed, Back

LEMMA AtType ==
  ASSUME Typed, NEW s \in Senders, NEW m \in Messages, NEW x \in Phases
  PROVE  At(s, m, x) \in [Senders -> Process]
<1>1. [Idle EXCEPT !.phase = x, !.message = m] \in Process
      BY DEF Idle, Process, Outcomes
<1> QED BY <1>1 DEF Typed, At

\* The message a sender goes on to after a part was sent.
LEMMA NextIsMessage ==
  ASSUME Typed, Busy, NEW s \in Senders, NextPart(s)
  PROVE  <<sender[s].message[1], sender[s].message[2] + 1>> \in Messages
<1>1. sender[s].message \in Messages
      BY DEF NextPart, Busy
<1>2. /\ sender[s].message[1] \in Results
      /\ sender[s].message[2] \in 1..PartsOf[sender[s].message[1]]
      BY <1>1, MessageParts
<1>3. PartsOf[sender[s].message[1]] \in Nat
      BY <1>2, DeliveryAssumption
<1>4. sender[s].message[2] + 1 \in 1..PartsOf[sender[s].message[1]]
      BY <1>2, <1>3 DEF NextPart
<1> QED BY <1>2, <1>4, PartIsMessage

\* What the answer to a call leaves in the memory of its sender.
LEMMA AnsweredLeaves ==
  ASSUME Typed, NEW s \in Senders, Answered(s)
  PROVE  \E x \in Outcomes :
           /\ x = "sent" => effect[sender[s].message] = "made"
           /\ x = "not_sent" => effect[sender[s].message] = "lost"
           /\ sender' = [sender EXCEPT ![s] = [sender[s] EXCEPT !.phase = "answered", !.guarded = FALSE,
                                                                !.outcome = x]]
BY DEF Answered, Outcomes

LEMMA RefusedLeaves ==
  ASSUME Typed, NEW s \in Senders, CallRefused(s)
  PROVE  \E x \in {"unknown", "not_sent"} :
           sender' = [sender EXCEPT ![s] = [sender[s] EXCEPT !.phase = "answered", !.outcome = x]]
BY DEF CallRefused

LEMMA SenderType ==
  ASSUME Typed, Busy, NEW s \in Senders, Sender(s)
  PROVE  sender' \in [Senders -> Process]
<1>0. sender \in [Senders -> Process] /\ sender[s] \in Process
      BY DEF Typed
<1>1. ASSUME NEW r \in Results, Start(s, r) PROVE sender' \in [Senders -> Process]
  <2>1. <<r, 1>> \in Messages
        BY FirstIsMessage
  <2> QED BY <1>1, <2>1, AtType DEF Start, Phases
<1>2. CASE OpenAggregate(s) \/ FindAttempt(s) \/ Reserve(s) \/ ReserveDenied(s) \/ Abandon(s)
      BY <1>2, GotoType, BackType DEF OpenAggregate, FindAttempt, Reserve, ReserveDenied, Abandon, Phases
<1>3. CASE Fence(s) \/ Prepare(s) \/ Settle(s) \/ Done(s) \/ CloseAggregate(s) \/ Crash(s)
      BY <1>3, GotoType, BackType DEF Fence, Prepare, Settle, Done, CloseAggregate, Crash, Phases
<1>4. CASE Call(s) \/ LoseSession(s)
  <2>1. /\ [sender[s] EXCEPT !.phase = "calling", !.guarded = TRUE] \in Process
        /\ [sender[s] EXCEPT !.guarded = FALSE] \in Process
        BY <1>0 DEF Process, Phases
  <2>2. \/ sender' = [sender EXCEPT ![s] = [sender[s] EXCEPT !.phase = "calling", !.guarded = TRUE]]
        \/ sender' = [sender EXCEPT ![s] = [sender[s] EXCEPT !.guarded = FALSE]]
        BY <1>4 DEF Call, LoseSession
  <2> QED BY <1>0, <2>1, <2>2
<1>5. CASE CallRefused(s)
  <2>1. PICK x \in {"unknown", "not_sent"} :
          sender' = [sender EXCEPT ![s] = [sender[s] EXCEPT !.phase = "answered", !.outcome = x]]
        BY <1>5, RefusedLeaves
  <2>2. [sender[s] EXCEPT !.phase = "answered", !.outcome = x] \in Process
        BY <1>0 DEF Process, Phases, Outcomes
  <2> QED BY <1>0, <2>1, <2>2
<1>6. CASE Answered(s)
  <2>1. PICK x \in Outcomes :
          sender' = [sender EXCEPT ![s] = [sender[s] EXCEPT !.phase = "answered", !.guarded = FALSE,
                                                            !.outcome = x]]
        BY <1>6, AnsweredLeaves
  <2>2. [sender[s] EXCEPT !.phase = "answered", !.guarded = FALSE, !.outcome = x] \in Process
        BY <1>0 DEF Process, Phases
  <2> QED BY <1>0, <2>1, <2>2
<1>7. CASE NextPart(s)
      BY <1>7, NextIsMessage, AtType DEF NextPart, Phases
<1> QED BY <1>1, <1>2, <1>3, <1>4, <1>5, <1>6, <1>7 DEF Sender, Deliver

\* A sender's step touches no other sender, and most touch no table; nobody else
\* touches a sender.
LEMMA OthersKept ==
  ASSUME Typed, NEW s \in Senders, Sender(s)
  PROVE  \A t \in Senders \ {s} : sender'[t] = sender[t]
BY DEF Typed, Sender, Deliver, Start, OpenAggregate, FindAttempt, Reserve, ReserveDenied, Abandon,
       Fence, Prepare, Call, CallRefused, LoseSession, Answered, Settle, Done, NextPart,
       CloseAggregate, Crash, Goto, Back, At

LEMMA TablesKept ==
  ASSUME NEW s \in Senders, Sender(s)
  PROVE  \/ OpenAggregate(s) \/ Reserve(s) \/ Abandon(s) \/ Fence(s) \/ Prepare(s) \/ Call(s)
         \/ Settle(s) \/ CloseAggregate(s)
         \/ UNCHANGED <<owner, rows, operation, pending, provider>>
BY DEF Sender, Deliver, Start, FindAttempt, ReserveDenied, CallRefused, LoseSession, Answered, Done,
       NextPart, Crash

Elsewhere ==
  \/ \E r \in Results : Complete(r) \/ Delete(r)
  \/ \E g \in Sources : Revoke(g)
  \/ \E r \in Split : ReconcileAggregate(r)
  \/ \E m \in Messages : ReadPending(m) \/ Reconcile(m) \/ Land(m)

LEMMA SendersKept ==
  ASSUME Elsewhere \/ UNCHANGED vars
  PROVE  UNCHANGED sender
BY DEF Elsewhere, Complete, Delete, Revoke, ReconcileAggregate, ReadPending, Reconcile, Land, vars

LEMMA TypeStep == Typed /\ Busy /\ [Next]_vars => Typed'
<1> SUFFICES ASSUME Typed, Busy, [Next]_vars PROVE Typed'
    OBVIOUS
<1> USE DEF Typed
<1>1. ASSUME NEW s \in Senders, Sender(s) PROVE Typed'
  <2>1. sender' \in [Senders -> Process]
        BY <1>1, SenderType
  <2> USE <2>1
  <2>2. CASE OpenAggregate(s)
    <3>1. aggregate' \in [Split -> Attempts]
          BY <2>2 DEF OpenAggregate, Attempts
    <3> QED BY <2>2, <3>1 DEF OpenAggregate, owner, provider
  <2>3. CASE Reserve(s) \/ Abandon(s) \/ Prepare(s)
    <3>1. operation' \in [Messages -> Operations]
          BY <2>3 DEF Reserve, Abandon, Prepare, Operations
    <3> QED BY <2>3, <3>1 DEF Reserve, Abandon, Prepare, owner, rows, provider
  <2>4. CASE Fence(s)
    <3>1. attempt' \in [Messages -> Attempts]
          BY <2>4 DEF Fence, Attempts
    <3> QED BY <2>4, <3>1 DEF Fence, owner, provider
  <2>5. CASE Call(s)
    <3>1. requests' \in [Messages -> Nat]
          BY <2>5 DEF Call, Busy
    <3>2. effect' \in [Messages -> Fates]
          BY <2>5 DEF Call, Fates
    <3> QED BY <2>5, <3>1, <3>2 DEF Call, owner, rows
  <2>6. CASE Settle(s)
    <3>1. sender[s].outcome \in Attempts
          BY DEF Process, Outcomes, Attempts
    <3>2. attempt' \in [Messages -> Attempts]
          BY <2>6, <3>1 DEF Settle
    <3> QED BY <2>6, <3>2 DEF Settle, owner, provider
  <2>7. CASE CloseAggregate(s)
    <3>1. sender[s].message \in Messages
          BY <2>7 DEF CloseAggregate, Busy
    <3>2. attempt[sender[s].message] \in Attempts
          BY <3>1
    <3>3. aggregate' \in [Split -> Attempts]
          BY <2>7, <3>2 DEF CloseAggregate
    <3> QED BY <2>7, <3>3 DEF CloseAggregate, owner, provider
  <2>8. CASE UNCHANGED <<owner, rows, operation, pending, provider>>
        BY <2>8 DEF owner, rows, provider
  <2> QED BY <1>1, <2>2, <2>3, <2>4, <2>5, <2>6, <2>7, <2>8, TablesKept
<1>2. CASE Elsewhere
  <2>1. sender' = sender
        BY <1>2, SendersKept
  <2>2. ASSUME NEW r \in Results, Complete(r) \/ Delete(r) PROVE Typed'
    <3>1. result' \in [Results -> Answers]
          BY <2>2 DEF Complete, Delete, Answers
    <3> QED BY <2>2, <3>1 DEF Complete, Delete, rows, provider
  <2>3. ASSUME NEW g \in Sources, Revoke(g) PROVE Typed'
        BY <2>3 DEF Revoke, rows, provider
  <2>4. ASSUME NEW r \in Split, ReconcileAggregate(r) PROVE Typed'
    <3>1. aggregate' \in [Split -> Attempts]
          BY <2>4 DEF ReconcileAggregate, Attempts
    <3> QED BY <2>4, <3>1 DEF ReconcileAggregate, owner, provider
  <2>5. ASSUME NEW m \in Messages, ReadPending(m) \/ Land(m) PROVE Typed'
    <3>1. effect' \in [Messages -> Fates]
          BY <2>5 DEF ReadPending, Land, Fates, provider
    <3>2. pending' \subseteq Messages
          BY <2>5 DEF ReadPending, Land
    <3> QED BY <2>5, <3>1, <3>2 DEF ReadPending, Land, owner, rows, provider
  <2>6. ASSUME NEW m \in Messages, Reconcile(m) PROVE Typed'
    <3>1. attempt' \in [Messages -> Attempts]
          BY <2>6 DEF Reconcile, Attempts
    <3> QED BY <2>6, <3>1 DEF Reconcile, owner, provider
  <2> QED BY <1>2, <2>2, <2>3, <2>4, <2>5, <2>6 DEF Elsewhere
<1>3. CASE UNCHANGED vars
      BY <1>3 DEF vars, owner, rows, provider
<1> QED BY <1>1, <1>2, <1>3 DEF Next, Elsewhere

\* How a sender can be where it is after its step.
LEMMA SenderMoves ==
  ASSUME Typed, NEW s \in Senders, Sender(s)
  PROVE  /\ sender'[s].phase \in {"reserving", "reserved", "fenced", "prepared", "calling", "answered", "delivered"}
              => sender'[s].message = sender[s].message /\ sender[s].phase # "idle"
         /\ sender'[s].phase = "opening"
              => \E r \in Results : Start(s, r) /\ sender'[s].message = <<r, 1>>
         /\ sender'[s].phase = "seeking"
              => \/ \E r \in Results : Start(s, r) /\ sender'[s].message = <<r, 1>>
                 \/ OpenAggregate(s) /\ sender'[s].message = sender[s].message
                 \/ NextPart(s) /\ sender'[s].message = <<sender[s].message[1], sender[s].message[2] + 1>>
         /\ sender'[s].phase = "reserved" => Reserve(s)
         /\ sender'[s].phase = "fenced" => Fence(s)
         /\ sender'[s].phase = "prepared" => Prepare(s)
         /\ sender'[s].phase = "calling" => Call(s) \/ (LoseSession(s) /\ ~sender'[s].guarded)
         /\ sender'[s].phase = "answered"
              => \/ Prepare(s) /\ sender'[s].outcome = sender[s].outcome
                 \/ CallRefused(s) /\ sender'[s].outcome # "sent"
                 \/ Answered(s) /\ sender'[s].outcome = "unknown"
                 \/ Answered(s) /\ sender'[s].outcome = "sent" /\ effect[sender[s].message] = "made"
                 \/ Answered(s) /\ sender'[s].outcome = "not_sent" /\ effect[sender[s].message] = "lost"
         /\ sender'[s].phase \notin {"answered", "delivered"}
              => sender'[s].outcome = "unknown" \/ sender'[s].outcome = sender[s].outcome
         /\ sender[s].phase \in {"answered", "delivered"}
              => sender'[s].phase = "delivered" \/ sender'[s].outcome = "unknown"
<1> USE DEF Typed
<1>0. sender[s] \in Process /\ sender \in [Senders -> Process]
      OBVIOUS
<1>1. ASSUME NEW r \in Results, Start(s, r)
      PROVE  /\ sender'[s].phase \in {"opening", "seeking"} /\ sender'[s].message = <<r, 1>>
             /\ sender'[s].outcome = "unknown" /\ sender[s].phase = "idle"
      BY <1>1 DEF Start, At, Idle
<1>2. CASE OpenAggregate(s)
      BY <1>0, <1>2 DEF OpenAggregate, Goto, Back, Idle, Process
<1>3. CASE FindAttempt(s) \/ Reserve(s) \/ ReserveDenied(s) \/ Abandon(s)
      BY <1>0, <1>3 DEF FindAttempt, Reserve, ReserveDenied, Abandon, Goto, Back, Idle, Process
<1>4. CASE Fence(s) \/ Prepare(s) \/ Settle(s)
      BY <1>0, <1>4 DEF Fence, Prepare, Settle, Goto, Process
<1>5. CASE Done(s) \/ CloseAggregate(s) \/ Crash(s)
      BY <1>0, <1>5 DEF Done, CloseAggregate, Crash, Back, Idle
<1>6. CASE Call(s)
      BY <1>0, <1>6 DEF Call, Process
<1>7. CASE LoseSession(s)
      BY <1>0, <1>7 DEF LoseSession, Guarding, Process
<1>8. CASE CallRefused(s)
  <2>1. PICK x \in {"unknown", "not_sent"} :
          sender' = [sender EXCEPT ![s] = [sender[s] EXCEPT !.phase = "answered", !.outcome = x]]
        BY <1>8, RefusedLeaves
  <2>2. sender'[s] = [sender[s] EXCEPT !.phase = "answered", !.outcome = x]
        BY <1>0, <2>1
  <2>3. sender[s].phase = "prepared"
        BY <1>8 DEF CallRefused
  <2> QED BY <1>0, <1>8, <2>2, <2>3 DEF Process
<1>9. CASE Answered(s)
  <2>1. PICK x \in Outcomes :
          /\ x = "sent" => effect[sender[s].message] = "made"
          /\ x = "not_sent" => effect[sender[s].message] = "lost"
          /\ sender' = [sender EXCEPT ![s] = [sender[s] EXCEPT !.phase = "answered", !.guarded = FALSE,
                                                               !.outcome = x]]
        BY <1>9, AnsweredLeaves
  <2>2. sender'[s] = [sender[s] EXCEPT !.phase = "answered", !.guarded = FALSE, !.outcome = x]
        BY <1>0, <2>1
  <2>3. sender[s].phase = "calling"
        BY <1>9 DEF Answered
  <2> QED BY <1>0, <1>9, <2>1, <2>2, <2>3 DEF Process, Outcomes
<1>10. CASE NextPart(s)
      BY <1>0, <1>10 DEF NextPart, At, Idle
<1> QED BY <1>1, <1>2, <1>3, <1>4, <1>5, <1>6, <1>7, <1>8, <1>9, <1>10 DEF Sender, Deliver

\* The records only go forward: an attempt is made once and settles once, a reservation
\* is not taken back, and what happened at Telegram stays so.
LEMMA Forward ==
  ASSUME Typed, Busy, [Next]_vars, NEW m \in Messages
  PROVE  /\ attempt[m] # "none" => attempt'[m] # "none"
         /\ attempt[m] \in {"sent", "not_sent"} => attempt'[m] = attempt[m]
         /\ operation[m] # "none" => operation'[m] # "none"
         /\ operation[m] \in {"prepared", "cancelled"} => operation'[m] \in {"prepared", "cancelled"}
         /\ \/ requests'[m] = requests[m]
            \/ \E s \in Senders : Call(s) /\ sender[s].message = m
         /\ \/ effect'[m] = effect[m]
            \/ effect[m] = "inflight" /\ Land(m)
            \/ \E s \in Senders : Call(s) /\ sender[s].message = m
<1> USE DEF Typed
<1>1. ASSUME NEW s \in Senders, Sender(s)
      PROVE  /\ attempt[m] # "none" => attempt'[m] # "none"
             /\ attempt[m] \in {"sent", "not_sent"} => attempt'[m] = attempt[m]
             /\ operation[m] # "none" => operation'[m] # "none"
             /\ operation[m] \in {"prepared", "cancelled"} => operation'[m] \in {"prepared", "cancelled"}
             /\ \/ requests'[m] = requests[m] /\ effect'[m] = effect[m]
                \/ Call(s) /\ sender[s].message = m
  <2>1. CASE OpenAggregate(s) \/ CloseAggregate(s)
        BY <2>1 DEF OpenAggregate, CloseAggregate, provider
  <2>2. CASE Reserve(s) \/ Abandon(s) \/ Prepare(s)
        BY <2>2 DEF Reserve, Abandon, Prepare, rows, provider
  <2>3. CASE Fence(s)
        BY <2>3 DEF Fence, provider
  <2>4. CASE Settle(s)
    <3>1. sender[s].outcome # "none"
          BY DEF Process, Outcomes
    <3> QED BY <2>4, <3>1 DEF Settle, provider
  <2>5. CASE Call(s)
        BY <2>5 DEF Call, rows
  <2>6. CASE UNCHANGED <<owner, rows, operation, pending, provider>>
        BY <2>6 DEF rows, provider
  <2> QED BY <1>1, <2>1, <2>2, <2>3, <2>4, <2>5, <2>6, TablesKept
<1>2. CASE Elsewhere
  <2>1. ASSUME NEW r \in Results, Complete(r) \/ Delete(r)
        PROVE  UNCHANGED <<attempt, operation, requests, effect>>
        BY <2>1 DEF Complete, Delete, rows, provider
  <2>2. ASSUME NEW g \in Sources, Revoke(g) PROVE UNCHANGED <<attempt, operation, requests, effect>>
        BY <2>2 DEF Revoke, rows, provider
  <2>3. ASSUME NEW r \in Split, ReconcileAggregate(r)
        PROVE  UNCHANGED <<attempt, operation, requests, effect>>
        BY <2>3 DEF ReconcileAggregate, provider
  <2>4. ASSUME NEW n \in Messages, ReadPending(n)
        PROVE  UNCHANGED <<attempt, operation, requests, effect>>
        BY <2>4 DEF ReadPending, rows, provider
  <2>5. ASSUME NEW n \in Messages, Reconcile(n)
        PROVE  /\ UNCHANGED <<operation, requests, effect>>
               /\ attempt[m] # "none" => attempt'[m] # "none"
               /\ attempt[m] \in {"sent", "not_sent"} => attempt'[m] = attempt[m]
        BY <2>5 DEF Reconcile, provider
  <2>6. ASSUME NEW n \in Messages, Land(n)
        PROVE  /\ UNCHANGED <<attempt, operation, requests>>
               /\ \/ effect'[m] = effect[m]
                  \/ effect[m] = "inflight" /\ Land(m)
        BY <2>6 DEF Land, rows
  <2> QED BY <1>2, <2>1, <2>2, <2>3, <2>4, <2>5, <2>6 DEF Elsewhere
<1>3. CASE UNCHANGED vars
      BY <1>3 DEF vars, rows, provider
<1> QED BY <1>1, <1>2, <1>3 DEF Next, Elsewhere

\* What has not been asked, nothing else than a call touches.
LEMMA OnlyCallsAsk ==
  ASSUME Typed, Busy, [Next]_vars, NEW m \in Messages,
         \A s \in Senders : ~(Call(s) /\ sender[s].message = m)
  PROVE  /\ requests'[m] = requests[m]
         /\ effect[m] # "inflight" => effect'[m] = effect[m]
BY Forward

LEMMA BusyStep == Typed /\ Busy /\ [Next]_vars => Busy'
<1> SUFFICES ASSUME Typed, Busy, [Next]_vars PROVE Busy'
    OBVIOUS
<1>1. ASSUME NEW s \in Senders, Sender(s) PROVE Busy'
  <2>0. sender'[s].phase \in Phases
        BY <1>1, SenderType DEF Process
  <2>1. sender'[s].phase # "idle" => sender'[s].message \in Messages
    <3>1. CASE sender'[s].phase = "opening"
          BY <1>1, <3>1, SenderMoves, FirstIsMessage
    <3>2. CASE sender'[s].phase = "seeking"
      <4>1. OpenAggregate(s) => sender[s].message \in Messages
            BY DEF OpenAggregate, Busy
      <4> QED BY <1>1, <3>2, <4>1, SenderMoves, FirstIsMessage, NextIsMessage
    <3>3. CASE sender'[s].phase \notin {"idle", "opening", "seeking"}
          BY <1>1, <2>0, <3>3, SenderMoves DEF Busy, Phases
    <3> QED BY <3>1, <3>2, <3>3
  <2>2. sender'[s].phase = "opening" => sender'[s].message[2] = 1
        BY <1>1, SenderMoves
  <2>3. sender'[s].phase \notin {"answered", "delivered"} => sender'[s].outcome = "unknown"
        BY <1>1, SenderMoves DEF Busy
  <2> QED BY <1>1, <2>1, <2>2, <2>3, OthersKept DEF Busy
<1>2. CASE Elsewhere \/ UNCHANGED vars
      BY <1>2, SendersKept DEF Busy
<1> QED BY <1>1, <1>2 DEF Next, Elsewhere

LEMMA AttemptedStep == Typed /\ Busy /\ Attempted /\ Claimed /\ [Next]_vars => Attempted' /\ Claimed'
<1> SUFFICES ASSUME Typed, Busy, Attempted, Claimed, [Next]_vars PROVE Attempted' /\ Claimed'
    OBVIOUS
<1> USE DEF Attempted, Claimed, PastFence, PastPreparation, Working
<1>1. ASSUME NEW t \in Senders, sender'[t] = sender[t]
      PROVE  /\ PastFence(t)' => attempt'[sender'[t].message] # "none"
             /\ PastPreparation(t)' => operation'[sender'[t].message] \in {"prepared", "cancelled"}
             /\ Working(t)' => operation'[sender'[t].message] # "none"
  <2>1. CASE sender[t].phase = "idle"
        BY <1>1, <2>1
  <2>2. CASE sender[t].phase # "idle"
        BY <1>1, <2>2, Forward DEF Busy
  <2> QED BY <2>1, <2>2
<1>2. ASSUME NEW s \in Senders, Sender(s) PROVE Attempted' /\ Claimed'
  <2>0. Working(s)' => sender'[s].message = sender[s].message /\ sender[s].message \in Messages
        BY <1>2, SenderMoves DEF Busy
  <2>1. Reserve(s) => operation'[sender[s].message] # "none"
        BY DEF Reserve, Busy, Typed
  <2>2. Fence(s) => attempt'[sender[s].message] # "none" /\ PastFence(s)' /\ ~PastPreparation(s)' /\ Working(s)
        BY DEF Fence, Busy, Typed, Goto
  <2>3. Prepare(s) => /\ operation'[sender[s].message] \in {"prepared", "cancelled"}
                      /\ PastFence(s) /\ Working(s)
        BY DEF Prepare, Busy, Typed
  <2>4. CallRefused(s) \/ Answered(s) \/ Call(s) \/ LoseSession(s)
          => PastFence(s) /\ PastPreparation(s) /\ Working(s)
        BY DEF CallRefused, Answered, Call, LoseSession, Guarding
  <2>5. PastFence(s)' => attempt'[sender'[s].message] # "none"
        BY <1>2, <2>0, <2>2, <2>3, <2>4, SenderMoves, Forward
  <2>6. PastPreparation(s)' => operation'[sender'[s].message] \in {"prepared", "cancelled"}
        BY <1>2, <2>0, <2>3, <2>4, SenderMoves, Forward
  <2>7. Working(s)' => operation'[sender'[s].message] # "none"
        BY <1>2, <2>0, <2>1, <2>2, <2>3, <2>4, SenderMoves, Forward
  <2> QED BY <1>1, <1>2, <2>5, <2>6, <2>7, OthersKept
<1>3. CASE Elsewhere \/ UNCHANGED vars
      BY <1>1, <1>3, SendersKept
<1> QED BY <1>2, <1>3 DEF Next, Elsewhere

LEMMA OneSenderStep == Typed /\ Busy /\ Claimed /\ OneSender /\ [Next]_vars => OneSender'
<1> SUFFICES ASSUME Typed, Busy, Claimed, OneSender, [Next]_vars PROVE OneSender'
    OBVIOUS
<1>1. ASSUME NEW s \in Senders, Sender(s) PROVE OneSender'
  <2>1. Working(s)' => \/ Working(s) /\ sender'[s].message = sender[s].message
                       \/ /\ operation[sender[s].message] = "none"
                          /\ sender'[s].message = sender[s].message
        BY <1>1, SenderMoves
        DEF Working, Reserve, Fence, Prepare, Call, LoseSession, Guarding, CallRefused, Answered
  <2>2. \A t \in Senders \ {s} : Working(t)' <=> Working(t)
        BY <1>1, OthersKept DEF Working
  <2> QED BY <1>1, <2>1, <2>2, OthersKept DEF OneSender, Claimed
<1>2. CASE Elsewhere \/ UNCHANGED vars
      BY <1>2, SendersKept DEF OneSender, Working
<1> QED BY <1>1, <1>2 DEF Next, Elsewhere

LEMMA AskedStep == IInv /\ [Next]_vars => Asked'
<1> SUFFICES ASSUME IInv, [Next]_vars, NEW m \in Messages
             PROVE  /\ attempt'[m] = "none" \/ operation'[m] = "none" => requests'[m] = 0
                    /\ requests'[m] = 0 => effect'[m] = "none"
                    /\ attempt'[m] = "sent" => effect'[m] = "made"
                    /\ attempt'[m] = "not_sent" => effect'[m] \in {"none", "lost"}
    BY DEF Asked
<1> USE DEF IInv, Asked
<1>1. ASSUME NEW s \in Senders, Call(s), sender[s].message = m
      PROVE  attempt'[m] = "unknown" /\ operation'[m] # "none" /\ requests'[m] = 1
      BY <1>1 DEF Call, Typed, rows, Attempted, PastPreparation, Knows
<1>2. ASSUME \A s \in Senders : ~(Call(s) /\ sender[s].message = m)
      PROVE  /\ attempt'[m] = "none" \/ operation'[m] = "none" => requests'[m] = 0
             /\ requests'[m] = 0 => effect'[m] = "none"
      BY <1>2, OnlyCallsAsk, Forward
<1>3. ASSUME \A s \in Senders : ~(Call(s) /\ sender[s].message = m), attempt'[m] = attempt[m]
      PROVE  /\ attempt'[m] = "sent" => effect'[m] = "made"
             /\ attempt'[m] = "not_sent" => effect'[m] \in {"none", "lost"}
      BY <1>3, OnlyCallsAsk
<1>4. ASSUME \A s \in Senders : ~(Call(s) /\ sender[s].message = m), attempt'[m] # attempt[m]
      PROVE  /\ attempt'[m] = "sent" => effect'[m] = "made"
             /\ attempt'[m] = "not_sent" => effect'[m] \in {"none", "lost"}
  <2>1. ASSUME NEW s \in Senders, Sender(s)
        PROVE  /\ attempt'[m] = "sent" => effect'[m] = "made"
               /\ attempt'[m] = "not_sent" => effect'[m] \in {"none", "lost"}
    <3>1. CASE Fence(s)
          BY <1>4, <3>1 DEF Fence, Typed
    <3>2. CASE Settle(s)
          BY <1>4, <3>2 DEF Settle, Typed, Knows, provider
    <3>3. CASE OpenAggregate(s) \/ Reserve(s) \/ Abandon(s) \/ Prepare(s) \/ Call(s) \/ CloseAggregate(s)
          BY <1>4, <3>3 DEF OpenAggregate, Reserve, Abandon, Prepare, Call, CloseAggregate, rows
    <3>4. CASE UNCHANGED <<owner, rows, operation, pending, provider>>
          BY <1>4, <3>4 DEF rows
    <3> QED BY <2>1, <3>1, <3>2, <3>3, <3>4, TablesKept
  <2>2. CASE Elsewhere
    <3>1. PICK n \in Messages : Reconcile(n)
          BY <1>4, <2>2 DEF Elsewhere, Complete, Delete, Revoke, ReconcileAggregate, ReadPending, Land, rows
    <3> QED BY <1>4, <3>1 DEF Reconcile, Typed, provider
  <2> QED BY <1>4, <2>1, <2>2 DEF Next, Elsewhere, vars, rows
<1> QED BY <1>1, <1>2, <1>3, <1>4 DEF Typed

LEMMA KnowsStep == IInv /\ [Next]_vars => Knows'
<1> SUFFICES ASSUME IInv, [Next]_vars PROVE Knows'
    OBVIOUS
<1> USE DEF IInv, Knows
<1>1. ASSUME NEW t \in Senders, sender'[t] = sender[t]
      PROVE  /\ sender'[t].phase \in {"reserved", "fenced", "prepared"} => requests'[sender'[t].message] = 0
             /\ sender'[t].phase = "answered" /\ sender'[t].outcome = "sent"
                  => effect'[sender'[t].message] = "made"
             /\ sender'[t].phase = "answered" /\ sender'[t].outcome = "not_sent"
                  => effect'[sender'[t].message] \in {"none", "lost"}
  <2> SUFFICES ASSUME sender[t].phase \in {"reserved", "fenced", "prepared", "answered"}
               PROVE  /\ requests'[sender[t].message] = requests[sender[t].message]
                      /\ effect[sender[t].message] # "inflight"
                           => effect'[sender[t].message] = effect[sender[t].message]
      BY <1>1
  <2>1. sender[t].message \in Messages
        BY DEF Busy
  <2>2. ASSUME NEW s \in Senders, Call(s), sender[s].message = sender[t].message PROVE FALSE
    <3>1. s = t
          BY <2>2 DEF OneSender, Working, Call
    <3>2. sender[s].phase = "prepared" /\ sender'[s].phase = "calling"
          BY <2>2 DEF Call, Typed, Process
    <3> QED BY <1>1, <3>1, <3>2
  <2> QED BY <2>1, <2>2, OnlyCallsAsk
<1>2. ASSUME NEW s \in Senders, Sender(s) PROVE Knows'
  <2> DEFINE m == sender[s].message
  <2>1. Reserve(s) => sender[s].phase # "idle" /\ requests'[m] = 0
        BY DEF Reserve, Asked, Busy, provider
  <2>2. Fence(s) => requests'[m] = 0
        BY DEF Fence, provider
  <2>3. Prepare(s) => requests'[m] = 0 /\ sender[s].outcome = "unknown"
        BY DEF Prepare, provider, Busy
  <2>4. CallRefused(s) => effect'[m] = "none"
        BY DEF CallRefused, provider, Busy, Asked
  <2>5. Answered(s) => effect'[m] = effect[m]
        BY DEF Answered, provider
  <2>6. sender'[s].phase \in {"reserved", "fenced", "prepared"} => requests'[sender'[s].message] = 0
        BY <1>2, <2>1, <2>2, <2>3, SenderMoves
  <2>7. sender'[s].phase = "answered" /\ sender'[s].outcome = "sent"
          => effect'[sender'[s].message] = "made"
        BY <1>2, <2>3, <2>5, SenderMoves
  <2>8. sender'[s].phase = "answered" /\ sender'[s].outcome = "not_sent"
          => effect'[sender'[s].message] \in {"none", "lost"}
        BY <1>2, <2>3, <2>4, <2>5, SenderMoves
  <2> QED BY <1>1, <1>2, <2>6, <2>7, <2>8, OthersKept
<1>3. CASE Elsewhere \/ UNCHANGED vars
      BY <1>1, <1>3, SendersKept
<1> QED BY <1>2, <1>3 DEF Next, Elsewhere

LEMMA KeepsAnswerStep ==
  Typed /\ Busy /\ GuardedSendKeepsAnswer /\ [Next]_vars => GuardedSendKeepsAnswer'
<1> SUFFICES ASSUME Typed, Busy, GuardedSendKeepsAnswer, [Next]_vars PROVE GuardedSendKeepsAnswer'
    OBVIOUS
<1> USE DEF GuardedSendKeepsAnswer
<1>1. ASSUME NEW s \in Senders, Sender(s) PROVE GuardedSendKeepsAnswer'
  <2>1. UNCHANGED owner
        BY <1>1, TablesKept
        DEF OpenAggregate, Reserve, Abandon, Fence, Prepare, Call, Settle, CloseAggregate
  <2>2. s \in Guarding' => \/ s \in Guarding /\ sender'[s].message = sender[s].message
                           \/ CanSend(sender[s].message) /\ sender'[s].message = sender[s].message
        BY <1>1, SenderMoves DEF Guarding, Call, LoseSession
  <2>3. Guarding' \subseteq Guarding \cup {s}
        BY <1>1, OthersKept DEF Guarding
  <2> QED BY <1>1, <2>1, <2>2, <2>3, OthersKept DEF CanSend, owner, Guarding
<1>2. CASE Elsewhere \/ UNCHANGED vars
  <2>1. sender' = sender /\ Guarding' = Guarding
        BY <1>2, SendersKept DEF Guarding
  <2>2. \A s \in Guarding : sender[s].message[1] \in Results
        BY MessageParts DEF Guarding, Busy
  <2>3. ASSUME NEW r \in Results, Complete(r) \/ Delete(r) PROVE GuardedSendKeepsAnswer'
        BY <2>1, <2>3 DEF Complete, Delete, LineageFree
  <2>4. ASSUME NEW g \in Sources, Revoke(g) PROVE GuardedSendKeepsAnswer'
    <3>1. \A s \in Guarding : g \notin SourcesOf[sender[s].message[1]]
          BY <2>4 DEF Revoke, SourceInUse
    <3>2. \A h \in Sources \ {g} : source'[h] = source[h]
          BY <2>4 DEF Revoke, Typed
    <3>3. \A s \in Guarding : SourcesOf[sender[s].message[1]] \subseteq Sources
          BY <2>2, DeliveryAssumption
    <3> QED BY <2>1, <2>4, <3>1, <3>2, <3>3 DEF Revoke
  <2>5. ASSUME UNCHANGED owner PROVE GuardedSendKeepsAnswer'
        BY <2>1, <2>5 DEF owner
  <2> QED BY <1>2, <2>3, <2>4, <2>5
          DEF Elsewhere, ReconcileAggregate, ReadPending, Reconcile, Land, vars
<1> QED BY <1>1, <1>2 DEF Next, Elsewhere

\* What was sent stays sent, and so does what came before.
LEMMA BeforeKept ==
  ASSUME Typed, Busy, [Next]_vars, NEW m \in Messages, Before(m)
  PROVE  \A i \in 1..(m[2] - 1) : attempt'[<<m[1], i>>] = "sent"
<1> SUFFICES ASSUME NEW i \in 1..(m[2] - 1) PROVE attempt'[<<m[1], i>>] = "sent"
    OBVIOUS
<1>1. m[1] \in Results /\ m[2] \in 1..PartsOf[m[1]] /\ PartsOf[m[1]] \in Nat
      BY MessageParts, DeliveryAssumption
<1>2. i \in 1..PartsOf[m[1]]
      BY <1>1
<1>3. <<m[1], i>> \in Messages
      BY <1>1, <1>2, PartIsMessage
<1> QED BY <1>3, Forward DEF Before

LEMMA OrderedStep == Typed /\ Busy /\ Ordered /\ [Next]_vars => Ordered'
<1> SUFFICES ASSUME Typed, Busy, Ordered, [Next]_vars PROVE Ordered'
    OBVIOUS
<1>1. ASSUME NEW s \in Senders, sender[s].phase # "idle", sender'[s].message = sender[s].message
      PROVE  Before(sender[s].message)'
  <2>1. sender[s].message \in Messages /\ Before(sender[s].message)
        BY <1>1 DEF Busy, Ordered
  <2> QED BY <1>1, <2>1, BeforeKept DEF Before
<1>2. ASSUME NEW s \in Senders, Sender(s) PROVE sender'[s].phase # "idle" => Before(sender[s].message)'
  <2>0. sender'[s].phase \in Phases
        BY <1>2, SenderType DEF Process
  <2>1. ASSUME NEW r \in Results, sender'[s].message = <<r, 1>> PROVE Before(sender[s].message)'
        BY <2>1 DEF Before
  <2>2. CASE OpenAggregate(s) /\ sender'[s].message = sender[s].message
        BY <1>1, <2>2 DEF OpenAggregate
  <2>3. CASE NextPart(s) /\ sender'[s].message = <<sender[s].message[1], sender[s].message[2] + 1>>
    <3>1. sender[s].message \in Messages /\ Before(sender[s].message)
          BY <2>3 DEF NextPart, Busy, Ordered
    <3>2. sender[s].message = <<sender[s].message[1], sender[s].message[2]>> /\ sender[s].message[2] \in Nat
          BY <3>1, MessageParts, DeliveryAssumption
    <3>3. attempt[sender[s].message] = "sent" /\ attempt' = attempt
          BY <2>3 DEF NextPart, rows
    <3>4. ASSUME NEW i \in 1..sender[s].message[2]
          PROVE  attempt[<<sender[s].message[1], i>>] = "sent"
      <4>1. CASE i = sender[s].message[2]
            BY <3>2, <3>3, <4>1
      <4>2. CASE i # sender[s].message[2]
        <5>1. i \in 1..(sender[s].message[2] - 1)
              BY <3>2, <4>2
        <5> QED BY <3>1, <5>1 DEF Before
      <4> QED BY <4>1, <4>2
    <3>5. (sender[s].message[2] + 1) - 1 = sender[s].message[2]
          BY <3>2
    <3>6. \A i \in 1..((sender[s].message[2] + 1) - 1) : attempt'[<<sender[s].message[1], i>>] = "sent"
          BY <3>3, <3>4, <3>5
    <3>7. sender'[s].message[1] = sender[s].message[1] /\ sender'[s].message[2] = sender[s].message[2] + 1
          BY <2>3
    <3> QED BY <3>6, <3>7 DEF Before
  <2> QED BY <1>1, <1>2, <2>0, <2>1, <2>2, <2>3, SenderMoves DEF Phases
<1>3. ASSUME NEW s \in Senders, Sender(s) PROVE Ordered'
      BY <1>1, <1>2, <1>3, OthersKept DEF Ordered
<1>4. CASE Elsewhere \/ UNCHANGED vars
      BY <1>1, <1>4, SendersKept DEF Ordered
<1> QED BY <1>3, <1>4 DEF Next, Elsewhere

LEMMA PartsStep == Typed /\ Busy /\ Ordered /\ PartsInOrder /\ [Next]_vars => PartsInOrder'
<1> SUFFICES ASSUME Typed, Busy, Ordered, PartsInOrder, [Next]_vars,
                    NEW m \in Messages, requests'[m] > 0
             PROVE  \A i \in 1..(m[2] - 1) : attempt'[<<m[1], i>>] = "sent"
    BY DEF PartsInOrder
<1>1. CASE requests[m] > 0
      BY <1>1, BeforeKept DEF PartsInOrder, Before
<1>2. CASE ~(requests[m] > 0)
  <2>1. PICK s \in Senders : Call(s) /\ sender[s].message = m
        BY <1>2, Forward
  <2>2. Before(m)
        BY <2>1 DEF Ordered, Call
  <2> QED BY <2>2, BeforeKept
<1> QED BY <1>1, <1>2

LEMMA ClosedStep == Typed /\ Busy /\ Ordered /\ Closed /\ [Next]_vars => Closed'
<1> SUFFICES ASSUME Typed, Busy, Ordered, Closed, [Next]_vars, NEW r \in Split
             PROVE  /\ aggregate'[r] = "sent" => \A i \in 1..PartsOf[r] : attempt'[<<r, i>>] = "sent"
                    /\ aggregate'[r] = "not_sent" => attempt'[<<r, 1>>] = "not_sent"
    BY DEF Closed
<1>1. r \in Results
      BY DEF Split
<1>2. ASSUME aggregate[r] = "sent" \/ \A i \in 1..PartsOf[r] : attempt[<<r, i>>] = "sent"
      PROVE  \A i \in 1..PartsOf[r] : attempt'[<<r, i>>] = "sent"
      BY <1>1, <1>2, PartIsMessage, Forward DEF Closed
<1>3. ASSUME aggregate[r] = "not_sent" \/ attempt[<<r, 1>>] = "not_sent"
      PROVE  attempt'[<<r, 1>>] = "not_sent"
      BY <1>1, <1>3, FirstIsMessage, Forward DEF Closed
<1>4. ASSUME aggregate'[r] # aggregate[r]
      PROVE  /\ aggregate'[r] = "sent" => \A i \in 1..PartsOf[r] : attempt[<<r, i>>] = "sent"
             /\ aggregate'[r] = "not_sent" => attempt[<<r, 1>>] = "not_sent"
  <2>1. ASSUME NEW s \in Senders, CloseAggregate(s)
        PROVE  /\ aggregate'[r] = "sent" => \A i \in 1..PartsOf[r] : attempt[<<r, i>>] = "sent"
               /\ aggregate'[r] = "not_sent" => attempt[<<r, 1>>] = "not_sent"
    <3> DEFINE m == sender[s].message
    <3>1. m[1] = r /\ aggregate'[r] = attempt[m]
          BY <1>4, <2>1 DEF CloseAggregate, Typed
    <3>2. m \in Messages /\ Before(m)
          BY <2>1 DEF CloseAggregate, Busy, Ordered
    <3>3. m = <<r, m[2]>>
          BY <3>1, <3>2, MessageParts
    <3>4. PartsOf[r] \in Nat /\ PartsOf[r] > 0
          BY <1>1, DeliveryAssumption
    <3>5. CASE attempt[m] = "sent" /\ m[2] = PartsOf[r]
      <4>1. ASSUME NEW i \in 1..PartsOf[r] PROVE attempt[<<r, i>>] = "sent"
        <5>1. CASE i = PartsOf[r]
              BY <3>3, <3>5, <5>1
        <5>2. CASE i # PartsOf[r]
          <6>1. i \in 1..(m[2] - 1)
                BY <3>4, <3>5, <5>2
          <6> QED BY <3>1, <3>2, <6>1 DEF Before
        <5> QED BY <5>1, <5>2
      <4> QED BY <3>1, <3>5, <4>1
    <3>6. CASE attempt[m] = "not_sent" /\ m[2] = 1
          BY <3>1, <3>3, <3>6
    <3> QED BY <2>1, <3>1, <3>5, <3>6 DEF CloseAggregate
  <2>2. ASSUME NEW s \in Senders, Sender(s), ~CloseAggregate(s)
        PROVE  aggregate'[r] \notin {"sent", "not_sent"}
    <3>1. CASE OpenAggregate(s)
          BY <1>4, <3>1 DEF OpenAggregate, Typed
    <3>2. CASE UNCHANGED aggregate
          BY <1>4, <3>2
    <3> QED BY <2>2, <3>1, <3>2, TablesKept DEF Reserve, Abandon, Fence, Prepare, Call, Settle, rows
  <2>3. CASE Elsewhere
    <3>1. PICK q \in Split : ReconcileAggregate(q)
          BY <1>4, <2>3 DEF Elsewhere, Complete, Delete, Revoke, ReadPending, Reconcile, Land, rows
    <3> QED BY <1>4, <3>1 DEF ReconcileAggregate, Typed
  <2> QED BY <1>4, <2>1, <2>2, <2>3 DEF Next, Elsewhere, vars, rows
<1> QED BY <1>2, <1>3, <1>4

LEMMA NextIInv == IInv /\ [Next]_vars => IInv'
BY TypeStep, AttemptedStep, BusyStep, OneSenderStep, AskedStep, KnowsStep, KeepsAnswerStep,
   OrderedStep, PartsStep, ClosedStep DEF IInv

\* What holds between the transactions of the senders and the calls of Telegram: whose
\* a message is, what its attempt then says, and that the parts before it are sent
\* (runtime/delivery.py:120-345).
THEOREM Invariance == Spec => []IInv
BY InitIInv, NextIInv, PTL DEF Spec

-----------------------------------------------------------------------------
(* The properties of the runs.                                              *)

\* The tables and the memory of the senders keep their shape; past the fence there is
\* an attempt, past the preparation a used operation (runtime/delivery.py:253-279).
THEOREM TypeCorrect == Spec => []TypeOK
<1>1. IInv => TypeOK
      BY TypeParts DEF IInv
<1> QED BY <1>1, Invariance, PTL

\* From its reservation to its settlement one sender at most works on a message,
\* whoever crashed before (runtime/delivery.py:253-279).
THEOREM MessagesHaveOneSender == Spec => []OneSenderPerMessage
<1>1. IInv => OneSenderPerMessage
      BY DEF IInv, OneSender, Working, OneSenderPerMessage
<1> QED BY <1>1, Invariance, PTL

\* While a guarded request is under way the owner does not delete the answer, nor
\* revoke what it was made from (runtime/delivery.py:282-298).
THEOREM GuardedAnswersStay == Spec => []GuardedSendKeepsAnswer
<1>1. IInv => GuardedSendKeepsAnswer
      BY DEF IInv
<1> QED BY <1>1, Invariance, PTL

\* The parts of an answer are asked for in order, each after the one before it was
\* recorded as sent, across restarts and reconciliations (runtime/delivery.py:148-163).
THEOREM PartsAreInOrder == Spec => []PartsInOrder
<1>1. IInv => PartsInOrder
      BY DEF IInv
<1> QED BY <1>1, Invariance, PTL

\* The parts that follow one that was not sent have never been asked for.
LEMMA RestUntouched ==
  ASSUME IInv, NEW r \in Split, attempt[<<r, 1>>] = "not_sent", NEW i \in 1..PartsOf[r]
  PROVE  effect[<<r, i>>] \in {"none", "lost"}
<1>1. r \in Results /\ PartsOf[r] \in Nat
      BY DeliveryAssumption DEF Split
<1>2. <<r, i>> \in Messages /\ <<r, 1>> \in Messages
      BY <1>1, PartIsMessage, FirstIsMessage
<1>3. CASE i = 1
      BY <1>2, <1>3 DEF IInv, Asked
<1>4. CASE i # 1
  <2>1. 1 \in 1..(i - 1)
        BY <1>1, <1>4
  <2>2. ~(requests[<<r, i>>] > 0)
        BY <1>2, <2>1 DEF IInv, PartsInOrder
  <2>3. requests[<<r, i>>] = 0
        BY <1>2, <2>2 DEF IInv, Typed
  <2> QED BY <1>2, <2>3 DEF IInv, Asked
<1> QED BY <1>3, <1>4

\* A split answer recorded as sent has arrived whole; one recorded as not sent has not
\* arrived in any part, and will not (runtime/delivery.py:151-167).
THEOREM AggregatesAreTrue == Spec => []AggregateIsTrue
<1>1. ASSUME IInv, NEW r \in Split
      PROVE  /\ aggregate[r] = "sent" => \A i \in 1..PartsOf[r] : effect[<<r, i>>] = "made"
             /\ aggregate[r] = "not_sent" => \A i \in 1..PartsOf[r] : effect[<<r, i>>] \in {"none", "lost"}
  <2>1. \A i \in 1..PartsOf[r] : <<r, i>> \in Messages
        BY PartIsMessage DEF Split
  <2>2. aggregate[r] = "sent" => \A i \in 1..PartsOf[r] : effect[<<r, i>>] = "made"
        BY <1>1, <2>1 DEF IInv, Closed, Asked
  <2>3. aggregate[r] = "not_sent" => \A i \in 1..PartsOf[r] : effect[<<r, i>>] \in {"none", "lost"}
        BY <1>1, RestUntouched DEF IInv, Closed
  <2> QED BY <2>2, <2>3
<1>2. IInv => AggregateIsTrue
      BY <1>1 DEF AggregateIsTrue
<1> QED BY <1>2, Invariance, PTL

-----------------------------------------------------------------------------
(* The refinement of EffectOnce: for each step the step of the abstract      *)
(* specification it takes, if any.                                           *)

Bar == [m \in Messages |-> AttemptStatus(attempt[m])]

LEMMA InitRefines == Init => Once!Init
BY DEF Init, Once!Init, AttemptStatus

\* A step that leaves attempts, requests and effects alone is no step of theirs.
LEMMA Stutters ==
  ASSUME UNCHANGED <<attempt, requests, effect>>
  PROVE  UNCHANGED Once!vars
BY DEF Once!vars, AttemptStatus

LEMMA FenceRefines ==
  ASSUME IInv, NEW s \in Senders, Fence(s)
  PROVE  Once!Next
<1> DEFINE m == sender[s].message
<1>1. m \in Messages /\ attempt[m] = "none"
      BY DEF Fence, IInv, Busy
<1>2. attempt' = [attempt EXCEPT ![m] = "unknown"] /\ UNCHANGED <<requests, effect>>
      BY DEF Fence, provider
<1>3. Bar' = [Bar EXCEPT ![m] = "unknown"]
      BY <1>1, <1>2 DEF IInv, Typed, Bar, AttemptStatus
<1>4. Once!Fence(m)
      BY <1>1, <1>2, <1>3 DEF Once!Fence, Bar, AttemptStatus
<1> QED BY <1>1, <1>4 DEF Once!Next

LEMMA CallRefines ==
  ASSUME IInv, NEW s \in Senders, Call(s)
  PROVE  Once!Next
<1> DEFINE m == sender[s].message
<1>1. m \in Messages /\ attempt[m] = "unknown" /\ requests[m] = 0
      BY DEF Call, IInv, Busy, Knows
<1>2. /\ requests' = [requests EXCEPT ![m] = 1] /\ effect' = [effect EXCEPT ![m] = "inflight"]
      /\ UNCHANGED attempt
      BY <1>1 DEF IInv, Typed, Call, rows
<1>3. Once!Request(m)
      BY <1>1, <1>2 DEF Once!Request, AttemptStatus
<1> QED BY <1>1, <1>3 DEF Once!Next

\* Whoever settles an attempt, the sender or a reconciliation, knows what it says.
LEMMA KnownSettles ==
  ASSUME IInv, NEW m \in Messages, NEW x \in Outcomes,
         x = "sent" => effect[m] = "made",
         x = "not_sent" => effect[m] \in {"none", "lost"},
         attempt' = [attempt EXCEPT ![m] = IF @ = "unknown" THEN x ELSE @],
         UNCHANGED <<requests, effect>>
  PROVE  Once!Next \/ UNCHANGED Once!vars
<1>1. CASE attempt[m] = "unknown" /\ x = "sent"
  <2>1. attempt' = [attempt EXCEPT ![m] = "sent"]
        BY <1>1
  <2>2. Bar' = [Bar EXCEPT ![m] = "done"]
        BY <2>1 DEF IInv, Typed, Bar, AttemptStatus
  <2>3. Once!Settle(m)
        BY <1>1, <2>2 DEF Once!Settle, Bar, AttemptStatus
  <2> QED BY <2>3 DEF Once!Next
<1>2. CASE attempt[m] = "unknown" /\ x = "not_sent"
  <2>1. attempt' = [attempt EXCEPT ![m] = "not_sent"]
        BY <1>2
  <2>2. Bar' = [Bar EXCEPT ![m] = "undone"]
        BY <2>1 DEF IInv, Typed, Bar, AttemptStatus
  <2>3. Once!Settle(m)
        BY <1>2, <2>2 DEF Once!Settle, Bar, AttemptStatus
  <2> QED BY <2>3 DEF Once!Next
<1>3. CASE attempt[m] # "unknown" \/ x = "unknown"
  <2>1. UNCHANGED attempt
        BY <1>3 DEF IInv, Typed
  <2> QED BY <2>1, Stutters
<1> QED BY <1>1, <1>2, <1>3 DEF Outcomes

LEMMA SettleRefines ==
  ASSUME IInv, NEW s \in Senders, Settle(s)
  PROVE  Once!Next \/ UNCHANGED Once!vars
<1> DEFINE m == sender[s].message
<1>1. m \in Messages /\ sender[s].outcome \in Outcomes
      BY DEF IInv, Settle, Busy, Typed, Process
<1>2. /\ sender[s].outcome = "sent" => effect[m] = "made"
      /\ sender[s].outcome = "not_sent" => effect[m] \in {"none", "lost"}
      BY DEF IInv, Settle, Knows
<1>3. /\ attempt' = [attempt EXCEPT ![m] = IF @ = "unknown" THEN sender[s].outcome ELSE @]
      /\ UNCHANGED <<requests, effect>>
      BY DEF Settle, provider
<1> QED BY <1>1, <1>2, <1>3, KnownSettles

LEMMA ReconcileRefines ==
  ASSUME IInv, NEW m \in Messages, Reconcile(m)
  PROVE  Once!Next \/ UNCHANGED Once!vars
<1>1. PICK x \in Outcomes :
        /\ x = "sent" => effect[m] = "made"
        /\ x = "not_sent" => effect[m] \in {"none", "lost"}
        /\ attempt' = [attempt EXCEPT ![m] = IF @ = "unknown" THEN x ELSE @]
      BY DEF Reconcile, Outcomes
<1>2. UNCHANGED <<requests, effect>>
      BY DEF Reconcile, provider
<1> QED BY <1>1, <1>2, KnownSettles

LEMMA LandRefines ==
  ASSUME NEW m \in Messages, Land(m)
  PROVE  Once!Next
<1>1. UNCHANGED <<attempt, requests>>
      BY DEF Land, rows
<1>2. Once!Answer(m)
      BY <1>1 DEF Land, Once!Answer, AttemptStatus
<1> QED BY <1>2 DEF Once!Next

LEMMA StepRefines == IInv /\ [Next]_vars => [Once!Next]_(Once!vars)
<1> SUFFICES ASSUME IInv, [Next]_vars PROVE Once!Next \/ UNCHANGED Once!vars
    OBVIOUS
<1>1. ASSUME NEW s \in Senders, Sender(s) PROVE Once!Next \/ UNCHANGED Once!vars
  <2>1. CASE \/ OpenAggregate(s) \/ Reserve(s) \/ Abandon(s) \/ Prepare(s) \/ CloseAggregate(s)
             \/ UNCHANGED <<owner, rows, operation, pending, provider>>
    <3>1. UNCHANGED <<attempt, requests, effect>>
          BY <2>1 DEF OpenAggregate, Reserve, Abandon, Prepare, CloseAggregate, rows, provider
    <3> QED BY <3>1, Stutters
  <2> QED BY <1>1, <2>1, TablesKept, FenceRefines, CallRefines, SettleRefines
<1>2. CASE Elsewhere
  <2>1. ASSUME NEW m \in Messages, Reconcile(m) \/ Land(m)
        PROVE  Once!Next \/ UNCHANGED Once!vars
        BY <2>1, ReconcileRefines, LandRefines
  <2>2. ASSUME UNCHANGED <<attempt, requests, effect>>
        PROVE  Once!Next \/ UNCHANGED Once!vars
        BY <2>2, Stutters
  <2> QED BY <1>2, <2>1, <2>2
          DEF Elsewhere, Complete, Delete, Revoke, ReconcileAggregate, ReadPending, rows, provider
<1>3. CASE UNCHANGED vars
  <2>1. UNCHANGED <<attempt, requests, effect>>
        BY <1>3 DEF vars, rows, provider
  <2> QED BY <2>1, Stutters
<1> QED BY <1>1, <1>2, <1>3 DEF Next, Elsewhere

\* Every message is an effect as EffectOnce describes it: asked for once, never without
\* its attempt, settled once and truly (runtime/delivery.py:245-345).
THEOREM ImplementsEffectOnce == Spec => EachMessageTakesEffectOnce
<1>1. Spec => Once!Init
      BY InitRefines DEF Spec
<1> QED BY <1>1, Invariance, StepRefines, PTL DEF Spec, EachMessageTakesEffectOnce, Once!Spec

\* The theorem about EffectOnce, for these effects.
Proved == INSTANCE EffectOnceProofs WITH
  Effects <- Messages,
  attempt <- [m \in Messages |-> AttemptStatus(attempt[m])]

\* So the promise of EffectOnce is kept for every message: one request at most, an
\* attempt before it, and sent or not sent recorded only of what was or will never be.
THEOREM MessagesKeepPromise == Spec => []Once!Promise
<1>1. Once!Init => Proved!Init
      BY DEF Once!Init, Proved!Init
<1>2. [Once!Next]_(Once!vars) => [Proved!Next]_(Proved!vars)
      BY DEF Once!Next, Once!vars, Proved!Next, Proved!vars, Once!Fence, Proved!Fence,
         Once!Request, Proved!Request, Once!Answer, Proved!Answer, Once!Settle, Proved!Settle
<1>3. Proved!Promise => Once!Promise
      BY DEF Once!Promise, Proved!Promise
<1>4. Proved!Spec => []Proved!Promise
      BY Proved!PromiseKept
<1> QED BY <1>1, <1>2, <1>3, <1>4, ImplementsEffectOnce, PTL
       DEF EachMessageTakesEffectOnce, Once!Spec, Proved!Spec

=============================================================================
