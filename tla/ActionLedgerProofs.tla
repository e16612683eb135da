------------------------- MODULE ActionLedgerProofs -------------------------
(* Theorems about ActionLedger, for any number of proposals, versions and   *)
(* workers, and the proof that it implements EffectOnce.                    *)
EXTENDS ActionLedger, TLAPS

-----------------------------------------------------------------------------
(* The columns of the tables and the fields of what a worker remembers.     *)

Phases == {"idle", "asked", "loaded", "checked", "confirmed", "reserved", "executing",
           "fenced", "calling", "answered"}

Proposal == [version: 0..MaxVersion, live: BOOLEAN,
             status: {"none", "prepared", "consumed", "cancelled"}]
Confirmation == [status: {"none", "open", "consumed"}, live: BOOLEAN]
Caller == [phase: Phases, by: {"yes", "command"}, key: Keys \cup {Nothing},
           guarded: BOOLEAN, outcome: {"unknown", "succeeded"}]
Attempts == {"none", "unknown"} \cup Settled
Previews == {"none", "registered", "shown", "delivered"}
Holdings == {"none", "held", "spent"}
Fates == {"none", "inflight", "made", "lost"}

Typed ==
  /\ proposal \in [Proposals -> Proposal]
  /\ confirmation \in [Keys -> Confirmation]
  /\ attempt \in [Keys -> Attempts]
  /\ preview \in [Keys -> Previews]
  /\ visible \in Keys \cup {Nothing}
  /\ caller \in [Callers -> Caller]
  /\ reservation \in [Callers -> Holdings]
  /\ calls \in [Keys -> Nat]
  /\ effect \in [Keys -> Fates]

\* From its fence on, a worker has an attempt on record.
PastFence(c) == caller[c].phase \in {"fenced", "calling", "answered"}
Attempted == \A c \in Callers : PastFence(c) => attempt[caller[c].key] # "none"

LEMMA TypeParts == TypeOK <=> Typed /\ Attempted
BY DEF TypeOK, Typed, Attempted, PastFence, Phases, Caller, Proposal, Confirmation, Attempts,
       Previews, Holdings, Fates

-----------------------------------------------------------------------------
(* The inductive invariant.                                                 *)

\* A worker that is not idle is about a version.
Busy == \A c \in Callers : caller[c].phase # "idle" => caller[c].key \in Keys

\* A version yet to come has left no trace.
Versions ==
  /\ \A p \in Proposals : proposal[p].status = "none" => proposal[p].version = 0
  /\ \A k \in Keys : k[2] > proposal[k[1]].version => preview[k] = "none" /\ attempt[k] = "none"

\* What is visible was shown, and whoever compared a version with it, or executes
\* one, has a version that was shown.
WasShown(k) == preview[k] \in {"shown", "delivered"}

Compared(c) ==
  caller[c].phase \in {"checked", "confirmed", "reserved", "executing", "fenced", "calling", "answered"}

Seen ==
  /\ visible # Nothing => WasShown(visible)
  /\ \A c \in Callers : Compared(c) => WasShown(caller[c].key)
  /\ \A k \in Keys : attempt[k] # "none" => WasShown(k)

\* The attempt of a version is one worker's.
OneSender ==
  \A c, d \in Callers : PastFence(c) /\ PastFence(d) /\ caller[c].key = caller[d].key => c = d

\* Nothing is asked without an attempt, by whom it was asked already, or
\* recorded as done unless it is.
Asked ==
  /\ \A k \in Keys :
       /\ attempt[k] = "none" => calls[k] = 0
       /\ calls[k] = 0 => effect[k] = "none"
       /\ attempt[k] = "succeeded" => effect[k] = "made"
  /\ \A c \in Callers :
       /\ caller[c].phase = "fenced" => calls[caller[c].key] = 0
       /\ caller[c].phase = "answered" /\ caller[c].outcome = "succeeded"
            => effect[caller[c].key] = "made"

IInv ==
  /\ Typed /\ Attempted /\ Busy /\ Versions /\ OneUse /\ DispatchExcludesChange
  /\ Seen /\ OneSender /\ Asked

-----------------------------------------------------------------------------
(* Every conjunct is preserved.                                             *)

LEMMA KeyParts ==
  ASSUME NEW k \in Keys
  PROVE  k[1] \in Proposals /\ k[2] \in 1..MaxVersion /\ k = <<k[1], k[2]>>
BY DEF Keys

LEMMA InitIInv == Init => IInv
<1> SUFFICES ASSUME Init PROVE IInv
    OBVIOUS
<1> USE ActionAssumption DEF Init, Idle, NoProposal, NoConfirmation
<1>1. TypeOK
      BY DEF TypeOK, Settled
<1>2. Busy /\ OneSender /\ Asked /\ DispatchExcludesChange
      BY DEF Busy, OneSender, PastFence, Asked, DispatchExcludesChange
<1>3. Versions /\ OneUse /\ Seen
      BY KeyParts DEF Versions, OneUse, Seen, Compared
<1> QED BY <1>1, <1>2, <1>3, TypeParts DEF IInv

\* A worker goes on, or is done.
LEMMA GotoType ==
  ASSUME Typed, NEW c \in Callers, NEW x \in Phases
  PROVE  Goto(c, x) \in [Callers -> Caller]
BY DEF Typed, Goto, Caller

LEMMA BackType ==
  ASSUME Typed, NEW c \in Callers
  PROVE  Back(c) \in [Callers -> Caller]
BY DEF Typed, Back, Idle, Caller, Phases

\* What a worker's step does to the records of the workers.
LEMMA WorkerType ==
  ASSUME Typed, Busy, NEW c \in Callers, Worker(c)
  PROVE  caller' \in [Callers -> Caller]
<1> USE DEF Typed
<1>0. caller[c] \in Caller
      OBVIOUS
<1>1. ASSUME NEW k \in Keys, Yes(c, k) \/ Command(c, k) PROVE caller' \in [Callers -> Caller]
  <2>1. [Idle EXCEPT !.phase = "asked", !.key = k] \in Caller
        BY DEF Idle, Caller, Phases
  <2>2. [Idle EXCEPT !.phase = "asked", !.by = "command", !.key = k] \in Caller
        BY DEF Idle, Caller, Phases
  <2> QED BY <1>1, <2>1, <2>2 DEF Yes, Command
<1>2. CASE CheckVisible(c)
  <2>1. visible = Current(caller[c].key[1]) => Current(caller[c].key[1]) \in Keys
        BY DEF Current, Nothing
  <2>2. ASSUME NEW k \in Keys PROVE [caller[c] EXCEPT !.phase = "checked", !.key = k] \in Caller
        BY <1>0 DEF Caller, Phases
  <2>3. CASE caller' = Back(c)
        BY <2>3, BackType
  <2>4. CASE visible = Current(caller[c].key[1])
    <3>1. caller' = [caller EXCEPT ![c] = [caller[c] EXCEPT !.phase = "checked",
                                                            !.key = Current(caller[c].key[1])]]
          BY <1>2, <2>4 DEF CheckVisible
    <3> QED BY <3>1, <2>1, <2>2, <2>4
  <2> QED BY <1>2, <2>3, <2>4 DEF CheckVisible
<1>3. CASE LoadProposal(c) \/ GiveUp(c) \/ Confirm(c) \/ Reserve(c) \/ Crash(c)
      BY <1>3, GotoType, BackType DEF LoadProposal, GiveUp, Confirm, Reserve, Crash, Phases
<1>4. CASE FindAttempt(c) \/ Fence(c) \/ FenceRefused(c) \/ Put(c)
      BY <1>4, GotoType, BackType DEF FindAttempt, Fence, FenceRefused, Put, Phases
<1>5. CASE Dispatch(c) \/ DispatchRefused(c)
  <2>1. /\ [caller[c] EXCEPT !.phase = "calling", !.guarded = TRUE] \in Caller
        /\ [caller[c] EXCEPT !.phase = "answered", !.outcome = "unknown"] \in Caller
        BY <1>0 DEF Caller, Phases
  <2>2. \/ caller' = [caller EXCEPT ![c] = [caller[c] EXCEPT !.phase = "calling", !.guarded = TRUE]]
        \/ caller' = [caller EXCEPT ![c] = [caller[c] EXCEPT !.phase = "answered", !.outcome = "unknown"]]
        BY <1>5 DEF Dispatch, DispatchRefused
  <2> QED BY <2>1, <2>2
<1>6. CASE LoseSession(c) \/ Answered(c)
  <2>1. [caller[c] EXCEPT !.guarded = FALSE] \in Caller
        BY <1>0 DEF Caller
  <2>2. ASSUME NEW x \in {"succeeded", "unknown"}
        PROVE  [caller[c] EXCEPT !.phase = "answered", !.guarded = FALSE, !.outcome = x] \in Caller
        BY <1>0 DEF Caller, Phases
  <2>3. \/ caller' = [caller EXCEPT ![c] = [caller[c] EXCEPT !.guarded = FALSE]]
        \/ \E x \in {"succeeded", "unknown"} :
             caller' = [caller EXCEPT ![c] = [caller[c] EXCEPT !.phase = "answered",
                                                               !.guarded = FALSE, !.outcome = x]]
        BY <1>6 DEF LoseSession, Answered
  <2> QED BY <2>1, <2>2, <2>3
<1> QED BY <1>1, <1>2, <1>3, <1>4, <1>5, <1>6 DEF Worker, Execute

LEMMA TypeStep == Typed /\ Busy /\ [Next]_vars => Typed'
<1> SUFFICES ASSUME Typed, Busy, [Next]_vars PROVE Typed'
    OBVIOUS
<1> USE DEF Typed
<1>1. ASSUME NEW p \in Proposals, Register(p) \/ Edit(p) PROVE Typed'
  <2>1. proposal' \in [Proposals -> Proposal]
    <3>1. CASE Register(p)
          BY <3>1, ActionAssumption DEF Register, Proposal
    <3>2. CASE Edit(p)
      <4>1. proposal[p].version + 1 \in 0..MaxVersion
            BY <3>2, ActionAssumption DEF Edit
      <4> QED BY <3>2, <4>1 DEF Edit, Proposal
    <3> QED BY <1>1, <3>1, <3>2
  <2>2. preview' \in [Keys -> Previews]
        BY <1>1 DEF Register, Edit, Previews
  <2> QED BY <1>1, <2>1, <2>2 DEF Register, Edit, provider
<1>2. ASSUME NEW k \in Keys, Show(k) \/ Deliver(k) \/ ExpireConfirmation(k) PROVE Typed'
  <2>1. confirmation' \in [Keys -> Confirmation]
        BY <1>2 DEF Show, Deliver, ExpireConfirmation, Confirmation, rows
  <2>2. preview' \in [Keys -> Previews]
        BY <1>2 DEF Show, Deliver, ExpireConfirmation, Previews, chat
  <2> QED BY <1>2, <2>1, <2>2 DEF Show, Deliver, ExpireConfirmation, rows, chat, provider
<1>3. ASSUME NEW p \in Proposals, Cancel(p) \/ ExpireProposal(p) PROVE Typed'
  <2>1. proposal' \in [Proposals -> Proposal]
        BY <1>3 DEF Cancel, ExpireProposal, Proposal
  <2> QED BY <1>3, <2>1 DEF Cancel, ExpireProposal, chat, provider
<1>4. CASE Hide
      BY <1>4 DEF Hide, rows, provider
<1>5. ASSUME NEW k \in Keys, Land(k) \/ Reconcile(k) PROVE Typed'
  <2>1. attempt' \in [Keys -> Attempts] /\ effect' \in [Keys -> Fates]
        BY <1>5 DEF Land, Reconcile, Attempts, Settled, Fates, rows, provider
  <2> QED BY <1>5, <2>1 DEF Land, Reconcile, rows, chat, provider
<1>6. ASSUME NEW c \in Callers, Worker(c) PROVE Typed'
  <2>1. caller' \in [Callers -> Caller]
        BY <1>6, WorkerType
  <2> USE <2>1
  <2>2. ASSUME NEW k \in Keys, Yes(c, k) \/ Command(c, k) PROVE Typed'
        BY <2>2 DEF Yes, Command, rows, chat, provider
  <2>3. CASE LoadProposal(c) \/ CheckVisible(c) \/ GiveUp(c) \/ FenceRefused(c)
        BY <2>3 DEF LoadProposal, CheckVisible, GiveUp, FenceRefused, rows, chat, provider
  <2>4. CASE Confirm(c)
    <3>1. confirmation' \in [Keys -> Confirmation]
          BY <2>4 DEF Confirm, Confirmation
    <3> QED BY <2>4, <3>1 DEF Confirm, chat, provider
  <2>5. CASE Reserve(c) \/ FindAttempt(c) \/ DispatchRefused(c) \/ LoseSession(c) \/ Answered(c) \/ Crash(c)
    <3>1. reservation' \in [Callers -> Holdings]
          BY <2>5 DEF Reserve, FindAttempt, DispatchRefused, LoseSession, Answered, Crash, Holdings
    <3> QED BY <2>5, <3>1 DEF Reserve, FindAttempt, DispatchRefused, LoseSession, Answered, Crash,
                              rows, chat, provider
  <2>6. CASE Fence(c)
    <3>1. proposal' \in [Proposals -> Proposal]
          BY <2>6 DEF Fence, Proposal
    <3>2. confirmation' \in [Keys -> Confirmation] /\ attempt' \in [Keys -> Attempts]
          BY <2>6 DEF Fence, Confirmation, Attempts
    <3> QED BY <2>6, <3>1, <3>2 DEF Fence, chat, provider
  <2>7. CASE Dispatch(c)
    <3>1. reservation' \in [Callers -> Holdings]
          BY <2>7 DEF Dispatch, Holdings
    <3>2. calls' \in [Keys -> Nat]
          BY <2>7 DEF Dispatch, Busy
    <3>3. effect' \in [Keys -> Fates]
          BY <2>7 DEF Dispatch, Fates
    <3> QED BY <2>7, <3>1, <3>2, <3>3 DEF Dispatch, rows, chat
  <2>8. CASE Put(c)
    <3>1. caller[c].outcome \in Attempts
          BY DEF Caller, Attempts, Settled
    <3>2. attempt' \in [Keys -> Attempts]
          BY <2>8, <3>1 DEF Put
    <3>3. reservation' \in [Callers -> Holdings]
          BY <2>8 DEF Put, Holdings
    <3> QED BY <2>8, <3>2, <3>3 DEF Put, chat, provider
  <2> QED BY <1>6, <2>2, <2>3, <2>4, <2>5, <2>6, <2>7, <2>8 DEF Worker, Execute
<1>7. CASE UNCHANGED vars
      BY <1>7 DEF vars, rows, chat, provider
<1> QED BY <1>1, <1>2, <1>3, <1>4, <1>5, <1>6, <1>7 DEF Next, Owner, Provider

\* A worker's step touches no other worker, and most touch no table.
LEMMA OthersKept ==
  ASSUME Typed, NEW c \in Callers, Worker(c)
  PROVE  \A d \in Callers \ {c} : caller'[d] = caller[d]
BY DEF Typed, Worker, Yes, Command, LoadProposal, CheckVisible, GiveUp, Confirm, Reserve, Execute,
       FindAttempt, Fence, FenceRefused, Dispatch, DispatchRefused, LoseSession, Answered, Put,
       Crash, Goto, Back

LEMMA TablesKept ==
  ASSUME NEW c \in Callers, Worker(c)
  PROVE  \/ Confirm(c) \/ Fence(c) \/ Dispatch(c) \/ Put(c)
         \/ UNCHANGED <<rows, chat, provider>>
BY DEF Worker, Yes, Command, LoadProposal, CheckVisible, GiveUp, Reserve, Execute,
       FindAttempt, FenceRefused, DispatchRefused, LoseSession, Answered, Crash

LEMMA WorkersKept ==
  ASSUME Owner \/ Provider \/ UNCHANGED vars
  PROVE  UNCHANGED caller
BY DEF Owner, Provider, Hide, Register, Edit, Cancel, ExpireProposal, Show, Deliver,
       ExpireConfirmation, Land, Reconcile, vars

\* How a worker can be where it is after its step.
LEMMA WorkerMoves ==
  ASSUME Typed, NEW c \in Callers, Worker(c)
  PROVE  /\ caller'[c].phase \in {"loaded", "confirmed", "reserved", "executing", "fenced", "calling", "answered"}
              => caller'[c].key = caller[c].key
         /\ caller'[c].phase = "loaded" => caller[c].phase = "asked"
         /\ caller'[c].phase = "confirmed" => caller[c].phase = "checked" /\ Confirm(c)
         /\ caller'[c].phase = "reserved" => caller[c].phase = "confirmed"
         /\ caller'[c].phase = "executing" => caller[c].phase = "reserved"
         /\ caller'[c].phase = "fenced" => Fence(c)
         /\ caller'[c].phase = "calling" => Dispatch(c) \/ (LoseSession(c) /\ ~caller'[c].guarded)
         /\ caller'[c].phase = "answered" => DispatchRefused(c) \/ Answered(c)
         /\ caller'[c].phase = "asked" => \E k \in Keys : (Yes(c, k) \/ Command(c, k)) /\ caller'[c].key = k
         /\ caller'[c].phase = "checked" => CheckVisible(c) /\ caller'[c].key = visible /\ visible # Nothing
<1> USE DEF Typed, Caller
<1>1. ASSUME NEW k \in Keys, Yes(c, k) \/ Command(c, k) 
      PROVE  caller'[c].phase = "asked" /\ caller'[c].key = k
  <2>1. CASE Yes(c, k)
        BY <2>1 DEF Yes, Idle
  <2>2. CASE Command(c, k)
        BY <2>2 DEF Command, Idle
  <2> QED BY <1>1, <2>1, <2>2
<1>2. CASE CheckVisible(c)
  <2>1. Current(caller[c].key[1]) # Nothing
        BY DEF Current, Nothing
  <2> QED BY <1>2, <2>1 DEF CheckVisible, Back, Idle
<1>3. CASE LoadProposal(c) \/ GiveUp(c) \/ Confirm(c) \/ Reserve(c) \/ Crash(c)
      BY <1>3 DEF LoadProposal, GiveUp, Confirm, Reserve, Crash, Goto, Back, Idle
<1>4. CASE FindAttempt(c) \/ Fence(c) \/ FenceRefused(c) \/ Put(c)
      BY <1>4 DEF FindAttempt, Fence, FenceRefused, Put, Goto, Back, Idle
<1>5. CASE Dispatch(c)
      BY <1>5 DEF Dispatch
<1>6. CASE DispatchRefused(c)
      BY <1>6 DEF DispatchRefused
<1>7. CASE LoseSession(c)
      BY <1>7 DEF LoseSession
<1>8. CASE Answered(c)
  <2>1. PICK x \in {"succeeded", "unknown"} :
          caller' = [caller EXCEPT ![c] = [caller[c] EXCEPT !.phase = "answered",
                                                            !.guarded = FALSE, !.outcome = x]]
        BY <1>8 DEF Answered
  <2>2. caller'[c] = [caller[c] EXCEPT !.phase = "answered", !.guarded = FALSE, !.outcome = x]
        BY <2>1
  <2> QED BY <1>8, <2>2
<1> QED BY <1>1, <1>2, <1>3, <1>4, <1>5, <1>6, <1>7, <1>8 DEF Worker, Execute

LEMMA BusyStep == Typed /\ Busy /\ [Next]_vars => Busy'
<1> SUFFICES ASSUME Typed, Busy, [Next]_vars PROVE Busy'
    OBVIOUS
<1>1. ASSUME NEW c \in Callers, Worker(c) PROVE Busy'
  <2>1. caller' \in [Callers -> Caller]
        BY <1>1, WorkerType
  <2>2. caller'[c].phase # "idle" => caller'[c].key \in Keys
    <3>1. caller'[c].phase \in Phases
          BY <2>1 DEF Caller
    <3>2. CASE caller'[c].phase \in {"asked", "checked"}
          BY <1>1, <3>2, WorkerMoves DEF Typed
    <3>3. CASE caller'[c].phase \in {"loaded", "confirmed", "reserved", "executing"}
          BY <1>1, <3>3, WorkerMoves DEF Busy
    <3>4. CASE caller'[c].phase \in {"fenced", "calling", "answered"}
      <4>1. caller[c].phase # "idle"
            BY <1>1, <3>4, WorkerMoves DEF Fence, Dispatch, LoseSession, DispatchRefused, Answered
      <4> QED BY <1>1, <3>4, <4>1, WorkerMoves DEF Busy
    <3> QED BY <3>1, <3>2, <3>3, <3>4 DEF Phases
  <2> QED BY <1>1, <2>2, OthersKept DEF Busy
<1>2. CASE Owner \/ Provider \/ UNCHANGED vars
      BY <1>2, WorkersKept DEF Busy
<1> QED BY <1>1, <1>2 DEF Next

\* The version a worker has fenced is the one it held before.
LEMMA PastFenceMoves ==
  ASSUME Typed, Busy, NEW c \in Callers, Worker(c), PastFence(c)'
  PROVE  /\ PastFence(c) \/ Fence(c)
         /\ caller'[c].key = caller[c].key /\ caller[c].key \in Keys
<1>1. caller'[c].phase \in {"fenced", "calling", "answered"}
      BY DEF PastFence
<1>2. Fence(c) \/ Dispatch(c) \/ LoseSession(c) \/ DispatchRefused(c) \/ Answered(c)
      BY <1>1, WorkerMoves
<1>3. PastFence(c) \/ Fence(c)
      BY <1>2 DEF Dispatch, LoseSession, DispatchRefused, Answered, PastFence
<1>4. caller[c].phase # "idle"
      BY <1>2 DEF Fence, Dispatch, LoseSession, DispatchRefused, Answered
<1> QED BY <1>1, <1>3, <1>4, WorkerMoves DEF Busy

LEMMA AttemptedStep == Typed /\ Busy /\ Attempted /\ [Next]_vars => Attempted'
<1> SUFFICES ASSUME Typed, Busy, Attempted, [Next]_vars PROVE Attempted'
    OBVIOUS
<1>1. \A k \in Keys : attempt[k] # "none" => attempt'[k] # "none"
  <2>1. ASSUME NEW c \in Callers, Worker(c)
        PROVE  \A k \in Keys : attempt[k] # "none" => attempt'[k] # "none"
    <3>1. caller[c].outcome # "none"
          BY DEF Typed, Caller
    <3> QED BY <2>1, <3>1, TablesKept DEF Typed, Confirm, Fence, Dispatch, Put, rows
  <2>2. CASE Owner \/ Provider \/ UNCHANGED vars
        BY <2>2 DEF Typed, Owner, Provider, Hide, Register, Edit, Cancel, ExpireProposal, Show, Deliver,
           ExpireConfirmation, Land, Reconcile, rows, vars
  <2> QED BY <2>1, <2>2 DEF Next
<1>2. ASSUME NEW c \in Callers, Worker(c) PROVE Attempted'
  <2>1. ASSUME PastFence(c)' PROVE attempt'[caller'[c].key] # "none"
    <3>1. CASE PastFence(c)
          BY <1>1, <1>2, <2>1, <3>1, PastFenceMoves DEF Attempted
    <3>2. CASE Fence(c)
          BY <1>2, <2>1, <3>2, PastFenceMoves DEF Fence, Typed
    <3> QED BY <1>2, <2>1, <3>1, <3>2, PastFenceMoves
  <2>2. ASSUME NEW d \in Callers \ {c}, PastFence(d)' PROVE attempt'[caller'[d].key] # "none"
    <3>1. caller'[d] = caller[d]
          BY <1>2, OthersKept
    <3> QED BY <1>1, <2>2, <3>1 DEF Attempted, PastFence, Busy
  <2> QED BY <2>1, <2>2 DEF Attempted
<1>3. CASE Owner \/ Provider \/ UNCHANGED vars
      BY <1>1, <1>3, WorkersKept DEF Attempted, PastFence, Busy
<1> QED BY <1>2, <1>3 DEF Next

\* Cancelling and expiring leave versions as they are.
LEMMA CancelKeeps ==
  ASSUME Typed, NEW p \in Proposals, Cancel(p) \/ ExpireProposal(p)
  PROVE  \A q \in Proposals : /\ proposal'[q].version = proposal[q].version
                             /\ proposal'[q].status \in {proposal[q].status, "cancelled"}
<1> USE DEF Typed, Proposal
<1>1. CASE Cancel(p)
      BY <1>1 DEF Cancel
<1>2. CASE ExpireProposal(p)
      BY <1>2 DEF ExpireProposal
<1> QED BY <1>1, <1>2

LEMMA VersionsStep == Typed /\ Busy /\ Versions /\ [Next]_vars => Versions'
<1> SUFFICES ASSUME Typed, Busy, Versions, [Next]_vars PROVE Versions'
    OBVIOUS
<1> USE KeyParts DEF Typed, Versions
<1>1. ASSUME NEW p \in Proposals, Register(p) \/ Edit(p) PROVE Versions'
  <2>1. proposal'[p].version > proposal[p].version /\ proposal'[p].status = "prepared"
        BY <1>1 DEF Register, Edit, Proposal
  <2>2. \A q \in Proposals \ {p} : proposal'[q] = proposal[q]
        BY <1>1 DEF Register, Edit
  <2>3. \A k \in Keys : k # <<p, proposal'[p].version>> => preview'[k] = preview[k]
        BY <1>1 DEF Register, Edit
  <2>4. \A q \in Proposals : proposal'[q].version >= proposal[q].version
    <3>1. \A q \in Proposals : proposal[q].version \in Nat /\ proposal[q].version >= proposal[q].version
          BY ActionAssumption DEF Proposal
    <3>2. ASSUME NEW q \in Proposals PROVE proposal'[q].version >= proposal[q].version
      <4>1. CASE q = p
            BY <1>1, <3>1, <4>1 DEF Register, Edit
      <4>2. CASE q # p
            BY <2>2, <3>1, <4>2
      <4> QED BY <4>1, <4>2
    <3> QED BY <3>2
  <2>5. proposal' \in [Proposals -> Proposal]
        BY <1>1, TypeStep DEF Next, Owner
  <2>6. ASSUME NEW k \in Keys, k[2] > proposal'[k[1]].version
        PROVE  preview'[k] = "none" /\ attempt'[k] = "none"
    <3>1. k[2] > proposal[k[1]].version
          BY <2>4, <2>5, <2>6 DEF Proposal
    <3>2. k # <<p, proposal'[p].version>>
          BY <2>5, <2>6 DEF Proposal
    <3> QED BY <1>1, <2>3, <3>1, <3>2 DEF Register, Edit
  <2> QED BY <2>1, <2>2, <2>6
<1>2. ASSUME NEW k \in Keys, Show(k) \/ Deliver(k) \/ ExpireConfirmation(k) PROVE Versions'
      BY <1>2 DEF Show, Deliver, ExpireConfirmation, rows, chat
<1>3. ASSUME NEW p \in Proposals, Cancel(p) \/ ExpireProposal(p) PROVE Versions'
      BY <1>3, CancelKeeps DEF Cancel, ExpireProposal, Proposal, chat
<1>4. CASE Hide
      BY <1>4 DEF Hide, rows
<1>5. ASSUME NEW k \in Keys, Land(k) \/ Reconcile(k) PROVE Versions'
      BY <1>5 DEF Land, Reconcile, rows, chat
<1>6. ASSUME NEW c \in Callers, Worker(c) PROVE Versions'
  <2>1. CASE Fence(c)
        BY <2>1 DEF Fence, CanFence, Current, Busy, Proposal, chat
  <2>2. CASE Confirm(c) \/ Dispatch(c) \/ Put(c) \/ UNCHANGED <<rows, chat, provider>>
        BY <2>2 DEF Confirm, Dispatch, Put, rows, chat
  <2> QED BY <1>6, <2>1, <2>2, TablesKept
<1>7. CASE UNCHANGED vars
      BY <1>7 DEF vars, rows, chat
<1> QED BY <1>1, <1>2, <1>3, <1>4, <1>5, <1>6, <1>7 DEF Next, Owner, Provider

LEMMA OneUseStep == Typed /\ Busy /\ Versions /\ OneUse /\ [Next]_vars => OneUse'
<1> SUFFICES ASSUME Typed, Busy, Versions, OneUse, [Next]_vars PROVE OneUse'
    OBVIOUS
<1> USE KeyParts DEF Typed, OneUse, Current
<1>1. ASSUME NEW p \in Proposals, Register(p) \/ Edit(p) PROVE OneUse'
  <2>1. proposal'[p].version > proposal[p].version
        BY <1>1 DEF Register, Edit, Proposal
  <2>2. \A q \in Proposals \ {p} : proposal'[q] = proposal[q]
        BY <1>1 DEF Register, Edit
  <2>3. ASSUME NEW k \in Keys, attempt[k] # "none", k[1] = p PROVE k # <<p, proposal'[p].version>>
        BY <2>1, <2>3 DEF Versions, Proposal
  <2> QED BY <1>1, <2>2, <2>3 DEF Register, Edit
<1>2. ASSUME NEW k \in Keys, Show(k) \/ Deliver(k) \/ ExpireConfirmation(k) PROVE OneUse'
      BY <1>2 DEF Show, Deliver, ExpireConfirmation, Confirmation, rows
<1>3. ASSUME NEW p \in Proposals, Cancel(p) \/ ExpireProposal(p) PROVE OneUse'
      BY <1>3, CancelKeeps DEF Cancel, ExpireProposal
<1>4. CASE Hide
      BY <1>4 DEF Hide, rows
<1>5. ASSUME NEW k \in Keys, Land(k) \/ Reconcile(k) PROVE OneUse'
      BY <1>5 DEF Land, Reconcile, rows
<1>6. ASSUME NEW c \in Callers, Worker(c) PROVE OneUse'
  <2>1. CASE Confirm(c)
    <3>1. confirmation[Current(caller[c].key[1])].status # "consumed"
          BY <2>1 DEF Confirm, CanConfirm
    <3> QED BY <2>1, <3>1 DEF Confirm
  <2>2. CASE Fence(c)
    <3> DEFINE k == caller[c].key
    <3>1. k \in Keys
          BY <2>2 DEF Fence, Busy
    <3>2. /\ attempt' = [attempt EXCEPT ![k] = "unknown"]
          /\ confirmation'[k].status = "consumed"
          /\ \A j \in Keys \ {k} : confirmation'[j] = confirmation[j]
          BY <2>2, <3>1 DEF Fence
    <3>3. /\ proposal'[k[1]].status = "consumed" /\ proposal'[k[1]].version = proposal[k[1]].version
          /\ \A p \in Proposals \ {k[1]} : proposal'[p] = proposal[p]
          BY <2>2, <3>1 DEF Fence, Proposal
    <3> QED BY <3>1, <3>2, <3>3
  <2>3. CASE Put(c)
    <3>1. caller[c].outcome # "none"
          BY DEF Caller
    <3> QED BY <2>3, <3>1 DEF Put
  <2>4. CASE Dispatch(c) \/ UNCHANGED <<rows, chat, provider>>
        BY <2>4 DEF Dispatch, rows
  <2> QED BY <1>6, <2>1, <2>2, <2>3, <2>4, TablesKept
<1>7. CASE UNCHANGED vars
      BY <1>7 DEF vars, rows
<1> QED BY <1>1, <1>2, <1>3, <1>4, <1>5, <1>6, <1>7 DEF Next, Owner, Provider

\* An attempt is inserted once, so it is one worker's.
LEMMA OneSenderStep ==
  Typed /\ Busy /\ Attempted /\ OneUse /\ OneSender /\ [Next]_vars => OneSender'
<1> SUFFICES ASSUME Typed, Busy, Attempted, OneUse, OneSender, [Next]_vars PROVE OneSender'
    OBVIOUS
<1>1. ASSUME NEW c \in Callers, Worker(c) PROVE OneSender'
  <2>1. ASSUME NEW d \in Callers \ {c}, PastFence(c)', PastFence(d), caller'[c].key = caller[d].key
        PROVE  FALSE
    <3>1. CASE PastFence(c)
          BY <1>1, <2>1, <3>1, PastFenceMoves DEF OneSender
    <3>2. CASE Fence(c)
      <4>1. attempt[caller[c].key] = "none"
            BY <1>1, <2>1, <3>2, PastFenceMoves DEF Fence, CanFence, OneUse
      <4> QED BY <1>1, <2>1, <4>1, PastFenceMoves DEF Attempted
    <3> QED BY <1>1, <2>1, <3>1, <3>2, PastFenceMoves
  <2> QED BY <1>1, <2>1, OthersKept DEF OneSender, PastFence
<1>2. CASE Owner \/ Provider \/ UNCHANGED vars
      BY <1>2, WorkersKept DEF OneSender, PastFence
<1> QED BY <1>1, <1>2 DEF Next

\* Whoever may change a proposal waits for the row a guarded request holds.
LEMMA DispatchStep ==
  Typed /\ Busy /\ Attempted /\ Versions /\ OneUse /\ DispatchExcludesChange /\ [Next]_vars
    => DispatchExcludesChange'
<1> SUFFICES ASSUME Typed, Busy, Attempted, Versions, OneUse, DispatchExcludesChange, [Next]_vars
             PROVE  DispatchExcludesChange'
    OBVIOUS
<1> DEFINE Guarding(c) == caller[c].phase = "calling" /\ caller[c].guarded
<1> USE KeyParts DEF Typed
<1>1. ASSUME NEW c \in Callers, Guarding(c), UNCHANGED caller,
             proposal'[caller[c].key[1]].version = proposal[caller[c].key[1]].version,
             proposal'[caller[c].key[1]].status = proposal[caller[c].key[1]].status
      PROVE  /\ (Current(caller[c].key[1]) = caller[c].key)'
             /\ (proposal[caller[c].key[1]].status = "consumed")'
      BY <1>1 DEF DispatchExcludesChange, Current
<1>2. ASSUME NEW p \in Proposals, Register(p) \/ Edit(p) \/ Cancel(p) PROVE DispatchExcludesChange'
  <2>1. ASSUME NEW c \in Callers, Guarding(c) PROVE caller[c].key[1] # p
    <3>1. caller[c].key \in Keys /\ Current(caller[c].key[1]) = caller[c].key
          BY <2>1 DEF Busy, DispatchExcludesChange
    <3>2. CASE Register(p)
      <4>1. proposal[caller[c].key[1]].version \in 1..MaxVersion
            BY <3>1 DEF Current
      <4> QED BY <3>2, <4>1 DEF Register
    <3>3. CASE Edit(p) \/ Cancel(p)
          BY <2>1, <3>3 DEF Edit, Cancel, Locked
    <3> QED BY <1>2, <3>2, <3>3
  <2>2. \A q \in Proposals \ {p} : proposal'[q] = proposal[q]
        BY <1>2 DEF Register, Edit, Cancel
  <2>3. UNCHANGED caller
        BY <1>2 DEF Register, Edit, Cancel
  <2>4. \A c \in Callers : Guarding(c) => caller[c].key[1] \in Proposals
        BY DEF Busy
  <2> QED BY <1>1, <2>1, <2>2, <2>3, <2>4 DEF DispatchExcludesChange, Current
<1>3. ASSUME NEW p \in Proposals, ExpireProposal(p) PROVE DispatchExcludesChange'
      BY <1>3 DEF ExpireProposal, DispatchExcludesChange, Current, Busy, Proposal
<1>4. CASE Provider \/ Hide \/ UNCHANGED vars
      BY <1>4 DEF Provider, Hide, Land, Reconcile, rows, vars, DispatchExcludesChange, Current
<1>5. ASSUME NEW k \in Keys, Show(k) \/ Deliver(k) \/ ExpireConfirmation(k) PROVE DispatchExcludesChange'
      BY <1>5 DEF Show, Deliver, ExpireConfirmation, rows, DispatchExcludesChange, Current
<1>6. ASSUME NEW c \in Callers, Worker(c) PROVE DispatchExcludesChange'
  <2>1. ASSUME NEW d \in Callers, Guarding(d)'
        PROVE  /\ (Current(caller[d].key[1]) = caller[d].key)'
               /\ (proposal[caller[d].key[1]].status = "consumed")'
    <3>1. CASE d = c
      <4>1. Dispatch(c) /\ caller'[c].key = caller[c].key
            BY <1>6, <2>1, <3>1, WorkerMoves
      <4>2. caller[c].key \in Keys /\ attempt[caller[c].key] # "none"
            BY <4>1 DEF Dispatch, Busy, Attempted, PastFence
      <4>3. /\ Current(caller[c].key[1]) = caller[c].key
            /\ proposal[caller[c].key[1]].status \notin {"prepared", "cancelled"}
            BY <4>1, <4>2 DEF Dispatch, CanDispatch, OneUse
      <4>4. proposal[caller[c].key[1]].status # "none"
            BY <4>2, <4>3 DEF Versions, Current
      <4>5. proposal[caller[c].key[1]].status = "consumed"
            BY <4>2, <4>3, <4>4 DEF Proposal
      <4> QED BY <3>1, <4>1, <4>3, <4>5 DEF Dispatch, rows, Current
    <3>2. CASE d # c
      <4>1. Guarding(d) /\ caller'[d] = caller[d]
            BY <1>6, <2>1, <3>2, OthersKept
      <4>2. /\ caller[d].key \in Keys /\ Current(caller[d].key[1]) = caller[d].key
            /\ proposal[caller[d].key[1]].status = "consumed"
            BY <4>1 DEF Busy, DispatchExcludesChange
      <4>3. CASE Fence(c)
        <5>1. caller[c].key \in Keys /\ caller[c].key[1] # caller[d].key[1]
              BY <4>1, <4>3 DEF Fence, Busy, Locked
        <5>2. proposal'[caller[d].key[1]] = proposal[caller[d].key[1]]
              BY <4>3, <5>1 DEF Fence
        <5> QED BY <4>1, <4>2, <5>2 DEF Current
      <4>4. CASE UNCHANGED proposal
            BY <4>1, <4>2, <4>4 DEF Current
      <4> QED BY <1>6, <4>3, <4>4, TablesKept DEF Confirm, Dispatch, Put, rows
    <3> QED BY <3>1, <3>2
  <2> QED BY <2>1 DEF DispatchExcludesChange, Current
<1> QED BY <1>2, <1>3, <1>4, <1>5, <1>6 DEF Next, Owner

\* A version is fenced only if it was compared with what is visible, and a preview
\* that was shown stays shown.
LEMMA SeenStep == Typed /\ Busy /\ Versions /\ Seen /\ [Next]_vars => Seen'
<1> SUFFICES ASSUME Typed, Busy, Versions, Seen, [Next]_vars PROVE Seen'
    OBVIOUS
<1> USE KeyParts DEF Typed, WasShown
<1>1. \A k \in Keys : WasShown(k) => WasShown(k)'
  <2>1. ASSUME NEW p \in Proposals, Register(p) \/ Edit(p)
        PROVE  \A k \in Keys : WasShown(k) => WasShown(k)'
    <3>1. proposal'[p].version > proposal[p].version
          BY <2>1 DEF Register, Edit, Proposal
    <3>2. \A k \in Keys : k # <<p, proposal'[p].version>> => preview'[k] = preview[k]
          BY <2>1 DEF Register, Edit
    <3>3. ASSUME NEW k \in Keys, k = <<p, proposal'[p].version>> PROVE preview[k] = "none"
          BY <3>1, <3>3 DEF Versions
    <3> QED BY <3>2, <3>3
  <2>2. ASSUME NEW j \in Keys, Show(j) \/ Deliver(j)
        PROVE  \A k \in Keys : WasShown(k) => WasShown(k)'
        BY <2>2 DEF Show, Deliver
  <2>3. ASSUME NEW p \in Proposals, Cancel(p) \/ ExpireProposal(p) PROVE UNCHANGED preview
        BY <2>3 DEF Cancel, ExpireProposal, chat
  <2>4. CASE Provider \/ Hide \/ UNCHANGED vars
        BY <2>4 DEF Provider, Hide, Land, Reconcile, chat, vars
  <2>5. ASSUME NEW k \in Keys, ExpireConfirmation(k) PROVE UNCHANGED preview
        BY <2>5 DEF ExpireConfirmation, chat
  <2>6. ASSUME NEW c \in Callers, Worker(c) PROVE UNCHANGED preview
        BY <2>6, TablesKept DEF Confirm, Fence, Dispatch, Put, chat
  <2> QED BY <2>1, <2>2, <2>3, <2>4, <2>5, <2>6 DEF Next, Owner
<1>2. visible' # Nothing => WasShown(visible)'
  <2>1. ASSUME NEW k \in Keys, Show(k) PROVE WasShown(visible)'
        BY <2>1 DEF Show
  <2>2. CASE Hide
        BY <2>2 DEF Hide
  <2>3. CASE UNCHANGED visible
        BY <1>1, <2>3 DEF Seen
  <2>4. ASSUME NEW c \in Callers, Worker(c) PROVE UNCHANGED visible
        BY <2>4, TablesKept DEF Confirm, Fence, Dispatch, Put, chat
  <2>5. ASSUME NEW p \in Proposals, Register(p) \/ Edit(p) \/ Cancel(p) \/ ExpireProposal(p)
        PROVE  UNCHANGED visible
        BY <2>5 DEF Register, Edit, Cancel, ExpireProposal, chat
  <2>6. ASSUME NEW k \in Keys, Deliver(k) \/ ExpireConfirmation(k) PROVE UNCHANGED visible
        BY <2>6 DEF Deliver, ExpireConfirmation, chat
  <2>7. CASE Provider \/ UNCHANGED vars
        BY <2>3, <2>7 DEF Provider, Land, Reconcile, chat, vars
  <2> QED BY <2>1, <2>2, <2>3, <2>4, <2>5, <2>6, <2>7 DEF Next, Owner
<1>3. ASSUME NEW c \in Callers, Worker(c) PROVE Seen'
  <2>1. Compared(c)' => WasShown(caller[c].key)'
    <3>1. CASE caller'[c].phase = "checked"
      <4>1. caller'[c].key = visible /\ visible # Nothing
            BY <1>3, <3>1, WorkerMoves
      <4> QED BY <1>1, <4>1 DEF Seen
    <3>2. CASE caller'[c].phase \in {"confirmed", "reserved", "executing", "fenced", "calling", "answered"}
      <4>1. /\ caller'[c].key = caller[c].key
            /\ \/ caller[c].phase = "checked" \/ caller[c].phase = "confirmed" \/ caller[c].phase = "reserved"
               \/ Fence(c) \/ Dispatch(c) \/ LoseSession(c) \/ DispatchRefused(c) \/ Answered(c)
            BY <1>3, <3>2, WorkerMoves
      <4>2. Compared(c) /\ caller[c].phase # "idle"
            BY <4>1 DEF Compared, Fence, Dispatch, LoseSession, DispatchRefused, Answered
      <4> QED BY <1>1, <4>1, <4>2 DEF Seen, Busy
    <3> QED BY <3>1, <3>2 DEF Compared
  <2>2. ASSUME NEW d \in Callers \ {c}, Compared(d)' PROVE WasShown(caller[d].key)'
        BY <1>1, <1>3, <2>2, OthersKept DEF Seen, Busy, Compared
  <2>3. ASSUME NEW k \in Keys, attempt'[k] # "none" PROVE WasShown(k)'
    <3>1. CASE attempt[k] # "none"
          BY <1>1, <3>1 DEF Seen
    <3>2. CASE Fence(c) /\ k = caller[c].key
          BY <1>1, <3>2 DEF Fence, Seen, Compared
    <3> QED BY <1>3, <2>3, <3>1, <3>2, TablesKept DEF Confirm, Fence, Dispatch, Put, rows
  <2> QED BY <1>2, <2>1, <2>2, <2>3 DEF Seen
<1>4. CASE Owner \/ Provider \/ UNCHANGED vars
  <2>1. ASSUME NEW k \in Keys, attempt'[k] # "none" PROVE attempt[k] # "none"
        BY <1>4, <2>1 DEF Owner, Provider, Hide, Register, Edit, Cancel, ExpireProposal, Show, Deliver,
           ExpireConfirmation, Land, Reconcile, rows, vars
  <2>2. UNCHANGED caller
        BY <1>4, WorkersKept
  <2> QED BY <1>1, <1>2, <2>1, <2>2 DEF Seen, Busy, Compared
<1> QED BY <1>3, <1>4 DEF Next

\* What the provider is asked, and what is recorded of it.
LEMMA AskedStep ==
  Typed /\ Busy /\ Attempted /\ OneUse /\ OneSender /\ Asked /\ [Next]_vars => Asked'
<1> SUFFICES ASSUME Typed, Busy, Attempted, OneUse, OneSender, Asked, [Next]_vars PROVE Asked'
    OBVIOUS
<1> USE KeyParts DEF Typed
<1>1. ASSUME NEW k \in Keys, Reconcile(k) PROVE Asked'
      BY <1>1 DEF Reconcile, Asked, provider
<1>2. ASSUME NEW k \in Keys, Land(k) PROVE Asked'
  <2>1. \A j \in Keys : effect[j] # "inflight" => effect'[j] = effect[j]
        BY <1>2 DEF Land
  <2>2. UNCHANGED <<attempt, calls, caller>>
        BY <1>2 DEF Land, rows
  <2>3. \A c \in Callers : caller[c].phase = "answered" => caller[c].key \in Keys
        BY DEF Busy
  <2>4. effect[k] # "none"
        BY <1>2 DEF Land
  <2> QED BY <1>2, <2>1, <2>2, <2>3, <2>4 DEF Land, Asked
<1>3. CASE Owner \/ UNCHANGED vars
  <2>1. UNCHANGED <<attempt, calls, effect, caller>>
        BY <1>3 DEF Owner, Hide, Register, Edit, Cancel, ExpireProposal, Show, Deliver,
           ExpireConfirmation, rows, provider, vars
  <2> QED BY <2>1 DEF Asked
<1>4. ASSUME NEW c \in Callers, Worker(c) PROVE Asked'
  <2> DEFINE k == caller[c].key
  <2>1. \A d \in Callers \ {c} : PastFence(d) => caller[d].key \in Keys
        BY DEF PastFence, Busy
  <2>2. CASE Fence(c)
    <3>1. k \in Keys /\ attempt[k] = "none"
          BY <2>2 DEF Fence, CanFence, OneUse, Busy
    <3>2. attempt' = [attempt EXCEPT ![k] = "unknown"] /\ UNCHANGED <<calls, effect>>
          BY <2>2 DEF Fence, provider
    <3>3. calls[k] = 0
          BY <3>1 DEF Asked
    <3>4. caller'[c].phase = "fenced" /\ caller'[c].key = k
          BY <2>2 DEF Fence, Goto, Caller
    <3> QED BY <1>4, <3>1, <3>2, <3>3, <3>4, OthersKept DEF Asked
  <2>3. CASE Dispatch(c)
    <3>1. k \in Keys /\ attempt[k] # "none" /\ calls[k] = 0 /\ effect[k] = "none"
          BY <2>3 DEF Dispatch, Busy, Attempted, PastFence, Asked
    <3>2. /\ calls' = [calls EXCEPT ![k] = 1] /\ effect' = [effect EXCEPT ![k] = "inflight"]
          /\ UNCHANGED attempt
          BY <2>3, <3>1 DEF Dispatch, rows
    <3>3. caller'[c].phase = "calling"
          BY <2>3 DEF Dispatch, Caller
    <3>4. \A d \in Callers \ {c} : PastFence(d) => caller[d].key # k
          BY <2>3 DEF Dispatch, OneSender, PastFence
    <3>5. \A j \in Keys : /\ attempt[j] = "none" => calls'[j] = 0
                          /\ calls'[j] = 0 => effect'[j] = "none"
                          /\ attempt[j] = "succeeded" => effect'[j] = "made"
          BY <3>1, <3>2 DEF Asked
    <3> QED BY <1>4, <2>1, <3>2, <3>3, <3>4, <3>5, OthersKept DEF Asked, PastFence
  <2>4. CASE Put(c)
    <3>1. k \in Keys /\ caller[c].outcome \in {"unknown", "succeeded"}
          BY <2>4 DEF Put, Busy, Caller
    <3>2. \A j \in Keys : \/ attempt'[j] = attempt[j]
                          \/ j = k /\ attempt[j] = "unknown" /\ attempt'[j] = caller[c].outcome
          BY <2>4 DEF Put
    <3>3. caller[c].outcome = "succeeded" => effect[k] = "made"
          BY <2>4 DEF Put, Asked
    <3>4. caller'[c].phase = "idle" /\ UNCHANGED <<calls, effect>>
          BY <2>4 DEF Put, Back, Idle, provider
    <3>5. \A j \in Keys : /\ attempt'[j] = "none" => calls'[j] = 0
                          /\ calls'[j] = 0 => effect'[j] = "none"
                          /\ attempt'[j] = "succeeded" => effect'[j] = "made"
          BY <3>1, <3>2, <3>3, <3>4 DEF Asked
    <3> QED BY <1>4, <3>4, <3>5, OthersKept DEF Asked
  <2>5. CASE Confirm(c) \/ UNCHANGED <<rows, chat, provider>>
    <3>1. UNCHANGED <<attempt, calls, effect>>
          BY <2>5 DEF Confirm, rows, provider
    <3>2. caller'[c].phase = "fenced" => calls[caller'[c].key] = 0
          BY <1>4, <2>5, <3>1, WorkerMoves DEF Fence, rows, Busy, CanFence, OneUse, Asked
    <3>3. caller'[c].phase = "answered" /\ caller'[c].outcome = "succeeded" => effect[caller'[c].key] = "made"
      <4>1. CASE DispatchRefused(c)
        <5>1. caller'[c] = [caller[c] EXCEPT !.phase = "answered", !.outcome = "unknown"]
              BY <4>1 DEF DispatchRefused
        <5>2. caller'[c].outcome = "unknown"
              BY <5>1 DEF Caller
        <5> QED BY <5>2
      <4>2. CASE Answered(c)
        <5>1. PICK x \in {"succeeded", "unknown"} :
                /\ x = "succeeded" => effect[k] = "made"
                /\ caller' = [caller EXCEPT ![c] = [caller[c] EXCEPT !.phase = "answered",
                                                                     !.guarded = FALSE, !.outcome = x]]
              BY <4>2 DEF Answered
        <5>2. caller'[c] = [caller[c] EXCEPT !.phase = "answered", !.guarded = FALSE, !.outcome = x]
              BY <5>1
        <5>3. caller'[c].outcome = x /\ caller'[c].key = k
              BY <5>2 DEF Caller
        <5> QED BY <5>1, <5>3
      <4> QED BY <1>4, <4>1, <4>2, WorkerMoves
    <3> QED BY <1>4, <3>1, <3>2, <3>3, OthersKept DEF Asked
  <2> QED BY <1>4, <2>2, <2>3, <2>4, <2>5, TablesKept
<1> QED BY <1>1, <1>2, <1>3, <1>4 DEF Next, Provider

LEMMA NextIInv == IInv /\ [Next]_vars => IInv'
BY TypeStep, AttemptedStep, BusyStep, VersionsStep, OneUseStep, DispatchStep, SeenStep, OneSenderStep,
   AskedStep DEF IInv

\* What holds between the steps of the workers, the owner and the provider: who is
\* past a fence, on which version, and what its attempt then says
\* (storage/actions.py:177-203, 290-318).
THEOREM Invariance == Spec => []IInv
BY InitIInv, NextIInv, PTL DEF Spec

-----------------------------------------------------------------------------
(* The properties of the runs.                                              *)

\* The tables, the conversation and the memory of the workers keep their shape; from
\* its fence on a worker has an attempt on record (storage/actions.py:177-203).
THEOREM TypeCorrect == Spec => []TypeOK
<1>1. IInv => TypeOK
      BY TypeParts DEF IInv
<1> QED BY <1>1, Invariance, PTL

\* A version is executed on one confirmation, which it uses up: its attempt exists
\* exactly when the confirmation is consumed (storage/actions.py:188-190).
THEOREM ConfirmationsUsedOnce == Spec => []OneUse
<1>1. IInv => OneUse
      BY DEF IInv
<1> QED BY <1>1, Invariance, PTL

\* The owner neither edits nor cancels what is being sent
\* (storage/actions.py:193-203).
THEOREM SendingExcludesChange == Spec => []DispatchExcludesChange
<1>1. IInv => DispatchExcludesChange
      BY DEF IInv
<1> QED BY <1>1, Invariance, PTL

\* Whatever the reads of confirm_and_execute interleave with, a version that was
\* sent had been shown (runtime/actions.py:188-197).
THEOREM OnlyShownIsSent == Spec => []SentWasShown
<1>1. IInv => SentWasShown
      BY DEF IInv, Typed, SentWasShown, Seen, Asked, WasShown
<1> QED BY <1>1, Invariance, PTL

-----------------------------------------------------------------------------
(* The refinement of EffectOnce: for each step the step of the abstract      *)
(* specification it takes, if any.                                           *)

Bar == [k \in Keys |-> EffectStatus(attempt[k])]

LEMMA InitRefines == Init => Once!Init
BY DEF Init, Once!Init, EffectStatus

\* A step that leaves attempts, requests and effects alone is no step of theirs.
LEMMA Stutters ==
  ASSUME UNCHANGED <<attempt, calls, effect>>
  PROVE  UNCHANGED Once!vars
BY DEF Once!vars, EffectStatus

LEMMA FenceRefines ==
  ASSUME IInv, NEW c \in Callers, Fence(c)
  PROVE  Once!Next
<1> DEFINE k == caller[c].key
<1>1. k \in Keys /\ attempt[k] = "none" 
      BY DEF Fence, CanFence, IInv, OneUse, Busy
<1>2. attempt' = [attempt EXCEPT ![k] = "unknown"] /\ UNCHANGED <<calls, effect>>
      BY DEF Fence, provider
<1>3. Bar' = [Bar EXCEPT ![k] = "unknown"]
      BY <1>1, <1>2 DEF IInv, Typed, Bar, EffectStatus
<1>4. Once!Fence(k)
      BY <1>1, <1>2, <1>3 DEF Once!Fence, Bar, EffectStatus
<1> QED BY <1>1, <1>4 DEF Once!Next

LEMMA DispatchRefines ==
  ASSUME IInv, NEW c \in Callers, Dispatch(c)
  PROVE  Once!Next
<1> DEFINE k == caller[c].key
<1>1. k \in Keys /\ attempt[k] # "none" /\ calls[k] = 0 /\ effect[k] = "none"
      BY DEF IInv, Dispatch, Busy, Attempted, PastFence, Asked
<1>2. EffectStatus(attempt[k]) = "unknown"
      BY <1>1 DEF IInv, Asked, Typed, Attempts, Settled, EffectStatus
<1>3. /\ calls' = [calls EXCEPT ![k] = 1] /\ effect' = [effect EXCEPT ![k] = "inflight"]
      /\ UNCHANGED attempt
      BY <1>1 DEF IInv, Typed, Dispatch, rows
<1>4. Once!Request(k)
      BY <1>1, <1>2, <1>3 DEF Once!Request
<1> QED BY <1>1, <1>4 DEF Once!Next

LEMMA PutRefines ==
  ASSUME IInv, NEW c \in Callers, Put(c)
  PROVE  Once!Next \/ UNCHANGED Once!vars
<1> DEFINE k == caller[c].key
<1>1. k \in Keys /\ caller[c].outcome \in {"unknown", "succeeded"}
      BY DEF IInv, Put, Busy, Typed, Caller
<1>2. UNCHANGED <<calls, effect>>
      BY DEF Put, provider
<1>3. CASE attempt[k] = "unknown" /\ caller[c].outcome = "succeeded"
  <2>1. effect[k] = "made"
        BY <1>3 DEF IInv, Put, Asked
  <2>2. attempt' = [attempt EXCEPT ![k] = "succeeded"]
        BY <1>3 DEF Put
  <2>3. Bar' = [Bar EXCEPT ![k] = "done"]
        BY <1>1, <2>2 DEF IInv, Typed, Bar, EffectStatus
  <2>4. Once!Settle(k)
        BY <1>1, <1>2, <1>3, <2>1, <2>3 DEF Once!Settle, Bar, EffectStatus
  <2> QED BY <1>1, <2>4 DEF Once!Next
<1>4. CASE ~(attempt[k] = "unknown" /\ caller[c].outcome = "succeeded")
  <2>1. UNCHANGED attempt
        BY <1>1, <1>4 DEF Put, IInv, Typed
  <2> QED BY <1>2, <2>1, Stutters
<1> QED BY <1>3, <1>4

\* A failure found by reconciliation leaves the abstract attempt unknown.
LEMMA ReconcileRefines ==
  ASSUME IInv, NEW k \in Keys, Reconcile(k)
  PROVE  Once!Next \/ UNCHANGED Once!vars
<1>1. attempt[k] = "unknown" /\ UNCHANGED <<calls, effect>>
      BY DEF Reconcile, provider
<1>2. CASE effect[k] = "made" /\ attempt' = [attempt EXCEPT ![k] = "succeeded"]
  <2>1. Bar' = [Bar EXCEPT ![k] = "done"]
        BY <1>2 DEF IInv, Typed, Bar, EffectStatus
  <2>2. Once!Settle(k)
        BY <1>1, <1>2, <2>1 DEF Once!Settle, Bar, EffectStatus
  <2> QED BY <2>2 DEF Once!Next
<1>3. CASE attempt' = [attempt EXCEPT ![k] = "failed_known"]
  <2>1. Bar' = Bar
        BY <1>1, <1>3 DEF IInv, Typed, Bar, EffectStatus
  <2> QED BY <1>1, <2>1 DEF Once!vars, Bar
<1> QED BY <1>2, <1>3 DEF Reconcile

LEMMA LandRefines ==
  ASSUME NEW k \in Keys, Land(k)
  PROVE  Once!Next
<1>1. UNCHANGED <<attempt, calls>>
      BY DEF Land, rows
<1>2. Once!Answer(k)
      BY <1>1 DEF Land, Once!Answer, EffectStatus
<1> QED BY <1>2 DEF Once!Next

LEMMA StepRefines == IInv /\ [Next]_vars => [Once!Next]_(Once!vars)
<1> SUFFICES ASSUME IInv, [Next]_vars PROVE Once!Next \/ UNCHANGED Once!vars
    OBVIOUS
<1>1. ASSUME NEW c \in Callers, Worker(c) PROVE Once!Next \/ UNCHANGED Once!vars
  <2>1. CASE Confirm(c) \/ UNCHANGED <<rows, chat, provider>>
    <3>1. UNCHANGED <<attempt, calls, effect>>
          BY <2>1 DEF Confirm, rows, provider
    <3> QED BY <3>1, Stutters
  <2> QED BY <1>1, <2>1, TablesKept, FenceRefines, DispatchRefines, PutRefines
<1>2. CASE Provider
      BY <1>2, ReconcileRefines, LandRefines DEF Provider
<1>3. CASE Owner \/ UNCHANGED vars
  <2>1. UNCHANGED <<attempt, calls, effect>>
        BY <1>3 DEF Owner, Hide, Register, Edit, Cancel, ExpireProposal, Show, Deliver,
           ExpireConfirmation, rows, provider, vars
  <2> QED BY <2>1, Stutters
<1> QED BY <1>1, <1>2, <1>3 DEF Next

\* Every version of every proposal is an effect as EffectOnce describes it: asked
\* for once, never without its attempt, recorded as done only if it is
\* (storage/actions.py:144-209).
THEOREM ImplementsEffectOnce == Spec => EachVersionTakesEffectOnce
<1>1. Spec => Once!Init
      BY InitRefines DEF Spec
<1> QED BY <1>1, Invariance, StepRefines, PTL DEF Spec, EachVersionTakesEffectOnce, Once!Spec

\* The theorem about EffectOnce, for these effects.
Proved == INSTANCE EffectOnceProofs WITH
  Effects <- Keys,
  attempt <- [k \in Keys |-> EffectStatus(attempt[k])],
  requests <- calls

\* So the promise of EffectOnce is kept for every version: one request at most, an
\* attempt before it, and success recorded only of what was made.
THEOREM VersionsKeepPromise == Spec => []Once!Promise
<1>1. Once!Init => Proved!Init
      BY DEF Once!Init, Proved!Init
<1>2. [Once!Next]_(Once!vars) => [Proved!Next]_(Proved!vars)
      BY DEF Once!Next, Once!vars, Proved!Next, Proved!vars, Once!Fence, Proved!Fence,
         Once!Request, Proved!Request, Once!Answer, Proved!Answer, Once!Settle, Proved!Settle
<1>3. Proved!Promise => Once!Promise
      BY DEF Once!Promise, Proved!Promise
<1>4. Proved!Spec => []Proved!Promise
      BY Proved!PromiseKept
<1> QED BY <1>1, <1>2, <1>3, <1>4, ImplementsEffectOnce, PTL
       DEF EachVersionTakesEffectOnce, Once!Spec, Proved!Spec

=============================================================================
