-------------------------- MODULE EffectOnceProofs --------------------------
(* The promise of EffectOnce holds for any set of effects; whatever refines *)
(* EffectOnce keeps it too.                                                 *)
EXTENDS EffectOnce, TLAPS

\* A request needs an attempt: what has none was never asked for, and what was
\* asked for once is on the way or has ended.
Fenced ==
  \A e \in Effects : /\ attempt[e] = "none" => requests[e] = 0
                     /\ requests[e] = 0 => effect[e] = "none"

IInv == TypeOK /\ Fenced /\ Promise

LEMMA InitIInv == Init => IInv
BY DEF Init, IInv, TypeOK, Fenced, Promise

LEMMA NextIInv == IInv /\ [Next]_vars => IInv'
<1> SUFFICES ASSUME IInv, [Next]_vars PROVE IInv'
    OBVIOUS
<1> USE DEF IInv, TypeOK, Fenced, Promise
<1>1. ASSUME NEW e \in Effects, Fence(e) PROVE IInv'
      BY <1>1 DEF Fence
<1>2. ASSUME NEW e \in Effects, Request(e) PROVE IInv'
      BY <1>2 DEF Request
<1>3. ASSUME NEW e \in Effects, Answer(e) PROVE IInv'
      BY <1>3 DEF Answer
<1>4. ASSUME NEW e \in Effects, Settle(e) PROVE IInv'
      BY <1>4 DEF Settle
<1>5. CASE UNCHANGED vars
      BY <1>5 DEF vars
<1> QED BY <1>1, <1>2, <1>3, <1>4, <1>5 DEF Next

\* No effect is asked for twice, made without a durable attempt or reported
\* wrongly once settled (storage/actions.py:144-155, runtime/delivery.py:330-336).
THEOREM PromiseKept == Spec => []Promise
<1>1. IInv => Promise
      BY DEF IInv
<1> QED BY <1>1, InitIInv, NextIInv, PTL DEF Spec

=============================================================================
