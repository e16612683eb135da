----------------------------- MODULE EffectOnce -----------------------------
(***************************************************************************)
(* What the runtime promises of every effect outside its database: a mail  *)
(* or calendar write (storage/actions.py) and a Telegram message           *)
(* (runtime/delivery.py). A durable attempt precedes the one request that  *)
(* is ever made; "unknown" is an honest state; an attempt settles once,    *)
(* and what it then says is true and stays true.                           *)
(***************************************************************************)
EXTENDS Naturals

CONSTANT Effects   \* everything that may be sent, each to be sent at most once

VARIABLES attempt,    \* the durable record
          requests,   \* how often the provider was asked
          effect      \* what became of the request at the provider

vars == <<attempt, requests, effect>>

Init ==
  /\ attempt = [e \in Effects |-> "none"]
  /\ requests = [e \in Effects |-> 0]
  /\ effect = [e \in Effects |-> "none"]

\* The attempt is committed before anything leaves the process.
Fence(e) ==
  /\ attempt[e] = "none"
  /\ attempt' = [attempt EXCEPT ![e] = "unknown"]
  /\ UNCHANGED <<requests, effect>>

Request(e) ==
  /\ attempt[e] = "unknown"
  /\ requests[e] = 0
  /\ requests' = [requests EXCEPT ![e] = 1]
  /\ effect' = [effect EXCEPT ![e] = "inflight"]
  /\ UNCHANGED attempt

\* The provider acts on the request or drops it, whoever is still listening.
Answer(e) ==
  /\ effect[e] = "inflight"
  /\ \E outcome \in {"made", "lost"} : effect' = [effect EXCEPT ![e] = outcome]
  /\ UNCHANGED <<attempt, requests>>

\* Settling needs knowledge: the effect exists, or nothing will bring it about
\* any more (a settled attempt is never requested).
Settle(e) ==
  /\ attempt[e] = "unknown"
  /\ \/ /\ effect[e] = "made"
        /\ attempt' = [attempt EXCEPT ![e] = "done"]
     \/ /\ effect[e] \in {"none", "lost"}
        /\ attempt' = [attempt EXCEPT ![e] = "undone"]
  /\ UNCHANGED <<requests, effect>>

Next == \E e \in Effects : Fence(e) \/ Request(e) \/ Answer(e) \/ Settle(e)

Spec == Init /\ [][Next]_vars

-----------------------------------------------------------------------------
\* The vocabulary of the three records.
TypeOK ==
  /\ attempt \in [Effects -> {"none", "unknown", "done", "undone"}]
  /\ requests \in [Effects -> Nat]
  /\ effect \in [Effects -> {"none", "inflight", "made", "lost"}]

\* Never asked twice, never made without an attempt, never reported wrongly: the
\* receipts of storage/actions.py:144-155 and the attempts of
\* runtime/delivery.py:330-336 say what happened.
Promise ==
  \A e \in Effects :
    /\ requests[e] <= 1
    /\ effect[e] # "none" => attempt[e] # "none"
    /\ attempt[e] = "done" => effect[e] = "made"
    /\ attempt[e] = "undone" => effect[e] \in {"none", "lost"}

=============================================================================
