--------------------------- MODULE MCPolicyLedger ---------------------------
(* Instances of PolicyLedger for TLC. Callers are interchangeable; the      *)
(* context of a compound operation has a grant of its own.                  *)
EXTENDS PolicyLedger, TLC

CONSTANTS g1, g2, w1, w2

TwoGrants == [k \in Kinds |-> IF k = "context" THEN g2 ELSE g1]

OneWindow == {{w1}}

Symmetry == Permutations(Callers)

Quota(n) == \A g \in Grants : grant[g].quota \in {0, n}
Capacity(n) == \A w \in Windows : window[w].capacity \in {0, n}
Untouched(o) == op[o] = NoOp

\* A compound and a local operation compete for one unit.
Scarce ==
  /\ Quota(1) /\ Capacity(1)
  /\ \A o \in Ops : o \in Compound \cup LocalOps \/ Untouched(o)

\* One process may bring a compound and a plain operation to one call; grants
\* expire under it, and the owner's other changes are in the other slice.
Grouped ==
  /\ Quota(2) /\ Capacity(2)
  /\ ~frozen
  /\ \A g \in Grants : grant[g].revision <= 1
  /\ \A w \in Windows : window[w].state # "closed"
  /\ \A o \in LocalOps : Untouched(o)
  /\ \E c \in Callers : \A d \in Callers \ {c} : held[d] = {} /\ call[d] = Idle

\* The states run "ledger" goes through.
Slice == Scarce \/ Grouped

=============================================================================
