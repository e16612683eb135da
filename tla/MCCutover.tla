----------------------------- MODULE MCCutover -----------------------------
(* Two databases, one effect, an object and one derived from it. At most two *)
(* epochs at a time: a database that is restored draws the second.           *)
EXTENDS Cutover, TLC

CONSTANTS memory, derived

Derivation == (memory :> None) @@ (derived :> memory)

Symmetry == Permutations(Epochs) \cup Permutations(Workers)

\* Actions on effects and actions on objects meet only in an import that is
\* refused for the one and carries the other; each kind is explored alone, with
\* every action of the operator.
Slice ==
  \/ \A s \in Sites : \A e \in Effects : rows[s].job[e] = "queued" /\ rows[s].confirmation[e] = "none"
  \/ \A s \in Sites : \A o \in Objects : rows[s].object[o] = "none"
=============================================================================
