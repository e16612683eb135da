--------------------------- MODULE MCActionLedger ---------------------------
(* Instances of ActionLedger for TLC. Workers are interchangeable.          *)
EXTENDS ActionLedger, TLC

Symmetry == Permutations(Callers)

=============================================================================
