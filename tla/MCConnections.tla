--------------------------- MODULE MCConnections ---------------------------
(* Instances of Connections for TLC: processes and flows are interchangeable. *)
EXTENDS Connections, TLC

Symmetry == Permutations(Processes) \cup Permutations(Flows)

=============================================================================
