------------------------- MODULE MCDeliveryExecutor -------------------------
(* Instances of DeliveryExecutor for TLC. Senders are interchangeable.      *)
EXTENDS DeliveryExecutor, TLC

CONSTANTS short, long

OneShortOneLong == short :> 1 @@ long :> 2
OneSource == short :> Sources @@ long :> Sources

Symmetry == Permutations(Senders)

=============================================================================
