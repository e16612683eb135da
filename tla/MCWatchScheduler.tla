-------------------------- MODULE MCWatchScheduler --------------------------
(* Instances of WatchScheduler for TLC. Fingerprints are interchangeable,   *)
(* and so are the processes of one role.                                    *)
EXTENDS WatchScheduler, TLC

Symmetry == Permutations(Prints) \cup Permutations(Tickers)
              \cup Permutations(Collectors) \cup Permutations(Senders)

=============================================================================
