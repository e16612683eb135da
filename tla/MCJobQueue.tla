----------------------------- MODULE MCJobQueue -----------------------------
(* Instances of JobQueue for TLC. Workers are interchangeable, and so are   *)
(* jobs: no action tells one from another except by what it stored.         *)
EXTENDS JobQueue, TLC

Symmetry == Permutations(Workers) \cup Permutations(Jobs)

Used == {j \in Jobs : intent[j] # NoIntent}

\* Up to three jobs that must be done at once: admission and lineages.
Lineage ==
  /\ clock <= 1
  /\ \A j \in Used : /\ intent[j].deadline = 1 /\ Compute(j)
                     /\ intent[j].connection = NoConnection
  /\ \A w \in Workers : txn[w] \in {"none", "complete"}

\* Up to two jobs of an account with all the time there is: leases lapse and
\* jobs are recovered and handed out again.
Leasing ==
  /\ Cardinality(Used) <= 2
  /\ \A j \in Used : intent[j].deadline = Horizon /\ intent[j].connection # NoConnection

\* The states run "queue" goes through.
Slice == Lineage \/ Leasing

=============================================================================
