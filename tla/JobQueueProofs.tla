--------------------------- MODULE JobQueueProofs ---------------------------
(* Theorems about JobQueue, for all jobs, workers, bounds and clock values. *)
EXTENDS JobQueue, TLAPS, FiniteSetTheorems

-----------------------------------------------------------------------------
(* Facts about the constants and the constant operators. *)

LEMMA NoIntentIsNone == NoIntent \notin Intents
  BY NamesAssumption DEF NoIntent, Intents

LEMMA NoLeaseIsNone == NoLease \notin Leases
  BY DEF NoLease, Leases

\* Min2 of two naturals is a natural.
LEMMA Min2Nat == ASSUME NEW a \in Nat, NEW b \in Nat
                 PROVE  Min2(a, b) \in Nat
  BY DEF Min2

-----------------------------------------------------------------------------
(* The base invariant: types, and who may write which row. *)

RowsHaveIntent == \A j \in Jobs : status[j] = "absent" <=> intent[j] = NoIntent

LeaseKnown ==
  \A w \in Workers :
    lease[w] # NoLease => lease[w].generation <= generation[lease[w].job]

\* The rows an open deletion has cancelled are locked: they stay as it found them,
\* and no fenced transaction is writing one of them.
StoppedOpen == \A j \in deletion.stopped : status[j] \in Open /\ Compute(j)

StoppedUnwritten ==
  \A w \in Workers : txn[w] # "none" => lease[w].job \notin deletion.stopped

Base ==
  /\ TypeOK
  /\ RowsHaveIntent
  /\ StoppedOpen
  /\ StoppedUnwritten
  /\ LeaseKnown
  /\ OneCurrentLease
  /\ WriterStaysCurrent

LEMMA BaseInit == Init => Base
<1> SUFFICES ASSUME Init PROVE Base
  OBVIOUS
<1>1. TypeOK
  <2>1. intent \in [Jobs -> Intents \cup {NoIntent}] /\ lease \in [Workers -> Leases \cup {NoLease}]
    BY DEF Init
  <2>2. status \in [Jobs -> Statuses]
    BY DEF Init, Statuses
  <2>3. leaseUntil \in [Jobs -> Nat] /\ generation \in [Jobs -> Nat]
        /\ attempts \in [Jobs -> Nat] /\ available \in [Jobs -> Nat]
    BY DEF Init, NoTime
  <2>4. object \in [Objects -> {"absent", "live", "deleted"}]
    BY DEF Init
  <2>5. parents \in [Jobs -> SUBSET Objects] /\ txn \in [Workers -> {"none"} \cup FencedOps]
    BY DEF Init
  <2> QED BY <2>1, <2>2, <2>3, <2>4, <2>5 DEF TypeOK, Init
<1> QED
  BY <1>1 DEF Init, Base, RowsHaveIntent, LeaseKnown, OneCurrentLease, WriterStaysCurrent,
              StoppedOpen, StoppedUnwritten, NoDeletion

\* A row that exists carries an intent; a worker inside a fenced transaction
\* is writing a row of its own current lease, and no other worker writes it.
LEMMA HasIntent ==
  ASSUME Base, NEW j \in Jobs, status[j] # "absent"
  PROVE  intent[j] \in Intents
  BY DEF Base, RowsHaveIntent, TypeOK

LEMMA LeaseTyped ==
  ASSUME Base, NEW w \in Workers, lease[w] # NoLease
  PROVE  lease[w] \in Leases /\ lease[w].job \in Jobs /\ lease[w].generation \in Nat
  BY DEF Base, TypeOK, Leases

LEMMA WriterOwnsRow ==
  ASSUME Base, NEW w \in Workers, txn[w] # "none"
  PROVE  /\ lease[w] # NoLease
         /\ lease[w].job \in Jobs
         /\ status[lease[w].job] \in Held
         /\ generation[lease[w].job] = lease[w].generation
         /\ intent[lease[w].job] \in Intents
         /\ \A v \in Workers : v # w /\ txn[v] # "none" => lease[v].job # lease[w].job
<1>1. Current(w) /\ \A v \in Workers : txn[v] # "none" => Current(v)
  BY DEF Base, WriterStaysCurrent
<1>2. lease[w] # NoLease /\ lease[w].job \in Jobs
  BY <1>1, LeaseTyped DEF Current
<1>3. status[lease[w].job] \in Held /\ generation[lease[w].job] = lease[w].generation
  BY <1>1 DEF Current
<1>4. intent[lease[w].job] \in Intents
  BY <1>2, <1>3, HasIntent DEF Held
<1>5. \A v \in Workers : v # w /\ txn[v] # "none" => lease[v].job # lease[w].job
  BY <1>1, <1>2 DEF Base, OneCurrentLease, Current
<1> QED BY <1>2, <1>3, <1>4, <1>5

\* Every step keeps the types; an extended or new lease ends at a deadline, which is
\* a natural number only because the leased row has an intent.
LEMMA TypeStep == Base /\ [Next]_vars => TypeOK'
<1> SUFFICES ASSUME Base, [Next]_vars PROVE TypeOK'
  OBVIOUS
<1> USE DEF Base
<1>1. ASSUME NEW j \in Jobs, NEW it \in Intents, EnqueueIn(j, it)
      PROVE  TypeOK'
  BY <1>1
  DEF TypeOK, Statuses, Held, Waiting, Final, NoTime, EnqueueIn, objects, workers
<1>2. ASSUME NEW j \in Jobs, EnqueueCommit(j)
      PROVE  TypeOK'
  BY <1>2
  DEF TypeOK, Statuses, Held, Waiting, Final, NoTime, EnqueueCommit, objects, workers
<1>3. ASSUME NEW j \in Jobs, EnqueueRollback(j)
      PROVE  TypeOK'
  BY <1>3
  DEF TypeOK, Statuses, Held, Waiting, Final, NoTime, EnqueueRollback, objects, workers
<1>4. ASSUME NEW j \in Jobs, Cancel(j)
      PROVE  TypeOK'
  BY <1>4
  DEF TypeOK, Statuses, Held, Waiting, Final, NoTime, Cancel, objects, workers
<1>5. ASSUME NEW w \in Workers, NEW k \in Kinds, NEW j \in Jobs,
             NEW length \in LeaseLengths, ClaimLease(w, k, j, length)
      PROVE  TypeOK'
  <2>1. intent[j] \in Intents
    BY <1>5, HasIntent DEF ClaimLease, Selected, Claimable, Waiting
  <2>2. intent[j].deadline \in Nat /\ clock + length \in Nat
    BY <2>1, BoundsAssumption DEF TypeOK, Intents
  <2>3. leaseUntil' \in [Jobs -> Nat]
    BY <1>5, <2>2, Min2Nat DEF TypeOK, ClaimLease
  <2>4. status' \in [Jobs -> Statuses]
    BY <1>5 DEF TypeOK, ClaimLease, FailOverdue, Statuses, Held, Waiting, Final
  <2>5. lease' \in [Workers -> Leases \cup {NoLease}]
    BY <1>5 DEF TypeOK, ClaimLease, Granted, Leases
  <2>6. generation' \in [Jobs -> Nat] /\ attempts' \in [Jobs -> Nat]
    BY <1>5 DEF TypeOK, ClaimLease, Granted
  <2> QED BY <1>5, <2>3, <2>4, <2>5, <2>6 DEF TypeOK, ClaimLease, objects
<1>6. ASSUME NEW w \in Workers, NEW k \in Kinds, NEW j \in Jobs, ClaimQuarantine(w, k, j)
      PROVE  TypeOK'
  BY <1>6
  DEF TypeOK, Statuses, Held, Waiting, Final, NoTime, ClaimQuarantine, CanClaim,
      Selected, Claimable, FailOverdue, Overdue, objects, workers
<1>7. ASSUME NEW w \in Workers, NEW k \in Kinds, ClaimNothing(w, k)
      PROVE  TypeOK'
  BY <1>7
  DEF TypeOK, Statuses, Held, Waiting, Final, NoTime, ClaimNothing, CanClaim,
      FailOverdue, Overdue, objects, workers
<1>8. ASSUME NEW w \in Workers, NEW op \in FencedOps, Fence(w, op)
      PROVE  TypeOK'
  BY <1>8
  DEF TypeOK, Statuses, Held, Waiting, Final, NoTime, Fence, Fenced, rows, objects
<1>9. ASSUME NEW w \in Workers, Heartbeat(w)
      PROVE  TypeOK'
  <2> DEFINE j == lease[w].job
  <2>1. j \in Jobs /\ intent[j] \in Intents
    BY <1>9, WriterOwnsRow DEF Heartbeat
  <2>2. PICK length \in LeaseLengths :
          leaseUntil' = [leaseUntil EXCEPT ![j] = Min2(intent[j].deadline, clock + length)]
    BY <1>9 DEF Heartbeat
  <2>3. intent[j].deadline \in Nat /\ clock + length \in Nat
    BY <2>1, BoundsAssumption DEF TypeOK, Intents
  <2>4. Min2(intent[j].deadline, clock + length) \in Nat
    BY <2>3, Min2Nat
  <2>5. leaseUntil' \in [Jobs -> Nat]
    BY <2>2, <2>4 DEF TypeOK
  <2> QED BY <1>9, <2>5 DEF TypeOK, Heartbeat, objects
<1>10. ASSUME NEW w \in Workers, Checkpoint(w)
      PROVE  TypeOK'
  BY <1>10
  DEF TypeOK, Statuses, Held, Waiting, Final, NoTime, Checkpoint, objects
<1>11. ASSUME NEW w \in Workers, Complete(w)
      PROVE  TypeOK'
  <2> DEFINE j == lease[w].job
  <2>1. j \in Jobs /\ intent[j] \in Intents
    BY <1>11, WriterOwnsRow DEF Complete
  <2>2. parents' \in [Jobs -> SUBSET Objects]
    BY <1>11, <2>1 DEF TypeOK, Complete, Objects, Intents
  <2>3. object' \in [Objects -> {"absent", "live", "deleted"}]
    BY <1>11 DEF TypeOK, Complete
  <2>4. status' \in [Jobs -> Statuses] /\ leaseUntil' \in [Jobs -> Nat]
    BY <1>11 DEF TypeOK, Complete, Statuses, Final, NoTime
  <2> QED BY <1>11, <2>2, <2>3, <2>4 DEF TypeOK, Complete
<1>12. ASSUME NEW w \in Workers, RetryCompute(w)
      PROVE  TypeOK'
  <2>1. \A delay \in RetryDelays : clock + delay \in Nat
    BY BoundsAssumption DEF TypeOK
  <2>2. available' \in [Jobs -> Nat]
    BY <1>12, <2>1 DEF TypeOK, RetryCompute
  <2>3. status' \in [Jobs -> Statuses] /\ leaseUntil' \in [Jobs -> Nat]
    BY <1>12 DEF TypeOK, RetryCompute, Statuses, Final, Waiting, NoTime
  <2> QED BY <1>12, <2>2, <2>3 DEF TypeOK, RetryCompute, objects
<1>13. ASSUME NEW w \in Workers, Abandon(w)
      PROVE  TypeOK'
  BY <1>13
  DEF TypeOK, Statuses, Held, Waiting, Final, NoTime, Abandon, rows, objects
<1>14. ASSUME NEW root \in Objects, DeleteDerived(root)
      PROVE  TypeOK'
  <2>1. deletion' \in Deletions
    BY <1>14 DEF DeleteDerived, Reading, Deletions
  <2> QED BY <1>14, <2>1 DEF TypeOK, DeleteDerived, rows, objects, workers
<1>15. CASE DeleteCommit
  <2>1. object' \in [Objects -> {"absent", "live", "deleted"}]
    BY <1>15 DEF TypeOK, DeleteCommit
  <2>2. status' \in [Jobs -> Statuses] /\ leaseUntil' \in [Jobs -> Nat]
    BY <1>15 DEF TypeOK, DeleteCommit, Statuses, Final, NoTime
  <2> QED BY <1>15, <2>1, <2>2 DEF TypeOK, DeleteCommit, workers
<1>16. CASE DeleteRollback
  BY <1>16
  DEF TypeOK, Statuses, Held, Waiting, Final, NoTime, DeleteRollback, rows, objects,
      workers
<1>17. ASSUME NEW parent \in Objects, NEW child \in Jobs, RegisterDependency(parent, child)
      PROVE  TypeOK'
  BY <1>17
  DEF TypeOK, Statuses, Held, Waiting, Final, NoTime, RegisterDependency, rows, workers
<1>18. ASSUME NEW c \in Connections, RevokeConnection(c)
      PROVE  TypeOK'
  <2>1. status' \in [Jobs -> Statuses] /\ leaseUntil' \in [Jobs -> Nat]
    BY <1>18 DEF TypeOK, RevokeConnection, Disconnected, Statuses, Final, NoTime
  <2> QED BY <1>18, <2>1 DEF TypeOK, RevokeConnection, objects, workers
<1>19. CASE Drain
  BY <1>19
  DEF TypeOK, Statuses, Held, Waiting, Final, NoTime, Drain, rows, objects, workers
<1>20. CASE PermitEgress
  BY <1>20
  DEF TypeOK, Statuses, Held, Waiting, Final, NoTime, PermitEgress, rows, objects,
      workers
<1>21. CASE RecoverExpired
  <2>1. status' \in [Jobs -> Statuses] /\ leaseUntil' \in [Jobs -> Nat]
        /\ available' \in [Jobs -> Nat]
    BY <1>21 DEF TypeOK, RecoverExpired, Recovered, Statuses, Waiting, Final, NoTime
  <2> QED BY <1>21, <2>1 DEF TypeOK, RecoverExpired, objects, workers
<1>22. CASE Tick
  BY <1>22
  DEF TypeOK, Statuses, Held, Waiting, Final, NoTime, Tick, rows, objects, workers
<1>23. CASE UNCHANGED vars
  BY <1>23 DEF TypeOK, vars, rows, objects, workers
<1> QED
  BY <1>1, <1>2, <1>3, <1>4, <1>5, <1>6, <1>7, <1>8, <1>9, <1>10, <1>11, <1>12, <1>13,
      <1>14, <1>15, <1>16, <1>17, <1>18, <1>19, <1>20, <1>21, <1>22, <1>23
  DEF Next, Worker, Claim, Commit, Caller, Operator, vars, rows, objects, workers

\* A row has an intent from its insertion to its rollback.
LEMMA IntentStep == Base /\ [Next]_vars => RowsHaveIntent'
<1> SUFFICES ASSUME Base, [Next]_vars PROVE RowsHaveIntent'
  OBVIOUS
<1> USE DEF Base
<1>1. ASSUME NEW j \in Jobs, NEW it \in Intents, EnqueueIn(j, it)
      PROVE  RowsHaveIntent'
  BY <1>1, NoIntentIsNone
  DEF TypeOK, RowsHaveIntent, Open, StoppedOpen, Statuses, Held, Waiting, Final,
      EnqueueIn, objects, workers
<1>2. ASSUME NEW j \in Jobs, EnqueueCommit(j)
      PROVE  RowsHaveIntent'
  BY <1>2, NoIntentIsNone
  DEF TypeOK, RowsHaveIntent, Open, StoppedOpen, Statuses, Held, Waiting, Final,
      EnqueueCommit, objects, workers
<1>3. ASSUME NEW j \in Jobs, EnqueueRollback(j)
      PROVE  RowsHaveIntent'
  BY <1>3, NoIntentIsNone
  DEF TypeOK, RowsHaveIntent, Open, StoppedOpen, Statuses, Held, Waiting, Final,
      EnqueueRollback, objects, workers
<1>4. ASSUME NEW j \in Jobs, Cancel(j)
      PROVE  RowsHaveIntent'
  BY <1>4, NoIntentIsNone
  DEF TypeOK, RowsHaveIntent, Open, StoppedOpen, Statuses, Held, Waiting, Final, Cancel,
      objects, workers
<1>5. ASSUME NEW w \in Workers, NEW k \in Kinds, NEW j \in Jobs,
             NEW length \in LeaseLengths, ClaimLease(w, k, j, length)
      PROVE  RowsHaveIntent'
  BY <1>5, NoIntentIsNone
  DEF TypeOK, RowsHaveIntent, Open, StoppedOpen, Statuses, Held, Waiting, Final,
      ClaimLease, Granted, CanClaim, Selected, Claimable, FailOverdue, Overdue, objects
<1>6. ASSUME NEW w \in Workers, NEW k \in Kinds, NEW j \in Jobs, ClaimQuarantine(w, k, j)
      PROVE  RowsHaveIntent'
  BY <1>6, NoIntentIsNone
  DEF TypeOK, RowsHaveIntent, Open, StoppedOpen, Statuses, Held, Waiting, Final,
      ClaimQuarantine, CanClaim, Selected, Claimable, FailOverdue, Overdue, objects,
      workers
<1>7. ASSUME NEW w \in Workers, NEW k \in Kinds, ClaimNothing(w, k)
      PROVE  RowsHaveIntent'
  BY <1>7, NoIntentIsNone
  DEF TypeOK, RowsHaveIntent, Open, StoppedOpen, Statuses, Held, Waiting, Final,
      ClaimNothing, CanClaim, FailOverdue, Overdue, objects, workers
<1>8. ASSUME NEW w \in Workers, Checkpoint(w)
      PROVE  RowsHaveIntent'
  BY <1>8, WriterOwnsRow DEF TypeOK, RowsHaveIntent, Held, Checkpoint
<1>9. ASSUME NEW w \in Workers, Complete(w)
      PROVE  RowsHaveIntent'
  BY <1>9, WriterOwnsRow DEF TypeOK, RowsHaveIntent, Held, Complete
<1>10. ASSUME NEW w \in Workers, RetryCompute(w)
      PROVE  RowsHaveIntent'
  BY <1>10, WriterOwnsRow DEF TypeOK, RowsHaveIntent, Held, RetryCompute
<1>11. CASE DeleteCommit
  BY <1>11, NoIntentIsNone
  DEF TypeOK, RowsHaveIntent, Open, StoppedOpen, Statuses, Held, Waiting, Final,
      DeleteCommit, workers
<1>12. ASSUME NEW c \in Connections, RevokeConnection(c)
      PROVE  RowsHaveIntent'
  BY <1>12, NoIntentIsNone
  DEF TypeOK, RowsHaveIntent, Open, StoppedOpen, Statuses, Held, Waiting, Final,
      RevokeConnection, Disconnected, objects, workers
<1>13. CASE RecoverExpired
  BY <1>13, NoIntentIsNone
  DEF TypeOK, RowsHaveIntent, Open, StoppedOpen, Statuses, Held, Waiting, Final,
      RecoverExpired, Lapsed, Recovered, objects, workers
<1>14. CASE UNCHANGED <<intent, status>>
  BY <1>14 DEF RowsHaveIntent
<1> QED
  BY <1>1, <1>2, <1>3, <1>4, <1>5, <1>6, <1>7, <1>8, <1>9, <1>10, <1>11, <1>12, <1>13,
      <1>14
  DEF Next, Worker, Claim, Commit, Caller, Operator, vars, rows, objects, workers,
      Fence, Heartbeat, Abandon, DeleteDerived, DeleteRollback, RegisterDependency,
      Drain, PermitEgress, Tick

\* Every call that moves a row either waits for the deletion or skips its rows.
LEMMA StoppedStep == Base /\ [Next]_vars => StoppedOpen'
<1> SUFFICES ASSUME Base, [Next]_vars PROVE StoppedOpen'
  OBVIOUS
<1> USE DEF Base
<1>1. ASSUME NEW j \in Jobs, NEW it \in Intents, EnqueueIn(j, it)
      PROVE  StoppedOpen'
  BY <1>1, WriterOwnsRow
  DEF TypeOK, StoppedOpen, StoppedUnwritten, Deletions, NoDeletion, RowLocked, Compute,
      Effect, Open, Held, Waiting, EnqueueIn, objects, workers
<1>2. ASSUME NEW j \in Jobs, EnqueueCommit(j)
      PROVE  StoppedOpen'
  BY <1>2, WriterOwnsRow
  DEF TypeOK, StoppedOpen, StoppedUnwritten, Deletions, NoDeletion, RowLocked, Compute,
      Effect, Open, Held, Waiting, EnqueueCommit, objects, workers
<1>3. ASSUME NEW j \in Jobs, EnqueueRollback(j)
      PROVE  StoppedOpen'
  BY <1>3, WriterOwnsRow
  DEF TypeOK, StoppedOpen, StoppedUnwritten, Deletions, NoDeletion, RowLocked, Compute,
      Effect, Open, Held, Waiting, EnqueueRollback, objects, workers
<1>4. ASSUME NEW j \in Jobs, Cancel(j)
      PROVE  StoppedOpen'
  BY <1>4, WriterOwnsRow
  DEF TypeOK, StoppedOpen, StoppedUnwritten, Deletions, NoDeletion, RowLocked, Compute,
      Effect, Open, Held, Waiting, Cancel, objects, workers
<1>5. ASSUME NEW w \in Workers, NEW k \in Kinds, NEW j \in Jobs,
             NEW length \in LeaseLengths, ClaimLease(w, k, j, length)
      PROVE  StoppedOpen'
  BY <1>5, WriterOwnsRow
  DEF TypeOK, StoppedOpen, StoppedUnwritten, Deletions, NoDeletion, RowLocked, Compute,
      Effect, Open, Held, Waiting, ClaimLease, Granted, CanClaim, Selected, Claimable,
      FailOverdue, Overdue, objects
<1>6. ASSUME NEW w \in Workers, NEW k \in Kinds, NEW j \in Jobs, ClaimQuarantine(w, k, j)
      PROVE  StoppedOpen'
  BY <1>6, WriterOwnsRow
  DEF TypeOK, StoppedOpen, StoppedUnwritten, Deletions, NoDeletion, RowLocked, Compute,
      Effect, Open, Held, Waiting, ClaimQuarantine, CanClaim, Selected, Claimable,
      FailOverdue, Overdue, objects, workers
<1>7. ASSUME NEW w \in Workers, NEW k \in Kinds, ClaimNothing(w, k)
      PROVE  StoppedOpen'
  BY <1>7, WriterOwnsRow
  DEF TypeOK, StoppedOpen, StoppedUnwritten, Deletions, NoDeletion, RowLocked, Compute,
      Effect, Open, Held, Waiting, ClaimNothing, CanClaim, FailOverdue, Overdue,
      objects, workers
<1>8. ASSUME NEW w \in Workers, Checkpoint(w)
      PROVE  StoppedOpen'
  BY <1>8, WriterOwnsRow
  DEF TypeOK, StoppedOpen, StoppedUnwritten, Deletions, NoDeletion, RowLocked, Compute,
      Effect, Open, Held, Waiting, Checkpoint, objects
<1>9. ASSUME NEW w \in Workers, Complete(w)
      PROVE  StoppedOpen'
  BY <1>9, WriterOwnsRow
  DEF TypeOK, StoppedOpen, StoppedUnwritten, Deletions, NoDeletion, RowLocked, Compute,
      Effect, Open, Held, Waiting, Complete
<1>10. ASSUME NEW w \in Workers, RetryCompute(w)
      PROVE  StoppedOpen'
  BY <1>10, WriterOwnsRow
  DEF TypeOK, StoppedOpen, StoppedUnwritten, Deletions, NoDeletion, RowLocked, Compute,
      Effect, Open, Held, Waiting, RetryCompute, objects
<1>11. ASSUME NEW root \in Objects, DeleteDerived(root)
      PROVE  StoppedOpen'
  BY <1>11, WriterOwnsRow
  DEF TypeOK, StoppedOpen, StoppedUnwritten, Deletions, NoDeletion, RowLocked, Compute,
      Effect, Open, Held, Waiting, DeleteDerived, Reading, rows, objects, workers
<1>12. CASE DeleteCommit
  BY <1>12, WriterOwnsRow
  DEF TypeOK, StoppedOpen, StoppedUnwritten, Deletions, NoDeletion, RowLocked, Compute,
      Effect, Open, Held, Waiting, DeleteCommit, workers
<1>13. CASE DeleteRollback
  BY <1>13, WriterOwnsRow
  DEF TypeOK, StoppedOpen, StoppedUnwritten, Deletions, NoDeletion, RowLocked, Compute,
      Effect, Open, Held, Waiting, DeleteRollback, rows, objects, workers
<1>14. ASSUME NEW c \in Connections, RevokeConnection(c)
      PROVE  StoppedOpen'
  BY <1>14, WriterOwnsRow
  DEF TypeOK, StoppedOpen, StoppedUnwritten, Deletions, NoDeletion, RowLocked, Compute,
      Effect, Open, Held, Waiting, RevokeConnection, Disconnected, objects, workers
<1>15. CASE RecoverExpired
  BY <1>15, WriterOwnsRow
  DEF TypeOK, StoppedOpen, StoppedUnwritten, Deletions, NoDeletion, RowLocked, Compute,
      Effect, Open, Held, Waiting, RecoverExpired, Lapsed, Recovered, objects, workers
<1>16. CASE UNCHANGED <<status, intent, deletion>>
  BY <1>16 DEF StoppedOpen, Compute, Effect
<1> QED
  BY <1>1, <1>2, <1>3, <1>4, <1>5, <1>6, <1>7, <1>8, <1>9, <1>10, <1>11, <1>12, <1>13,
      <1>14, <1>15, <1>16
  DEF Next, Worker, Claim, Commit, Caller, Operator, vars, rows, objects, workers,
      Fence, Heartbeat, Abandon, RegisterDependency, Drain, PermitEgress, Tick

\* A fence waits for the rows of a deletion, and a deletion for the fenced rows.
LEMMA UnwrittenStep == Base /\ [Next]_vars => StoppedUnwritten'
<1> SUFFICES ASSUME Base, [Next]_vars PROVE StoppedUnwritten'
  OBVIOUS
<1> USE DEF Base
<1>1. ASSUME NEW w \in Workers, NEW k \in Kinds, NEW j \in Jobs,
             NEW length \in LeaseLengths, ClaimLease(w, k, j, length)
      PROVE  StoppedUnwritten'
  BY <1>1, WriterOwnsRow
  DEF TypeOK, StoppedUnwritten, RowLocked, NoDeletion, NoLease, ClaimLease, Granted,
      CanClaim, Selected, Claimable, FailOverdue, Overdue, objects
<1>2. ASSUME NEW w \in Workers, NEW op \in FencedOps, Fence(w, op)
      PROVE  StoppedUnwritten'
  BY <1>2, WriterOwnsRow
  DEF TypeOK, StoppedUnwritten, RowLocked, NoDeletion, NoLease, Fence, Fenced, rows,
      objects
<1>3. ASSUME NEW w \in Workers, Heartbeat(w)
      PROVE  StoppedUnwritten'
  BY <1>3, WriterOwnsRow
  DEF TypeOK, StoppedUnwritten, RowLocked, NoDeletion, NoLease, Heartbeat, objects
<1>4. ASSUME NEW w \in Workers, Checkpoint(w)
      PROVE  StoppedUnwritten'
  BY <1>4, WriterOwnsRow
  DEF TypeOK, StoppedUnwritten, RowLocked, NoDeletion, NoLease, Checkpoint, objects
<1>5. ASSUME NEW w \in Workers, Complete(w)
      PROVE  StoppedUnwritten'
  BY <1>5, WriterOwnsRow
  DEF TypeOK, StoppedUnwritten, RowLocked, NoDeletion, NoLease, Complete
<1>6. ASSUME NEW w \in Workers, RetryCompute(w)
      PROVE  StoppedUnwritten'
  BY <1>6, WriterOwnsRow
  DEF TypeOK, StoppedUnwritten, RowLocked, NoDeletion, NoLease, RetryCompute, objects
<1>7. ASSUME NEW w \in Workers, Abandon(w)
      PROVE  StoppedUnwritten'
  BY <1>7, WriterOwnsRow
  DEF TypeOK, StoppedUnwritten, RowLocked, NoDeletion, NoLease, Abandon, rows, objects
<1>8. ASSUME NEW root \in Objects, DeleteDerived(root)
      PROVE  StoppedUnwritten'
  BY <1>8, WriterOwnsRow
  DEF TypeOK, StoppedUnwritten, RowLocked, NoDeletion, NoLease, DeleteDerived, Reading,
      rows, objects, workers
<1>9. CASE DeleteCommit
  BY <1>9, WriterOwnsRow
  DEF TypeOK, StoppedUnwritten, RowLocked, NoDeletion, NoLease, DeleteCommit, workers
<1>10. CASE DeleteRollback
  BY <1>10, WriterOwnsRow
  DEF TypeOK, StoppedUnwritten, RowLocked, NoDeletion, NoLease, DeleteRollback, rows,
      objects, workers
<1>11. CASE UNCHANGED <<lease, txn, deletion>>
  BY <1>11 DEF StoppedUnwritten
<1> QED
  BY <1>1, <1>2, <1>3, <1>4, <1>5, <1>6, <1>7, <1>8, <1>9, <1>10, <1>11
  DEF Next, Worker, Claim, Commit, Caller, Operator, vars, rows, objects, workers,
      EnqueueIn, EnqueueCommit, EnqueueRollback, Cancel, ClaimQuarantine, ClaimNothing,
      RegisterDependency, RevokeConnection, Drain, PermitEgress, RecoverExpired, Tick

\* Generations only grow, and a lease carries the generation its claim wrote.
LEMMA LeaseKnownStep == Base /\ [Next]_vars => LeaseKnown'
<1> SUFFICES ASSUME Base, [Next]_vars PROVE LeaseKnown'
  OBVIOUS
<1> USE DEF Base
<1>1. ASSUME NEW w \in Workers, NEW k \in Kinds, NEW j \in Jobs,
             NEW length \in LeaseLengths, ClaimLease(w, k, j, length)
      PROVE  LeaseKnown'
  BY <1>1
  DEF TypeOK, LeaseKnown, Leases, NoLease, ClaimLease, Granted, CanClaim, Selected,
      Claimable, FailOverdue, Overdue, objects
<1>2. ASSUME NEW w \in Workers, Complete(w)
      PROVE  LeaseKnown'
  BY <1>2
  DEF TypeOK, LeaseKnown, Leases, NoLease, Complete
<1>3. ASSUME NEW w \in Workers, RetryCompute(w)
      PROVE  LeaseKnown'
  BY <1>3
  DEF TypeOK, LeaseKnown, Leases, NoLease, RetryCompute, objects
<1>4. ASSUME NEW w \in Workers, Abandon(w)
      PROVE  LeaseKnown'
  BY <1>4
  DEF TypeOK, LeaseKnown, Leases, NoLease, Abandon, rows, objects
<1>5. CASE UNCHANGED <<generation, lease>>
  BY <1>5 DEF LeaseKnown
<1> QED
  BY <1>1, <1>2, <1>3, <1>4, <1>5
  DEF Next, Worker, Claim, Commit, Caller, Operator, vars, rows, objects, workers,
      EnqueueIn, EnqueueCommit, EnqueueRollback, Cancel, ClaimQuarantine, ClaimNothing,
      Fence, Heartbeat, Checkpoint, DeleteDerived, DeleteCommit, DeleteRollback,
      RegisterDependency, RevokeConnection, Drain, PermitEgress, RecoverExpired, Tick

\* A claim writes a generation above every lease already handed out for the job.
LEMMA OneLeaseStep == Base /\ [Next]_vars => OneCurrentLease'
<1> SUFFICES ASSUME Base, [Next]_vars PROVE OneCurrentLease'
  OBVIOUS
<1> USE DEF Base
<1>1. ASSUME NEW w \in Workers, NEW k \in Kinds, NEW j \in Jobs,
             NEW length \in LeaseLengths, ClaimLease(w, k, j, length)
      PROVE  OneCurrentLease'
  BY <1>1
  DEF TypeOK, LeaseKnown, OneCurrentLease, Leases, NoLease, ClaimLease, Granted,
      CanClaim, Selected, Claimable, FailOverdue, Overdue, objects
<1>2. ASSUME NEW w \in Workers, Complete(w)
      PROVE  OneCurrentLease'
  BY <1>2
  DEF TypeOK, LeaseKnown, OneCurrentLease, Leases, NoLease, Complete
<1>3. ASSUME NEW w \in Workers, RetryCompute(w)
      PROVE  OneCurrentLease'
  BY <1>3
  DEF TypeOK, LeaseKnown, OneCurrentLease, Leases, NoLease, RetryCompute, objects
<1>4. ASSUME NEW w \in Workers, Abandon(w)
      PROVE  OneCurrentLease'
  BY <1>4
  DEF TypeOK, LeaseKnown, OneCurrentLease, Leases, NoLease, Abandon, rows, objects
<1>5. CASE UNCHANGED <<generation, lease>>
  BY <1>5 DEF OneCurrentLease
<1> QED
  BY <1>1, <1>2, <1>3, <1>4, <1>5
  DEF Next, Worker, Claim, Commit, Caller, Operator, vars, rows, objects, workers,
      EnqueueIn, EnqueueCommit, EnqueueRollback, Cancel, ClaimQuarantine, ClaimNothing,
      Fence, Heartbeat, Checkpoint, DeleteDerived, DeleteCommit, DeleteRollback,
      RegisterDependency, RevokeConnection, Drain, PermitEgress, RecoverExpired, Tick

\* Nobody moves a row that an open fenced transaction has locked.
LEMMA WriterStep == Base /\ [Next]_vars => WriterStaysCurrent'
<1> SUFFICES ASSUME Base, [Next]_vars PROVE WriterStaysCurrent'
  OBVIOUS
<1> USE DEF Base
<1>1. ASSUME NEW j \in Jobs, NEW it \in Intents, EnqueueIn(j, it)
      PROVE  WriterStaysCurrent'
  BY <1>1, WriterOwnsRow, LeaseTyped
  DEF TypeOK, StoppedUnwritten, WriterStaysCurrent, Current, RowLocked, Open, Held,
      Waiting, Final, EnqueueIn, objects, workers
<1>2. ASSUME NEW j \in Jobs, EnqueueCommit(j)
      PROVE  WriterStaysCurrent'
  BY <1>2, WriterOwnsRow, LeaseTyped
  DEF TypeOK, StoppedUnwritten, WriterStaysCurrent, Current, RowLocked, Open, Held,
      Waiting, Final, EnqueueCommit, objects, workers
<1>3. ASSUME NEW j \in Jobs, EnqueueRollback(j)
      PROVE  WriterStaysCurrent'
  BY <1>3, WriterOwnsRow, LeaseTyped
  DEF TypeOK, StoppedUnwritten, WriterStaysCurrent, Current, RowLocked, Open, Held,
      Waiting, Final, EnqueueRollback, objects, workers
<1>4. ASSUME NEW j \in Jobs, Cancel(j)
      PROVE  WriterStaysCurrent'
  BY <1>4, WriterOwnsRow, LeaseTyped
  DEF TypeOK, StoppedUnwritten, WriterStaysCurrent, Current, RowLocked, Open, Held,
      Waiting, Final, Cancel, objects, workers
<1>5. ASSUME NEW w \in Workers, NEW k \in Kinds, NEW j \in Jobs,
             NEW length \in LeaseLengths, ClaimLease(w, k, j, length)
      PROVE  WriterStaysCurrent'
  BY <1>5, WriterOwnsRow, LeaseTyped
  DEF TypeOK, StoppedUnwritten, WriterStaysCurrent, Current, RowLocked, Open, Held,
      Waiting, Final, ClaimLease, Granted, CanClaim, Selected, Claimable, FailOverdue,
      Overdue, objects
<1>6. ASSUME NEW w \in Workers, NEW k \in Kinds, NEW j \in Jobs, ClaimQuarantine(w, k, j)
      PROVE  WriterStaysCurrent'
  BY <1>6, WriterOwnsRow, LeaseTyped
  DEF TypeOK, StoppedUnwritten, WriterStaysCurrent, Current, RowLocked, Open, Held,
      Waiting, Final, ClaimQuarantine, CanClaim, Selected, Claimable, FailOverdue,
      Overdue, objects, workers
<1>7. ASSUME NEW w \in Workers, NEW k \in Kinds, ClaimNothing(w, k)
      PROVE  WriterStaysCurrent'
  BY <1>7, WriterOwnsRow, LeaseTyped
  DEF TypeOK, StoppedUnwritten, WriterStaysCurrent, Current, RowLocked, Open, Held,
      Waiting, Final, ClaimNothing, CanClaim, FailOverdue, Overdue, objects, workers
<1>8. ASSUME NEW w \in Workers, NEW op \in FencedOps, Fence(w, op)
      PROVE  WriterStaysCurrent'
  BY <1>8, WriterOwnsRow, LeaseTyped
  DEF TypeOK, StoppedUnwritten, WriterStaysCurrent, Current, RowLocked, Open, Held,
      Waiting, Final, Fence, Fenced, rows, objects
<1>9. ASSUME NEW w \in Workers, Heartbeat(w)
      PROVE  WriterStaysCurrent'
  BY <1>9, WriterOwnsRow, LeaseTyped
  DEF TypeOK, StoppedUnwritten, WriterStaysCurrent, Current, RowLocked, Open, Held,
      Waiting, Final, Heartbeat, objects
<1>10. ASSUME NEW w \in Workers, Checkpoint(w)
      PROVE  WriterStaysCurrent'
  BY <1>10, WriterOwnsRow, LeaseTyped
  DEF TypeOK, StoppedUnwritten, WriterStaysCurrent, Current, RowLocked, Open, Held,
      Waiting, Final, Checkpoint, objects
<1>11. ASSUME NEW w \in Workers, Complete(w)
      PROVE  WriterStaysCurrent'
  BY <1>11, WriterOwnsRow, LeaseTyped
  DEF TypeOK, StoppedUnwritten, WriterStaysCurrent, Current, RowLocked, Open, Held,
      Waiting, Final, Complete
<1>12. ASSUME NEW w \in Workers, RetryCompute(w)
      PROVE  WriterStaysCurrent'
  BY <1>12, WriterOwnsRow, LeaseTyped
  DEF TypeOK, StoppedUnwritten, WriterStaysCurrent, Current, RowLocked, Open, Held,
      Waiting, Final, RetryCompute, objects
<1>13. ASSUME NEW w \in Workers, Abandon(w)
      PROVE  WriterStaysCurrent'
  BY <1>13, WriterOwnsRow, LeaseTyped
  DEF TypeOK, StoppedUnwritten, WriterStaysCurrent, Current, RowLocked, Open, Held,
      Waiting, Final, Abandon, rows, objects
<1>14. CASE DeleteCommit
  BY <1>14, WriterOwnsRow DEF TypeOK, StoppedUnwritten, WriterStaysCurrent, Current, DeleteCommit, workers
<1>15. ASSUME NEW c \in Connections, RevokeConnection(c)
      PROVE  WriterStaysCurrent'
  BY <1>15, WriterOwnsRow, LeaseTyped
  DEF TypeOK, StoppedUnwritten, WriterStaysCurrent, Current, RowLocked, Open, Held,
      Waiting, Final, RevokeConnection, Disconnected, objects, workers
<1>16. CASE RecoverExpired
  BY <1>16, WriterOwnsRow, LeaseTyped
  DEF TypeOK, StoppedUnwritten, WriterStaysCurrent, Current, RowLocked, Open, Held,
      Waiting, Final, RecoverExpired, Lapsed, Recovered, objects, workers
<1>17. CASE UNCHANGED <<status, generation, lease, txn>>
  BY <1>17 DEF WriterStaysCurrent, Current
<1> QED
  BY <1>1, <1>2, <1>3, <1>4, <1>5, <1>6, <1>7, <1>8, <1>9, <1>10, <1>11, <1>12, <1>13,
      <1>14, <1>15, <1>16, <1>17
  DEF Next, Worker, Claim, Commit, Caller, Operator, vars, rows, objects, workers,
      DeleteDerived, DeleteRollback, RegisterDependency, Drain, PermitEgress, Tick

-----------------------------------------------------------------------------
(* The inductive invariant: the safety properties and what keeps them. *)

\* A row no worker has claimed yet has used no attempt and no generation.
FreshRows ==
  \A j \in Jobs : status[j] \in {"absent", "inserting"} => generation[j] = 0 /\ attempts[j] = 0

\* complete and retry_compute refuse leases of effect jobs before the fence.
OnlyComputeFinishes ==
  \A w \in Workers : txn[w] \in {"complete", "retry"} => Compute(lease[w].job)

\* Dependency edges are written together with the result they lead to.
EdgesOfResults == \A j \in Jobs : parents[j] # {} => object[j] # "absent"

\* Only an effect whose fate is unknown waits for reconciliation.
OnlyEffectsAwait == \A j \in Jobs : status[j] = "awaiting_reconciliation" => Effect(j)

\* The lineage lock has one holder: a completion or a deletion.
OneLineageHolder ==
  \A w \in Workers : txn[w] = "complete" =>
    /\ deletion = NoDeletion
    /\ \A v \in Workers : v # w => txn[v] # "complete"

\* The input a completion checked stays readable until it commits.
CompletionReadsLive ==
  \A w \in Workers : txn[w] = "complete" => InputLive(lease[w].job)

DeletionHasRoot == deletion # NoDeletion => object[deletion.root] # "absent"

IInv ==
  /\ Base
  /\ FreshRows
  /\ OnlyEffectsAwait
  /\ OnlyComputeFinishes
  /\ EdgesOfResults
  /\ EffectClaimedOnce
  /\ ResultIffCompleted
  /\ NoOrphanedResult
  /\ OneLineageHolder
  /\ CompletionReadsLive
  /\ DeletionHasRoot
  /\ AttemptsBounded

LEMMA IInvInit == Init => IInv
<1> SUFFICES ASSUME Init PROVE IInv
  OBVIOUS
<1>1. Base
  BY BaseInit
<1>2. EffectClaimedOnce /\ AttemptsBounded /\ FreshRows /\ OnlyEffectsAwait
  BY DEF Init, OnlyEffectsAwait, EffectClaimedOnce, AttemptsBounded, FreshRows, Waiting
<1>3. ResultIffCompleted
  BY NamesAssumption DEF Init, ResultIffCompleted, Objects
<1>4. NoOrphanedResult /\ EdgesOfResults /\ OnlyComputeFinishes
  BY DEF Init, NoOrphanedResult, EdgesOfResults, OnlyComputeFinishes
<1>5. OneLineageHolder /\ CompletionReadsLive /\ DeletionHasRoot
  BY DEF Init, OneLineageHolder, CompletionReadsLive, DeletionHasRoot
<1> QED BY <1>1, <1>2, <1>3, <1>4, <1>5 DEF IInv

\* What a deletion reaches: the root, only objects that exist, and every result
\* that has a parent among them.
LEMMA DescendantsClosed ==
  ASSUME NEW root \in Objects, NEW j \in Jobs, parents[j] \cap Descendants(root) # {}
  PROVE  j \in Descendants(root)
<1>1. PICK p : p \in parents[j] /\ p \in Descendants(root)
  OBVIOUS
<1>2. ASSUME NEW S \in SUBSET Objects, root \in S,
             \A i \in Jobs : (parents[i] \cap S # {}) => i \in S
      PROVE  j \in S
  <2>1. p \in S
    BY <1>1, <1>2 DEF Descendants
  <2> QED BY <1>1, <1>2, <2>1
<1> QED BY <1>2 DEF Descendants, Objects

LEMMA ReachedExist ==
  ASSUME IInv, NEW root \in Objects, object[root] # "absent", NEW o \in Descendants(root)
  PROVE  object[o] # "absent"
<1> DEFINE S == {root} \cup {j \in Jobs : parents[j] # {}}
<1>1. S \in SUBSET Objects /\ root \in S
  BY DEF Objects
<1>2. \A j \in Jobs : (parents[j] \cap S # {}) => j \in S
  OBVIOUS
<1>3. o \in S
  BY <1>1, <1>2 DEF Descendants
<1> QED BY <1>3 DEF IInv, EdgesOfResults

\* Only a claim raises a generation or an attempt count, and it claims waiting rows.
LEMMA FreshStep == IInv /\ [Next]_vars => FreshRows'
<1> SUFFICES ASSUME IInv, [Next]_vars PROVE FreshRows'
  OBVIOUS
<1> USE DEF IInv
<1>1. ASSUME NEW j \in Jobs, NEW it \in Intents, EnqueueIn(j, it)
      PROVE  FreshRows'
  BY <1>1, WriterOwnsRow
  DEF Base, TypeOK, FreshRows, Held, Waiting, EnqueueIn, objects, workers
<1>2. ASSUME NEW j \in Jobs, EnqueueCommit(j)
      PROVE  FreshRows'
  BY <1>2, WriterOwnsRow
  DEF Base, TypeOK, FreshRows, Held, Waiting, EnqueueCommit, objects, workers
<1>3. ASSUME NEW j \in Jobs, EnqueueRollback(j)
      PROVE  FreshRows'
  BY <1>3, WriterOwnsRow
  DEF Base, TypeOK, FreshRows, Held, Waiting, EnqueueRollback, objects, workers
<1>4. ASSUME NEW j \in Jobs, Cancel(j)
      PROVE  FreshRows'
  BY <1>4, WriterOwnsRow
  DEF Base, TypeOK, FreshRows, Held, Waiting, Cancel, objects, workers
<1>5. ASSUME NEW w \in Workers, NEW k \in Kinds, NEW j \in Jobs,
             NEW length \in LeaseLengths, ClaimLease(w, k, j, length)
      PROVE  FreshRows'
  BY <1>5, WriterOwnsRow
  DEF Base, TypeOK, FreshRows, Held, Waiting, ClaimLease, Granted, CanClaim, Selected,
      Claimable, FailOverdue, Overdue, objects
<1>6. ASSUME NEW w \in Workers, NEW k \in Kinds, NEW j \in Jobs, ClaimQuarantine(w, k, j)
      PROVE  FreshRows'
  BY <1>6, WriterOwnsRow
  DEF Base, TypeOK, FreshRows, Held, Waiting, ClaimQuarantine, CanClaim, Selected,
      Claimable, FailOverdue, Overdue, objects, workers
<1>7. ASSUME NEW w \in Workers, NEW k \in Kinds, ClaimNothing(w, k)
      PROVE  FreshRows'
  BY <1>7, WriterOwnsRow
  DEF Base, TypeOK, FreshRows, Held, Waiting, ClaimNothing, CanClaim, FailOverdue,
      Overdue, objects, workers
<1>8. ASSUME NEW w \in Workers, Checkpoint(w)
      PROVE  FreshRows'
  BY <1>8, WriterOwnsRow
  DEF Base, TypeOK, FreshRows, Held, Waiting, Checkpoint, objects
<1>9. ASSUME NEW w \in Workers, Complete(w)
      PROVE  FreshRows'
  BY <1>9, WriterOwnsRow
  DEF Base, TypeOK, FreshRows, Held, Waiting, Complete
<1>10. ASSUME NEW w \in Workers, RetryCompute(w)
      PROVE  FreshRows'
  BY <1>10, WriterOwnsRow
  DEF Base, TypeOK, FreshRows, Held, Waiting, RetryCompute, objects
<1>11. CASE DeleteCommit
  BY <1>11, WriterOwnsRow
  DEF Base, TypeOK, FreshRows, Held, Waiting, DeleteCommit, workers
<1>12. ASSUME NEW c \in Connections, RevokeConnection(c)
      PROVE  FreshRows'
  BY <1>12, WriterOwnsRow
  DEF Base, TypeOK, FreshRows, Held, Waiting, RevokeConnection, Disconnected, objects,
      workers
<1>13. CASE RecoverExpired
  BY <1>13, WriterOwnsRow
  DEF Base, TypeOK, FreshRows, Held, Waiting, RecoverExpired, Lapsed, Recovered,
      objects, workers
<1>14. CASE UNCHANGED <<status, generation, attempts>>
  BY <1>14 DEF FreshRows
<1> QED
  BY <1>1, <1>2, <1>3, <1>4, <1>5, <1>6, <1>7, <1>8, <1>9, <1>10, <1>11, <1>12, <1>13,
      <1>14
  DEF Next, Worker, Claim, Commit, Caller, Operator, vars, rows, objects, workers,
      Fence, Heartbeat, Abandon, DeleteDerived, DeleteRollback, RegisterDependency,
      Drain, PermitEgress, Tick

\* The kind of a row a worker writes does not change under it.
LEMMA FinishStep == IInv /\ [Next]_vars => OnlyComputeFinishes'
<1> SUFFICES ASSUME IInv, [Next]_vars PROVE OnlyComputeFinishes'
  OBVIOUS
<1> USE DEF IInv
<1>1. ASSUME NEW j \in Jobs, NEW it \in Intents, EnqueueIn(j, it)
      PROVE  OnlyComputeFinishes'
  BY <1>1, WriterOwnsRow
  DEF Base, TypeOK, OnlyComputeFinishes, Effect, Compute, Held, Waiting, NoIntent,
      CanClaim, EnqueueIn, objects, workers
<1>2. ASSUME NEW j \in Jobs, EnqueueRollback(j)
      PROVE  OnlyComputeFinishes'
  BY <1>2, WriterOwnsRow
  DEF Base, TypeOK, OnlyComputeFinishes, Effect, Compute, Held, Waiting, NoIntent,
      CanClaim, EnqueueRollback, objects, workers
<1>3. ASSUME NEW w \in Workers, NEW k \in Kinds, NEW j \in Jobs,
             NEW length \in LeaseLengths, ClaimLease(w, k, j, length)
      PROVE  OnlyComputeFinishes'
  BY <1>3, WriterOwnsRow
  DEF Base, TypeOK, OnlyComputeFinishes, Effect, Compute, Held, Waiting, NoIntent,
      CanClaim, ClaimLease, Granted, CanClaim, Selected, Claimable, FailOverdue,
      Overdue, objects
<1>4. ASSUME NEW w \in Workers, NEW op \in FencedOps, Fence(w, op)
      PROVE  OnlyComputeFinishes'
  BY <1>4, WriterOwnsRow
  DEF Base, TypeOK, OnlyComputeFinishes, Effect, Compute, Held, Waiting, NoIntent,
      CanClaim, Fence, Fenced, rows, objects
<1>5. ASSUME NEW w \in Workers, Heartbeat(w)
      PROVE  OnlyComputeFinishes'
  BY <1>5, WriterOwnsRow
  DEF Base, TypeOK, OnlyComputeFinishes, Effect, Compute, Held, Waiting, NoIntent,
      CanClaim, Heartbeat, objects
<1>6. ASSUME NEW w \in Workers, Checkpoint(w)
      PROVE  OnlyComputeFinishes'
  BY <1>6, WriterOwnsRow
  DEF Base, TypeOK, OnlyComputeFinishes, Effect, Compute, Held, Waiting, NoIntent,
      CanClaim, Checkpoint, objects
<1>7. ASSUME NEW w \in Workers, Complete(w)
      PROVE  OnlyComputeFinishes'
  BY <1>7, WriterOwnsRow
  DEF Base, TypeOK, OnlyComputeFinishes, Effect, Compute, Held, Waiting, NoIntent,
      CanClaim, Complete
<1>8. ASSUME NEW w \in Workers, RetryCompute(w)
      PROVE  OnlyComputeFinishes'
  BY <1>8, WriterOwnsRow
  DEF Base, TypeOK, OnlyComputeFinishes, Effect, Compute, Held, Waiting, NoIntent,
      CanClaim, RetryCompute, objects
<1>9. ASSUME NEW w \in Workers, Abandon(w)
      PROVE  OnlyComputeFinishes'
  BY <1>9, WriterOwnsRow
  DEF Base, TypeOK, OnlyComputeFinishes, Effect, Compute, Held, Waiting, NoIntent,
      CanClaim, Abandon, rows, objects
<1>10. CASE UNCHANGED <<intent, lease, txn>>
  BY <1>10 DEF OnlyComputeFinishes, Compute, Effect
<1> QED
  BY <1>1, <1>2, <1>3, <1>4, <1>5, <1>6, <1>7, <1>8, <1>9, <1>10
  DEF Next, Worker, Claim, Commit, Caller, Operator, vars, rows, objects, workers,
      EnqueueCommit, Cancel, ClaimQuarantine, ClaimNothing, DeleteDerived, DeleteCommit,
      DeleteRollback, RegisterDependency, RevokeConnection, Drain, PermitEgress,
      RecoverExpired, Tick

\* Edges appear in the transaction that publishes their result; results never vanish.
LEMMA EdgesStep == IInv /\ [Next]_vars => EdgesOfResults'
<1> SUFFICES ASSUME IInv, [Next]_vars PROVE EdgesOfResults'
  OBVIOUS
<1> USE DEF IInv
<1>1. ASSUME NEW w \in Workers, Complete(w)
      PROVE  EdgesOfResults'
  <2> DEFINE j == lease[w].job
  <2>1. j \in Jobs /\ j \in Objects
    BY <1>1, WriterOwnsRow DEF Complete, Objects
  <2>2. object'[j] = "live" /\ \A i \in Jobs : i # j => object'[i] = object[i] /\ parents'[i] = parents[i]
    BY <1>1, <2>1 DEF Base, TypeOK, Complete, Objects
  <2> QED BY <2>1, <2>2 DEF EdgesOfResults
<1>2. CASE DeleteCommit
  BY <1>2 DEF Base, TypeOK, EdgesOfResults, DeleteCommit, Objects
<1>3. ASSUME NEW parent \in Objects, NEW child \in Jobs, RegisterDependency(parent, child)
      PROVE  EdgesOfResults'
  BY <1>3 DEF Base, TypeOK, EdgesOfResults, RegisterDependency
<1>4. CASE UNCHANGED <<object, parents>>
  BY <1>4 DEF EdgesOfResults
<1> QED
  BY <1>1, <1>2, <1>3, <1>4
  DEF Next, Worker, Claim, Commit, Caller, Operator, vars, rows, objects, workers,
      EnqueueIn, EnqueueCommit, EnqueueRollback, Cancel, ClaimLease, ClaimQuarantine,
      ClaimNothing, Fence, Heartbeat, Checkpoint, RetryCompute, Abandon, DeleteDerived,
      DeleteRollback, RevokeConnection, Drain, PermitEgress, RecoverExpired, Tick

\* Only a claim raises the generation, and only of a waiting job; an effect job is
\* waiting only before its first claim.
LEMMA EffectStep == IInv /\ [Next]_vars => EffectClaimedOnce'
<1> SUFFICES ASSUME IInv, [Next]_vars PROVE EffectClaimedOnce'
  OBVIOUS
<1> USE DEF IInv
<1>1. ASSUME NEW j \in Jobs, NEW it \in Intents, EnqueueIn(j, it)
      PROVE  EffectClaimedOnce'
  BY <1>1, WriterOwnsRow, NamesAssumption
  DEF Base, TypeOK, EffectClaimedOnce, FreshRows, OnlyComputeFinishes, Effect, Compute,
      Held, Waiting, Intents, NoIntent, EnqueueIn, objects, workers
<1>2. ASSUME NEW j \in Jobs, EnqueueCommit(j)
      PROVE  EffectClaimedOnce'
  BY <1>2, WriterOwnsRow, NamesAssumption
  DEF Base, TypeOK, EffectClaimedOnce, FreshRows, OnlyComputeFinishes, Effect, Compute,
      Held, Waiting, Intents, NoIntent, EnqueueCommit, objects, workers
<1>3. ASSUME NEW j \in Jobs, EnqueueRollback(j)
      PROVE  EffectClaimedOnce'
  BY <1>3, WriterOwnsRow, NamesAssumption
  DEF Base, TypeOK, EffectClaimedOnce, FreshRows, OnlyComputeFinishes, Effect, Compute,
      Held, Waiting, Intents, NoIntent, EnqueueRollback, objects, workers
<1>4. ASSUME NEW j \in Jobs, Cancel(j)
      PROVE  EffectClaimedOnce'
  BY <1>4, WriterOwnsRow, NamesAssumption
  DEF Base, TypeOK, EffectClaimedOnce, FreshRows, OnlyComputeFinishes, Effect, Compute,
      Held, Waiting, Intents, NoIntent, Cancel, objects, workers
<1>5. ASSUME NEW w \in Workers, NEW k \in Kinds, NEW j \in Jobs,
             NEW length \in LeaseLengths, ClaimLease(w, k, j, length)
      PROVE  EffectClaimedOnce'
  BY <1>5, WriterOwnsRow, NamesAssumption
  DEF Base, TypeOK, EffectClaimedOnce, FreshRows, OnlyComputeFinishes, Effect, Compute,
      Held, Waiting, Intents, NoIntent, ClaimLease, Granted, CanClaim, Selected,
      Claimable, FailOverdue, Overdue, objects
<1>6. ASSUME NEW w \in Workers, NEW k \in Kinds, NEW j \in Jobs, ClaimQuarantine(w, k, j)
      PROVE  EffectClaimedOnce'
  BY <1>6, WriterOwnsRow, NamesAssumption
  DEF Base, TypeOK, EffectClaimedOnce, FreshRows, OnlyComputeFinishes, Effect, Compute,
      Held, Waiting, Intents, NoIntent, ClaimQuarantine, CanClaim, Selected, Claimable,
      FailOverdue, Overdue, objects, workers
<1>7. ASSUME NEW w \in Workers, NEW k \in Kinds, ClaimNothing(w, k)
      PROVE  EffectClaimedOnce'
  BY <1>7, WriterOwnsRow, NamesAssumption
  DEF Base, TypeOK, EffectClaimedOnce, FreshRows, OnlyComputeFinishes, Effect, Compute,
      Held, Waiting, Intents, NoIntent, ClaimNothing, CanClaim, FailOverdue, Overdue,
      objects, workers
<1>8. ASSUME NEW w \in Workers, Checkpoint(w)
      PROVE  EffectClaimedOnce'
  BY <1>8, WriterOwnsRow, NamesAssumption
  DEF Base, TypeOK, EffectClaimedOnce, FreshRows, OnlyComputeFinishes, Effect, Compute,
      Held, Waiting, Intents, NoIntent, Checkpoint, objects
<1>9. ASSUME NEW w \in Workers, Complete(w)
      PROVE  EffectClaimedOnce'
  BY <1>9, WriterOwnsRow, NamesAssumption
  DEF Base, TypeOK, EffectClaimedOnce, FreshRows, OnlyComputeFinishes, Effect, Compute,
      Held, Waiting, Intents, NoIntent, Complete
<1>10. ASSUME NEW w \in Workers, RetryCompute(w)
      PROVE  EffectClaimedOnce'
  BY <1>10, WriterOwnsRow, NamesAssumption
  DEF Base, TypeOK, EffectClaimedOnce, FreshRows, OnlyComputeFinishes, Effect, Compute,
      Held, Waiting, Intents, NoIntent, RetryCompute, objects
<1>11. CASE DeleteCommit
  BY <1>11, WriterOwnsRow, NamesAssumption
  DEF Base, TypeOK, EffectClaimedOnce, FreshRows, OnlyComputeFinishes, Effect, Compute,
      Held, Waiting, Intents, NoIntent, DeleteCommit, workers
<1>12. ASSUME NEW c \in Connections, RevokeConnection(c)
      PROVE  EffectClaimedOnce'
  BY <1>12, WriterOwnsRow, NamesAssumption
  DEF Base, TypeOK, EffectClaimedOnce, FreshRows, OnlyComputeFinishes, Effect, Compute,
      Held, Waiting, Intents, NoIntent, RevokeConnection, Disconnected, objects, workers
<1>13. CASE RecoverExpired
  BY <1>13, WriterOwnsRow, NamesAssumption
  DEF Base, TypeOK, EffectClaimedOnce, FreshRows, OnlyComputeFinishes, Effect, Compute,
      Held, Waiting, Intents, NoIntent, RecoverExpired, Lapsed, Recovered, objects,
      workers
<1>14. CASE UNCHANGED <<intent, status, generation>>
  BY <1>14 DEF EffectClaimedOnce, Effect
<1> QED
  BY <1>1, <1>2, <1>3, <1>4, <1>5, <1>6, <1>7, <1>8, <1>9, <1>10, <1>11, <1>12, <1>13,
      <1>14
  DEF Next, Worker, Claim, Commit, Caller, Operator, vars, rows, objects, workers,
      Fence, Heartbeat, Abandon, DeleteDerived, DeleteRollback, RegisterDependency,
      Drain, PermitEgress, Tick

\* The result and the completed status are written by one transaction; a deletion
\* tombstones only objects that exist.
LEMMA ResultStep == IInv /\ [Next]_vars => ResultIffCompleted'
<1> SUFFICES ASSUME IInv, [Next]_vars PROVE ResultIffCompleted'
  OBVIOUS
<1> USE DEF IInv
<1>1. ASSUME NEW j \in Jobs, NEW it \in Intents, EnqueueIn(j, it)
      PROVE  ResultIffCompleted'
  BY <1>1, WriterOwnsRow
  DEF Base, TypeOK, ResultIffCompleted, StoppedOpen, Open, Held, Waiting, Objects,
      EnqueueIn, objects, workers
<1>2. ASSUME NEW j \in Jobs, EnqueueCommit(j)
      PROVE  ResultIffCompleted'
  BY <1>2, WriterOwnsRow
  DEF Base, TypeOK, ResultIffCompleted, StoppedOpen, Open, Held, Waiting, Objects,
      EnqueueCommit, objects, workers
<1>3. ASSUME NEW j \in Jobs, EnqueueRollback(j)
      PROVE  ResultIffCompleted'
  BY <1>3, WriterOwnsRow
  DEF Base, TypeOK, ResultIffCompleted, StoppedOpen, Open, Held, Waiting, Objects,
      EnqueueRollback, objects, workers
<1>4. ASSUME NEW j \in Jobs, Cancel(j)
      PROVE  ResultIffCompleted'
  BY <1>4, WriterOwnsRow
  DEF Base, TypeOK, ResultIffCompleted, StoppedOpen, Open, Held, Waiting, Objects,
      Cancel, objects, workers
<1>5. ASSUME NEW w \in Workers, NEW k \in Kinds, NEW j \in Jobs,
             NEW length \in LeaseLengths, ClaimLease(w, k, j, length)
      PROVE  ResultIffCompleted'
  BY <1>5, WriterOwnsRow
  DEF Base, TypeOK, ResultIffCompleted, StoppedOpen, Open, Held, Waiting, Objects,
      ClaimLease, Granted, CanClaim, Selected, Claimable, FailOverdue, Overdue, objects
<1>6. ASSUME NEW w \in Workers, NEW k \in Kinds, NEW j \in Jobs, ClaimQuarantine(w, k, j)
      PROVE  ResultIffCompleted'
  BY <1>6, WriterOwnsRow
  DEF Base, TypeOK, ResultIffCompleted, StoppedOpen, Open, Held, Waiting, Objects,
      ClaimQuarantine, CanClaim, Selected, Claimable, FailOverdue, Overdue, objects,
      workers
<1>7. ASSUME NEW w \in Workers, NEW k \in Kinds, ClaimNothing(w, k)
      PROVE  ResultIffCompleted'
  BY <1>7, WriterOwnsRow
  DEF Base, TypeOK, ResultIffCompleted, StoppedOpen, Open, Held, Waiting, Objects,
      ClaimNothing, CanClaim, FailOverdue, Overdue, objects, workers
<1>8. ASSUME NEW w \in Workers, Checkpoint(w)
      PROVE  ResultIffCompleted'
  BY <1>8, WriterOwnsRow
  DEF Base, TypeOK, ResultIffCompleted, StoppedOpen, Open, Held, Waiting, Objects,
      Checkpoint, objects
<1>9. ASSUME NEW w \in Workers, Complete(w)
      PROVE  ResultIffCompleted'
  BY <1>9, WriterOwnsRow
  DEF Base, TypeOK, ResultIffCompleted, StoppedOpen, Open, Held, Waiting, Objects,
      Complete
<1>10. ASSUME NEW w \in Workers, RetryCompute(w)
      PROVE  ResultIffCompleted'
  BY <1>10, WriterOwnsRow
  DEF Base, TypeOK, ResultIffCompleted, StoppedOpen, Open, Held, Waiting, Objects,
      RetryCompute, objects
<1>11. CASE DeleteCommit
  <2>1. deletion.root \in Objects /\ object[deletion.root] # "absent"
    BY <1>11 DEF Base, TypeOK, Deletions, DeleteCommit, DeletionHasRoot
  <2>2. \A o \in Descendants(deletion.root) : object[o] # "absent"
    <3> HIDE DEF IInv
    <3> QED BY <2>1, ReachedExist
  <2>3. \A j \in Jobs : object'[j] # "absent" <=> object[j] # "absent"
    BY <1>11, <2>2 DEF Base, TypeOK, DeleteCommit, Objects
  <2>4. \A j \in Jobs : status'[j] = "completed" <=> status[j] = "completed"
    BY <1>11 DEF Base, TypeOK, StoppedOpen, DeleteCommit, Open, Held, Waiting
  <2> QED BY <2>3, <2>4 DEF ResultIffCompleted
<1>12. ASSUME NEW c \in Connections, RevokeConnection(c)
      PROVE  ResultIffCompleted'
  BY <1>12, WriterOwnsRow
  DEF Base, TypeOK, ResultIffCompleted, StoppedOpen, Open, Held, Waiting, Objects,
      RevokeConnection, Disconnected, objects, workers
<1>13. CASE RecoverExpired
  BY <1>13, WriterOwnsRow
  DEF Base, TypeOK, ResultIffCompleted, StoppedOpen, Open, Held, Waiting, Objects,
      RecoverExpired, Lapsed, Recovered, objects, workers
<1>14. CASE UNCHANGED <<status, object>>
  BY <1>14 DEF ResultIffCompleted
<1> QED
  BY <1>1, <1>2, <1>3, <1>4, <1>5, <1>6, <1>7, <1>8, <1>9, <1>10, <1>11, <1>12, <1>13,
      <1>14
  DEF Next, Worker, Claim, Commit, Caller, Operator, vars, rows, objects, workers,
      Fence, Heartbeat, Abandon, DeleteDerived, DeleteRollback, RegisterDependency,
      Drain, PermitEgress, Tick

\* A completion reads live sources under the lineage lock; a deletion takes every
\* descendant along.
LEMMA OrphanStep == IInv /\ [Next]_vars => NoOrphanedResult'
<1> SUFFICES ASSUME IInv, [Next]_vars PROVE NoOrphanedResult'
  OBVIOUS
<1> USE DEF IInv
<1>1. ASSUME NEW w \in Workers, Complete(w)
      PROVE  NoOrphanedResult'
  <2> DEFINE j == lease[w].job
  <2>1. j \in Jobs /\ j \in Objects /\ object[intent[j].input] = "live"
    BY <1>1, WriterOwnsRow
    DEF Complete, CompletionReadsLive, InputLive, Objects
  <2>2. \A o \in Objects : object[o] = "live" => object'[o] = "live"
    BY <1>1, <2>1 DEF Base, TypeOK, Complete
  <2>3. \A o \in parents'[j] : object'[o] = "live"
    <3>1. PICK sources \in SUBSET {r \in Jobs : object[r] = "live"} :
            parents' = [parents EXCEPT ![j] = sources \cup {intent[j].input}]
      BY <1>1 DEF Complete
    <3>2. parents'[j] = sources \cup {intent[j].input}
      BY <2>1, <3>1 DEF Base, TypeOK
    <3>3. intent[j].input \in Objects
      BY <1>1, WriterOwnsRow DEF Complete, Intents, Objects
    <3> QED BY <2>1, <2>2, <3>2, <3>3 DEF Objects
  <2>4. ASSUME NEW i \in Jobs, i # j, object'[i] = "live"
        PROVE  \A o \in parents'[i] : object'[o] = "live"
    <3>1. object[i] = "live" /\ parents'[i] = parents[i] /\ parents[i] \subseteq Objects
      BY <1>1, <2>1, <2>4 DEF Base, TypeOK, Complete, Objects
    <3> QED BY <2>2, <3>1 DEF NoOrphanedResult
  <2> QED BY <2>3, <2>4 DEF NoOrphanedResult
<1>2. CASE DeleteCommit
  <2> SUFFICES ASSUME NEW i \in Jobs, object'[i] = "live", NEW o \in parents[i]
               PROVE  object'[o] = "live"
    BY <1>2 DEF DeleteCommit, NoOrphanedResult
  <2>1. i \in Objects /\ o \in Objects /\ deletion.root \in Objects
    BY <1>2 DEF Base, TypeOK, Objects, DeleteCommit, Deletions
  <2>2. i \notin Descendants(deletion.root) /\ object[i] = "live"
    BY <1>2, <2>1 DEF DeleteCommit
  <2>3. object[o] = "live"
    BY <2>2 DEF NoOrphanedResult
  <2>4. o \notin Descendants(deletion.root)
    BY <2>1, <2>2, DescendantsClosed
  <2> QED BY <1>2, <2>1, <2>3, <2>4 DEF DeleteCommit
<1>3. ASSUME NEW parent \in Objects, NEW child \in Jobs, RegisterDependency(parent, child)
      PROVE  NoOrphanedResult'
  BY <1>3, WriterOwnsRow
  DEF Base, TypeOK, NoOrphanedResult, Held, Waiting, Objects, RegisterDependency, rows,
      workers
<1>4. CASE UNCHANGED <<object, parents>>
  BY <1>4 DEF NoOrphanedResult
<1> QED
  BY <1>1, <1>2, <1>3, <1>4
  DEF Next, Worker, Claim, Commit, Caller, Operator, vars, rows, objects, workers,
      EnqueueIn, EnqueueCommit, EnqueueRollback, Cancel, ClaimLease, ClaimQuarantine,
      ClaimNothing, Fence, Heartbeat, Checkpoint, RetryCompute, Abandon, DeleteDerived,
      DeleteRollback, RevokeConnection, Drain, PermitEgress, RecoverExpired, Tick

\* The completion checked its input, and no deletion commits while it is open.
LEMMA InputStep == IInv /\ [Next]_vars => CompletionReadsLive'
<1> SUFFICES ASSUME IInv, [Next]_vars PROVE CompletionReadsLive'
  OBVIOUS
<1> USE DEF IInv
<1>1. ASSUME NEW j \in Jobs, NEW it \in Intents, EnqueueIn(j, it)
      PROVE  CompletionReadsLive'
  BY <1>1, WriterOwnsRow
  DEF Base, TypeOK, CompletionReadsLive, OneLineageHolder, InputLive, Held, Objects,
      Intents, EnqueueIn, objects, workers
<1>2. ASSUME NEW j \in Jobs, EnqueueRollback(j)
      PROVE  CompletionReadsLive'
  BY <1>2, WriterOwnsRow
  DEF Base, TypeOK, CompletionReadsLive, OneLineageHolder, InputLive, Held, Objects,
      Intents, EnqueueRollback, objects, workers
<1>3. ASSUME NEW w \in Workers, NEW k \in Kinds, NEW j \in Jobs,
             NEW length \in LeaseLengths, ClaimLease(w, k, j, length)
      PROVE  CompletionReadsLive'
  BY <1>3, WriterOwnsRow
  DEF Base, TypeOK, CompletionReadsLive, OneLineageHolder, InputLive, Held, Objects,
      Intents, ClaimLease, Granted, CanClaim, Selected, Claimable, FailOverdue, Overdue,
      objects
<1>4. ASSUME NEW w \in Workers, NEW op \in FencedOps, Fence(w, op)
      PROVE  CompletionReadsLive'
  BY <1>4, WriterOwnsRow
  DEF Base, TypeOK, CompletionReadsLive, OneLineageHolder, InputLive, Held, Objects,
      Intents, Fence, Fenced, rows, objects
<1>5. ASSUME NEW w \in Workers, Heartbeat(w)
      PROVE  CompletionReadsLive'
  BY <1>5, WriterOwnsRow
  DEF Base, TypeOK, CompletionReadsLive, OneLineageHolder, InputLive, Held, Objects,
      Intents, Heartbeat, objects
<1>6. ASSUME NEW w \in Workers, Checkpoint(w)
      PROVE  CompletionReadsLive'
  BY <1>6, WriterOwnsRow
  DEF Base, TypeOK, CompletionReadsLive, OneLineageHolder, InputLive, Held, Objects,
      Intents, Checkpoint, objects
<1>7. ASSUME NEW w \in Workers, Complete(w)
      PROVE  CompletionReadsLive'
  BY <1>7, WriterOwnsRow
  DEF Base, TypeOK, CompletionReadsLive, OneLineageHolder, InputLive, Held, Objects,
      Intents, Complete
<1>8. ASSUME NEW w \in Workers, RetryCompute(w)
      PROVE  CompletionReadsLive'
  BY <1>8, WriterOwnsRow
  DEF Base, TypeOK, CompletionReadsLive, OneLineageHolder, InputLive, Held, Objects,
      Intents, RetryCompute, objects
<1>9. ASSUME NEW w \in Workers, Abandon(w)
      PROVE  CompletionReadsLive'
  BY <1>9, WriterOwnsRow
  DEF Base, TypeOK, CompletionReadsLive, OneLineageHolder, InputLive, Held, Objects,
      Intents, Abandon, rows, objects
<1>10. CASE DeleteCommit
  BY <1>10, WriterOwnsRow
  DEF Base, TypeOK, CompletionReadsLive, OneLineageHolder, InputLive, Held, Objects,
      Intents, DeleteCommit, workers
<1>11. CASE UNCHANGED <<intent, object, lease, txn>>
  BY <1>11 DEF CompletionReadsLive, InputLive
<1> QED
  BY <1>1, <1>2, <1>3, <1>4, <1>5, <1>6, <1>7, <1>8, <1>9, <1>10, <1>11
  DEF Next, Worker, Claim, Commit, Caller, Operator, vars, rows, objects, workers,
      EnqueueCommit, Cancel, ClaimQuarantine, ClaimNothing, DeleteDerived,
      DeleteRollback, RegisterDependency, RevokeConnection, Drain, PermitEgress,
      RecoverExpired, Tick

\* Whoever takes the lineage lock waits for its holder.
LEMMA LineageStep == IInv /\ [Next]_vars => OneLineageHolder'
<1> SUFFICES ASSUME IInv, [Next]_vars PROVE OneLineageHolder'
  OBVIOUS
<1> USE DEF IInv
<1>1. ASSUME NEW w \in Workers, NEW op \in FencedOps, Fence(w, op)
      PROVE  OneLineageHolder'
  BY <1>1
  DEF Base, TypeOK, OneLineageHolder, LineageLocked, Fence, Fenced, rows, objects
<1>2. ASSUME NEW w \in Workers, Heartbeat(w)
      PROVE  OneLineageHolder'
  BY <1>2
  DEF Base, TypeOK, OneLineageHolder, LineageLocked, Heartbeat, objects
<1>3. ASSUME NEW w \in Workers, Checkpoint(w)
      PROVE  OneLineageHolder'
  BY <1>3
  DEF Base, TypeOK, OneLineageHolder, LineageLocked, Checkpoint, objects
<1>4. ASSUME NEW w \in Workers, Complete(w)
      PROVE  OneLineageHolder'
  BY <1>4
  DEF Base, TypeOK, OneLineageHolder, LineageLocked, Complete
<1>5. ASSUME NEW w \in Workers, RetryCompute(w)
      PROVE  OneLineageHolder'
  BY <1>5
  DEF Base, TypeOK, OneLineageHolder, LineageLocked, RetryCompute, objects
<1>6. ASSUME NEW w \in Workers, Abandon(w)
      PROVE  OneLineageHolder'
  BY <1>6
  DEF Base, TypeOK, OneLineageHolder, LineageLocked, Abandon, rows, objects
<1>7. ASSUME NEW root \in Objects, DeleteDerived(root)
      PROVE  OneLineageHolder'
  BY <1>7
  DEF Base, TypeOK, OneLineageHolder, LineageLocked, DeleteDerived, Reading, rows,
      objects, workers
<1>8. CASE DeleteCommit
  BY <1>8
  DEF Base, TypeOK, OneLineageHolder, LineageLocked, DeleteCommit, workers
<1>9. CASE DeleteRollback
  BY <1>9
  DEF Base, TypeOK, OneLineageHolder, LineageLocked, DeleteRollback, rows, objects,
      workers
<1>10. CASE UNCHANGED <<txn, deletion>>
  BY <1>10 DEF OneLineageHolder
<1> QED
  BY <1>1, <1>2, <1>3, <1>4, <1>5, <1>6, <1>7, <1>8, <1>9, <1>10
  DEF Next, Worker, Claim, Commit, Caller, Operator, vars, rows, objects, workers,
      EnqueueIn, EnqueueCommit, EnqueueRollback, Cancel, ClaimLease, ClaimQuarantine,
      ClaimNothing, RegisterDependency, RevokeConnection, Drain, PermitEgress,
      RecoverExpired, Tick

\* Objects never become absent again.
LEMMA RootStep == IInv /\ [Next]_vars => DeletionHasRoot'
<1> SUFFICES ASSUME IInv, [Next]_vars PROVE DeletionHasRoot'
  OBVIOUS
<1> USE DEF IInv
<1>1. ASSUME NEW w \in Workers, Complete(w)
      PROVE  DeletionHasRoot'
  BY <1>1, WriterOwnsRow
  DEF Base, TypeOK, DeletionHasRoot, Deletions, NoDeletion, Objects, Complete
<1>2. ASSUME NEW root \in Objects, DeleteDerived(root)
      PROVE  DeletionHasRoot'
  BY <1>2, WriterOwnsRow
  DEF Base, TypeOK, DeletionHasRoot, Deletions, NoDeletion, Objects, DeleteDerived,
      Reading, rows, objects, workers
<1>3. CASE DeleteCommit
  BY <1>3, WriterOwnsRow
  DEF Base, TypeOK, DeletionHasRoot, Deletions, NoDeletion, Objects, DeleteCommit,
      workers
<1>4. CASE DeleteRollback
  BY <1>4, WriterOwnsRow
  DEF Base, TypeOK, DeletionHasRoot, Deletions, NoDeletion, Objects, DeleteRollback,
      rows, objects, workers
<1>5. CASE UNCHANGED <<object, deletion>>
  BY <1>5 DEF DeletionHasRoot
<1> QED
  BY <1>1, <1>2, <1>3, <1>4, <1>5
  DEF Next, Worker, Claim, Commit, Caller, Operator, vars, rows, objects, workers,
      EnqueueIn, EnqueueCommit, EnqueueRollback, Cancel, ClaimLease, ClaimQuarantine,
      ClaimNothing, Fence, Heartbeat, Checkpoint, RetryCompute, Abandon,
      RegisterDependency, RevokeConnection, Drain, PermitEgress, RecoverExpired, Tick

\* A job goes back to waiting only below its limit, and only a claim adds an attempt.
LEMMA AttemptsStep == IInv /\ [Next]_vars => AttemptsBounded'
<1> SUFFICES ASSUME IInv, [Next]_vars PROVE AttemptsBounded'
  OBVIOUS
<1> USE DEF IInv
<1>1. ASSUME NEW j \in Jobs, NEW it \in Intents, EnqueueIn(j, it)
      PROVE  AttemptsBounded'
  <2>1. attempts[j] = 0 /\ it.maxAttempts \in Nat \ {0}
    BY <1>1, BoundsAssumption DEF EnqueueIn, FreshRows, Intents
  <2>2. intent'[j] = it /\ status'[j] = "inserting" /\ attempts' = attempts
    BY <1>1 DEF EnqueueIn, Base, TypeOK
  <2>3. \A i \in Jobs : i # j => intent'[i] = intent[i] /\ status'[i] = status[i]
    BY <1>1 DEF EnqueueIn, Base, TypeOK
  <2> QED BY <2>1, <2>2, <2>3 DEF AttemptsBounded, Waiting
<1>2. ASSUME NEW j \in Jobs, EnqueueCommit(j)
      PROVE  AttemptsBounded'
  <2>1. attempts[j] = 0 /\ intent[j] \in Intents
    BY <1>2, HasIntent DEF EnqueueCommit, FreshRows
  <2>2. attempts[j] < intent[j].maxAttempts
    <3>1. intent[j].maxAttempts \in AttemptLimits
      BY <2>1 DEF Intents
    <3>2. intent[j].maxAttempts \in Nat /\ intent[j].maxAttempts # 0
      BY <3>1, BoundsAssumption
    <3> QED BY <2>1, <3>2
  <2>3. \A i \in Jobs : i # j => status'[i] = status[i]
    BY <1>2 DEF EnqueueCommit, Base, TypeOK
  <2> QED BY <1>2, <2>2, <2>3 DEF EnqueueCommit, AttemptsBounded
<1>3. ASSUME NEW j \in Jobs, EnqueueRollback(j)
      PROVE  AttemptsBounded'
  BY <1>3, WriterOwnsRow, HasIntent, BoundsAssumption, NoIntentIsNone
  DEF Base, TypeOK, AttemptsBounded, FreshRows, Held, Waiting, Intents, NoIntent,
      EnqueueRollback, objects, workers
<1>4. ASSUME NEW j \in Jobs, Cancel(j)
      PROVE  AttemptsBounded'
  BY <1>4, WriterOwnsRow, HasIntent, BoundsAssumption, NoIntentIsNone
  DEF Base, TypeOK, AttemptsBounded, FreshRows, Held, Waiting, Intents, NoIntent,
      Cancel, objects, workers
<1>5. ASSUME NEW w \in Workers, NEW k \in Kinds, NEW j \in Jobs,
             NEW length \in LeaseLengths, ClaimLease(w, k, j, length)
      PROVE  AttemptsBounded'
  <2>1. status[j] \in Waiting /\ attempts[j] < intent[j].maxAttempts
    BY <1>5 DEF ClaimLease, Selected, Claimable, AttemptsBounded
  <2>2. intent[j].maxAttempts \in Nat /\ attempts[j] \in Nat
    BY <2>1, HasIntent, BoundsAssumption DEF Waiting, Intents, Base, TypeOK
  <2>3. attempts'[j] <= intent[j].maxAttempts /\ status'[j] = "leased"
    BY <1>5, <2>1, <2>2 DEF ClaimLease, FailOverdue, Base, TypeOK
  <2>4. \A i \in Jobs : i # j => /\ attempts'[i] = attempts[i]
                                 /\ status'[i] \in Waiting => status[i] \in Waiting
    BY <1>5 DEF ClaimLease, FailOverdue, Waiting, Base, TypeOK
  <2> QED BY <1>5, <2>3, <2>4 DEF ClaimLease, AttemptsBounded, Waiting
<1>6. ASSUME NEW w \in Workers, NEW k \in Kinds, NEW j \in Jobs, ClaimQuarantine(w, k, j)
      PROVE  AttemptsBounded'
  BY <1>6, WriterOwnsRow, HasIntent, BoundsAssumption, NoIntentIsNone
  DEF Base, TypeOK, AttemptsBounded, FreshRows, Held, Waiting, Intents, NoIntent,
      ClaimQuarantine, CanClaim, Selected, Claimable, FailOverdue, Overdue, objects,
      workers
<1>7. ASSUME NEW w \in Workers, NEW k \in Kinds, ClaimNothing(w, k)
      PROVE  AttemptsBounded'
  BY <1>7, WriterOwnsRow, HasIntent, BoundsAssumption, NoIntentIsNone
  DEF Base, TypeOK, AttemptsBounded, FreshRows, Held, Waiting, Intents, NoIntent,
      ClaimNothing, CanClaim, FailOverdue, Overdue, objects, workers
<1>8. ASSUME NEW w \in Workers, Checkpoint(w)
      PROVE  AttemptsBounded'
  BY <1>8, WriterOwnsRow, HasIntent, BoundsAssumption, NoIntentIsNone
  DEF Base, TypeOK, AttemptsBounded, FreshRows, Held, Waiting, Intents, NoIntent,
      Checkpoint, objects
<1>9. ASSUME NEW w \in Workers, Complete(w)
      PROVE  AttemptsBounded'
  BY <1>9, WriterOwnsRow, HasIntent, BoundsAssumption, NoIntentIsNone
  DEF Base, TypeOK, AttemptsBounded, FreshRows, Held, Waiting, Intents, NoIntent,
      Complete
<1>10. ASSUME NEW w \in Workers, RetryCompute(w)
      PROVE  AttemptsBounded'
  <2> DEFINE j == lease[w].job
  <2>1. j \in Jobs /\ intent[j] \in Intents
    BY <1>10, WriterOwnsRow DEF RetryCompute
  <2>2. intent[j].maxAttempts \in Nat /\ attempts[j] \in Nat
    BY <2>1, BoundsAssumption DEF Intents, Base, TypeOK
  <2>3. status'[j] \in Waiting => attempts[j] < intent[j].maxAttempts
    BY <1>10, <2>1, <2>2 DEF RetryCompute, Waiting, Base, TypeOK
  <2>4. \A i \in Jobs : i # j => status'[i] = status[i]
    BY <1>10 DEF RetryCompute, Base, TypeOK
  <2> QED BY <1>10, <2>3, <2>4 DEF RetryCompute, AttemptsBounded
<1>11. CASE DeleteCommit
  BY <1>11, WriterOwnsRow, HasIntent, BoundsAssumption, NoIntentIsNone
  DEF Base, TypeOK, AttemptsBounded, FreshRows, Held, Waiting, Intents, NoIntent,
      DeleteCommit, workers
<1>12. ASSUME NEW c \in Connections, RevokeConnection(c)
      PROVE  AttemptsBounded'
  BY <1>12, WriterOwnsRow, HasIntent, BoundsAssumption, NoIntentIsNone
  DEF Base, TypeOK, AttemptsBounded, FreshRows, Held, Waiting, Intents, NoIntent,
      RevokeConnection, Disconnected, objects, workers
<1>13. CASE RecoverExpired
  <2> SUFFICES ASSUME NEW j \in Jobs, status'[j] \in Waiting
               PROVE  attempts[j] < intent[j].maxAttempts
    BY <1>13 DEF RecoverExpired, AttemptsBounded
  <2>1. CASE j \notin Lapsed
    BY <1>13, <2>1 DEF RecoverExpired, AttemptsBounded
  <2>2. CASE j \in Lapsed
    <3>1. intent[j] \in Intents
      BY <2>2, HasIntent DEF Lapsed, Held
    <3>2. intent[j].maxAttempts \in Nat /\ attempts[j] \in Nat
      BY <3>1, BoundsAssumption DEF Intents, Base, TypeOK
    <3>3. ~(attempts[j] >= intent[j].maxAttempts)
      BY <1>13, <2>2 DEF RecoverExpired, Recovered, Waiting
    <3> QED BY <3>2, <3>3
  <2> QED BY <2>1, <2>2
<1>14. CASE UNCHANGED <<intent, status, attempts>>
  BY <1>14 DEF AttemptsBounded
<1> QED
  BY <1>1, <1>2, <1>3, <1>4, <1>5, <1>6, <1>7, <1>8, <1>9, <1>10, <1>11, <1>12, <1>13,
      <1>14
  DEF Next, Worker, Claim, Commit, Caller, Operator, vars, rows, objects, workers,
      Fence, Heartbeat, Abandon, DeleteDerived, DeleteRollback, RegisterDependency,
      Drain, PermitEgress, Tick

\* Recovery alone starts a reconciliation, and only of effects.
LEMMA AwaitStep == IInv /\ [Next]_vars => OnlyEffectsAwait'
<1> SUFFICES ASSUME IInv, [Next]_vars PROVE OnlyEffectsAwait'
  OBVIOUS
<1> USE DEF IInv
<1>1. ASSUME NEW j \in Jobs, NEW it \in Intents, EnqueueIn(j, it)
      PROVE  OnlyEffectsAwait'
  BY <1>1, WriterOwnsRow
  DEF Base, TypeOK, OnlyEffectsAwait, RowsHaveIntent, Effect, Held, Waiting, EnqueueIn,
      objects, workers
<1>2. ASSUME NEW j \in Jobs, EnqueueCommit(j)
      PROVE  OnlyEffectsAwait'
  BY <1>2, WriterOwnsRow
  DEF Base, TypeOK, OnlyEffectsAwait, RowsHaveIntent, Effect, Held, Waiting,
      EnqueueCommit, objects, workers
<1>3. ASSUME NEW j \in Jobs, EnqueueRollback(j)
      PROVE  OnlyEffectsAwait'
  BY <1>3, WriterOwnsRow
  DEF Base, TypeOK, OnlyEffectsAwait, RowsHaveIntent, Effect, Held, Waiting,
      EnqueueRollback, objects, workers
<1>4. ASSUME NEW j \in Jobs, Cancel(j)
      PROVE  OnlyEffectsAwait'
  BY <1>4, WriterOwnsRow
  DEF Base, TypeOK, OnlyEffectsAwait, RowsHaveIntent, Effect, Held, Waiting, Cancel,
      objects, workers
<1>5. ASSUME NEW w \in Workers, NEW k \in Kinds, NEW j \in Jobs,
             NEW length \in LeaseLengths, ClaimLease(w, k, j, length)
      PROVE  OnlyEffectsAwait'
  BY <1>5, WriterOwnsRow
  DEF Base, TypeOK, OnlyEffectsAwait, RowsHaveIntent, Effect, Held, Waiting, ClaimLease,
      Granted, CanClaim, Selected, Claimable, FailOverdue, Overdue, objects
<1>6. ASSUME NEW w \in Workers, NEW k \in Kinds, NEW j \in Jobs, ClaimQuarantine(w, k, j)
      PROVE  OnlyEffectsAwait'
  BY <1>6, WriterOwnsRow
  DEF Base, TypeOK, OnlyEffectsAwait, RowsHaveIntent, Effect, Held, Waiting,
      ClaimQuarantine, CanClaim, Selected, Claimable, FailOverdue, Overdue, objects,
      workers
<1>7. ASSUME NEW w \in Workers, NEW k \in Kinds, ClaimNothing(w, k)
      PROVE  OnlyEffectsAwait'
  BY <1>7, WriterOwnsRow
  DEF Base, TypeOK, OnlyEffectsAwait, RowsHaveIntent, Effect, Held, Waiting,
      ClaimNothing, CanClaim, FailOverdue, Overdue, objects, workers
<1>8. ASSUME NEW w \in Workers, Checkpoint(w)
      PROVE  OnlyEffectsAwait'
  BY <1>8, WriterOwnsRow
  DEF Base, TypeOK, OnlyEffectsAwait, RowsHaveIntent, Effect, Held, Waiting, Checkpoint,
      objects
<1>9. ASSUME NEW w \in Workers, Complete(w)
      PROVE  OnlyEffectsAwait'
  BY <1>9, WriterOwnsRow
  DEF Base, TypeOK, OnlyEffectsAwait, RowsHaveIntent, Effect, Held, Waiting, Complete
<1>10. ASSUME NEW w \in Workers, RetryCompute(w)
      PROVE  OnlyEffectsAwait'
  BY <1>10, WriterOwnsRow
  DEF Base, TypeOK, OnlyEffectsAwait, RowsHaveIntent, Effect, Held, Waiting,
      RetryCompute, objects
<1>11. CASE DeleteCommit
  BY <1>11, WriterOwnsRow
  DEF Base, TypeOK, OnlyEffectsAwait, RowsHaveIntent, Effect, Held, Waiting,
      DeleteCommit, workers
<1>12. ASSUME NEW c \in Connections, RevokeConnection(c)
      PROVE  OnlyEffectsAwait'
  BY <1>12, WriterOwnsRow
  DEF Base, TypeOK, OnlyEffectsAwait, RowsHaveIntent, Effect, Held, Waiting,
      RevokeConnection, Disconnected, objects, workers
<1>13. CASE RecoverExpired
  BY <1>13, WriterOwnsRow
  DEF Base, TypeOK, OnlyEffectsAwait, RowsHaveIntent, Effect, Held, Waiting,
      RecoverExpired, Lapsed, Recovered, objects, workers
<1>14. CASE UNCHANGED <<intent, status>>
  BY <1>14 DEF OnlyEffectsAwait, Effect
<1> QED
  BY <1>1, <1>2, <1>3, <1>4, <1>5, <1>6, <1>7, <1>8, <1>9, <1>10, <1>11, <1>12, <1>13,
      <1>14
  DEF Next, Worker, Claim, Commit, Caller, Operator, vars, rows, objects, workers,
      Fence, Heartbeat, Abandon, DeleteDerived, DeleteRollback, RegisterDependency,
      Drain, PermitEgress, Tick

-----------------------------------------------------------------------------
(* The theorems. *)

LEMMA InductiveStep == IInv /\ [Next]_vars => IInv'
<1> SUFFICES ASSUME IInv, [Next]_vars PROVE IInv'
  OBVIOUS
<1>1. Base'
  BY TypeStep, IntentStep, StoppedStep, UnwrittenStep, LeaseKnownStep, OneLeaseStep, WriterStep DEF Base, IInv
<1>2. OnlyEffectsAwait' /\ FreshRows' /\ OnlyComputeFinishes' /\ EdgesOfResults'
  BY AwaitStep, FreshStep, FinishStep, EdgesStep
<1>3. EffectClaimedOnce' /\ ResultIffCompleted' /\ AttemptsBounded'
  BY EffectStep, ResultStep, AttemptsStep
<1>4. NoOrphanedResult' /\ CompletionReadsLive' /\ OneLineageHolder' /\ DeletionHasRoot'
  BY OrphanStep, InputStep, LineageStep, RootStep
<1> QED BY <1>1, <1>2, <1>3, <1>4 DEF IInv

\* The strengthened invariant holds in every reachable state.
THEOREM Invariance == Spec => []IInv
  BY IInvInit, InductiveStep, PTL DEF Spec

\* Every column keeps its type, for any bounds on deadlines, attempts and leases.
THEOREM TypeCorrect == Spec => []TypeOK
<1>1. IInv => TypeOK
  BY DEF IInv, Base
<1> QED BY <1>1, Invariance, PTL

\* A fenced write commits only while its worker still owns the job: no call of
\* another process moves the row between the check and the commit.
THEOREM FencedWritesAreSafe == Spec => []WriterStaysCurrent
<1>1. IInv => WriterStaysCurrent
  BY DEF IInv, Base
<1> QED BY <1>1, Invariance, PTL

\* Two workers never hold the same generation of one job.
THEOREM LeasesAreExclusive == Spec => []OneCurrentLease
<1>1. IInv => OneCurrentLease
  BY DEF IInv, Base
<1> QED BY <1>1, Invariance, PTL

\* An effect job is handed out at most once, whatever crashes or expires.
THEOREM EffectsAreClaimedOnce == Spec => []EffectClaimedOnce
<1>1. IInv => EffectClaimedOnce
  BY DEF IInv
<1> QED BY <1>1, Invariance, PTL

\* A result object exists exactly for the completed jobs.
THEOREM ResultsMatchOutcomes == Spec => []ResultIffCompleted
<1>1. IInv => ResultIffCompleted
  BY DEF IInv
<1> QED BY <1>1, Invariance, PTL

\* A readable result has only readable sources, however deep the derivation.
THEOREM DeletionLeavesNoOrphan == Spec => []NoOrphanedResult
<1>1. IInv => NoOrphanedResult
  BY DEF IInv
<1> QED BY <1>1, Invariance, PTL

\* No sequence of claims, retries and recoveries exceeds max_attempts.
THEOREM AttemptsAreBounded == Spec => []AttemptsBounded
<1>1. IInv => AttemptsBounded
  BY DEF IInv
<1> QED BY <1>1, Invariance, PTL

\* Waiting and held rows move; a settled one is touched only by the revocation of
\* its account, which spares completed rows and effects.
LEMMA OutcomeStep == IInv /\ [Next]_vars => (\A i \in Jobs : KeepsOutcome(i))
<1> SUFFICES ASSUME IInv, [Next]_vars PROVE (\A i \in Jobs : KeepsOutcome(i))
  OBVIOUS
<1> USE DEF IInv
<1>1. ASSUME NEW j \in Jobs, NEW it \in Intents, EnqueueIn(j, it)
      PROVE  (\A i \in Jobs : KeepsOutcome(i))
  BY <1>1, WriterOwnsRow
  DEF Base, TypeOK, StoppedOpen, KeepsOutcome, OnlyEffectsAwait, Effect, Compute, Open,
      Held, Waiting, Final, EnqueueIn, objects, workers
<1>2. ASSUME NEW j \in Jobs, EnqueueCommit(j)
      PROVE  (\A i \in Jobs : KeepsOutcome(i))
  BY <1>2, WriterOwnsRow
  DEF Base, TypeOK, StoppedOpen, KeepsOutcome, OnlyEffectsAwait, Effect, Compute, Open,
      Held, Waiting, Final, EnqueueCommit, objects, workers
<1>3. ASSUME NEW j \in Jobs, EnqueueRollback(j)
      PROVE  (\A i \in Jobs : KeepsOutcome(i))
  BY <1>3, WriterOwnsRow
  DEF Base, TypeOK, StoppedOpen, KeepsOutcome, OnlyEffectsAwait, Effect, Compute, Open,
      Held, Waiting, Final, EnqueueRollback, objects, workers
<1>4. ASSUME NEW j \in Jobs, Cancel(j)
      PROVE  (\A i \in Jobs : KeepsOutcome(i))
  BY <1>4, WriterOwnsRow
  DEF Base, TypeOK, StoppedOpen, KeepsOutcome, OnlyEffectsAwait, Effect, Compute, Open,
      Held, Waiting, Final, Cancel, objects, workers
<1>5. ASSUME NEW w \in Workers, NEW k \in Kinds, NEW j \in Jobs,
             NEW length \in LeaseLengths, ClaimLease(w, k, j, length)
      PROVE  (\A i \in Jobs : KeepsOutcome(i))
  BY <1>5, WriterOwnsRow
  DEF Base, TypeOK, StoppedOpen, KeepsOutcome, OnlyEffectsAwait, Effect, Compute, Open,
      Held, Waiting, Final, ClaimLease, Granted, CanClaim, Selected, Claimable,
      FailOverdue, Overdue, objects
<1>6. ASSUME NEW w \in Workers, NEW k \in Kinds, NEW j \in Jobs, ClaimQuarantine(w, k, j)
      PROVE  (\A i \in Jobs : KeepsOutcome(i))
  BY <1>6, WriterOwnsRow
  DEF Base, TypeOK, StoppedOpen, KeepsOutcome, OnlyEffectsAwait, Effect, Compute, Open,
      Held, Waiting, Final, ClaimQuarantine, CanClaim, Selected, Claimable, FailOverdue,
      Overdue, objects, workers
<1>7. ASSUME NEW w \in Workers, NEW k \in Kinds, ClaimNothing(w, k)
      PROVE  (\A i \in Jobs : KeepsOutcome(i))
  BY <1>7, WriterOwnsRow
  DEF Base, TypeOK, StoppedOpen, KeepsOutcome, OnlyEffectsAwait, Effect, Compute, Open,
      Held, Waiting, Final, ClaimNothing, CanClaim, FailOverdue, Overdue, objects,
      workers
<1>8. ASSUME NEW w \in Workers, Checkpoint(w)
      PROVE  (\A i \in Jobs : KeepsOutcome(i))
  BY <1>8, WriterOwnsRow
  DEF Base, TypeOK, StoppedOpen, KeepsOutcome, OnlyEffectsAwait, Effect, Compute, Open,
      Held, Waiting, Final, Checkpoint, objects
<1>9. ASSUME NEW w \in Workers, Complete(w)
      PROVE  (\A i \in Jobs : KeepsOutcome(i))
  BY <1>9, WriterOwnsRow
  DEF Base, TypeOK, StoppedOpen, KeepsOutcome, OnlyEffectsAwait, Effect, Compute, Open,
      Held, Waiting, Final, Complete
<1>10. ASSUME NEW w \in Workers, RetryCompute(w)
      PROVE  (\A i \in Jobs : KeepsOutcome(i))
  BY <1>10, WriterOwnsRow
  DEF Base, TypeOK, StoppedOpen, KeepsOutcome, OnlyEffectsAwait, Effect, Compute, Open,
      Held, Waiting, Final, RetryCompute, objects
<1>11. CASE DeleteCommit
  BY <1>11, WriterOwnsRow
  DEF Base, TypeOK, StoppedOpen, KeepsOutcome, OnlyEffectsAwait, Effect, Compute, Open,
      Held, Waiting, Final, DeleteCommit, workers
<1>12. ASSUME NEW c \in Connections, RevokeConnection(c)
      PROVE  (\A i \in Jobs : KeepsOutcome(i))
  BY <1>12, WriterOwnsRow
  DEF Base, TypeOK, StoppedOpen, KeepsOutcome, OnlyEffectsAwait, Effect, Compute, Open,
      Held, Waiting, Final, RevokeConnection, Disconnected, objects, workers
<1>13. CASE RecoverExpired
  BY <1>13, WriterOwnsRow
  DEF Base, TypeOK, StoppedOpen, KeepsOutcome, OnlyEffectsAwait, Effect, Compute, Open,
      Held, Waiting, Final, RecoverExpired, Lapsed, Recovered, objects, workers
<1>14. CASE UNCHANGED status
  BY <1>14 DEF KeepsOutcome
<1> QED
  BY <1>1, <1>2, <1>3, <1>4, <1>5, <1>6, <1>7, <1>8, <1>9, <1>10, <1>11, <1>12, <1>13,
      <1>14
  DEF Next, Worker, Claim, Commit, Caller, Operator, vars, rows, objects, workers,
      Fence, Heartbeat, Abandon, DeleteDerived, DeleteRollback, RegisterDependency,
      Drain, PermitEgress, Tick

\* A settled job keeps its outcome in every behaviour.
THEOREM OutcomesAreFinal == Spec => OutcomeKept
<1>1. IInv /\ [Next]_vars => [\A j \in Jobs : KeepsOutcome(j)]_vars
  BY OutcomeStep
<1> QED BY <1>1, Invariance, PTL DEF Spec, OutcomeKept

\* No step but an enqueue adds to the admitted rows.
LEMMA FewerAdmitted ==
  ASSUME AdmissionRespected, Admitted' \subseteq Admitted
  PROVE  AdmissionRespected'
<1>1. IsFiniteSet(Admitted)
  BY FiniteJobs, FS_Subset DEF Admitted
<1>2. Cardinality(Admitted') <= Cardinality(Admitted)
  BY <1>1, FS_Subset
<1>3. Cardinality(Admitted) \in Nat /\ Cardinality(Admitted') \in Nat
  BY <1>1, FS_Subset, FS_CardinalityType
<1> QED BY <1>2, <1>3, BoundsAssumption DEF AdmissionRespected

\* The admission lock is held from the count to the commit, so the count an enqueue
\* acts on is the number of admitted rows.
LEMMA AdmissionStep == IInv /\ AdmissionRespected /\ [Next]_vars => AdmissionRespected'
<1> SUFFICES ASSUME IInv, AdmissionRespected, [Next]_vars PROVE AdmissionRespected'
  OBVIOUS
<1> USE DEF IInv
<1>1. ASSUME NEW j \in Jobs, NEW it \in Intents, EnqueueIn(j, it)
      PROVE  AdmissionRespected'
  <2>1. Admitted \subseteq Counted
    BY <1>1 DEF EnqueueIn, AdmissionLocked, Admitted, Counted
  <2>2. Admitted' = Admitted \cup {j} /\ j \notin Admitted
    BY <1>1 DEF Base, TypeOK, EnqueueIn, Admitted, Open, Waiting, Held
  <2>3. IsFiniteSet(Admitted) /\ IsFiniteSet(Counted)
    BY FiniteJobs, FS_Subset DEF Admitted, Counted
  <2>4. Cardinality(Admitted) <= Cardinality(Counted) /\ Cardinality(Counted) \in Nat
    BY <2>1, <2>3, FS_Subset, FS_CardinalityType
  <2>5. Cardinality(Admitted') = Cardinality(Admitted) + 1 /\ Cardinality(Admitted) \in Nat
    BY <2>2, <2>3, FS_AddElement, FS_CardinalityType
  <2>6. Cardinality(Counted) < AdmissionLimit
    BY <1>1 DEF EnqueueIn
  <2> QED BY <2>4, <2>5, <2>6, BoundsAssumption DEF AdmissionRespected
<1>2. ASSUME NEW j \in Jobs, EnqueueCommit(j)
      PROVE  Admitted' \subseteq Admitted
  BY <1>2, WriterOwnsRow
  DEF Base, TypeOK, StoppedOpen, Admitted, Open, Held, Waiting, Final, EnqueueCommit,
      objects, workers
<1>3. ASSUME NEW j \in Jobs, EnqueueRollback(j)
      PROVE  Admitted' \subseteq Admitted
  BY <1>3, WriterOwnsRow
  DEF Base, TypeOK, StoppedOpen, Admitted, Open, Held, Waiting, Final, EnqueueRollback,
      objects, workers
<1>4. ASSUME NEW j \in Jobs, Cancel(j)
      PROVE  Admitted' \subseteq Admitted
  BY <1>4, WriterOwnsRow
  DEF Base, TypeOK, StoppedOpen, Admitted, Open, Held, Waiting, Final, Cancel, objects,
      workers
<1>5. ASSUME NEW w \in Workers, NEW k \in Kinds, NEW j \in Jobs,
             NEW length \in LeaseLengths, ClaimLease(w, k, j, length)
      PROVE  Admitted' \subseteq Admitted
  BY <1>5, WriterOwnsRow
  DEF Base, TypeOK, StoppedOpen, Admitted, Open, Held, Waiting, Final, ClaimLease,
      Granted, CanClaim, Selected, Claimable, FailOverdue, Overdue, objects
<1>6. ASSUME NEW w \in Workers, NEW k \in Kinds, NEW j \in Jobs, ClaimQuarantine(w, k, j)
      PROVE  Admitted' \subseteq Admitted
  BY <1>6, WriterOwnsRow
  DEF Base, TypeOK, StoppedOpen, Admitted, Open, Held, Waiting, Final, ClaimQuarantine,
      CanClaim, Selected, Claimable, FailOverdue, Overdue, objects, workers
<1>7. ASSUME NEW w \in Workers, NEW k \in Kinds, ClaimNothing(w, k)
      PROVE  Admitted' \subseteq Admitted
  BY <1>7, WriterOwnsRow
  DEF Base, TypeOK, StoppedOpen, Admitted, Open, Held, Waiting, Final, ClaimNothing,
      CanClaim, FailOverdue, Overdue, objects, workers
<1>8. ASSUME NEW w \in Workers, Checkpoint(w)
      PROVE  Admitted' \subseteq Admitted
  BY <1>8, WriterOwnsRow
  DEF Base, TypeOK, StoppedOpen, Admitted, Open, Held, Waiting, Final, Checkpoint,
      objects
<1>9. ASSUME NEW w \in Workers, Complete(w)
      PROVE  Admitted' \subseteq Admitted
  BY <1>9, WriterOwnsRow
  DEF Base, TypeOK, StoppedOpen, Admitted, Open, Held, Waiting, Final, Complete
<1>10. ASSUME NEW w \in Workers, RetryCompute(w)
      PROVE  Admitted' \subseteq Admitted
  BY <1>10, WriterOwnsRow
  DEF Base, TypeOK, StoppedOpen, Admitted, Open, Held, Waiting, Final, RetryCompute,
      objects
<1>11. ASSUME DeleteCommit PROVE Admitted' \subseteq Admitted
  BY <1>11, WriterOwnsRow
  DEF Base, TypeOK, StoppedOpen, Admitted, Open, Held, Waiting, Final, DeleteCommit,
      workers
<1>12. ASSUME NEW c \in Connections, RevokeConnection(c)
      PROVE  Admitted' \subseteq Admitted
  BY <1>12, WriterOwnsRow
  DEF Base, TypeOK, StoppedOpen, Admitted, Open, Held, Waiting, Final, RevokeConnection,
      Disconnected, objects, workers
<1>13. ASSUME RecoverExpired PROVE Admitted' \subseteq Admitted
  BY <1>13, WriterOwnsRow
  DEF Base, TypeOK, StoppedOpen, Admitted, Open, Held, Waiting, Final, RecoverExpired,
      Lapsed, Recovered, objects, workers
<1>14. ASSUME UNCHANGED status PROVE Admitted' \subseteq Admitted
  BY <1>14 DEF Admitted
<1> QED
  BY <1>1, <1>2, <1>3, <1>4, <1>5, <1>6, <1>7, <1>8, <1>9, <1>10, <1>11, <1>12, <1>13,
      <1>14, FewerAdmitted
  DEF Next, Worker, Claim, Commit, Caller, Operator, vars, rows, objects, workers,
      Fence, Heartbeat, Abandon, DeleteDerived, DeleteRollback, RegisterDependency,
      Drain, PermitEgress, Tick

\* Admission is respected for every finite set of jobs and every limit.
THEOREM AdmissionHolds == Spec => []AdmissionRespected
<1>1. Init => AdmissionRespected
  <2>1. Init => Admitted = {}
    BY DEF Init, Admitted, Open, Waiting, Held
  <2> QED BY <2>1, FS_EmptySet, BoundsAssumption DEF AdmissionRespected
<1> QED BY <1>1, AdmissionStep, Invariance, PTL DEF Spec

-----------------------------------------------------------------------------
(* Turns of a dialogue *)

LiveTurns == {j \in Jobs : LiveTurn(j)}

\* Where no worker extends its lease, a claim is the only step after which a turn is
\* live that was not before: every other one ends a lease, keeps it or lets time pass.
LEMMA TurnsOnlyEnd ==
  ASSUME "heartbeat" \notin FencedOps, IInv, [Next]_vars,
         ~\E w \in Workers, k \in Kinds, j \in Jobs, length \in LeaseLengths :
            ClaimLease(w, k, j, length)
  PROVE  LiveTurns' \subseteq LiveTurns
<1> USE DEF IInv
<1>1. ASSUME NEW j \in Jobs, NEW it \in Intents, EnqueueIn(j, it)
      PROVE  LiveTurns' \subseteq LiveTurns
  BY <1>1, WriterOwnsRow
  DEF Base, TypeOK, LiveTurns, LiveTurn, StoppedOpen, Open, Held, Waiting, Final,
      NoTime, EnqueueIn, objects, workers
<1>2. ASSUME NEW j \in Jobs, EnqueueCommit(j)
      PROVE  LiveTurns' \subseteq LiveTurns
  BY <1>2, WriterOwnsRow
  DEF Base, TypeOK, LiveTurns, LiveTurn, StoppedOpen, Open, Held, Waiting, Final,
      NoTime, EnqueueCommit, objects, workers
<1>3. ASSUME NEW j \in Jobs, EnqueueRollback(j)
      PROVE  LiveTurns' \subseteq LiveTurns
  BY <1>3, WriterOwnsRow
  DEF Base, TypeOK, LiveTurns, LiveTurn, StoppedOpen, Open, Held, Waiting, Final,
      NoTime, EnqueueRollback, objects, workers
<1>4. ASSUME NEW j \in Jobs, Cancel(j)
      PROVE  LiveTurns' \subseteq LiveTurns
  BY <1>4, WriterOwnsRow
  DEF Base, TypeOK, LiveTurns, LiveTurn, StoppedOpen, Open, Held, Waiting, Final,
      NoTime, Cancel, objects, workers
<1>5. ASSUME NEW w \in Workers, NEW k \in Kinds, NEW j \in Jobs, ClaimQuarantine(w, k, j)
      PROVE  LiveTurns' \subseteq LiveTurns
  BY <1>5, WriterOwnsRow
  DEF Base, TypeOK, LiveTurns, LiveTurn, StoppedOpen, Open, Held, Waiting, Final,
      NoTime, ClaimQuarantine, Selected, Claimable, FailOverdue, Overdue, objects,
      workers
<1>6. ASSUME NEW w \in Workers, NEW k \in Kinds, ClaimNothing(w, k)
      PROVE  LiveTurns' \subseteq LiveTurns
  BY <1>6, WriterOwnsRow
  DEF Base, TypeOK, LiveTurns, LiveTurn, StoppedOpen, Open, Held, Waiting, Final,
      NoTime, ClaimNothing, FailOverdue, Overdue, objects, workers
<1>7. ASSUME NEW w \in Workers, Checkpoint(w)
      PROVE  LiveTurns' \subseteq LiveTurns
  BY <1>7, WriterOwnsRow
  DEF Base, TypeOK, LiveTurns, LiveTurn, StoppedOpen, Open, Held, Waiting, Final,
      NoTime, Checkpoint, objects
<1>8. ASSUME NEW w \in Workers, Complete(w)
      PROVE  LiveTurns' \subseteq LiveTurns
  BY <1>8, WriterOwnsRow
  DEF Base, TypeOK, LiveTurns, LiveTurn, StoppedOpen, Open, Held, Waiting, Final,
      NoTime, Complete
<1>9. ASSUME NEW w \in Workers, RetryCompute(w)
      PROVE  LiveTurns' \subseteq LiveTurns
  BY <1>9, WriterOwnsRow
  DEF Base, TypeOK, LiveTurns, LiveTurn, StoppedOpen, Open, Held, Waiting, Final,
      NoTime, RetryCompute, objects
<1>10. ASSUME DeleteCommit
      PROVE  LiveTurns' \subseteq LiveTurns
  BY <1>10, WriterOwnsRow
  DEF Base, TypeOK, LiveTurns, LiveTurn, StoppedOpen, Open, Held, Waiting, Final,
      NoTime, DeleteCommit, workers
<1>11. ASSUME NEW c \in Connections, RevokeConnection(c)
      PROVE  LiveTurns' \subseteq LiveTurns
  BY <1>11, WriterOwnsRow
  DEF Base, TypeOK, LiveTurns, LiveTurn, StoppedOpen, Open, Held, Waiting, Final,
      NoTime, RevokeConnection, objects, workers
<1>12. ASSUME RecoverExpired
      PROVE  LiveTurns' \subseteq LiveTurns
  BY <1>12, WriterOwnsRow
  DEF Base, TypeOK, LiveTurns, LiveTurn, StoppedOpen, Open, Held, Waiting, Final,
      NoTime, RecoverExpired, Lapsed, Recovered, objects, workers
<1>13. ASSUME Tick
      PROVE  LiveTurns' \subseteq LiveTurns
  BY <1>13, WriterOwnsRow
  DEF Base, TypeOK, LiveTurns, LiveTurn, StoppedOpen, Open, Held, Waiting, Final,
      NoTime, Tick, rows, objects, workers
<1>14. ASSUME UNCHANGED <<intent, status, leaseUntil, clock>>
      PROVE  LiveTurns' \subseteq LiveTurns
  BY <1>14 DEF LiveTurns, LiveTurn
<1>15. \A w \in Workers : ~Heartbeat(w)
  BY DEF Base, TypeOK, Heartbeat
<1> QED
  BY <1>1, <1>2, <1>3, <1>4, <1>5, <1>6, <1>7, <1>8, <1>9, <1>10, <1>11, <1>12, <1>13, <1>14, <1>15
  DEF Next, Worker, Claim, Commit, Caller, Operator, vars, rows, objects, workers,
      Fence, Abandon, DeleteDerived, DeleteRollback, RegisterDependency, Drain,
      PermitEgress

\* A claim of an assistant turn finds no other live: the NOT EXISTS of claim reads the
\* leases in the transaction that grants the new one.
LEMMA TurnsAreClaimedAlone ==
  ASSUME IInv, SerialAssistant, NEW w \in Workers, NEW k \in Kinds, NEW j \in Jobs,
         NEW length \in LeaseLengths, ClaimLease(w, k, j, length)
  PROVE  SerialAssistant'
<1> USE DEF IInv
<1>1. \A i \in Jobs \ {j} : LiveTurn(i)' => LiveTurn(i)
  BY DEF Base, TypeOK, ClaimLease, LiveTurn, FailOverdue, Overdue, Held, Waiting
<1>2. LiveTurn(j)' => ~AssistantBusy
  BY DEF ClaimLease, Selected, Claimable, LiveTurn
<1> QED
  BY <1>1, <1>2 DEF SerialAssistant, AssistantBusy

LEMMA SerialStep ==
  ASSUME "heartbeat" \notin FencedOps, IInv, SerialAssistant, [Next]_vars
  PROVE  SerialAssistant'
BY TurnsOnlyEnd, TurnsAreClaimedAlone DEF SerialAssistant, LiveTurns

\* Turns of a dialogue are serial as long as no worker extends its lease, for any
\* number of workers and any lengths of lease.
THEOREM TurnsAreSerial ==
  ASSUME "heartbeat" \notin FencedOps
  PROVE  Spec => []SerialAssistant
<1>1. Init => SerialAssistant
  BY DEF Init, SerialAssistant, LiveTurn, Held
<1>2. IInv /\ SerialAssistant /\ [Next]_vars => SerialAssistant'
  BY SerialStep
<1> QED
  BY <1>1, <1>2, Invariance, PTL DEF Spec

=============================================================================
