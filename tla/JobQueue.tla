------------------------------ MODULE JobQueue ------------------------------
(***************************************************************************)
(* The durable job queue of one owner (src/src/prm/storage/jobs.py): job   *)
(* rows in PostgreSQL, fenced leases held by separate worker processes,    *)
(* and the objects the jobs read and write, which the deletion of derived  *)
(* data (src/src/prm/runtime/deletion.py) may tombstone at any moment.     *)
(*                                                                         *)
(* A step is one committed transaction, with three exceptions the code     *)
(* leaves visible: an enqueue is the caller's transaction, so its row is   *)
(* inserted and committed separately; a fenced write locks and checks the  *)
(* row, then commits; and a deletion cancels jobs, then commits the        *)
(* tombstones. The clock and everybody else run in between.                *)
(*                                                                         *)
(* A lease token is a uuid minted together with each new generation and    *)
(* set to NULL by every statement that takes a job out of "leased" or      *)
(* "running", so (generation, status) stands for (generation, token).      *)
(***************************************************************************)
EXTENDS Integers, FiniteSets

CONSTANTS Jobs,            \* idempotency keys; a job and its result object
          Inputs,          \* objects that existed before any job
          Workers,         \* worker processes
          Connections,     \* external accounts a payload may refer to
          NoConnection,    \* connection_ref = None
          Kinds,           \* the job kinds enqueued
          Priorities,
          AttemptLimits,   \* values of max_attempts
          LeaseLengths,    \* values of lease_seconds
          RetryDelays,     \* values of delay_seconds
          FencedOps,       \* the fenced calls the workers make
          AdmissionLimit,
          DeletionLimit,   \* most objects one deletion may touch (128)
          Horizon          \* bound: the latest deadline; the clock stops there

ASSUME BoundsAssumption ==
  /\ Horizon \in Nat /\ AdmissionLimit \in Nat /\ DeletionLimit \in Nat
  /\ Priorities \subseteq Int
  /\ AttemptLimits \subseteq Nat \ {0}
  /\ LeaseLengths \subseteq Nat \ {0}
  /\ RetryDelays \subseteq Nat \ {0}

ASSUME FiniteJobs == IsFiniteSet(Jobs)

ASSUME NamesAssumption ==
  /\ Kinds \subseteq {"compute.assistant", "compute.digest", "effect.dispatch"}
  /\ FencedOps \subseteq {"heartbeat", "checkpoint", "complete", "retry"}
  /\ Inputs \cap Jobs = {}

VARIABLES intent,       \* the immutable columns of each row
          status, generation, attempts, available, leaseUntil,
          object,       \* "absent", "live" or "deleted" (tombstoned)
          parents,      \* dependency edges of each result
          lease,        \* the JobLease value each worker holds
          txn,          \* the fenced transaction each worker has open
          deletion,     \* the deletion transaction that is open, if any
          clock, draining

rows == <<intent, status, generation, attempts, available, leaseUntil>>
objects == <<object, parents>>
workers == <<lease, txn>>
vars == <<rows, objects, workers, deletion, clock, draining>>

Objects == Inputs \cup Jobs
NoTime == 0
NoLease == [job |-> "none", generation |-> 0]

Intents == [kind: Kinds, priority: Priorities, input: Objects,
            connection: Connections \cup {NoConnection},
            deadline: 1..Horizon, maxAttempts: AttemptLimits]
NoIntent == [kind |-> "none"]
Leases == [job: Jobs, generation: Nat \ {0}]
Deletions == [root: Objects, stopped: SUBSET Jobs]
NoDeletion == [root |-> "none", stopped |-> {}]

Waiting == {"queued", "retry_wait"}
Held == {"leased", "running"}
Open == Waiting \cup Held
Final == {"completed", "cancelled", "failed", "quarantined",
          "awaiting_reconciliation"}
Statuses == {"absent", "inserting"} \cup Waiting \cup Held \cup Final

Effect(j) == intent[j].kind = "effect.dispatch"
Compute(j) == ~Effect(j)
Min2(a, b) == IF a <= b THEN a ELSE b

-----------------------------------------------------------------------------
Init ==
  /\ intent = [j \in Jobs |-> NoIntent]
  /\ status = [j \in Jobs |-> "absent"]
  /\ generation = [j \in Jobs |-> 0]
  /\ attempts = [j \in Jobs |-> 0]
  /\ available = [j \in Jobs |-> 0]
  /\ leaseUntil = [j \in Jobs |-> NoTime]
  /\ object = [o \in Objects |-> IF o \in Inputs THEN "live" ELSE "absent"]
  /\ parents = [j \in Jobs |-> {}]
  /\ lease = [w \in Workers |-> NoLease]
  /\ txn = [w \in Workers |-> "none"]
  /\ deletion = NoDeletion
  /\ clock = 0
  /\ draining = FALSE

-----------------------------------------------------------------------------
(* Row locks and the admission count.                                      *)

\* Defective variant: the fenced SELECT without FOR UPDATE, which locks nothing.
RowNeverLocked(j) == FALSE

RowLocked(j) ==
  \/ \E w \in Workers : txn[w] # "none" /\ lease[w].job = j
  \/ j \in deletion.stopped

LineageLocked ==
  \/ \E w \in Workers : txn[w] = "complete"
  \/ deletion # NoDeletion

\* Defective variant: the count taken without the admission lock.
AdmissionNeverLocked == FALSE

AdmissionLocked == \E j \in Jobs : status[j] = "inserting"
Counted == {j \in Jobs : status[j] \in Open}
InputLive(j) == object[intent[j].input] = "live"

(***************************************************************************)
(* enqueue_in inside the caller's transaction: the input is read without a *)
(* lock, the admission advisory lock is held from the count to the commit. *)
(***************************************************************************)
EnqueueIn(j, it) ==
  /\ ~draining
  /\ status[j] = "absent"
  /\ object[it.input] = "live"
  /\ ~AdmissionLocked
  /\ Cardinality(Counted) < AdmissionLimit
  /\ it.deadline > clock
  /\ intent' = [intent EXCEPT ![j] = it]
  /\ status' = [status EXCEPT ![j] = "inserting"]
  /\ available' = [available EXCEPT ![j] = clock]
  /\ UNCHANGED <<generation, attempts, leaseUntil, objects, workers, deletion,
                 clock, draining>>

EnqueueCommit(j) ==
  /\ status[j] = "inserting"
  /\ status' = [status EXCEPT ![j] = "queued"]
  /\ UNCHANGED <<intent, generation, attempts, available, leaseUntil, objects,
                 workers, deletion, clock, draining>>

EnqueueRollback(j) ==
  /\ status[j] = "inserting"
  /\ status' = [status EXCEPT ![j] = "absent"]
  /\ intent' = [intent EXCEPT ![j] = NoIntent]
  /\ available' = [available EXCEPT ![j] = 0]
  /\ UNCHANGED <<generation, attempts, leaseUntil, objects, workers, deletion,
                 clock, draining>>

-----------------------------------------------------------------------------
(* claim: one transaction under the owner's claim advisory lock.           *)

\* Defective variant: jobs waiting for a retry are forgotten by the deadline sweep.
OverdueQueued == {j \in Jobs : status[j] = "queued" /\ intent[j].deadline <= clock}

Overdue == {j \in Jobs : status[j] \in Waiting /\ intent[j].deadline <= clock}
FailOverdue == [j \in Jobs |-> IF j \in Overdue THEN "failed" ELSE status[j]]

LiveTurn(j) ==
  /\ status[j] \in Held
  /\ intent[j].kind = "compute.assistant"
  /\ leaseUntil[j] > clock

\* Defective variant: a turn that wrote a checkpoint no longer counts as active.
AssistantLeased == \E j \in Jobs : LiveTurn(j) /\ status[j] = "leased"

AssistantBusy == \E j \in Jobs : LiveTurn(j)

Claimable(k) ==
  {j \in Jobs : /\ status[j] \in Waiting /\ ~RowLocked(j)
                /\ intent[j].kind = k
                /\ available[j] <= clock
                /\ intent[j].deadline > clock
                /\ k = "compute.assistant" => ~AssistantBusy}

\* ORDER BY priority DESC, available_at, id; ids are random, so ties are open.
Precedes(a, b) ==
  \/ intent[a].priority > intent[b].priority
  \/ intent[a].priority = intent[b].priority /\ available[a] < available[b]

Selected(k) == {j \in Claimable(k) : \A other \in Claimable(k) : ~Precedes(other, j)}

\* The UPDATE that fails overdue rows waits for their locks, unlike the SELECT.
CanClaim(w) ==
  /\ ~draining
  /\ lease[w] = NoLease
  /\ \A j \in Overdue : ~RowLocked(j)

\* Defective variant: the generation is set by the first claim only.
GrantedAgain(j) == [job |-> j, generation |-> IF generation[j] = 0 THEN 1 ELSE generation[j]]

\* The lease a claim hands out; the row takes the same generation.
Granted(j) == [job |-> j, generation |-> generation[j] + 1]

ClaimLease(w, k, j, length) ==
  /\ CanClaim(w)
  /\ j \in Selected(k)
  /\ InputLive(j)
  /\ status' = [FailOverdue EXCEPT ![j] = "leased"]
  /\ generation' = [generation EXCEPT ![j] = Granted(j).generation]
  /\ attempts' = [attempts EXCEPT ![j] = @ + 1]
  /\ leaseUntil' = [leaseUntil EXCEPT ![j] = Min2(intent[j].deadline, clock + length)]
  /\ lease' = [lease EXCEPT ![w] = Granted(j)]
  /\ UNCHANGED <<intent, available, objects, txn, deletion, clock, draining>>

ClaimQuarantine(w, k, j) ==
  /\ CanClaim(w)
  /\ j \in Selected(k)
  /\ ~InputLive(j)
  /\ status' = [FailOverdue EXCEPT ![j] = "quarantined"]
  /\ UNCHANGED <<intent, generation, attempts, available, leaseUntil, objects,
                 workers, deletion, clock, draining>>

ClaimNothing(w, k) ==
  /\ CanClaim(w)
  /\ Selected(k) = {}
  /\ Overdue # {}
  /\ status' = FailOverdue
  /\ UNCHANGED <<intent, generation, attempts, available, leaseUntil, objects,
                 workers, deletion, clock, draining>>

Claim(w) ==
  \E k \in Kinds :
    \/ \E j \in Jobs :
         \/ \E length \in LeaseLengths : ClaimLease(w, k, j, length)
         \/ ClaimQuarantine(w, k, j)
    \/ ClaimNothing(w, k)

-----------------------------------------------------------------------------
(* Fenced writes: _fenced locks the row and checks it, the write commits.  *)

Current(w) ==
  LET j == lease[w].job IN
  /\ lease[w] # NoLease
  /\ generation[j] = lease[w].generation
  /\ status[j] \in Held

Fenced(w) ==
  LET j == lease[w].job IN
  /\ Current(w)
  /\ leaseUntil[j] > clock
  /\ intent[j].deadline > clock
  /\ InputLive(j)

Fence(w, op) ==
  /\ txn[w] = "none"
  /\ Fenced(w)
  /\ ~RowLocked(lease[w].job)
  /\ op \in {"complete", "retry"} => Compute(lease[w].job)
  /\ op = "complete" => ~LineageLocked
  /\ txn' = [txn EXCEPT ![w] = op]
  /\ UNCHANGED <<rows, objects, lease, deletion, clock, draining>>

Heartbeat(w) ==
  LET j == lease[w].job IN
  /\ txn[w] = "heartbeat"
  /\ \E length \in LeaseLengths :
       leaseUntil' = [leaseUntil EXCEPT ![j] = Min2(intent[j].deadline, clock + length)]
  /\ txn' = [txn EXCEPT ![w] = "none"]
  /\ UNCHANGED <<intent, status, generation, attempts, available, objects, lease,
                 deletion, clock, draining>>

Checkpoint(w) ==
  LET j == lease[w].job IN
  /\ txn[w] = "checkpoint"
  /\ status' = [status EXCEPT ![j] = "running"]
  /\ txn' = [txn EXCEPT ![w] = "none"]
  /\ UNCHANGED <<intent, generation, attempts, available, leaseUntil, objects,
                 lease, deletion, clock, draining>>

\* The result object, its dependency edges and the row, in one transaction.
Complete(w) ==
  LET j == lease[w].job IN
  /\ txn[w] = "complete"
  /\ object[j] = "absent"
  /\ \E sources \in SUBSET {r \in Jobs : object[r] = "live"} :
       parents' = [parents EXCEPT ![j] = sources \cup {intent[j].input}]
  /\ object' = [object EXCEPT ![j] = "live"]
  /\ status' = [status EXCEPT ![j] = "completed"]
  /\ leaseUntil' = [leaseUntil EXCEPT ![j] = NoTime]
  /\ lease' = [lease EXCEPT ![w] = NoLease]
  /\ txn' = [txn EXCEPT ![w] = "none"]
  /\ UNCHANGED <<intent, generation, attempts, available, deletion, clock, draining>>

RetryCompute(w) ==
  LET j == lease[w].job IN
  /\ txn[w] = "retry"
  /\ status' = [status EXCEPT ![j] =
                  IF attempts[j] >= intent[j].maxAttempts THEN "failed" ELSE "retry_wait"]
  /\ \E delay \in RetryDelays : available' = [available EXCEPT ![j] = clock + delay]
  /\ leaseUntil' = [leaseUntil EXCEPT ![j] = NoTime]
  /\ lease' = [lease EXCEPT ![w] = NoLease]
  /\ txn' = [txn EXCEPT ![w] = "none"]
  /\ UNCHANGED <<intent, generation, attempts, objects, deletion, clock, draining>>

\* The process dies, or any call raises and the service loop drops the lease.
Abandon(w) ==
  /\ lease[w] # NoLease
  /\ lease' = [lease EXCEPT ![w] = NoLease]
  /\ txn' = [txn EXCEPT ![w] = "none"]
  /\ UNCHANGED <<rows, objects, deletion, clock, draining>>

-----------------------------------------------------------------------------
(* Calls of other processes.                                               *)

Cancel(j) ==
  /\ status[j] \in Open
  /\ ~RowLocked(j)
  /\ status' = [status EXCEPT ![j] = "cancelled"]
  /\ leaseUntil' = [leaseUntil EXCEPT ![j] = NoTime]
  /\ UNCHANGED <<intent, generation, attempts, available, objects, workers,
                 deletion, clock, draining>>

\* FOR UPDATE SKIP LOCKED: rows inside an open fenced transaction are passed over.
Lapsed == {j \in Jobs : status[j] \in Held /\ leaseUntil[j] <= clock /\ ~RowLocked(j)}

\* Defective variants: an unknown effect is retried like a computation; the last
\* attempt is not counted.
RecoveredEffect(j) == IF intent[j].deadline <= clock THEN "failed" ELSE "retry_wait"

RecoveredUncounted(j) ==
  IF Effect(j) THEN "awaiting_reconciliation"
  ELSE IF intent[j].deadline <= clock THEN "failed" ELSE "retry_wait"

Recovered(j) ==
  IF Effect(j) THEN "awaiting_reconciliation"
  ELSE IF attempts[j] >= intent[j].maxAttempts \/ intent[j].deadline <= clock
       THEN "failed"
       ELSE "retry_wait"

RecoverExpired ==
  /\ Lapsed # {}
  /\ status' = [j \in Jobs |-> IF j \in Lapsed THEN Recovered(j) ELSE status[j]]
  /\ leaseUntil' = [j \in Jobs |-> IF j \in Lapsed THEN NoTime ELSE leaseUntil[j]]
  /\ available' = [j \in Jobs |-> IF j \in Lapsed THEN clock + 1 ELSE available[j]]
  /\ UNCHANGED <<intent, generation, attempts, objects, workers, deletion, clock,
                 draining>>

\* Defective variant: only the direct children of the root.
Children(root) == {root} \cup {j \in Jobs : root \in parents[j]}

\* The smallest set that holds root and every result derived from a member.
Descendants(root) ==
  {o \in Objects : \A S \in SUBSET Objects :
     (root \in S /\ \A j \in Jobs : (parents[j] \cap S # {}) => j \in S) => o \in S}

\* Open compute jobs that read an object about to disappear.
Reading(gone) == {j \in Jobs : /\ status[j] \in Open
                               /\ Compute(j)
                               /\ intent[j].input \in gone}

\* The scan: the lineage lock, the bounded closure and the cancelled rows, all
\* of them held, and invisible to others, until the transaction ends.
DeleteDerived(root) ==
  /\ object[root] # "absent"
  /\ ~LineageLocked
  /\ Cardinality(Descendants(root)) <= DeletionLimit
  /\ \A j \in Reading(Descendants(root)) : ~RowLocked(j)
  /\ deletion' = [root |-> root, stopped |-> Reading(Descendants(root))]
  /\ UNCHANGED <<rows, objects, workers, clock, draining>>

DeleteCommit ==
  LET gone == Descendants(deletion.root)
      stopped == deletion.stopped
  IN
  /\ deletion # NoDeletion
  /\ object' = [o \in Objects |-> IF o \in gone THEN "deleted" ELSE object[o]]
  /\ status' = [j \in Jobs |-> IF j \in stopped THEN "cancelled" ELSE status[j]]
  /\ leaseUntil' = [j \in Jobs |-> IF j \in stopped THEN NoTime ELSE leaseUntil[j]]
  /\ deletion' = NoDeletion
  /\ UNCHANGED <<intent, generation, attempts, available, parents, workers, clock,
                 draining>>

DeleteRollback ==
  /\ deletion # NoDeletion
  /\ deletion' = NoDeletion
  /\ UNCHANGED <<rows, objects, workers, clock, draining>>

\* memory.register_dependency: one more edge between two readable objects.
RegisterDependency(parent, child) ==
  /\ ~LineageLocked
  /\ object[parent] = "live" /\ object[child] = "live"
  /\ parents' = [parents EXCEPT ![child] = @ \cup {parent}]
  /\ UNCHANGED <<rows, object, workers, deletion, clock, draining>>

\* Defective variant: the mode of the job is not looked at.
DisconnectedAll(c) ==
  {j \in Jobs : /\ status[j] \notin {"absent", "inserting", "completed", "cancelled"}
                /\ intent[j].connection = c}

\* Disconnecting an account: every compute row of it that is not settled for good.
Disconnected(c) ==
  {j \in Jobs : /\ status[j] \notin {"absent", "inserting", "completed", "cancelled"}
                /\ Compute(j)
                /\ intent[j].connection = c}

RevokeConnection(c) ==
  LET stopped == Disconnected(c) IN
  /\ stopped # {}
  /\ \A j \in stopped : ~RowLocked(j)
  /\ status' = [j \in Jobs |-> IF j \in stopped THEN "cancelled" ELSE status[j]]
  /\ leaseUntil' = [j \in Jobs |-> IF j \in stopped THEN NoTime ELSE leaseUntil[j]]
  /\ UNCHANGED <<intent, generation, attempts, available, objects, workers, deletion,
                 clock, draining>>

Drain ==
  /\ ~draining
  /\ draining' = TRUE
  /\ UNCHANGED <<rows, objects, workers, deletion, clock>>

PermitEgress ==
  /\ draining
  /\ draining' = FALSE
  /\ UNCHANGED <<rows, objects, workers, deletion, clock>>

Tick ==
  /\ clock < Horizon
  /\ clock' = clock + 1
  /\ UNCHANGED <<rows, objects, workers, deletion, draining>>

-----------------------------------------------------------------------------
Commit(w) == Heartbeat(w) \/ Checkpoint(w) \/ Complete(w) \/ RetryCompute(w)

Worker(w) ==
  \/ Claim(w)
  \/ \E op \in FencedOps : Fence(w, op)
  \/ Commit(w)
  \/ Abandon(w)

Caller ==
  \E j \in Jobs :
    \/ \E it \in Intents : EnqueueIn(j, it)
    \/ EnqueueCommit(j)
    \/ EnqueueRollback(j)
    \/ Cancel(j)

Operator ==
  \/ \E root \in Objects : DeleteDerived(root)
  \/ DeleteCommit
  \/ DeleteRollback
  \/ \E parent \in Objects, child \in Jobs : RegisterDependency(parent, child)
  \/ \E c \in Connections : RevokeConnection(c)
  \/ Drain
  \/ PermitEgress

Next ==
  \/ \E w \in Workers : Worker(w)
  \/ Caller
  \/ Operator
  \/ RecoverExpired
  \/ Tick

Spec == Init /\ [][Next]_vars

(***************************************************************************)
(* Fairness. Worker processes poll once a second and every call they make  *)
(* is bounded by a timeout, so a worker that can move does, if only by     *)
(* dropping its lease; an open transaction is committed or rolled back;    *)
(* a deletion that keeps being asked for does not fail for ever; time      *)
(* passes. RecoverExpired is not fair: no process role calls it.           *)
(***************************************************************************)
ServiceFairness ==
  /\ WF_vars(Tick)
  /\ \A w \in Workers : WF_vars(Worker(w))
  /\ \A j \in Jobs : WF_vars(EnqueueCommit(j) \/ EnqueueRollback(j))
  /\ WF_vars(DeleteCommit \/ DeleteRollback)
  /\ \A root \in Objects : SF_vars(deletion.root = root /\ DeleteCommit)

\* The process roles of runtime/service.py.
ServiceSpec == Spec /\ ServiceFairness

-----------------------------------------------------------------------------
(* Properties.                                                             *)

\* The shape of every variable (the columns of pa_jobs.jobs, the object heads
\* and tombstones, the leases the workers hold).
TypeOK ==
  /\ intent \in [Jobs -> Intents \cup {NoIntent}]
  /\ status \in [Jobs -> Statuses]
  /\ generation \in [Jobs -> Nat]
  /\ attempts \in [Jobs -> Nat]
  /\ available \in [Jobs -> Nat]
  /\ leaseUntil \in [Jobs -> Nat]
  /\ object \in [Objects -> {"absent", "live", "deleted"}]
  /\ parents \in [Jobs -> SUBSET Objects]
  /\ lease \in [Workers -> Leases \cup {NoLease}]
  /\ txn \in [Workers -> {"none"} \cup FencedOps]
  /\ deletion \in Deletions \cup {NoDeletion}
  /\ clock \in Nat
  /\ draining \in BOOLEAN

\* Between the check of a fenced write and its commit nobody takes the job
\* away: cancel, recovery, deletion, revocation and other claims all wait for
\* or skip the row lock, even when the lease lapses in the meantime.
WriterStaysCurrent == \A w \in Workers : txn[w] # "none" => Current(w)

\* Two workers never hold leases of one job that the fence could both accept:
\* a re-claimed job has a new generation, whatever became of its old worker.
OneCurrentLease ==
  \A v, w \in Workers :
    v # w /\ lease[v] # NoLease /\ lease[w] # NoLease /\ lease[v].job = lease[w].job
      => lease[v].generation # lease[w].generation

\* An effect job is handed to a worker at most once in its life: neither an
\* expired lease, a crash nor a cancellation makes it claimable again.
EffectClaimedOnce ==
  \A j \in Jobs : Effect(j) => /\ generation[j] <= 1
                               /\ status[j] \in Waiting => generation[j] = 0

\* A result object exists exactly for the completed jobs, so a job that was
\* cancelled, failed or lost to another worker never published one.
ResultIffCompleted ==
  \A j \in Jobs : object[j] # "absent" <=> status[j] = "completed"

\* A result that can still be read was derived from sources that can all
\* still be read, however completions and deletions were interleaved.
NoOrphanedResult ==
  \A j \in Jobs : object[j] = "live" => \A o \in parents[j] : object[o] = "live"

\* The rows that occupy an admission slot, or will when they commit.
Admitted == {j \in Jobs : status[j] \in {"inserting"} \cup Open}

\* Admission: the jobs that still need work never exceed the limit, retries,
\* recovery and rows that are about to be committed included.
AdmissionRespected == Cardinality(Admitted) <= AdmissionLimit

\* A job is claimed at most max_attempts times, and one that used its last
\* attempt is not waiting for another (retry and recovery both count).
AttemptsBounded ==
  \A j \in Jobs :
    /\ intent[j] # NoIntent => attempts[j] <= intent[j].maxAttempts
    /\ status[j] \in Waiting => attempts[j] < intent[j].maxAttempts

\* While no worker extends its lease, two assistant turns never hold unexpired
\* leases together (the NOT EXISTS of claim): turns of a dialogue are serial.
SerialAssistant ==
  \A i, j \in Jobs : LiveTurn(i) /\ LiveTurn(j) => i = j

\* A settled job keeps its outcome; only disconnecting its account relabels
\* a failed or quarantined one as cancelled, and never an unresolved effect.
KeepsOutcome(j) ==
  status[j] \in Final =>
    \/ status'[j] = status[j]
    \/ status[j] \in {"failed", "quarantined"} /\ status'[j] = "cancelled" /\ Compute(j)

OutcomeKept == [][\A j \in Jobs : KeepsOutcome(j)]_vars

\* The lease of a dead worker is not the end of its job: once it lapses, the
\* job is taken out of that worker's hands.
LapsedLeaseRecovered ==
  \A j \in Jobs : (status[j] \in Held /\ leaseUntil[j] <= clock)
                  ~> ~(status[j] \in Held /\ leaseUntil[j] <= clock)

\* A job whose worker died or gave it up without a word: leased, and to nobody.
Lost(j) == status[j] \in Held /\ \A w \in Workers : lease[w].job # j \/ ~Current(w)

\* Every admitted job reaches an outcome or was lost by its worker: no deadline,
\* deleted input, used attempt, retry, deletion or other job keeps it waiting for
\* ever, unless intake and claims stay frozen by a drain (jobs.py:126-137, 188-198).
JobsSettle ==
  <>[]~draining =>
    \A j \in Jobs : (status[j] \in Open) ~> (status[j] \in Final \/ Lost(j))

=============================================================================
