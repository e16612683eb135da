# Verification of the durable assistant runtime

The repository is a personal assistant reached through Telegram. Its core is a
runtime on PostgreSQL (`src/src/prm/storage`, `src/src/prm/runtime`): several
worker processes share job, policy, delivery and action tables and call outside
providers (models, Microsoft Graph, Canvas, public web, Telegram). Nothing but
transactions, row locks, advisory locks and status columns coordinates them.
This directory models that coordination in TLA+, checks small instances with
TLC and proves the main results for all sizes with TLAPS. Paths below are
relative to `src/src/prm/` unless they start with `docs/`.

## 1. The system

### 1.1 Components

| Component | State | Operations | Works with |
|---|---|---|---|
| Job queue (`storage/jobs.py`) | `pa_jobs.jobs`: status, mode, generation, lease, attempts, result | `enqueue_in`, `claim`, `heartbeat`, `checkpoint`, `complete`, `retry_compute`, `cancel`, `recover_expired` | ingress and scheduler enqueue; worker roles claim; deletion and disconnection rewrite rows |
| Deletion (`runtime/deletion.py`, `runtime/memory.py`) | tombstones of objects, `pa_memory.dependencies` | `delete_derived_in`, `register_dependency`, memory preview, confirm, forget | lineage advisory lock shared with the queue |
| Policy ledger (`storage/policy.py`) | grants, call counts, windows, operations, members; reservation objects in memory | grants, windows, reserve, abandon, prepare, call, settle | every adapter calls out through it; the control row freezes it |
| Action ledger (`storage/actions.py`, `confirmed_actions.py`, `runtime/actions.py`) | proposals, confirmations, attempts | register, confirm, cancel, execute, reconcile | one reservation per execution; effects at most once |
| Delivery executor (`runtime/delivery.py`) | delivery proposals and attempts | deliver result or watch note, reconcile | ledger, source rows, quiet hours |
| Watch scheduler (`runtime/scheduler.py`) | schedules, occurrences, collections, notification queue | preview, confirm, claim_due, advance, feedback, worker step | enqueues into delivery |
| Connections (`runtime/connections.py`) | accounts, OAuth sessions, vault, retirement queue | begin, callback, credential, revoke, cleanup | disconnecting rewrites jobs |
| Operations (`runtime/operations.py`) | control row: egress, draining, epoch | drain, kill_switch, permit, backup, restore | freezes claims and calls |
| Migration (`runtime/migration.py`) | files of receipts, files of the whole domain | export and import of each | merges into the tables of a frozen database |
| Objects and conversations (`storage/postgres.py`, `storage/conversations.py`) | versioned heads | compare-and-set put | inputs and results of jobs |
| Ingress, composition, service (`runtime/ingress.py`, `composition.py`, `service.py`) | Telegram update ids, process roles | receive, control, the role loop | enqueues and runs jobs |
| Adapters (model, media, web, speech, Graph, Canvas) | usage and attempt rows | one bounded call each | reserve, call, settle |
| Research, briefs, artifacts, academic | result objects | sequential pipelines | queue and ledger |
| External watch, legacy assistant, bot, output, ingestion | SQLite files | single-process pipelines | none of the above tables |

### 1.2 What is hard about it

* **Interleaving of transactions.** Workers, the owner's deletions, account
  revocation and the operator act on the same rows. A fenced write checks a
  lease and commits later; a deletion computes a lineage and tombstones it later.
* **Failure in the middle.** A process may die between claim and completion, or
  between preparing a provider call, making it and settling it. A commit may
  succeed without the process learning of it. A session may be lost under a call.
* **Effects are not repeatable.** Compute jobs may be retried, effect jobs and
  provider calls must never be made twice, and spent budget is never refunded
  because an answer got lost.
* **Time.** Leases lapse while their worker still works; windows and grants
  expire while operations hold them.
* **Limits.** Admission, attempts, call counts and budgets are each checked in
  one place and consumed in another.

### 1.3 What makes each component correct

* Queue: a row is written only by the current holder of its lease; an effect is
  handed out once; a result is stored exactly for completed jobs; attempts and
  admission are bounded; a settled outcome stays; every job settles, unless its
  worker died or gave it up.
* Deletion: whatever can be read derives only from what can be read.
* Ledger: the windows add up to the operations; capacities hold; a provider is
  called once per operation; revocation and freezing exclude calls in progress.
* Actions and delivery: confirmed text is what is executed, once; an unknown
  attempt blocks its proposal; reconciliation agrees with the attempt.
* Scheduler: a collection starts for what is due, once; what is queued tells of
  the current revision and the latest evidence; the daily cap holds.
* Connections: the secret in use is stored; a refresh token is sent again only if
  every answer so far left it in force; a disconnection wins over whatever was
  under way.
* Operations and migration: one database sends, after whatever was restored or
  carried over; no effect is repeated, no outcome, deletion or spent budget taken
  back.

## 2. Modules

| Module | What it is |
|---|---|
| `JobQueue` | jobs, leases, the lineage lock, deletion, disconnection, drain, the worker and service roles |
| `JobQueueProofs` | inductive invariant and theorems about `JobQueue` |
| `PolicyLedger` | grants, windows, operations, the guarded call and settlement of one owner |
| `PolicyLedgerProofs` | sums over finite sets, inductive invariant and theorems about `PolicyLedger` |
| `EffectOnce` | abstract: what is promised of every effect outside the database |
| `EffectOnceProofs` | the promise, for any set of effects |
| `ActionLedger` | proposals to write mail or calendar: preview, edit, confirm, execute, reconcile; implements `EffectOnce` per version |
| `ActionLedgerProofs` | inductive invariant, theorems and the refinement of `EffectOnce` |
| `DeliveryExecutor` | answers sent by Telegram, short and split; implements `EffectOnce` per message |
| `DeliveryExecutorProofs` | inductive invariant, theorems and the refinement of `EffectOnce` |
| `WatchScheduler` | a subscription: slots, collections, notes and their delivery under the daily cap |
| `WatchSchedulerProofs` | inductive invariant and theorems about `WatchScheduler` |
| `Connections` | an OAuth connection: consent, refresh, retirement of secrets, disconnection |
| `ConnectionsProofs` | inductive invariant and theorems about `Connections` |
| `Cutover` | several databases: freezing, backup, restore, transfer of receipts and of the domain, beside the runtime |
| `CutoverProofs` | inductive invariant and theorems about `Cutover` |
| `MC*` + twelve `.cfg` | instances for TLC, one `.cfg` per run |

Operators called "Defective variant" are not used by any specification: each is
the form its neighbour would take after a plausible bug, and is kept so that the
sensitivity of the property it breaks can be replayed.

Two conventions hold in all modules. A transaction is one step; a transaction
that waits longer than `lock_timeout` changes nothing, so it is a stuttering
step. And a **guarded call** is a state: the code opens a session, checks
under row locks that the call is still wanted, and asks the provider while the
locks are held. Who wants such a row waits; a session that is lost gives the row
up while the provider still works, and then the outcome can only be unknown.

### 2.1 JobQueue

A job's row is a record of the columns that decide anything: status, mode (kind
and mode are one value, `compute.*` or `effect.*`), priority, attempts, maximum,
generation, lease holder and expiry, deadline, input, account and result. Each
transaction that the code runs under one lock scope is one action (`EnqueueIn`,
`Claim`, `Heartbeat`, ..., one action per method); a transaction whose *inside*
matters is split where other processes can run:

* a **fenced write** (`_fenced`) is `Fence`, which checks the lease and takes
  the row lock, and then the operation itself. Between the two the clock moves
  and every transaction that does not need the row runs;
* **enqueueing** reads its input without a lock in `EnqueueIn`, then commits or
  rolls back;
* a **deletion** takes the lineage lock and its snapshot in `DeleteDerived` and
  commits in `DeleteCommit`.

Results and inputs are one name space of objects with a readable flag: a job may
be enqueued with the result of a completed job as its input, and what it stores is
then derived from that result. Edges may also be added
afterwards (`RegisterDependency`). `Worker` is what a worker process does with
the queue: claim, the fenced calls its handler makes, and `Abandon`, a worker
that dies or whose handler raises: the service loop (`runtime/service.py:45`) swallows the exception and
the lease stays. Left out: the validation of payloads, checkpoints' contents and
the redaction of watch, brief, delivery and artifact rows by a deletion.

### 2.2 PolicyLedger

One owner's ledger. `op` maps an operation reference to its row, `members` is
the set of member rows, `held` the reservation objects that a process still
carries (a crash loses them, the rows stay). A call to a provider goes through
`StartCall`, `Prepare` for every operation, `BeginCall`, `EndCall`, `Settle`,
release of what was not prepared, and the report of the usage:

* `execute_reserved` is a call of one operation, `_execute_reserved_groups` one
  of several; `consume` followed by `execute_prepared` is a call of one operation
  whose preparation happened earlier, which the pause between `Prepare` and
  `BeginCall` covers;
* the call is the only transaction whose inside is visible: it holds the rows of
  its own grants FOR UPDATE in one session and the control row FOR SHARE in
  another. `guard` says which of the two is alive. `LoseGuard` is a session that
  the idle timeout (15 s) or the server ends while the provider still works; the
  locks go, the call cannot be recalled, and its outcome can only be unknown;
* `PrepareFails` covers a denial, a lock timeout, and a commit whose answer was
  lost (the operation is prepared and its process does not know).

The request that a grant covers is a member kind (`single`, or `text` and
`context`, the only pair that may share an operation); `GrantOf` names the grant
of each kind. The matching of capability, data class, purpose and provider in
`capabilities.py` is not modelled. The decision of `authorize_and_reserve` reads
the control row at the start of its transaction; the model reads it with the
rest, and a later freeze is caught by the second check in `BeginCall`. The DDL
has CHECK constraints for what `TypeOK` and `CapacityRespected` say of windows;
the runs show that no operation ever runs into them.

### 2.3 EffectOnce

What a mail, an appointment and a Telegram message have in common: an attempt is
committed as `unknown` before the one request that is ever made; the provider
acts on the request or drops it, whoever is still listening; an attempt settles
once and only to what is true. `Promise` is the conclusion.

`ActionLedger!EachVersionTakesEffectOnce` maps each version of a proposal to an
effect (`succeeded` is done, `failed_known` is mapped to `unknown`: the code
records it of an attempt whose request may not have left the process, see 3.3).
`DeliveryExecutor!EachMessageTakesEffectOnce` maps each message; `not_sent` *is*
mapped, since both the answer and a reconciliation must have excluded the
message. Both refinements are checked by TLC as properties of the detailed
specifications and proved (`ImplementsEffectOnce`, section 4): each step of a
detailed specification is a step of `EffectOnce` for one effect, or none.

### 2.4 ActionLedger

A version stands for its digest: an edit takes the next one, so comparing
versions is comparing text. `proposal`, `confirmation` and `attempt` are the
three tables, keyed by version (the idempotency key contains it); `preview` and
`visible` are what the conversation shows. A caller is a worker in
`confirm_and_execute` (`runtime/actions.py:178-203`), and each of its reads is a
step: `Yes` or `Command` (composition's check), `LoadProposal`, `CheckVisible`,
`GiveUp` (preflight and policy), `Confirm`, `Reserve`; then `execute`
(`storage/actions.py:156-209`): `FindAttempt`, `Fence`, `Dispatch` (the guarded
call), `Answered`, `Put`. `Edit` is `register` of an existing proposal, `Cancel`
`cancel`, `Reconcile` both reconciliations (by lookup of a traceable effect, and
by evidence). `reservation` is only followed as far as the hazards need it:
`PolicyLedger` has the rest.

### 2.5 DeliveryExecutor

Messages are pairs of a result and the number of its part. `Start` reads the
answer, `OpenAggregate` creates the attempt of a split answer, and each message
goes through `_deliver`: `FindAttempt`, `Reserve`, `Fence` (the attempt),
`Prepare` (the durable preparation of its operation), `Call`, `Answered`,
`Settle`; `NextPart` goes on after a part that was sent, `CloseAggregate` settles the
whole, `Done` leaves it open.
`Reconcile` reads the attempt as unknown in one transaction (`ReadPending`) and
settles it in another, as `reconcile` does. Of the operation's states only those
that decide (none, reserved, prepared, cancelled) appear. Quiet hours, the kind of
destination and policy are refusals. The variant of effect jobs, whose lease is
heartbeat-checked, is left out.

### 2.6 WatchScheduler

One subscription. Durations are order: `FallDue`, `LapseToken`, `LapseJob`,
`SnoozeOver` and `NextDay` happen when they do. A note is identified by its subject
and the change it tells of (from, to), as its digest is. `Confirm`, `Feedback` and
`CompleteSubject` are the owner's transactions; `ClaimDue` and `Advance` those of
`tick`; a collector claims the job of a slot (the lease is abstract: `JobQueue`
has it), reads its source in a guarded call, and queues notes; a sender delivers
one under the daily quota. The message itself is `DeliveryExecutor`'s, which
covers sending at most once. Left out: expiry of the subscription, several
subscriptions, and briefs.

### 2.7 Connections

One account. The vault is a directory, so nothing that happens there is part of
a transaction: `Exchange` and `Refreshed` put a secret in it, `Withdraw`, `Erase`
and `Disconnect` erase one. `callback` is `Consume`, `Exchange`, `Connect`;
`credential` is `FenceRefresh` (the revision is committed before the endpoint can
rotate the token), `Refresh` (the session that holds the row through the
request), `Refreshed`, `CommitRefresh`; `cleanup_retired` is `Select` and `Erase`,
whose transaction may fail after the file is gone; `revoke` is `Revoke` and
`Disconnect`. `LoseSession`, `RefreshFails`, `ConnectFails` and `Leave` (crash)
may happen wherever they can.

A secret is the bundle in one file of the vault, and `token` its refresh token,
named after the secret that held it first. A consent is taken to come with a token
of its own. The answer to a refresh may bring a new one, or none: then
`connections.py:214` puts the token that was sent into the new secret, and the next
refresh sends it again. `sent` counts the requests made with each token, `kept` the
answers that left it in force, and `origin` remembers the consent each secret stems
from; the code keeps none of the three. A bundle without any refresh token cannot be
refreshed (line 199), which is a refusal. `CommitAnswered` says whether the answer to
a callback's commit always arrives.

### 2.8 Cutover

A site is a database; `rows` holds what decides of its tables: for each effect (a
confirmed action) the status of its job, its confirmation, attempt and budget, and
whether each object is readable or deleted. `phase` tells an installed database
from an empty one and from one whose restore made the first of its two commits
only. `file` is the file written last, and `file.kind` also where its export
stands: `backup` checks, then `pg_dump` reads in a session of its own
(`BackupCheck`, `BackupDump`); `export_receipt_delta` commits each statement
(`ExportCheck`, `ExportConfirmations`, `ExportReceipts`); the domain export is one
snapshot. The runtime runs at the writer's site: a job becomes a confirmed effect,
passes its fence, and is sent in a guarded call that holds the control row
(`Claim` to `Answered`); leases lapse, processes die, an unknown attempt is
settled by evidence, at any time and perhaps against what the answer says, so
that databases can disagree about an outcome. `Without` is the deletion of
objects and of all that descends from them. What an object is derived from is the
constant `Parent`: one source at most, the same in every database, where the code has
a table of edges that grows (`JobQueue` has both). `ExportReceipts` reads attempts
and tombstones in one step, where the code runs a statement for each ledger: what
matters to the properties is that they are read after the confirmations and before
the file is complete.

Which database is permitted next is decided by the operator's procedure
(`docs/verification/PAI-28-cutover-packet.md`, lines 12-25), not by code:
`Stop`, `Approve` and the variables `writer`, `running`, `served`, `ready` and
`approval` are external. A database is ready to be permitted if it was the
writer, if it was never permitted and got the receipts of the *stopped* writer,
or if it got that writer's whole domain; it is approved while no other database
may send. `permit_synthetic_egress` itself checks the epoch only, and the
commands are not pointed at a database whose restore did not finish. Left out:
the expected manifest of a target (a mismatch is a refusal), files of artifacts,
report artifacts, grants, schedules and deliveries among the transferred tables,
and jobs of effect mode.

## 3. Runs

Processes of one role are interchangeable (symmetry); so are jobs in `queue`,
fingerprints in `watch`, flows in `connections` and epochs in `cutover`: nothing
orders their names. Sizes were chosen so that every action fires and each property has a
defective variant that breaks it.

| Run | Question | Bounds and why they are enough |
|---|---|---|
| `queue` | Are leases exclusive and fenced writes safe, is anything readable left after its source went, is admission respected, do turns overlap, are outcomes kept? | two slices of one state space (`Slice` in `MCJobQueue`). *Leasing*: 2 workers, 2 jobs of an account that may be disconnected, 2 attempts, leases of one tick, clock to 3: a lease lapses, the job is recovered and claimed by the other worker while the first still writes. *Lineage*: 3 compute jobs, so that a chain of results can hang on one input, with 2 admission slots, deadlines of one tick and results as the only fenced writes, since what the others add is in the first slice |
| `settles` | Does every job settle that its worker does not lose? | 2 jobs that compete for one worker, 2 attempts, heartbeats, completions and retries (checkpoints are in `queue`); the service's own roles, fairness below; no symmetry, since the property is temporal |
| `service` | Does somebody recover the jobs that were lost? (violated) | as `settles`, with one assistant job and checkpoints |
| `ledger` | Do the windows add up through every failure, and do revocation, replacement and freezing exclude calls? | an operation of two members and two plain ones, 2 grants, 2 revisions, a window shared by both. Two slices (`Slice` in `MCPolicyLedger`). *Scarce*: capacity and upper bound 1, two operations, so that a second reservation fits only after known usage gave something back. *Grouped*: room for two, so that a process brings the compound and a plain operation to one call and one of them may be denied, released or settled without the other |
| `scopes` | Does a call keep unrelated scopes waiting? (violated) | 2 grants |
| `actions` | Is what was confirmed what is sent, once? | 1 proposal with 2 versions, so that an edit can come between any two reads; 2 workers, one of which lost its lease; each idempotency key is touched by one proposal only, so a second proposal would add nothing but interleavings |
| `delivered` | Was what is sent delivered before? (violated) | as `actions` |
| `delivery` | Is each part sent once, in order, and truthfully reported? | a short and a two-part answer, 2 senders, one source grant |
| `watch` | Is only what is due, current and within the cap collected and told? | 1 subject with 2 fingerprints (a change and a change back), 2 collectors and 2 senders, 1 ticker (a lapsed token makes a second ticker the same as the first come again), 3 slots, 2 revisions, 2 days, a cap of 1 |
| `connections` | Is the secret in use stored, a token sent again only if it was left in force, a disconnection final? | 3 processes and 3 consents, 3 secrets, 5 revisions: a callback, a refresh and a disconnection race, and a cleanup follows; a consent and two refreshes send one token twice |
| `ambiguous` | ... also if the answer to a commit is lost? (violated) | as `connections` |
| `cutover` | Does one database send, is nothing sent twice, taken back or readable again? | 2 databases, so that the domain can go over and back; 1 worker and 1 effect, whose copies can be at different stages in a file and in two databases; an object and one derived from it; 2 epochs, since a restore draws one nobody uses. Effects and objects are explored one kind at a time (`Slice` in `MCCutover`): they meet only where an import is refused for the one and would carry the other; the theorems hold of both together |

Bounded by constants and named in the modules: `Horizon` (clock),
`DeletionLimit`, `AttemptLimits`, `LeaseLengths`, `RetryDelays`,
`AdmissionLimit` (a parameter of the code), `MaxRevision`, `MaxMembers`,
`MaxVersion`, `MaxSlot`, `MaxDay`, `MaxSecret`. Deadlock is not checked where all
bounds may be used up or everything may be over (`CHECK_DEADLOCK FALSE`).

### 3.1 Fairness

`ServiceFairness` assumes weak fairness of the clock, of each worker (the loop of
`service.py` polls every second and every call is bounded by a statement or
transport timeout, so a worker that can move moves, if only by dropping its
lease), and of every open transaction, which commits or rolls back. A deletion
that is asked for again and again does not fail for ever, hence strong fairness
of `DeleteCommit` for each root. Nothing that a person decides is fair: no
deletion, cancellation, revocation, drain or resumption has to happen.
`JobsSettle` therefore assumes that the queue is not drained for ever. Workers
may die (`Abandon`) at any time. `RecoverExpired` may happen, since the method
exists, but is not fair: no role of `service.py` calls it. So a job whose worker died
may stay leased for ever (finding 1, the run `service`), and `JobsSettle` says no more
than the code does: an open job reaches an outcome or is `Lost`. That is what it is
about: no deadline, deleted input, used attempt, retry or other job keeps one waiting.

The other modules have no liveness property, because after a failure nothing in
the code goes on by itself: an operation, an attempt or a refresh whose process
died stays unknown until the owner or an operator acts, and a note that was
refused once stays as it is. "Every change is told" or "every attempt settles"
would be false under any fairness the code justifies.

### 3.2 Findings

1. **Nobody recovers expired leases** (`service`). The design says that lease
   expiry recovers safe compute checkpoints, but no role of `service.py` calls
   `recover_expired`; a job whose worker died stays leased, keeps its admission
   slot and makes a backup refuse.
2. **A call blocks unrelated scopes** (`scopes`). The design says that the locks
   of an effect cover its own grant only and that unrelated scopes continue. The
   call itself does lock only its own grants, but every reservation, preparation
   and release locks *all* grants of the owner and gives up after a second.
3. **A plain yes may send a version nobody received** (`delivered`). Acting is
   said to require the exact, fully delivered preview. The delivery is checked of
   the version that is visible when the owner's yes is read; `confirm_and_execute`
   reads proposal and visible version again and takes no expected version, so an
   edit registered and shown in between is what is confirmed. It needs a second
   worker on the same conversation, that is one whose lease lapsed. A version
   that was not even shown is never sent (`SentWasShown`).
4. **A lost answer to a commit erases the secret in use** (`ambiguous`). A refresh
   keeps its new secret when it cannot know whether its commit happened, and the
   review notes say so of every ambiguous commit. `callback` deletes its new
   secret on any exception, although the row may refer to it.

### 3.3 Observed while modelling

Queue:
* With `heartbeat` enabled `SerialAssistant` fails: a heartbeat whose
  transaction straddles the expiry revives a turn that another worker has already
  passed. Production never calls `heartbeat`.
* Restore puts held compute jobs back to `retry_wait` without comparing attempts
  (`runtime/operations.py:125`).

Ledger:
* A reservation whose process dies stays reserved: nothing releases it.
* `revoke_grant` gives up after a second when a call holds its grant; nothing
  asks again.

Actions:
* An action refused at the fence, or answered with somebody else's receipt,
  returns without releasing its reservation (`storage/actions.py:183-187`).
* `failed_known` may be recorded of an attempt whose request is still to be made:
  a reconciliation by evidence between fence and dispatch is not looked at again
  by the dispatch (`storage/actions.py:197`), which checks the proposal and the
  confirmation only. The late answer then conflicts with the settled receipt.

Delivery:
* A message's operation reference is derived from its delivery id, so once its
  reservation was abandoned it can never be reserved again; the service loop
  picks the same message each time (`runtime/delivery.py:245`).
* A note refused by the last guard keeps its place in the quota, an unknown
  attempt and the status queued (`runtime/delivery.py:215`).
* Settlement and reconciliation take attempt and note in different orders; no
  reconciling adapter of Telegram is wired.

Scheduler:
* A change A, B, A, B queues the second A to B under the same digest as the
  first, so it is not told again, but the baseline moves
  (`runtime/scheduler.py:344`).
* Two collections of one subscription may commit in the other order than they
  read (line 320): the baseline goes back to older evidence until the next slot.
* Notes cancelled by a revision, a pause or a snooze are never queued again,
  since the baseline has moved.

Connections:
* A crash between a commit and the vault leaves files nobody refers to
  (`runtime/connections.py:257`, and callbacks and refreshes whose session is
  lost); nothing records or erases them.

Operations and migration:
* Between the two commits of a restore, and for good if the process dies there,
  the new database has the epoch of its source (`runtime/operations.py:119-124`).
  If the source was permitted between the check of the backup and its dump (lines
  74-80), it also has egress on. `OnlyApprovedSends` therefore speaks of finished
  restores.
* The guard of a call reads epoch and egress of its own database only: two
  databases with one epoch are kept apart by the procedure alone.
* A grant revoked after the snapshot is in force again in the restored database:
  grants are not among the receipts (`LEDGERS`, `runtime/migration.py:158-163`).
  `docs/design/PAI.md:208-209` says that a restore cannot revive revoked authority.
* The command that restores passes no tombstones (`cli.py:177`): deletions made
  after the snapshot arrive with the receipts only.
* Receipts delete the listed objects and nothing derived from them
  (`runtime/migration.py:234-236`), so a database that derived something of its
  own keeps it. `ReadableAtWriter` holds since such a database is not permitted
  until it has the stopped writer's domain.
* After a deletion at the source a domain is refused by a target that still has
  the object, until the receipts were applied (`runtime/migration.py:83-140`).
* A job that a dead worker left leased makes backup and domain export refuse until
  something recovers it; nothing does (finding 1).

## 4. Proofs

| Module | Theorem | Statement |
|---|---|---|
| `JobQueueProofs` | `Invariance` | `Spec => []IInv` |
| | `FencedWritesAreSafe`, `LeasesAreExclusive`, `EffectsAreClaimedOnce`, `DeletionLeavesNoOrphan`, `AttemptsAreBounded`, `AdmissionHolds` | `Spec => []` of the invariant that `queue` checks |
| | `TypeCorrect`, `ResultsMatchOutcomes` | `Spec => []` of `TypeOK`, `ResultIffCompleted`, which no run needs to repeat |
| | `OutcomesAreFinal` | the action property `OutcomeKept` |
| | `TurnsAreSerial` | `"heartbeat" \notin FencedOps` implies `Spec => []SerialAssistant` |
| `EffectOnceProofs` | `PromiseKept` | `Spec => []Promise` |
| `PolicyLedgerProofs` | `Invariance`, `TypeCorrect` | `Spec => []` of `IInv`, `TypeOK` |
| | `WindowsAlwaysBalance`, `CapacityIsNeverExceeded`, `ProvidersAreInvokedOnce`, `GuardsHold`, `CallsCarryTheirScopes` | `Spec => []` of `WindowsBalance`, `CapacityRespected`, `InvokedOnce`, `GuardedCallsUndisturbed`, `CallCarriesItsScopes` |
| | `CostsAreSaidOnce` | the action property `ChargesSettleOnce` |
| `ActionLedgerProofs` | `Invariance`, `TypeCorrect` | `Spec => []` of `IInv`, `TypeOK` |
| | `ConfirmationsUsedOnce`, `SendingExcludesChange`, `OnlyShownIsSent` | `Spec => []` of `OneUse`, `DispatchExcludesChange`, `SentWasShown` |
| | `ImplementsEffectOnce`, `VersionsKeepPromise` | `Spec => EachVersionTakesEffectOnce`, hence `Spec => []Once!Promise` |
| `DeliveryExecutorProofs` | `Invariance`, `TypeCorrect` | `Spec => []` of `IInv`, `TypeOK` |
| | `MessagesHaveOneSender`, `GuardedAnswersStay`, `PartsAreInOrder`, `AggregatesAreTrue` | `Spec => []` of `OneSenderPerMessage`, `GuardedSendKeepsAnswer`, `PartsInOrder`, `AggregateIsTrue` |
| | `ImplementsEffectOnce`, `MessagesKeepPromise` | `Spec => EachMessageTakesEffectOnce`, hence `Spec => []Once!Promise` |
| `WatchSchedulerProofs` | `Invariance`, `TypeCorrect` | `Spec => []` of `IInv`, `TypeOK` |
| | `QueuedNotesAreCurrent`, `GuardsHold`, `CapIsRespected` | `Spec => []` of `QueuedIsCurrent`, `GuardedCallsStayCurrent`, `CapRespected` |
| | `DueSlotsAreCollected` | the action property `CollectsOnlyWhatIsDue` |
| `ConnectionsProofs` | `TypeCorrect`, `TokensResentOnlyIfKept`, `DisconnectionWins` | `Spec => []` of `TypeOK`, `TokenResentOnlyIfKept`, `RevocationWins` |
| | `ActiveSecretKept` | `CommitAnswered` implies `Spec => []ActiveSecretStored` |
| `CutoverProofs` | `TypeCorrect` | `Spec => []TypeInv` |
| | `OnlyApprovedDatabaseSends` | `Spec => []OnlyApprovedSends` |
| | `NothingIsReopened` | the action property `NothingReopened` |
| | `Invariance` | `Spec => []IInv` |
| | `EffectsAreRequestedOnce`, `DeletedStaysUnreadable` | `Spec => []` of `RequestedOnce`, `ReadableAtWriter` |

These theorems state every invariant and action property that a passing run
checks, so that what TLC shows of a small instance holds of any. What they assume
of the constants is named in each module: bounds are natural numbers, names are
distinct, counters that start at 1 have a bound of at least 1 (`MaxVersion`,
`MaxRevision`, `MaxDay`), and `Jobs` is finite, since admission counts it. The sets
that `PolicyLedger` sums over and `WatchScheduler` counts are finite by their
invariants.

**JobQueue.** For any finite or infinite sets of jobs, workers and
inputs and any bounds (the assumptions named in `JobQueue` type the constants and
keep names apart; only admission, which counts, uses that `Jobs` is finite).
None of the safety properties is inductive alone. `IInv` joins `Base` with what
each of them needs:

* `RowsHaveIntent`, `StoppedOpen`, `StoppedUnwritten`: an open transaction is of
  a live process and says what it is about to write;
* `LeaseKnown`: a worker's lease has a generation the row has had, so a new claim
  is always newer;
* `OneCurrentLease`, `WriterStaysCurrent`: exclusivity of the current generation,
  and that the row lock preserves it until the commit;
* `FreshRows`: a job that was never admitted has the initial row;
* `OnlyEffectsAwait`, `OnlyComputeFinishes`: which modes reach which outcomes;
* `EffectClaimedOnce` needs `OnlyEffectsAwait` so that recovery never returns an
  effect to the queue;
* `ResultIffCompleted` and `EdgesOfResults`: edges point only from stored
  results, so a deletion's closure sees all of them;
* `OneLineageHolder`, `CompletionReadsLive`, `DeletionHasRoot`: the lineage lock
  makes the snapshot of a deletion exact at its commit, which
  `NoOrphanedResult` rests on; the closure is used only through its being closed
  under edges, so derivations of any depth are covered;
* `AttemptsBounded` with the claim's guard on attempts.

The proofs have one step per action, and under it one per conjunct the action
can disturb; the others follow from a lemma that names the unchanged columns.

`SerialAssistant` is proved relative to `IInv`, without heartbeats as in
production: a claim is the only step after which a turn is live that was not
before, and it looks for a live one in its own transaction.

**EffectOnce.** `Fenced` adds what the promise needs: without an attempt nothing
was asked, and what was not asked has had no effect. Whatever refines
`EffectOnce` thereby keeps a promise that is proved.

**PolicyLedger.** For any processes, operations, grants and windows. `Balanced`
says that the counters of a window are sums over its operations, so the first
part of the module is about sums. The library's fold is a recursive function on
the subsets of a set, and induction is out of the provers' reach; instead a
*smallest* counterexample is taken, which exists since the strict subsets of a
finite set are well founded. That yields an additive measure, that it is unique,
and that it is the fold; from it `SumAdd` and `SumChange`, what a step does to a
sum when it adds, removes or reprices one operation. Every transaction of the
ledger is then classified by what it does to windows and operations (`Moves`: a
window configured or closed, an operation reserved, given back, prepared, settled or
repriced, or neither touched), every step of a process by where it goes
(`Proceeds`), and the conjuncts are proved per class:

* `Registered`: a grant in force has a revision, a window not opened no capacity;
* `CapacityRespected` is inductive with `Balanced`: what a settlement adds to the
  spent is at most what it takes from the held;
* `Prepared`: what a process prepared is its own, carries the scopes it brought,
  and was not called while it still prepares; hence `InvokedOnce` and
  `CallCarriesItsScopes`;
* `GuardedCallsUndisturbed` is inductive with it.

`ChargesSettleOnce` follows from the same classes, step by step.

**ActionLedger.** For any number of proposals, versions and workers:

* `Attempted`, `Busy`: past its fence a worker has a version, with an attempt;
* `Versions`: a version yet to come has left no trace, so an edit starts clean;
* `OneUse`, `DispatchExcludesChange` are inductive with these;
* `Seen`: what is visible was shown, and whoever compared a version with it, or
  executes it, has one that was shown, although the proposal may have changed
  since: this is `SentWasShown`;
* `OneSender`, `Asked`: the attempt of a version is one worker's, nothing is asked
  without it, and it is recorded as done only if it is.

For the refinement, `Once!Init` holds initially, and each action of the worker,
the owner and the provider is a step of `EffectOnce` for the version it is about
or leaves attempts, requests and effects alone; `OneSender` and `Asked` are what
make `Dispatch` the first request and `Answered` true.

**DeliveryExecutor.** For any answers, parts and senders. The shape is that of
ActionLedger with the operation in the place of the confirmation: `Claimed` and
`OneSender` (from its reservation to its settlement a message is one sender's),
`Asked` and `Knows` (nothing is asked before operation and attempt exist, and what
is recorded or about to be recorded is true). For split answers `Ordered` says
that whoever is at a part has seen those before it sent, across crashes and
reconciliations, and `Closed` that a whole is closed on the attempts of its parts;
with `Asked` this gives `AggregateIsTrue`.

**WatchScheduler.** For any subjects, fingerprints, processes, days and caps:

* `LeasedWhenDue`: a ticker's lease is on a slot that has come, which gives
  `CollectsOnlyWhatIsDue`;
* `OneSender`, `Uncounted`: a note is one sender's, and counts for a day from its
  fence on;
* `Counted`: the messages called on a day and the fenced notes that may still be
  called on it are together no more than the notes that count for it, and these no
  more than the cap. `CapRespected` alone says nothing of notes fenced before
  midnight;
* `QueuedIsCurrent`, `GuardedCallsStayCurrent` are inductive with `Typed`.

**Connections.** For any sets of processes and consents, any number of secrets
and revisions. The invariant has one conjunct per reason, and one lemma per
conjunct with a step per action:

* `Bounds`: secrets beyond those made have left no trace, so a new one is new;
* `Guarded`: a session that holds the row is alone, and the row is as it was
  fenced; hence nobody can be refreshing twice;
* `Fences`: each refresh has a revision of its own;
* `Issued`: every secret that was made has a token named after one that was made;
* `ActiveToken`: if the token of the active secret is not known to be in force (it was
  sent more often than answers let it stand), then the fence is taken and no process
  still has its revision; with `Fences` this is why `TokenResentOnlyIfKept` holds;
* `NewTokens`: what a callback is about to commit has a token of its own that was
  never sent, and what a refresh that holds the row is about to commit has a new
  token or the old one, and that is in force; this is why a commit keeps `ActiveToken`;
* `Carriers`: a secret not committed yet is known to one process, and is neither in
  use nor recorded for erasure; what is being erased was recorded;
* `Begun`, `Origins`: a disconnection takes a revision that every earlier
  consent lacks, and secrets keep the consent they stem from: `RevocationWins`;
* `Stored`, inductive relative to the rest if commits are answered: what a process
  is about to erase is neither in use nor about to be.

**Cutover.** For any number of databases, effects, objects, workers and epochs.
`TypeInv` joins `TypeOK` with two facts: an open database has an epoch, so the
operator always decides for one, and a file that is being written has a source.
With it `OnlyApprovedSends` is inductive: a restore ends with egress off, and an
approval requires it to be off everywhere else. `NothingReopened` follows from
`Kept`, which says of one step and every database that its rows lose nothing; there is
a lemma for each import, and the runtime's steps go through what `Store` and
`StoreObjects` write.

`RequestedOnce` and `ReadableAtWriter` rest on what the procedure asks of a sequence
of files. `IInv` says who is `Informed`, that is, has an attempt for everything that
was asked and knows as deleted everything that was:

* `ReadySites`: the writer, and every database that may be permitted next; if one
  is not the writer, then the writer is stopped;
* `FinalFile`: a final file, once it is complete, while its database is still the
  stopped writer: an export reads its rows in several commits, and nobody asks or
  deletes in between;
* `OpenEpochsDiffer`, `ApprovedIsReady`: epochs tell open databases apart, so the
  epoch the operator decided for is that of a ready one, even if a restore draws a
  new epoch in between;
* `FencedOnce`: a fenced attempt was not sent yet, is recorded and has one worker,
  so a request is the first. With `StoppedIdle` nobody is left fenced when another
  database takes over;
* `Trees`: in every database and file, what is readable has a readable source and
  what is gone has taken with it what was derived from it. Receipts delete only the
  listed objects, and the invariant survives because both lists are closed.

Databases and files lose none of this by `Kept`.

Model-checked only: liveness (`JobsSettle`), which is outside the prover. The runs that expect a violation check one property each and have
nothing to prove.

## 5. Plan

In this order:

1. `Ingress` and `Conversations`: update ids, control commands and versioned
   turns in front of the queue; an update is received once and enqueued with its
   deduplication.
2. The effect jobs of `DeliveryExecutor`, whose lease is heartbeat-checked, with the
   queue's leases.
3. The queue beside several subscriptions, and briefs, in `WatchScheduler`.

### 5.1 Not modelled

* Of `runtime/operations.py`: monitoring, status, release manifests, files of
  artifacts. Of `runtime/migration.py`: the import of report artifacts, and the
  grants, schedules, connections and deliveries of a domain, which are replaced as
  a whole or merged as confirmations and attempts are.
* `runtime/ingress.py`, `storage/conversations.py`, the versioned object store:
  compare-and-set rows of one process; planned.
* Research, briefs, artifacts, academic storage, result payloads: sequential
  handlers of jobs. What they do to shared state is queue and ledger.
* Adapters of models, media, web, speech, Graph and Canvas: their calls are
  `PolicyLedger`'s; what they parse is data.
* External watch, the legacy assistant, bot, output, ingestion and processing
  pipelines, which are most of the repository's lines: single processes over
  SQLite files, mostly prompts, scoring, formatting and reports. They share no
  state with the runtime and nothing in them runs concurrently.
* Evaluation, tools, tests and documents: not part of the running system.
