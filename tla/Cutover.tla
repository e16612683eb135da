------------------------------ MODULE Cutover ------------------------------
(* Moving the runtime from one database to another and back: freezing,       *)
(* backup, restore, the transfer of receipts and of the whole domain         *)
(* (prm/runtime/operations.py, prm/runtime/migration.py), while workers and  *)
(* the owner go on where nothing stops them. A site is a database. Of its    *)
(* tables only what decides appears: the control row, and for each effect    *)
(* (a confirmed action) its job, confirmation, attempt and budget, and the   *)
(* readable objects with what they were derived from. Who may be permitted   *)
(* to send next is the operator's procedure                                  *)
(* (docs/verification/PAI-28-cutover-packet.md), not code.                   *)
EXTENDS Naturals, FiniteSets

CONSTANTS
  Sites,      \* databases
  First,      \* the one the runtime is installed in; the others are empty
  Effects,    \* idempotency keys of actions
  Objects,    \* references of memory and result objects
  Parent,     \* what an object is derived from, or None
  Workers,    \* worker processes
  Epochs,     \* execution epochs, random and never used twice
  None

ASSUME SitesAssumption == First \in Sites /\ None \notin Sites
ASSUME EpochsAssumption == Epochs # {} /\ None \notin Epochs
ASSUME ObjectsAssumption == None \notin Objects /\ Parent \in [Objects -> Objects \cup {None}]
ASSUME WorkersAssumption ==
  /\ None \notin Workers
  /\ Workers \cap {"queued", "completed"} = {}

VARIABLES
  phase,      \* phase[s]: "empty", "half" between the two commits of a restore, "open"
  control,    \* control[s]: pa_control.state
  rows,       \* rows[s]: the tables
  worker,     \* worker[w]: what the process is doing, at the writer's site
  file,       \* the file last written: a backup, receipts or a domain
  requests,   \* requests[e]: how often the effect was asked of its provider
  erased,     \* what the owner has deleted
  writer,     \* the site last permitted
  running,    \* whether its processes run
  served,     \* the sites that were permitted at any time
  ready,      \* the sites the procedure allows to permit next
  approval    \* the epoch the operator decided for

procedure == <<writer, running, served, ready, approval>>
world == <<requests, erased>>
vars == <<phase, control, rows, worker, file, world, procedure>>

----------------------------------------------------------------------------
(* Tables                                                                    *)

Settled == {"succeeded", "failed_known"}

Control == [epoch : Epochs \cup {None}, egress : BOOLEAN, draining : BOOLEAN]

Rows == [job : [Effects -> {"queued", "completed"} \cup Workers],
         confirmation : [Effects -> {"none", "open", "consumed"}],
         attempt : [Effects -> {"none", "unknown"} \cup Settled],
         budget : [Effects -> {"none", "reserved", "spent"}],
         object : [Objects -> {"none", "live", "gone"}]]

NoRows == [job |-> [e \in Effects |-> "queued"],
           confirmation |-> [e \in Effects |-> "none"],
           attempt |-> [e \in Effects |-> "none"],
           budget |-> [e \in Effects |-> "none"],
           object |-> [o \in Objects |-> "none"]]

Frozen(c) == ~c.egress /\ c.draining
NoneHeld(r) == \A e \in Effects : r.job[e] \notin Workers

\* What delete_derived_in leaves: whatever descends from a deleted object goes.
Closed(S) == \A o \in Objects : Parent[o] \in S => o \in S
Descendants(S) == {o \in Objects : \A T \in SUBSET Objects : S \subseteq T /\ Closed(T) => o \in T}
Without(object, S) == [o \in Objects |-> IF o \in Descendants(S) THEN "gone" ELSE object[o]]
Gone(object) == {o \in Objects : object[o] = "gone"}

\* Held compute jobs go back to retry_wait.
Released(job) == [e \in Effects |-> IF job[e] \in Workers THEN "queued" ELSE job[e]]

Idle == [phase |-> "idle", on |-> None]
At(p) == {w \in Workers : worker[w].phase = p}
Running(s) == s = writer /\ running

\* A guarded call holds the control row FOR SHARE.
ControlFree(s) == Running(s) => At("calling") = {}

NoControl == [epoch |-> None, egress |-> FALSE, draining |-> FALSE]
File(kind, s, c, r, final) == [kind |-> kind, from |-> s, control |-> c, rows |-> r, final |-> final]
NoFile == File("none", None, NoControl, NoRows, FALSE)

\* The runtime is installed in one database and was permitted to send.
Init ==
  /\ phase = [s \in Sites |-> IF s = First THEN "open" ELSE "empty"]
  /\ approval \in Epochs
  /\ control = [s \in Sites |-> IF s = First
                                 THEN [epoch |-> approval, egress |-> TRUE, draining |-> FALSE]
                                 ELSE NoControl]
  /\ rows = [s \in Sites |-> NoRows]
  /\ worker = [w \in Workers |-> Idle]
  /\ file = NoFile
  /\ requests = [e \in Effects |-> 0]
  /\ erased = {}
  /\ writer = First /\ running = TRUE /\ served = {First} /\ ready = {First}

----------------------------------------------------------------------------
(* The runtime at the writer's site                                          *)

Store(job, confirmation, attempt, budget) ==
  rows' = [rows EXCEPT ![writer] = [job |-> job, confirmation |-> confirmation, attempt |-> attempt,
                                    budget |-> budget, object |-> rows[writer].object]]

Become(w, p, e) == worker' = [worker EXCEPT ![w] = [phase |-> p, on |-> e]]

\* Nothing is claimed while the site drains.
Claim(w, e) ==
  LET r == rows[writer] IN
  /\ running /\ ~control[writer].draining
  /\ worker[w] = Idle /\ r.job[e] = "queued"
  /\ Store([r.job EXCEPT ![e] = w], r.confirmation, r.attempt, r.budget)
  /\ Become(w, "holding", e)
  /\ UNCHANGED <<phase, control, file, world, procedure>>

\* A lapsed lease is recovered; its worker may still be at work.
Recover(e) ==
  LET r == rows[writer] IN
  /\ running /\ r.job[e] \in Workers
  /\ Store([r.job EXCEPT ![e] = "queued"], r.confirmation, r.attempt, r.budget)
  /\ UNCHANGED <<phase, control, worker, file, world, procedure>>

\* A worker's turn ends; only the holder of the lease completes the job, and
\* the process may die before it does.
Ends(w, job) == {job, [job EXCEPT ![worker[w].on] = IF @ = w THEN "completed" ELSE @]}

\* The owner's yes is stored, then budget reserved ...
Confirmable(w) ==
  /\ worker[w].phase = "holding"
  /\ rows[writer].attempt[worker[w].on] = "none"
  /\ rows[writer].confirmation[worker[w].on] # "consumed"

Confirm(w) ==
  LET r == rows[writer]
      e == worker[w].on IN
  /\ Confirmable(w)
  /\ control[writer].egress /\ ~control[writer].draining
  /\ Store(r.job, [r.confirmation EXCEPT ![e] = "open"], r.attempt,
           [r.budget EXCEPT ![e] = IF @ = "none" THEN "reserved" ELSE @])
  /\ Become(w, "confirmed", e)
  /\ UNCHANGED <<phase, control, file, world, procedure>>

\* ... which is denied where egress is off.
ConfirmDenied(w) ==
  LET r == rows[writer] IN
  /\ Confirmable(w)
  /\ ~control[writer].egress \/ control[writer].draining
  /\ \E job \in Ends(w, r.job) :
       Store(job, [r.confirmation EXCEPT ![worker[w].on] = "open"], r.attempt, r.budget)
  /\ Become(w, "idle", None)
  /\ UNCHANGED <<phase, control, file, world, procedure>>

\* The fence of execute does not read the control row.
Fence(w) ==
  LET r == rows[writer]
      e == worker[w].on IN
  /\ worker[w].phase = "confirmed"
  /\ r.attempt[e] = "none" /\ r.confirmation[e] = "open"
  /\ Store(r.job, [r.confirmation EXCEPT ![e] = "consumed"], [r.attempt EXCEPT ![e] = "unknown"], r.budget)
  /\ Become(w, "fenced", e)
  /\ UNCHANGED <<phase, control, file, world, procedure>>

\* execute finds the attempt of somebody else.
Replay(w) ==
  LET r == rows[writer] IN
  /\ worker[w].phase \in {"holding", "confirmed"}
  /\ r.attempt[worker[w].on] # "none"
  /\ \E job \in Ends(w, r.job) : Store(job, r.confirmation, r.attempt, r.budget)
  /\ Become(w, "idle", None)
  /\ UNCHANGED <<phase, control, file, world, procedure>>

\* The budget is prepared, then the guard reads the control row.
Dispatch(w) ==
  LET r == rows[writer]
      e == worker[w].on IN
  /\ worker[w].phase = "fenced"
  /\ control[writer].egress /\ ~control[writer].draining
  /\ Store(r.job, r.confirmation, r.attempt, [r.budget EXCEPT ![e] = "spent"])
  /\ requests' = [requests EXCEPT ![e] = @ + 1]
  /\ Become(w, "calling", e)
  /\ UNCHANGED <<phase, control, file, erased, procedure>>

\* A frozen site denies the request: the attempt stays unknown.
Denied(w) ==
  LET r == rows[writer]
      e == worker[w].on IN
  /\ worker[w].phase = "fenced"
  /\ ~control[writer].egress \/ control[writer].draining
  /\ \E job \in Ends(w, r.job) :
       Store(job, r.confirmation, r.attempt, [r.budget EXCEPT ![e] = "spent"])
  /\ Become(w, "idle", None)
  /\ UNCHANGED <<phase, control, file, world, procedure>>

\* The answer settles the attempt, unless it was settled already; a lost one
\* leaves it unknown.
Answered(w) ==
  LET r == rows[writer]
      e == worker[w].on IN
  /\ worker[w].phase = "calling"
  /\ \E status \in {"unknown"} \cup Settled, job \in Ends(w, r.job) :
       Store(job, r.confirmation,
             [r.attempt EXCEPT ![e] = IF @ = "unknown" THEN status ELSE @], r.budget)
  /\ Become(w, "idle", None)
  /\ UNCHANGED <<phase, control, file, world, procedure>>

\* The process dies, or loses the sessions that guard its call.
Crash(w) ==
  /\ worker[w] # Idle
  /\ Become(w, "idle", None)
  /\ UNCHANGED <<phase, control, rows, file, world, procedure>>

\* An unknown attempt is settled by evidence, perhaps before its request.
Reconcile(e) ==
  LET r == rows[writer] IN
  /\ running /\ r.attempt[e] = "unknown"
  /\ \E status \in Settled :
       Store(r.job, r.confirmation, [r.attempt EXCEPT ![e] = status], r.budget)
  /\ UNCHANGED <<phase, control, worker, file, world, procedure>>

StoreObjects(object) ==
  LET r == rows[writer] IN
  rows' = [rows EXCEPT ![writer] = [job |-> r.job, confirmation |-> r.confirmation,
                                    attempt |-> r.attempt, budget |-> r.budget, object |-> object]]

\* Objects are made and deleted whether or not the site is frozen.
Create(o) ==
  LET object == rows[writer].object IN
  /\ running /\ object[o] = "none"
  /\ Parent[o] # None => object[Parent[o]] = "live"
  /\ StoreObjects([object EXCEPT ![o] = "live"])
  /\ UNCHANGED <<phase, control, worker, file, world, procedure>>

Delete(o) ==
  LET object == rows[writer].object IN
  /\ running /\ object[o] = "live"
  /\ StoreObjects(Without(object, {o}))
  /\ erased' = erased \cup Descendants({o})
  /\ UNCHANGED <<phase, control, worker, file, requests, procedure>>

Runtime ==
  \/ \E e \in Effects : Recover(e) \/ Reconcile(e)
  \/ \E w \in Workers : \/ \E e \in Effects : Claim(w, e)
                        \/ Confirm(w) \/ ConfirmDenied(w) \/ Fence(w) \/ Replay(w)
                        \/ Dispatch(w) \/ Denied(w) \/ Answered(w) \/ Crash(w)
  \/ \E o \in Objects : Create(o) \/ Delete(o)

----------------------------------------------------------------------------
(* Control                                                                   *)

Set(s, epoch, egress, draining) ==
  control' = [control EXCEPT ![s] = [epoch |-> epoch, egress |-> egress, draining |-> draining]]

Drain(s) ==
  /\ phase[s] = "open" /\ ControlFree(s)
  /\ Set(s, control[s].epoch, control[s].egress, TRUE)
  /\ UNCHANGED <<phase, rows, worker, file, world, procedure>>

KillSwitch(s) ==
  /\ phase[s] = "open" /\ ControlFree(s)
  /\ Set(s, control[s].epoch, FALSE, TRUE)
  /\ UNCHANGED <<phase, rows, worker, file, world, procedure>>

\* The command is given the epoch the operator decided for, not the site. It
\* is not pointed at a site whose restore did not finish.
PermitEgress(s) ==
  /\ phase[s] = "open" /\ ControlFree(s)
  /\ control[s].epoch = approval
  /\ Set(s, control[s].epoch, TRUE, FALSE)
  /\ writer' = s /\ running' = TRUE
  /\ served' = served \cup {s} /\ ready' = {s}
  /\ file' = File(file.kind, file.from, file.control, file.rows, FALSE)
  /\ UNCHANGED <<phase, rows, worker, world, approval>>

----------------------------------------------------------------------------
(* The operator's procedure                                                  *)

\* The writer's processes are stopped for good.
Stop ==
  /\ running /\ Frozen(control[writer])
  /\ running' = FALSE
  /\ worker' = [w \in Workers |-> Idle]
  /\ UNCHANGED <<phase, control, rows, file, world, writer, served, ready, approval>>

\* "Verify one writer": the next epoch to permit is that of a site that has
\* what the procedure asks for, while no other site may send.
Approve(s) ==
  /\ s \in ready /\ phase[s] = "open"
  /\ \A t \in Sites \ {s} : phase[t] = "open" => ~control[t].egress
  /\ approval' = control[s].epoch
  /\ UNCHANGED <<phase, control, rows, worker, file, world, writer, running, served, ready>>

----------------------------------------------------------------------------
(* Backup and restore                                                        *)

BackupCheck(s) ==
  /\ phase[s] = "open"
  /\ NoneHeld(rows[s]) /\ Frozen(control[s])
  /\ file' = File("checked", s, NoControl, NoRows, FALSE)
  /\ UNCHANGED <<phase, control, rows, worker, world, procedure>>

\* pg_dump runs after the check, in a session of its own.
BackupDump ==
  /\ file.kind = "checked"
  /\ file' = File("backup", None, control[file.from], rows[file.from], FALSE)
  /\ UNCHANGED <<phase, control, rows, worker, world, procedure>>

\* pg_restore commits the dump as it is.
RestoreCommit(s) ==
  /\ phase[s] = "empty" /\ file.kind = "backup"
  /\ phase' = [phase EXCEPT ![s] = "half"]
  /\ control' = [control EXCEPT ![s] = file.control]
  /\ rows' = [rows EXCEPT ![s] = file.rows]
  /\ UNCHANGED <<worker, file, world, procedure>>

\* A fresh uuid.
\* Defective variant: the epoch of the snapshot stays.
SameEpoch(s) == {control[s].epoch}
NewEpoch(s) == Epochs \ ({control[t].epoch : t \in Sites} \cup {file.control.epoch, approval})

\* Defective variant: the control row stays as it was dumped.
ControlAsDumped(s, epoch) == Set(s, epoch, control[s].egress, control[s].draining)
RestoredControl(s, epoch) == Set(s, epoch, FALSE, TRUE)

\* The second transaction: a new epoch, egress off, nobody's leases released,
\* deletions of the snapshot replayed.
RestoreFinish(s) ==
  LET r == rows[s] IN
  /\ phase[s] = "half"
  /\ phase' = [phase EXCEPT ![s] = "open"]
  /\ \E epoch \in NewEpoch(s) : RestoredControl(s, epoch)
  /\ rows' = [rows EXCEPT ![s] =
       [job |-> Released(r.job), confirmation |-> r.confirmation, attempt |-> r.attempt,
        budget |-> r.budget, object |-> Without(r.object, Gone(r.object))]]
  /\ UNCHANGED <<worker, file, world, procedure>>

----------------------------------------------------------------------------
(* Receipts                                                                  *)

\* A file is final when its site was the writer and is stopped.
Final(s) == s = writer /\ ~running

\* The connection commits each statement: the control row is read ...
ExportCheck(s) ==
  /\ phase[s] = "open" /\ Frozen(control[s])
  /\ file' = File("frozen", s, NoControl, NoRows, Final(s))
  /\ UNCHANGED <<phase, control, rows, worker, world, procedure>>

\* ... then the confirmations ...
ExportConfirmations ==
  /\ file.kind = "frozen"
  /\ file' = File("reading", file.from, NoControl,
                  [NoRows EXCEPT !.confirmation = rows[file.from].confirmation], file.final)
  /\ UNCHANGED <<phase, control, rows, worker, world, procedure>>

\* Defective variant: deletions stay behind.
NoTombstones(object) == [o \in Objects |-> "none"]
Tombstones(object) == [o \in Objects |-> IF object[o] = "gone" THEN "gone" ELSE "none"]

\* ... then the attempts and the tombstones.
ExportReceipts ==
  LET r == rows[file.from] IN
  /\ file.kind = "reading"
  /\ file' = File("receipts", None, NoControl,
                  [NoRows EXCEPT !.confirmation = file.rows.confirmation,
                                 !.attempt = r.attempt,
                                 !.object = Tombstones(r.object)],
                  file.final)
  /\ UNCHANGED <<phase, control, rows, worker, world, procedure>>

Rank(c) == CASE c = "none" -> 0 [] c = "open" -> 1 [] c = "consumed" -> 2

\* A confirmation stays consumed.
MergeConfirmation(mine, theirs) == IF Rank(mine) >= Rank(theirs) THEN mine ELSE theirs

\* Defective variant: the file wins.
TakeAttempt(mine, theirs) == IF theirs = "none" THEN mine ELSE theirs

\* What is settled stays, and what is attempted stays attempted.
MergeAttempt(mine, theirs) ==
  IF mine \in Settled \/ theirs = "none" THEN mine ELSE theirs

\* Two different terminal outcomes of one key stop the import.
Conflicting(r, q) ==
  \E e \in Effects : /\ r.attempt[e] \in Settled /\ q.attempt[e] \in Settled
                     /\ r.attempt[e] # q.attempt[e]

\* The listed objects are deleted, without what descends from them.
ApplyReceipts(s) ==
  LET r == rows[s]
      q == file.rows IN
  /\ file.kind = "receipts"
  /\ phase[s] = "open" /\ Frozen(control[s])
  /\ ~Conflicting(r, q)
  /\ rows' = [rows EXCEPT ![s] =
       [job |-> r.job, budget |-> r.budget,
        confirmation |-> [e \in Effects |-> MergeConfirmation(r.confirmation[e], q.confirmation[e])],
        attempt |-> [e \in Effects |-> MergeAttempt(r.attempt[e], q.attempt[e])],
        object |-> [o \in Objects |-> IF q.object[o] = "gone" THEN "gone" ELSE r.object[o]]]]
  /\ ready' = IF file.final /\ s \notin served THEN ready \cup {s} ELSE ready
  /\ UNCHANGED <<phase, control, worker, file, world, writer, running, served, approval>>

----------------------------------------------------------------------------
(* The whole domain                                                          *)

ExportDomain(s) ==
  /\ phase[s] = "open" /\ Frozen(control[s]) /\ NoneHeld(rows[s])
  /\ file' = File("domain", None, NoControl, rows[s], Final(s))
  /\ UNCHANGED <<phase, control, rows, worker, world, procedure>>

\* What the target knows and the file does not stops the import: an outcome,
\* budget that would be refunded or freed, a live object the file deletes.
Diverged(r, q) ==
  \/ Conflicting(r, q)
  \/ \E e \in Effects : \/ r.budget[e] # "none" /\ q.budget[e] = "none"
                        \/ r.budget[e] = "spent" /\ q.budget[e] = "reserved"
  \/ \E o \in Objects : q.object[o] = "gone" /\ r.object[o] = "live"

\* Everything else is replaced by the file; deletions of both are replayed.
ApplyDomain(s) ==
  LET r == rows[s]
      q == file.rows
      object == [o \in Objects |-> IF r.object[o] = "gone" THEN "gone" ELSE q.object[o]] IN
  /\ file.kind = "domain"
  /\ phase[s] = "open" /\ Frozen(control[s])
  /\ ~Diverged(r, q)
  /\ rows' = [rows EXCEPT ![s] =
       [job |-> [e \in Effects |-> IF r.job[e] = "completed" THEN "completed" ELSE q.job[e]],
        confirmation |-> [e \in Effects |-> MergeConfirmation(r.confirmation[e], q.confirmation[e])],
        attempt |-> [e \in Effects |-> MergeAttempt(r.attempt[e], q.attempt[e])],
        budget |-> q.budget,
        object |-> Without(object, Gone(object))]]
  /\ ready' = IF file.final THEN ready \cup {s} ELSE ready
  /\ UNCHANGED <<phase, control, worker, file, world, writer, running, served, approval>>

Operator ==
  \/ \E s \in Sites : \/ Drain(s) \/ KillSwitch(s) \/ PermitEgress(s) \/ Approve(s)
                      \/ BackupCheck(s) \/ RestoreCommit(s) \/ RestoreFinish(s)
                      \/ ExportCheck(s) \/ ApplyReceipts(s)
                      \/ ExportDomain(s) \/ ApplyDomain(s)
  \/ Stop \/ BackupDump \/ ExportConfirmations \/ ExportReceipts

Next == Runtime \/ Operator

Spec == Init /\ [][Next]_vars

----------------------------------------------------------------------------
(* Properties                                                                *)

\* What the tables, the processes, the file and the procedure can hold.
TypeOK ==
  /\ phase \in [Sites -> {"empty", "half", "open"}]
  /\ control \in [Sites -> Control]
  /\ rows \in [Sites -> Rows]
  /\ worker \in [Workers -> [phase : {"idle", "holding", "confirmed", "fenced", "calling"},
                             on : Effects \cup {None}]]
  /\ file \in [kind : {"none", "checked", "backup", "frozen", "reading", "receipts", "domain"},
               from : Sites \cup {None}, control : Control, rows : Rows, final : BOOLEAN]
  /\ requests \in [Effects -> Nat]
  /\ erased \subseteq Objects
  /\ writer \in Sites /\ running \in BOOLEAN
  /\ served \subseteq Sites /\ ready \subseteq Sites /\ approval \in Epochs

\* Whatever is backed up, restored, transferred and permitted, and whenever the
\* writer was frozen or its processes died, an effect is asked of its provider
\* once: the snapshot may be older than the effect, but nobody may send from it
\* before the receipts of the stopped writer arrived (operations.py:121-125,
\* migration.py:212-219).
RequestedOnce == \A e \in Effects : requests[e] <= 1

\* What the owner deleted is not readable where the runtime runs, nor is what was
\* derived from something deleted: an older snapshot does not bring it back, even
\* when the deletion came after the backup (operations.py:126-131,
\* migration.py:153-154, 234-236).
ReadableAtWriter ==
  \A o \in Objects : rows[writer].object[o] = "live" =>
    /\ o \notin erased
    /\ Parent[o] # None => rows[writer].object[Parent[o]] = "live"

\* A database that may send is the one the operator decided for: no restored copy
\* sends beside it, although the dump is taken after the check that the source is
\* frozen, and egress may have been permitted in between (operations.py:74-80,
\* 121-124). Between the two commits of a restore it does not hold: README 3.3.
OnlyApprovedSends ==
  \A s \in Sites : phase[s] = "open" /\ control[s].egress => control[s].epoch = approval

\* What a step from the tables r to the tables q takes back.
Reopens(r, q) ==
  \/ \E e \in Effects : \/ r.confirmation[e] = "consumed" /\ q.confirmation[e] # "consumed"
                        \/ r.attempt[e] # "none" /\ q.attempt[e] = "none"
                        \/ r.attempt[e] \in Settled /\ q.attempt[e] # r.attempt[e]
                        \/ r.budget[e] = "spent" /\ q.budget[e] # "spent"
                        \/ r.job[e] = "completed" /\ q.job[e] # "completed"
  \/ \E o \in Objects : r.object[o] = "gone" /\ q.object[o] # "gone"

\* No step, and no import in particular, makes a consumed confirmation usable, an
\* attempt forgotten or its outcome another, spent budget free, a completed job
\* due, or a deleted object readable (migration.py:83-140, 209-236).
NothingReopened ==
  [][\A s \in Sites : phase[s] = "open" => ~Reopens(rows[s], rows'[s])]_vars

=============================================================================
