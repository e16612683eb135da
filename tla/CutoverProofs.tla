--------------------------- MODULE CutoverProofs ---------------------------
(* What holds of Cutover for any number of databases, effects, objects,      *)
(* workers and epochs: the type invariant, that only the database the        *)
(* operator decided for sends, that no step takes anything back, that no     *)
(* effect is requested twice, and that nothing deleted is readable again.    *)
EXTENDS Cutover, TLAPS

Jobs == [Effects -> {"queued", "completed"} \cup Workers]
Confirmations == [Effects -> {"none", "open", "consumed"}]
Attempts == [Effects -> {"none", "unknown"} \cup Settled]
Budgets == [Effects -> {"none", "reserved", "spent"}]
ObjectStates == [Objects -> {"none", "live", "gone"}]

\* The rows of an open database carry an epoch, so there is one to decide for.
OpenHasEpoch == \A s \in Sites : phase[s] = "open" => control[s].epoch \in Epochs

\* A file that is being written comes from a database.
FileHasSite == file.kind \in {"checked", "frozen", "reading"} => file.from \in Sites

TypeInv == TypeOK /\ OpenHasEpoch /\ FileHasSite

----------------------------------------------------------------------------
(* The tables of a site.                                                     *)

LEMMA RowsFields ==
  ASSUME NEW r \in Rows
  PROVE  /\ r.job \in Jobs /\ r.confirmation \in Confirmations /\ r.attempt \in Attempts
         /\ r.budget \in Budgets /\ r.object \in ObjectStates
BY DEF Rows, Jobs, Confirmations, Attempts, Budgets, ObjectStates

LEMMA RowsBuilt ==
  ASSUME NEW j \in Jobs, NEW c \in Confirmations, NEW a \in Attempts, NEW b \in Budgets,
         NEW o \in ObjectStates
  PROVE  [job |-> j, confirmation |-> c, attempt |-> a, budget |-> b, object |-> o] \in Rows
BY DEF Rows, Jobs, Confirmations, Attempts, Budgets, ObjectStates

LEMMA NoRowsType == NoRows \in Rows
BY DEF NoRows, Rows

\* What a worker stores is a set of tables again.
LEMMA StoreType ==
  ASSUME TypeOK,
         NEW j \in Jobs, NEW c \in Confirmations, NEW a \in Attempts, NEW b \in Budgets,
         Store(j, c, a, b)
  PROVE  rows' \in [Sites -> Rows]
<1>1. rows[writer] \in Rows /\ writer \in Sites
  BY DEF TypeOK
<1>2. rows[writer].object \in ObjectStates
  BY <1>1, RowsFields
<1>3. [job |-> j, confirmation |-> c, attempt |-> a, budget |-> b,
       object |-> rows[writer].object] \in Rows
  BY <1>2, RowsBuilt
<1> QED
  BY <1>3 DEF Store, TypeOK

LEMMA StoreObjectsType ==
  ASSUME TypeOK, NEW o \in ObjectStates, StoreObjects(o)
  PROVE  rows' \in [Sites -> Rows]
<1> DEFINE r == rows[writer]
<1>1. r \in Rows
  BY DEF TypeOK
<1>2. r.job \in Jobs /\ r.confirmation \in Confirmations /\ r.attempt \in Attempts
      /\ r.budget \in Budgets
  BY <1>1, RowsFields
<1>3. [job |-> r.job, confirmation |-> r.confirmation, attempt |-> r.attempt,
       budget |-> r.budget, object |-> o] \in Rows
  BY <1>2, RowsBuilt
<1> QED
  BY <1>3 DEF StoreObjects, TypeOK

\* The writer's columns, for the actions that store some of them.
LEMMA WriterRows ==
  ASSUME TypeOK
  PROVE  /\ rows[writer].job \in Jobs /\ rows[writer].confirmation \in Confirmations
         /\ rows[writer].attempt \in Attempts /\ rows[writer].budget \in Budgets
         /\ rows[writer].object \in ObjectStates
<1>1. rows[writer] \in Rows
  BY DEF TypeOK
<1> QED
  BY <1>1, RowsFields

LEMMA WithoutType ==
  ASSUME NEW object \in ObjectStates, NEW S
  PROVE  Without(object, S) \in ObjectStates
BY DEF Without, ObjectStates

LEMMA EndsType ==
  ASSUME NEW w, NEW j \in Jobs, NEW k \in Ends(w, j)
  PROVE  k \in Jobs
BY DEF Ends, Jobs

LEMMA MergeType ==
  ASSUME NEW r \in Rows, NEW q \in Rows
  PROVE  /\ [e \in Effects |-> MergeConfirmation(r.confirmation[e], q.confirmation[e])]
              \in Confirmations
         /\ [e \in Effects |-> MergeAttempt(r.attempt[e], q.attempt[e])] \in Attempts
BY DEF Rows, Confirmations, Attempts, MergeConfirmation, MergeAttempt, Settled

LEMMA BecomeType ==
  ASSUME TypeOK, NEW w \in Workers,
         NEW p \in {"idle", "holding", "confirmed", "fenced", "calling"},
         NEW e \in Effects \cup {None},
         Become(w, p, e)
  PROVE  worker' \in [Workers -> [phase : {"idle", "holding", "confirmed", "fenced", "calling"},
                                  on : Effects \cup {None}]]
BY DEF TypeOK, Become

LEMMA OnType ==
  ASSUME TypeOK, NEW w \in Workers
  PROVE  worker[w].on \in Effects \cup {None}
BY DEF TypeOK

----------------------------------------------------------------------------
(* Types                                                                     *)

LEMMA TypeInit == Init => TypeInv
<1> SUFFICES ASSUME Init PROVE TypeInv
  OBVIOUS
<1>1. NoControl \in Control
  BY DEF NoControl, Control
<1>2. control \in [Sites -> Control]
  BY <1>1 DEF Init, Control
<1>3. file \in [kind : {"none", "checked", "backup", "frozen", "reading", "receipts", "domain"},
                from : Sites \cup {None}, control : Control, rows : Rows, final : BOOLEAN]
  BY <1>1, NoRowsType DEF Init, NoFile, File
<1>4. TypeOK
  BY <1>2, <1>3, NoRowsType, SitesAssumption DEF Init, TypeOK, Idle
<1>5. OpenHasEpoch
  BY DEF Init, OpenHasEpoch
<1>6. FileHasSite
  BY DEF Init, FileHasSite, NoFile, File
<1> QED
  BY <1>4, <1>5, <1>6 DEF TypeInv

LEMMA RuntimeType ==
  ASSUME TypeInv, Runtime
  PROVE  TypeInv'
<1> USE DEF TypeInv
<1> USE WriterRows
<1>1. ASSUME NEW e \in Effects, Recover(e)
      PROVE  TypeInv'
  <2>1. [rows[writer].job EXCEPT ![e] = "queued"] \in Jobs
    BY DEF Jobs
  <2>2. rows' \in [Sites -> Rows]
    BY <1>1, <2>1, StoreType DEF Recover
  <2> QED
    BY <1>1, <2>2 DEF Recover, world, procedure, TypeOK, OpenHasEpoch, FileHasSite
<1>2. ASSUME NEW e \in Effects, Reconcile(e)
      PROVE  TypeInv'
  <2>1. \A status \in Settled : [rows[writer].attempt EXCEPT ![e] = status] \in Attempts
    BY DEF Attempts
  <2>2. rows' \in [Sites -> Rows]
    BY <1>2, <2>1, StoreType DEF Reconcile
  <2> QED
    BY <1>2, <2>2 DEF Reconcile, world, procedure, TypeOK, OpenHasEpoch, FileHasSite
<1>3. ASSUME NEW w \in Workers, NEW e \in Effects, Claim(w, e)
      PROVE  TypeInv'
  <2>1. [rows[writer].job EXCEPT ![e] = w] \in Jobs
    BY DEF Jobs
  <2>2. rows' \in [Sites -> Rows]
    BY <1>3, <2>1, StoreType DEF Claim
  <2> QED
    BY <1>3, <2>2, BecomeType DEF Claim, world, procedure, TypeOK, OpenHasEpoch, FileHasSite
<1>4. ASSUME NEW w \in Workers, Confirm(w)
      PROVE  TypeInv'
  <2> DEFINE e == worker[w].on
  <2>1. /\ [rows[writer].confirmation EXCEPT ![e] = "open"] \in Confirmations
        /\ [rows[writer].budget EXCEPT ![e] = IF @ = "none" THEN "reserved" ELSE @] \in Budgets
    BY DEF Confirmations, Budgets
  <2>2. rows' \in [Sites -> Rows]
    BY <1>4, <2>1, StoreType DEF Confirm
  <2> QED
    BY <1>4, <2>2, OnType, BecomeType DEF Confirm, world, procedure, TypeOK, OpenHasEpoch, FileHasSite
<1>5. ASSUME NEW w \in Workers, Fence(w)
      PROVE  TypeInv'
  <2> DEFINE e == worker[w].on
  <2>1. /\ [rows[writer].confirmation EXCEPT ![e] = "consumed"] \in Confirmations
        /\ [rows[writer].attempt EXCEPT ![e] = "unknown"] \in Attempts
    BY DEF Confirmations, Attempts
  <2>2. rows' \in [Sites -> Rows]
    BY <1>5, <2>1, StoreType DEF Fence
  <2> QED
    BY <1>5, <2>2, OnType, BecomeType DEF Fence, world, procedure, TypeOK, OpenHasEpoch, FileHasSite
<1>6. ASSUME NEW w \in Workers, Replay(w)
      PROVE  TypeInv'
  <2>1. rows' \in [Sites -> Rows]
    BY <1>6, EndsType, StoreType DEF Replay
  <2> QED
    BY <1>6, <2>1, BecomeType DEF Replay, world, procedure, TypeOK, OpenHasEpoch, FileHasSite
<1>7. ASSUME NEW w \in Workers, Dispatch(w)
      PROVE  TypeInv'
  <2> DEFINE e == worker[w].on
  <2>1. [rows[writer].budget EXCEPT ![e] = "spent"] \in Budgets
    BY DEF Budgets
  <2>2. rows' \in [Sites -> Rows]
    BY <1>7, <2>1, StoreType DEF Dispatch
  <2>3. requests' \in [Effects -> Nat]
    <3>1. requests \in [Effects -> Nat] /\ requests' = [requests EXCEPT ![e] = @ + 1]
      BY <1>7 DEF Dispatch, TypeOK
    <3>2. \A f \in Effects : requests'[f] = (IF f = e THEN requests[f] + 1 ELSE requests[f])
      BY <3>1
    <3>3. \A f \in Effects : requests[f] + 1 \in Nat
      BY <3>1
    <3> QED
      BY <3>1, <3>2, <3>3
  <2> QED
    BY <1>7, <2>2, <2>3, OnType, BecomeType DEF Dispatch, procedure, TypeOK, OpenHasEpoch, FileHasSite
<1>8. ASSUME NEW w \in Workers, Denied(w)
      PROVE  TypeInv'
  <2> DEFINE e == worker[w].on
  <2>1. [rows[writer].budget EXCEPT ![e] = "spent"] \in Budgets
    BY DEF Budgets
  <2>2. rows' \in [Sites -> Rows]
    BY <1>8, <2>1, EndsType, StoreType DEF Denied
  <2> QED
    BY <1>8, <2>2, BecomeType DEF Denied, world, procedure, TypeOK, OpenHasEpoch, FileHasSite
<1>9. ASSUME NEW w \in Workers, Answered(w)
      PROVE  TypeInv'
  <2> DEFINE e == worker[w].on
  <2>1. \A status \in {"unknown"} \cup Settled :
          [rows[writer].attempt EXCEPT ![e] = IF @ = "unknown" THEN status ELSE @] \in Attempts
    BY DEF Attempts
  <2>2. rows' \in [Sites -> Rows]
    BY <1>9, <2>1, EndsType, StoreType DEF Answered
  <2> QED
    BY <1>9, <2>2, BecomeType DEF Answered, world, procedure, TypeOK, OpenHasEpoch, FileHasSite
<1>10. ASSUME NEW w \in Workers, Crash(w)
       PROVE  TypeInv'
  BY <1>10, BecomeType DEF Crash, world, procedure, TypeOK, OpenHasEpoch, FileHasSite
<1>11. ASSUME NEW o \in Objects, Create(o)
       PROVE  TypeInv'
  <2>1. [rows[writer].object EXCEPT ![o] = "live"] \in ObjectStates
    BY DEF ObjectStates
  <2>2. rows' \in [Sites -> Rows]
    BY <1>11, <2>1, StoreObjectsType DEF Create
  <2> QED
    BY <1>11, <2>2 DEF Create, world, procedure, TypeOK, OpenHasEpoch, FileHasSite
<1>12. ASSUME NEW o \in Objects, Delete(o)
       PROVE  TypeInv'
  <2>1. rows' \in [Sites -> Rows]
    BY <1>12, WithoutType, StoreObjectsType DEF Delete
  <2>2. erased' \subseteq Objects
    BY <1>12 DEF Delete, TypeOK, Descendants
  <2> QED
    BY <1>12, <2>1, <2>2 DEF Delete, procedure, TypeOK, OpenHasEpoch, FileHasSite
<1>13. ASSUME NEW w \in Workers, ConfirmDenied(w)
       PROVE  TypeInv'
  <2>1. [rows[writer].confirmation EXCEPT ![worker[w].on] = "open"] \in Confirmations
    BY DEF Confirmations
  <2>2. rows' \in [Sites -> Rows]
    BY <1>13, <2>1, EndsType, StoreType DEF ConfirmDenied
  <2> QED
    BY <1>13, <2>2, BecomeType
    DEF ConfirmDenied, world, procedure, TypeOK, OpenHasEpoch, FileHasSite
<1> QED
  BY <1>1, <1>2, <1>3, <1>4, <1>5, <1>6, <1>7, <1>8, <1>9, <1>10, <1>11, <1>12, <1>13 DEF Runtime

\* The operator's steps, but for those on files.
LEMMA ControlType ==
  ASSUME TypeInv, NEW s \in Sites,
         Drain(s) \/ KillSwitch(s) \/ PermitEgress(s) \/ Approve(s)
  PROVE  TypeInv'
<1> USE DEF TypeInv
<1>1. ASSUME NEW egress \in BOOLEAN, NEW draining \in BOOLEAN, phase[s] = "open",
             Set(s, control[s].epoch, egress, draining), UNCHANGED phase
      PROVE  control' \in [Sites -> Control] /\ OpenHasEpoch'
  BY <1>1 DEF Set, TypeOK, Control, OpenHasEpoch
<1>2. control[s].egress \in BOOLEAN
  BY DEF TypeOK, Control
<1>3. CASE Drain(s)
  <2>1. control' \in [Sites -> Control] /\ OpenHasEpoch'
    BY <1>3, <1>1, <1>2 DEF Drain
  <2> QED
    BY <1>3, <2>1 DEF Drain, world, procedure, TypeOK, FileHasSite
<1>4. CASE KillSwitch(s)
  <2>1. control' \in [Sites -> Control] /\ OpenHasEpoch'
    BY <1>4, <1>1 DEF KillSwitch
  <2> QED
    BY <1>4, <2>1 DEF KillSwitch, world, procedure, TypeOK, FileHasSite
<1>5. CASE PermitEgress(s)
  <2>1. control' \in [Sites -> Control] /\ OpenHasEpoch'
    BY <1>5, <1>1 DEF PermitEgress
  <2>2. file' \in [kind : {"none", "checked", "backup", "frozen", "reading", "receipts", "domain"},
                   from : Sites \cup {None}, control : Control, rows : Rows, final : BOOLEAN]
    BY <1>5 DEF PermitEgress, File, TypeOK
  <2> QED
    BY <1>5, <2>1, <2>2 DEF PermitEgress, File, world, TypeOK, FileHasSite
<1>6. CASE Approve(s)
  BY <1>6 DEF Approve, world, TypeOK, OpenHasEpoch, FileHasSite
<1> QED
  BY <1>3, <1>4, <1>5, <1>6

\* Backup and restore, export and import.
LEMMA FileType ==
  ASSUME TypeOK,
         NEW kind \in {"none", "checked", "backup", "frozen", "reading", "receipts", "domain"},
         NEW from \in Sites \cup {None}, NEW c \in Control, NEW r \in Rows,
         NEW final \in BOOLEAN, file' = File(kind, from, c, r, final)
  PROVE  file' \in [kind : {"none", "checked", "backup", "frozen", "reading", "receipts", "domain"},
                    from : Sites \cup {None}, control : Control, rows : Rows, final : BOOLEAN]
BY DEF File

LEMMA NoControlType == NoControl \in Control
BY DEF NoControl, Control

LEMMA SomeRowsType ==
  ASSUME NEW c \in Confirmations, NEW a \in Attempts, NEW o \in ObjectStates
  PROVE  [NoRows EXCEPT !.confirmation = c, !.attempt = a, !.object = o] \in Rows
BY DEF NoRows, Rows, Confirmations, Attempts, ObjectStates

LEMMA SnapshotType ==
  ASSUME TypeInv, BackupDump \/ ExportConfirmations \/ ExportReceipts
  PROVE  TypeInv'
<1> USE DEF TypeInv
<1>1. CASE BackupDump
  <2>1. control[file.from] \in Control /\ rows[file.from] \in Rows
    BY <1>1 DEF BackupDump, TypeOK, FileHasSite
  <2> QED
    BY <1>1, <2>1, FileType DEF BackupDump, File, world, procedure, TypeOK, OpenHasEpoch, FileHasSite
<1>2. CASE ExportReceipts
  <2>1. rows[file.from] \in Rows /\ file.rows \in Rows /\ file.final \in BOOLEAN
    BY <1>2 DEF ExportReceipts, TypeOK, FileHasSite
  <2>2. /\ file.rows.confirmation \in Confirmations
        /\ rows[file.from].attempt \in Attempts
        /\ Tombstones(rows[file.from].object) \in ObjectStates
    BY <2>1, RowsFields DEF Tombstones, ObjectStates
  <2> QED
    BY <1>2, <2>1, <2>2, SomeRowsType, NoControlType, FileType
    DEF ExportReceipts, File, world, procedure, TypeOK, OpenHasEpoch, FileHasSite
<1>3. CASE ExportConfirmations
  <2>1. file.from \in Sites /\ file.final \in BOOLEAN /\ rows[file.from] \in Rows
    BY <1>3 DEF ExportConfirmations, TypeOK, FileHasSite
  <2>2. [NoRows EXCEPT !.confirmation = rows[file.from].confirmation] \in Rows
    BY <2>1, RowsFields, NoRowsType DEF NoRows, Rows, Confirmations
  <2> QED
    BY <1>3, <2>1, <2>2, FileType, NoControlType
    DEF ExportConfirmations, File, world, procedure, TypeOK, OpenHasEpoch, FileHasSite
<1> QED
  BY <1>1, <1>2, <1>3

LEMMA ExportType ==
  ASSUME TypeInv, NEW s \in Sites,
         BackupCheck(s) \/ ExportCheck(s) \/ ExportDomain(s)
  PROVE  TypeInv'
<1> USE DEF TypeInv
<1>1. rows[s] \in Rows /\ Final(s) \in BOOLEAN
  BY DEF TypeOK, Final
<1>2. CASE BackupCheck(s)
  BY <1>2, FileType, NoControlType, NoRowsType
  DEF BackupCheck, File, world, procedure, TypeOK, OpenHasEpoch, FileHasSite
<1>3. CASE ExportCheck(s)
  BY <1>3, <1>1, FileType, NoControlType, NoRowsType
  DEF ExportCheck, File, world, procedure, TypeOK, OpenHasEpoch, FileHasSite
<1>4. CASE ExportDomain(s)
  BY <1>4, <1>1, FileType, NoControlType
  DEF ExportDomain, File, world, procedure, TypeOK, OpenHasEpoch, FileHasSite
<1> QED
  BY <1>2, <1>3, <1>4

LEMMA RestoreType ==
  ASSUME TypeInv, NEW s \in Sites, RestoreCommit(s) \/ RestoreFinish(s)
  PROVE  TypeInv'
<1> USE DEF TypeInv
<1>1. CASE RestoreCommit(s)
  BY <1>1 DEF RestoreCommit, world, procedure, TypeOK, OpenHasEpoch, FileHasSite
<1>2. CASE RestoreFinish(s)
  <2> DEFINE r == rows[s]
  <2>1. r \in Rows
    BY DEF TypeOK
  <2>2. /\ Released(r.job) \in Jobs /\ r.confirmation \in Confirmations
        /\ r.attempt \in Attempts /\ r.budget \in Budgets
        /\ Without(r.object, Gone(r.object)) \in ObjectStates
    BY <2>1, RowsFields, WithoutType DEF Released, Jobs
  <2>3. rows' \in [Sites -> Rows]
    BY <1>2, <2>2, RowsBuilt DEF RestoreFinish, TypeOK
  <2>4. PICK epoch \in NewEpoch(s) : RestoredControl(s, epoch)
    BY <1>2 DEF RestoreFinish
  <2>5. epoch \in Epochs
    BY DEF NewEpoch
  <2>6. control' \in [Sites -> Control] /\ control'[s].epoch \in Epochs
        /\ \A t \in Sites \ {s} : control'[t] = control[t]
    BY <2>4, <2>5 DEF RestoredControl, Set, TypeOK, Control
  <2>7. phase' \in [Sites -> {"empty", "half", "open"}]
        /\ \A t \in Sites \ {s} : phase'[t] = phase[t]
    BY <1>2 DEF RestoreFinish, TypeOK
  <2> QED
    BY <1>2, <2>3, <2>6, <2>7
    DEF RestoreFinish, world, procedure, TypeOK, OpenHasEpoch, FileHasSite
<1> QED
  BY <1>1, <1>2

LEMMA ImportType ==
  ASSUME TypeInv, NEW s \in Sites, ApplyReceipts(s) \/ ApplyDomain(s)
  PROVE  TypeInv'
<1> USE DEF TypeInv
<1> DEFINE r == rows[s]
           q == file.rows
<1>1. r \in Rows /\ q \in Rows
  BY DEF TypeOK
<1>2. /\ r.job \in Jobs /\ r.budget \in Budgets /\ r.object \in ObjectStates
      /\ q.job \in Jobs /\ q.budget \in Budgets /\ q.object \in ObjectStates
  BY <1>1, RowsFields
<1>3. CASE ApplyReceipts(s)
  <2>1. [o \in Objects |-> IF q.object[o] = "gone" THEN "gone" ELSE r.object[o]] \in ObjectStates
    BY <1>2 DEF ObjectStates
  <2>2. rows' \in [Sites -> Rows]
    BY <1>3, <1>1, <1>2, <2>1, MergeType, RowsBuilt DEF ApplyReceipts, TypeOK
  <2> QED
    BY <1>3, <2>2 DEF ApplyReceipts, world, TypeOK, OpenHasEpoch, FileHasSite
<1>4. CASE ApplyDomain(s)
  <2> DEFINE object == [o \in Objects |-> IF r.object[o] = "gone" THEN "gone" ELSE q.object[o]]
  <2>1. object \in ObjectStates
    BY <1>2 DEF ObjectStates
  <2>2. Without(object, Gone(object)) \in ObjectStates
    BY <2>1, WithoutType
  <2> DEFINE job == [e \in Effects |-> IF r.job[e] = "completed" THEN "completed" ELSE q.job[e]]
  <2>3. job \in Jobs
    BY <1>2 DEF Jobs
  <2> DEFINE merged == [job |-> job,
                        confirmation |->
                          [e \in Effects |-> MergeConfirmation(r.confirmation[e], q.confirmation[e])],
                        attempt |-> [e \in Effects |-> MergeAttempt(r.attempt[e], q.attempt[e])],
                        budget |-> q.budget,
                        object |-> Without(object, Gone(object))]
  <2>4. merged \in Rows
    <3> HIDE DEF object, job
    <3> QED
      BY <1>1, <1>2, <2>2, <2>3, MergeType, RowsBuilt
  <2>5. rows' = [rows EXCEPT ![s] = merged]
    BY <1>4 DEF ApplyDomain
  <2>6. rows' \in [Sites -> Rows]
    <3> HIDE DEF merged
    <3> QED
      BY <2>4, <2>5 DEF TypeOK
  <2> QED
    BY <1>4, <2>6 DEF ApplyDomain, world, TypeOK, OpenHasEpoch, FileHasSite
<1> QED
  BY <1>3, <1>4

LEMMA StopType ==
  ASSUME TypeInv, Stop
  PROVE  TypeInv'
BY DEF TypeInv, Stop, Idle, world, TypeOK, OpenHasEpoch, FileHasSite

LEMMA TypeStep == TypeInv /\ [Next]_vars => TypeInv'
<1> SUFFICES ASSUME TypeInv, [Next]_vars
             PROVE  TypeInv'
  OBVIOUS
<1>1. CASE Runtime
  BY <1>1, RuntimeType
<1>2. CASE Operator
  BY <1>2, ControlType, ExportType, SnapshotType, RestoreType, ImportType, StopType DEF Operator
<1>3. CASE UNCHANGED vars
  BY <1>3 DEF vars, world, procedure, TypeInv, TypeOK, OpenHasEpoch, FileHasSite
<1> QED
  BY <1>1, <1>2, <1>3 DEF Next

\* The tables, the file and the procedure keep their types; an open database has
\* an epoch and a file being written a source.
THEOREM TypeCorrect == Spec => []TypeInv
<1>1. Init => TypeInv
  BY TypeInit
<1>2. TypeInv /\ [Next]_vars => TypeInv'
  BY TypeStep
<1> QED
  BY <1>1, <1>2, PTL DEF Spec

----------------------------------------------------------------------------
(* Who may send                                                              *)

LEMMA ApprovalStep ==
  ASSUME TypeInv, OnlyApprovedSends, [Next]_vars
  PROVE  OnlyApprovedSends'
<1> USE DEF TypeInv
<1>1. CASE Runtime
  <2>1. UNCHANGED <<phase, control, approval>>
    BY <1>1 DEF Runtime, Recover, Reconcile, Claim, Confirm, ConfirmDenied, Fence, Replay, Dispatch, Denied,
                Answered, Crash, Create, Delete, procedure
  <2> QED
    BY <2>1 DEF OnlyApprovedSends
<1>2. ASSUME NEW s \in Sites, Drain(s) \/ KillSwitch(s)
      PROVE  OnlyApprovedSends'
  BY <1>2 DEF Drain, KillSwitch, Set, procedure, OnlyApprovedSends, TypeOK
<1>3. ASSUME NEW s \in Sites, PermitEgress(s)
      PROVE  OnlyApprovedSends'
  BY <1>3 DEF PermitEgress, Set, OnlyApprovedSends, TypeOK
<1>4. ASSUME NEW s \in Sites, Approve(s)
      PROVE  OnlyApprovedSends'
  BY <1>4 DEF Approve, OnlyApprovedSends, TypeOK
<1>5. ASSUME NEW s \in Sites, RestoreCommit(s)
      PROVE  OnlyApprovedSends'
  BY <1>5 DEF RestoreCommit, procedure, OnlyApprovedSends, TypeOK
<1>6. ASSUME NEW s \in Sites, RestoreFinish(s)
      PROVE  OnlyApprovedSends'
  BY <1>6 DEF RestoreFinish, RestoredControl, Set, procedure, OnlyApprovedSends, TypeOK
<1>7. ASSUME NEW s \in Sites,
             \/ BackupCheck(s) \/ ExportCheck(s) \/ ExportDomain(s)
             \/ ApplyReceipts(s) \/ ApplyDomain(s)
      PROVE  OnlyApprovedSends'
  BY <1>7 DEF BackupCheck, ExportCheck, ExportDomain, ApplyReceipts, ApplyDomain,
              procedure, OnlyApprovedSends
<1>8. CASE Stop \/ BackupDump \/ ExportConfirmations \/ ExportReceipts
  BY <1>8 DEF Stop, BackupDump, ExportConfirmations, ExportReceipts, procedure, OnlyApprovedSends
<1>9. CASE UNCHANGED vars
  BY <1>9 DEF vars, procedure, OnlyApprovedSends
<1> QED
  BY <1>1, <1>2, <1>3, <1>4, <1>5, <1>6, <1>7, <1>8, <1>9 DEF Next, Operator

\* A database that may send is the one the operator decided for, however many
\* databases there are and whenever a restore is interrupted.
THEOREM OnlyApprovedDatabaseSends == Spec => []OnlyApprovedSends
<1>1. Init => OnlyApprovedSends
  BY DEF Init, OnlyApprovedSends
<1>2. TypeInv /\ OnlyApprovedSends /\ [Next]_vars => OnlyApprovedSends'
  BY ApprovalStep
<1> QED
  BY <1>1, <1>2, TypeCorrect, PTL DEF Spec

----------------------------------------------------------------------------
(* Nothing is taken back                                                     *)

Kept == \A s \in Sites : phase[s] = "open" => ~Reopens(rows[s], rows'[s])

LEMMA SameKept == ASSUME UNCHANGED rows PROVE Kept
BY DEF Kept, Reopens

LEMMA StoreKept ==
  ASSUME TypeOK, NEW j, NEW c, NEW a, NEW b, Store(j, c, a, b),
         \A e \in Effects :
           LET r == rows[writer] IN
           /\ r.job[e] = "completed" => j[e] = "completed"
           /\ r.confirmation[e] = "consumed" => c[e] = "consumed"
           /\ r.attempt[e] # "none" => a[e] # "none"
           /\ r.attempt[e] \in Settled => a[e] = r.attempt[e]
           /\ r.budget[e] = "spent" => b[e] = "spent"
  PROVE  Kept
<1>1. /\ rows'[writer] = [job |-> j, confirmation |-> c, attempt |-> a, budget |-> b,
                          object |-> rows[writer].object]
      /\ \A s \in Sites \ {writer} : rows'[s] = rows[s]
  BY DEF Store, TypeOK
<1> QED
  BY <1>1 DEF Kept, Reopens

LEMMA StoreObjectsKept ==
  ASSUME TypeOK, NEW o, StoreObjects(o),
         \A x \in Objects : rows[writer].object[x] = "gone" => o[x] = "gone"
  PROVE  Kept
<1>1. /\ rows'[writer] = [job |-> rows[writer].job, confirmation |-> rows[writer].confirmation,
                          attempt |-> rows[writer].attempt, budget |-> rows[writer].budget,
                          object |-> o]
      /\ \A s \in Sites \ {writer} : rows'[s] = rows[s]
  BY DEF StoreObjects, TypeOK
<1> QED
  BY <1>1 DEF Kept, Reopens

LEMMA EndsKept ==
  ASSUME NEW w, NEW j \in Jobs, NEW k \in Ends(w, j), NEW e \in Effects, j[e] = "completed"
  PROVE  k[e] = "completed"
BY DEF Ends, Jobs

LEMMA RuntimeKept ==
  ASSUME TypeInv, Runtime
  PROVE  Kept
<1> USE DEF TypeInv
<1> DEFINE r == rows[writer]
<1>1. /\ r.job \in Jobs /\ r.confirmation \in Confirmations /\ r.attempt \in Attempts
      /\ r.budget \in Budgets /\ r.object \in ObjectStates
  BY WriterRows
<1>2. ASSUME NEW e \in Effects, Recover(e)
      PROVE  Kept
  BY <1>2, <1>1, StoreKept, WorkersAssumption DEF Recover, Jobs
<1>3. ASSUME NEW e \in Effects, Reconcile(e)
      PROVE  Kept
  BY <1>3, <1>1, StoreKept DEF Reconcile, Attempts, Settled
<1>4. ASSUME NEW w \in Workers, NEW e \in Effects, Claim(w, e)
      PROVE  Kept
  BY <1>4, <1>1, StoreKept DEF Claim, Jobs
<1>5. ASSUME NEW w \in Workers, Confirm(w)
      PROVE  Kept
  BY <1>5, <1>1, StoreKept DEF Confirm, Confirmable, Confirmations, Budgets
<1>6. ASSUME NEW w \in Workers, Fence(w)
      PROVE  Kept
  BY <1>6, <1>1, StoreKept DEF Fence, Confirmations, Attempts, Settled
<1>7. ASSUME NEW w \in Workers, Replay(w)
      PROVE  Kept
  BY <1>7, <1>1, EndsKept, StoreKept DEF Replay
<1>8. ASSUME NEW w \in Workers, Dispatch(w)
      PROVE  Kept
  BY <1>8, <1>1, StoreKept DEF Dispatch, Budgets
<1>9. ASSUME NEW w \in Workers, Denied(w)
      PROVE  Kept
  BY <1>9, <1>1, EndsKept, StoreKept DEF Denied, Budgets
<1>10. ASSUME NEW w \in Workers, Answered(w)
       PROVE  Kept
  <2> DEFINE e == worker[w].on
  <2>1. PICK status \in {"unknown"} \cup Settled, job \in Ends(w, r.job) :
          Store(job, r.confirmation,
                [r.attempt EXCEPT ![e] = IF @ = "unknown" THEN status ELSE @], r.budget)
    BY <1>10 DEF Answered
  <2> QED
    BY <2>1, <1>1, EndsKept, StoreKept DEF Attempts, Settled
<1>11. ASSUME NEW w \in Workers, Crash(w)
       PROVE  Kept
  BY <1>11, SameKept DEF Crash
<1>12. ASSUME NEW o \in Objects, Create(o)
       PROVE  Kept
  BY <1>12, <1>1, StoreObjectsKept DEF Create, ObjectStates
<1>13. ASSUME NEW o \in Objects, Delete(o)
       PROVE  Kept
  BY <1>13, <1>1, StoreObjectsKept DEF Delete, Without
<1>14. ASSUME NEW w \in Workers, ConfirmDenied(w)
       PROVE  Kept
  BY <1>14, <1>1, EndsKept, StoreKept DEF ConfirmDenied, Confirmable, Confirmations
<1> QED
  BY <1>2, <1>3, <1>4, <1>5, <1>6, <1>7, <1>8, <1>9, <1>10, <1>11, <1>12, <1>13, <1>14 DEF Runtime

LEMMA ReceiptsKept ==
  ASSUME TypeInv, NEW s \in Sites, ApplyReceipts(s)
  PROVE  Kept
<1> USE DEF TypeInv
<1> DEFINE r == rows[s]
           q == file.rows
<1>1. r \in Rows /\ q \in Rows
  BY DEF TypeOK
<1>2. /\ rows'[s].job = r.job /\ rows'[s].budget = r.budget
      /\ rows'[s].confirmation =
           [e \in Effects |-> MergeConfirmation(r.confirmation[e], q.confirmation[e])]
      /\ rows'[s].attempt = [e \in Effects |-> MergeAttempt(r.attempt[e], q.attempt[e])]
      /\ rows'[s].object = [o \in Objects |-> IF q.object[o] = "gone" THEN "gone" ELSE r.object[o]]
      /\ \A t \in Sites \ {s} : rows'[t] = rows[t]
  BY DEF ApplyReceipts, TypeOK
<1>3. \A e \in Effects :
        r.confirmation[e] = "consumed" => rows'[s].confirmation[e] = "consumed"
  BY <1>1, <1>2, RowsFields DEF MergeConfirmation, Rank, Confirmations
<1>4. \A e \in Effects :
        /\ r.attempt[e] # "none" => rows'[s].attempt[e] # "none"
        /\ r.attempt[e] \in Settled => rows'[s].attempt[e] = r.attempt[e]
  BY <1>1, <1>2, RowsFields DEF MergeAttempt, Attempts, Settled
<1> QED
  BY <1>2, <1>3, <1>4 DEF Kept, Reopens

LEMMA DomainKept ==
  ASSUME TypeInv, NEW s \in Sites, ApplyDomain(s)
  PROVE  Kept
<1> USE DEF TypeInv
<1> DEFINE r == rows[s]
           q == file.rows
           object == [o \in Objects |-> IF r.object[o] = "gone" THEN "gone" ELSE q.object[o]]
<1>1. r \in Rows /\ q \in Rows
  BY DEF TypeOK
<1>2. /\ rows'[s].job = [e \in Effects |-> IF r.job[e] = "completed" THEN "completed" ELSE q.job[e]]
      /\ rows'[s].budget = q.budget
      /\ rows'[s].confirmation =
           [e \in Effects |-> MergeConfirmation(r.confirmation[e], q.confirmation[e])]
      /\ rows'[s].attempt = [e \in Effects |-> MergeAttempt(r.attempt[e], q.attempt[e])]
      /\ rows'[s].object = Without(object, Gone(object))
      /\ \A t \in Sites \ {s} : rows'[t] = rows[t]
  BY DEF ApplyDomain, TypeOK
<1>3. \A e \in Effects :
        r.confirmation[e] = "consumed" => rows'[s].confirmation[e] = "consumed"
  BY <1>1, <1>2, RowsFields DEF MergeConfirmation, Rank, Confirmations
<1>4. \A e \in Effects :
        /\ r.attempt[e] # "none" => rows'[s].attempt[e] # "none"
        /\ r.attempt[e] \in Settled => rows'[s].attempt[e] = r.attempt[e]
  BY <1>1, <1>2, RowsFields DEF MergeAttempt, Attempts, Settled
<1>5. \A e \in Effects : r.budget[e] = "spent" => rows'[s].budget[e] = "spent"
  <2>1. q.budget \in Budgets /\ ~Diverged(r, q)
    BY <1>1, RowsFields DEF ApplyDomain
  <2> QED
    BY <1>2, <2>1 DEF Diverged, Budgets
<1>6. \A o \in Objects : r.object[o] = "gone" => rows'[s].object[o] = "gone"
  BY <1>2 DEF Without
<1> QED
  BY <1>2, <1>3, <1>4, <1>5, <1>6 DEF Kept, Reopens

LEMMA OperatorKept ==
  ASSUME TypeInv, Operator
  PROVE  Kept
<1>1. ASSUME NEW s \in Sites,
             \/ Drain(s) \/ KillSwitch(s) \/ PermitEgress(s) \/ Approve(s)
             \/ BackupCheck(s) \/ ExportCheck(s) \/ ExportDomain(s)
      PROVE  Kept
  BY <1>1, SameKept DEF Drain, KillSwitch, PermitEgress, Approve, BackupCheck,
                        ExportCheck, ExportDomain
<1>2. CASE Stop \/ BackupDump \/ ExportConfirmations \/ ExportReceipts
  BY <1>2, SameKept DEF Stop, BackupDump, ExportConfirmations, ExportReceipts
<1>3. ASSUME NEW s \in Sites, RestoreCommit(s) \/ RestoreFinish(s)
      PROVE  Kept
  <2>1. phase[s] # "open" /\ \A t \in Sites \ {s} : rows'[t] = rows[t]
    BY <1>3 DEF RestoreCommit, RestoreFinish, TypeInv, TypeOK
  <2> QED
    BY <2>1 DEF Kept, Reopens
<1> QED
  BY <1>1, <1>2, <1>3, ReceiptsKept, DomainKept DEF Operator

\* No import, restore or step of the runtime reopens what a database had settled,
\* whatever file is applied to it and in whatever order.
THEOREM NothingIsReopened == Spec => NothingReopened
<1>1. TypeInv /\ [Next]_vars => [Kept]_vars
  BY RuntimeKept, OperatorKept DEF Next
<1>2. [][Kept]_vars => NothingReopened
  BY DEF Kept, NothingReopened
<1> QED
  BY <1>1, <1>2, TypeCorrect, PTL DEF Spec

----------------------------------------------------------------------------
(* One request for each effect, and nothing deleted comes back               *)

\* Tables that know what was asked of the providers and what the owner deleted.
Informed(r) ==
  /\ \A e \in Effects : requests[e] # 0 => r.attempt[e] # "none"
  /\ \A o \in erased : r.object[o] = "gone"

\* Objects that are readable only with what they were derived from.
Tree(object) ==
  \A o \in Objects : Parent[o] # None =>
    /\ object[o] = "live" => object[Parent[o]] = "live"
    /\ object[Parent[o]] = "gone" => object[o] = "gone"

Trees == Tree(file.rows.object) /\ \A s \in Sites : Tree(rows[s].object)

\* A process at work has an effect in hand, and none is at work once it is stopped.
Employed == \A w \in Workers : worker[w].phase # "idle" => worker[w].on \in Effects
StoppedIdle == ~running => \A w \in Workers : worker[w] = Idle

\* Epochs name the open databases.
OpenEpochsDiffer ==
  \A s, t \in Sites :
    phase[s] = "open" /\ phase[t] = "open" /\ control[s].epoch = control[t].epoch => s = t

ApprovedIsReady == \A s \in Sites : phase[s] = "open" /\ control[s].epoch = approval => s \in ready

\* A database the procedure may permit next is the writer or, once that is stopped,
\* one that learnt everything from it.
ReadySites ==
  /\ writer \in ready
  /\ \A s \in ready : /\ phase[s] = "open"
                      /\ s # writer => ~running
                      /\ Informed(rows[s])

\* A final file is that of the stopped writer, who has not been permitted since.
FinalFile ==
  file.final =>
    /\ ~running
    /\ file.kind \in {"frozen", "reading"} => file.from = writer
    /\ file.kind \in {"receipts", "domain"} => Informed(file.rows)

\* A fenced attempt was not sent, it is recorded, and it has one worker.
FencedOnce ==
  \A w \in Workers : worker[w].phase = "fenced" =>
    /\ requests[worker[w].on] = 0
    /\ rows[writer].attempt[worker[w].on] # "none"
    /\ \A v \in Workers : worker[v].phase = "fenced" /\ worker[v].on = worker[w].on => v = w

IInv ==
  /\ TypeInv /\ Employed /\ StoppedIdle
  /\ OpenEpochsDiffer /\ ApprovedIsReady /\ ReadySites /\ FinalFile
  /\ FencedOnce /\ RequestedOnce /\ Trees

LEMMA IInvInit == Init => IInv
<1> SUFFICES ASSUME Init PROVE IInv
  OBVIOUS
<1>1. Trees
  <2>1. Tree(NoRows.object)
    BY ObjectsAssumption DEF Tree, NoRows
  <2> QED
    BY <2>1 DEF Init, Trees, NoFile, File
<1>2. Informed(NoRows)
  BY DEF Init, Informed
<1>3. ReadySites
  BY <1>2, SitesAssumption DEF Init, ReadySites
<1>4. /\ Employed /\ StoppedIdle /\ FinalFile /\ FencedOnce
      /\ OpenEpochsDiffer /\ ApprovedIsReady /\ RequestedOnce
  BY DEF Init, Employed, StoppedIdle, FinalFile, FencedOnce, OpenEpochsDiffer,
         ApprovedIsReady, RequestedOnce, NoFile, File, Idle
<1> QED
  BY <1>1, <1>3, <1>4, TypeInit DEF IInv

\* A step of a process or of the owner needs a running writer, and leaves the databases'
\* control rows, the file and the procedure alone.
LEMMA RuntimeRuns ==
  ASSUME IInv, Runtime
  PROVE  running /\ UNCHANGED <<phase, control, file, procedure>>
<1>1. ASSUME NEW w \in Workers, worker[w] # Idle
      PROVE  running
  BY <1>1 DEF IInv, StoppedIdle
<1>2. ASSUME NEW w \in Workers, worker[w].phase # "idle"
      PROVE  running
  BY <1>1, <1>2 DEF Idle
<1>3. ASSUME NEW e \in Effects, Recover(e) \/ Reconcile(e)
      PROVE  running /\ UNCHANGED <<phase, control, file, procedure>>
  BY <1>3 DEF Recover, Reconcile
<1>4. ASSUME NEW o \in Objects, Create(o) \/ Delete(o)
      PROVE  running /\ UNCHANGED <<phase, control, file, procedure>>
  BY <1>4 DEF Create, Delete
<1>5. ASSUME NEW w \in Workers, NEW e \in Effects, Claim(w, e)
      PROVE  running /\ UNCHANGED <<phase, control, file, procedure>>
  BY <1>5 DEF Claim
<1>6. ASSUME NEW w \in Workers,
             \/ Confirm(w) \/ ConfirmDenied(w) \/ Fence(w) \/ Replay(w)
             \/ Dispatch(w) \/ Denied(w) \/ Answered(w) \/ Crash(w)
      PROVE  UNCHANGED <<phase, control, file, procedure>>
  BY <1>6 DEF Confirm, ConfirmDenied, Fence, Replay, Dispatch, Denied, Answered, Crash
<1>7. ASSUME NEW w \in Workers,
             \/ Confirm(w) \/ ConfirmDenied(w) \/ Fence(w) \/ Replay(w)
             \/ Dispatch(w) \/ Denied(w) \/ Answered(w) \/ Crash(w)
      PROVE  running
  BY <1>7, <1>1, <1>2 DEF Confirm, ConfirmDenied, Confirmable, Fence, Replay, Dispatch, Denied,
                          Answered, Crash
<1> QED
  BY <1>3, <1>4, <1>5, <1>6, <1>7 DEF Runtime

\* What a process has in hand is an effect.
LEMMA EmployedStep ==
  ASSUME IInv, Runtime
  PROVE  Employed'
<1> USE DEF IInv, TypeInv
<1>1. ASSUME NEW w \in Workers, NEW p, NEW e,
             Become(w, p, e), p = "idle" \/ e \in Effects
      PROVE  Employed'
  BY <1>1 DEF Become, Employed, TypeOK
<1>2. ASSUME NEW w \in Workers, NEW e \in Effects, Claim(w, e)
      PROVE  Employed'
  BY <1>1, <1>2 DEF Claim
<1>3. ASSUME NEW w \in Workers, worker[w].phase # "idle"
      PROVE  worker[w].on \in Effects
  BY <1>3 DEF Employed
<1>4. ASSUME NEW w \in Workers, Confirm(w) \/ Fence(w) \/ Dispatch(w)
      PROVE  Employed'
  BY <1>1, <1>3, <1>4 DEF Confirm, Confirmable, Fence, Dispatch
<1>5. ASSUME NEW w \in Workers,
             ConfirmDenied(w) \/ Replay(w) \/ Denied(w) \/ Answered(w) \/ Crash(w)
      PROVE  Employed'
  <2>1. Become(w, "idle", None)
    BY <1>5 DEF ConfirmDenied, Replay, Denied, Answered, Crash
  <2> QED
    BY <2>1, <1>1
<1>6. CASE UNCHANGED worker
  BY <1>6 DEF Employed
<1>8. ASSUME NEW e \in Effects, Recover(e) \/ Reconcile(e)
      PROVE  UNCHANGED worker
  BY <1>8 DEF Recover, Reconcile
<1>9. ASSUME NEW o \in Objects, Create(o) \/ Delete(o)
      PROVE  UNCHANGED worker
  BY <1>9 DEF Create, Delete
<1> QED
  BY <1>2, <1>4, <1>5, <1>6, <1>8, <1>9 DEF Runtime

\* Databases lose nothing they knew while nothing more is asked or deleted.
LEMMA StaysInformed ==
  ASSUME TypeInv, Kept, UNCHANGED world, NEW s \in Sites, phase[s] = "open", Informed(rows[s])
  PROVE  Informed(rows[s])'
BY DEF TypeInv, TypeOK, Kept, Reopens, Informed, world

\* The writer records what it asks for, when it asks, and what the owner deletes.
LEMMA WriterInformed ==
  ASSUME IInv, Runtime
  PROVE  Informed(rows[writer])'
<1> USE DEF IInv, TypeInv
<1>1. /\ writer \in Sites /\ phase[writer] = "open" /\ Informed(rows[writer])
      /\ writer' = writer /\ erased \subseteq Objects
  BY RuntimeRuns DEF ReadySites, TypeOK, procedure
<1>2. /\ Kept /\ \A e \in Effects : rows[writer].attempt[e] # "none" => rows'[writer].attempt[e] # "none"
      /\ \A o \in Objects : rows[writer].object[o] = "gone" => rows'[writer].object[o] = "gone"
  BY <1>1, RuntimeKept DEF Kept, Reopens
<1>3. CASE UNCHANGED world
  BY <1>1, <1>2, <1>3 DEF Informed, world
<1>4. ASSUME NEW w \in Workers, Dispatch(w)
      PROVE  Informed(rows[writer])'
  <2> DEFINE e == worker[w].on
  <2>1. e \in Effects /\ rows[writer].attempt[e] # "none"
    BY <1>4 DEF Dispatch, Employed, FencedOnce
  <2>2. erased' = erased /\ \A f \in Effects \ {e} : requests'[f] = requests[f]
    BY <1>4 DEF Dispatch, TypeOK
  <2> QED
    BY <1>1, <1>2, <2>1, <2>2 DEF Informed
<1>5. ASSUME NEW o \in Objects, Delete(o)
      PROVE  Informed(rows[writer])'
  <2>1. requests' = requests /\ erased' = erased \cup Descendants({o})
    BY <1>5 DEF Delete
  <2>2. \A x \in Descendants({o}) : rows'[writer].object[x] = "gone"
    BY <1>1, <1>5 DEF Delete, StoreObjects, Without, Descendants, TypeOK
  <2> QED
    BY <1>1, <1>2, <2>1, <2>2 DEF Informed
<1>6. ASSUME NEW w \in Workers, NEW e \in Effects, Claim(w, e)
      PROVE  UNCHANGED world
  BY <1>6 DEF Claim
<1>7. ASSUME NEW e \in Effects, Recover(e) \/ Reconcile(e)
      PROVE  UNCHANGED world
  BY <1>7 DEF Recover, Reconcile
<1>8. ASSUME NEW w \in Workers,
             \/ Confirm(w) \/ ConfirmDenied(w) \/ Fence(w) \/ Replay(w)
             \/ Denied(w) \/ Answered(w) \/ Crash(w)
      PROVE  UNCHANGED world
  BY <1>8 DEF Confirm, ConfirmDenied, Fence, Replay, Denied, Answered, Crash
<1>9. ASSUME NEW o \in Objects, Create(o)
      PROVE  UNCHANGED world
  BY <1>9 DEF Create
<1> QED
  BY <1>3, <1>4, <1>5, <1>6, <1>7, <1>8, <1>9 DEF Runtime

\* While nothing is asked of a provider and no process fences an attempt, the fenced ones
\* stay unsent, recorded and alone.
LEMMA StaysFencedOnce ==
  ASSUME TypeInv, Kept, FencedOnce, Employed, phase[writer] = "open",
         UNCHANGED <<requests, writer>>,
         \A w \in Workers : worker'[w].phase = "fenced" => worker'[w] = worker[w]
  PROVE  FencedOnce'
<1>1. \A e \in Effects : rows[writer].attempt[e] # "none" => rows'[writer].attempt[e] # "none"
  BY DEF Kept, Reopens, TypeInv, TypeOK
<1>2. \A w \in Workers : worker'[w].phase = "fenced" => worker'[w].on \in Effects
  BY DEF Employed
<1> QED
  BY <1>1, <1>2 DEF FencedOnce

\* A fence finds no attempt, so the effect was never asked and nobody else has fenced it;
\* a request is made by the one process that fenced it, for the first time.
LEMMA FencedStep ==
  ASSUME IInv, Runtime
  PROVE  FencedOnce' /\ RequestedOnce'
<1> USE DEF IInv, TypeInv
<1>1. writer \in Sites /\ phase[writer] = "open" /\ Informed(rows[writer]) /\ writer' = writer
  BY RuntimeRuns DEF ReadySites, TypeOK, procedure
<1>2. Kept
  BY RuntimeKept
<1>3. ASSUME UNCHANGED requests,
             \A w \in Workers : worker'[w].phase = "fenced" => worker'[w] = worker[w]
      PROVE  FencedOnce' /\ RequestedOnce'
  BY <1>1, <1>2, <1>3, StaysFencedOnce DEF RequestedOnce
<1>4. ASSUME NEW w \in Workers, NEW p, NEW e, Become(w, p, e), p # "fenced", UNCHANGED requests
      PROVE  FencedOnce' /\ RequestedOnce'
  <2>1. \A v \in Workers : worker'[v].phase = "fenced" => worker'[v] = worker[v]
    BY <1>4 DEF Become, TypeOK
  <2> QED
    BY <2>1, <1>3, <1>4
<1>5. ASSUME NEW w \in Workers, NEW e \in Effects, Claim(w, e)
      PROVE  FencedOnce' /\ RequestedOnce'
  BY <1>5, <1>4 DEF Claim, world
<1>6. ASSUME NEW w \in Workers,
             \/ Confirm(w) \/ ConfirmDenied(w) \/ Replay(w) \/ Denied(w) \/ Answered(w) \/ Crash(w)
      PROVE  FencedOnce' /\ RequestedOnce'
  BY <1>6, <1>4 DEF Confirm, ConfirmDenied, Replay, Denied, Answered, Crash, world
<1>7. ASSUME NEW w \in Workers, Fence(w)
      PROVE  FencedOnce' /\ RequestedOnce'
  <2> DEFINE e == worker[w].on
  <2>1. e \in Effects /\ requests[e] = 0 /\ rows[writer].attempt[e] = "none"
    BY <1>1, <1>7 DEF Fence, Employed, Informed
  <2>2. \A v \in Workers : worker[v].phase = "fenced" => worker[v].on # e
    BY <2>1 DEF FencedOnce
  <2>3. /\ worker'[w].phase = "fenced" /\ worker'[w].on = e
        /\ \A v \in Workers \ {w} : worker'[v] = worker[v]
        /\ requests' = requests
    BY <1>7 DEF Fence, Become, TypeOK, world
  <2>4. rows'[writer].attempt[e] # "none"
    <3>1. rows'[writer].attempt = [rows[writer].attempt EXCEPT ![e] = "unknown"]
      BY <1>1, <1>7 DEF Fence, Store, TypeOK
    <3>2. rows[writer].attempt \in Attempts
      BY WriterRows
    <3> QED
      BY <2>1, <3>1, <3>2 DEF Attempts
  <2>5. \A f \in Effects : rows[writer].attempt[f] # "none" => rows'[writer].attempt[f] # "none"
    BY <1>1, <1>2 DEF Kept, Reopens
  <2>6. \A v \in Workers \ {w} : worker[v].phase = "fenced" => worker[v].on \in Effects
    BY DEF Employed
  <2> QED
    BY <1>1, <2>1, <2>2, <2>3, <2>4, <2>5, <2>6 DEF FencedOnce, RequestedOnce
<1>8. ASSUME NEW w \in Workers, Dispatch(w)
      PROVE  FencedOnce' /\ RequestedOnce'
  <2> DEFINE e == worker[w].on
  <2>1. e \in Effects /\ requests[e] = 0
        /\ \A v \in Workers \ {w} : worker[v].phase = "fenced" => worker[v].on # e
    BY <1>8 DEF Dispatch, Employed, FencedOnce
  <2>2. /\ worker'[w].phase = "calling" /\ \A v \in Workers \ {w} : worker'[v] = worker[v]
        /\ requests'[e] = 1 /\ \A f \in Effects \ {e} : requests'[f] = requests[f]
    BY <1>8, <2>1 DEF Dispatch, Become, TypeOK
  <2>3. \A f \in Effects : rows[writer].attempt[f] # "none" => rows'[writer].attempt[f] # "none"
    BY <1>1, <1>2 DEF Kept, Reopens
  <2>4. \A v \in Workers : worker[v].phase = "fenced" => worker[v].on \in Effects
    BY DEF Employed
  <2>5. RequestedOnce'
    BY <2>2 DEF RequestedOnce
  <2> QED
    BY <1>1, <2>1, <2>2, <2>3, <2>4, <2>5 DEF FencedOnce
<1>9. ASSUME NEW e \in Effects, Recover(e) \/ Reconcile(e)
      PROVE  UNCHANGED <<requests, worker>>
  BY <1>9 DEF Recover, Reconcile, world
<1>10. ASSUME NEW o \in Objects, Create(o) \/ Delete(o)
       PROVE  UNCHANGED <<requests, worker>>
  BY <1>10 DEF Create, Delete, world
<1> QED
  BY <1>3, <1>5, <1>6, <1>7, <1>8, <1>9, <1>10 DEF Runtime

----------------------------------------------------------------------------
(* Objects and what they were derived from                                   *)

LEMMA DescendantsClosed ==
  ASSUME NEW S \in SUBSET Objects
  PROVE  /\ S \subseteq Descendants(S)
         /\ \A o \in Objects : Parent[o] \in Descendants(S) => o \in Descendants(S)
BY DEF Descendants, Closed

\* Deleting an object with what descends from it leaves a tree.
LEMMA WithoutTree ==
  ASSUME NEW object \in ObjectStates, NEW S \in SUBSET Objects, Tree(object)
  PROVE  Tree(Without(object, S))
<1>1. \A o \in Objects : Parent[o] # None => Parent[o] \in Objects
  BY ObjectsAssumption
<1>2. \A o \in Objects : Parent[o] \in Descendants(S) => o \in Descendants(S)
  BY DescendantsClosed
<1>3. \A o \in Objects : /\ o \in Descendants(S) => Without(object, S)[o] = "gone"
                         /\ o \notin Descendants(S) => Without(object, S)[o] = object[o]
  BY DEF Without
<1>4. ASSUME NEW o \in Objects, Parent[o] # None, Without(object, S)[o] = "live"
      PROVE  Without(object, S)[Parent[o]] = "live"
  BY <1>1, <1>2, <1>3, <1>4 DEF Tree
<1>5. ASSUME NEW o \in Objects, Parent[o] # None, Without(object, S)[Parent[o]] = "gone"
      PROVE  Without(object, S)[o] = "gone"
  BY <1>1, <1>2, <1>3, <1>5 DEF Tree
<1> QED
  BY <1>4, <1>5 DEF Tree

\* So does an import, whatever the file says, since both sides are trees.
Merged(mine, theirs) == [o \in Objects |-> IF mine[o] = "gone" THEN "gone" ELSE theirs[o]]

LEMMA MergedTree ==
  ASSUME NEW a \in ObjectStates, NEW b \in ObjectStates, Tree(a), Tree(b)
  PROVE  Tree(Merged(a, b)) /\ Merged(a, b) \in ObjectStates
<1>1. \A o \in Objects : Parent[o] # None => Parent[o] \in Objects
  BY ObjectsAssumption
<1> QED
  BY <1>1 DEF Tree, Merged, ObjectStates

LEMMA RuntimeTrees ==
  ASSUME IInv, Runtime
  PROVE  Trees'
<1> USE DEF IInv, TypeInv
<1>1. writer \in Sites /\ rows[writer].object \in ObjectStates /\ file' = file
  BY WriterRows, RuntimeRuns DEF TypeOK
<1>2. ASSUME NEW object, StoreObjects(object), Tree(object)
      PROVE  Trees'
  <2>1. rows'[writer].object = object /\ \A s \in Sites \ {writer} : rows'[s] = rows[s]
    BY <1>1, <1>2 DEF StoreObjects, TypeOK
  <2> QED
    BY <1>1, <1>2, <2>1 DEF Trees, Tree
<1>3. ASSUME NEW j, NEW c, NEW a, NEW b, Store(j, c, a, b)
      PROVE  Trees'
  <2>1. \A s \in Sites : rows'[s].object = rows[s].object
    BY <1>1, <1>3 DEF Store, TypeOK
  <2> QED
    BY <1>1, <2>1 DEF Trees, Tree
<1>4. ASSUME NEW o \in Objects, Create(o)
      PROVE  Trees'
  <2> DEFINE object == rows[writer].object
             q == [object EXCEPT ![o] = "live"]
  <2>1. object[o] = "none" /\ (Parent[o] # None => object[Parent[o]] = "live") /\ StoreObjects(q)
    BY <1>4 DEF Create
  <2>2. Tree(object)
    BY <1>1 DEF Trees
  <2>3. \A x \in Objects : Parent[x] # None => Parent[x] \in Objects
    BY ObjectsAssumption
  <2>4. Tree(q)
    BY <1>1, <2>1, <2>2, <2>3 DEF Tree, ObjectStates
  <2> QED
    BY <1>2, <2>1, <2>4
<1>5. ASSUME NEW o \in Objects, Delete(o)
      PROVE  Trees'
  <2>1. Tree(rows[writer].object)
    BY <1>1 DEF Trees
  <2>2. Tree(Without(rows[writer].object, {o}))
    BY <1>1, <2>1, WithoutTree
  <2> QED
    BY <1>2, <1>5, <2>2 DEF Delete
<1>6. ASSUME NEW w \in Workers, NEW e \in Effects, Claim(w, e)
      PROVE  Trees'
  BY <1>3, <1>6 DEF Claim
<1>7. ASSUME NEW e \in Effects, Recover(e) \/ Reconcile(e)
      PROVE  Trees'
  BY <1>3, <1>7 DEF Recover, Reconcile
<1>8. ASSUME NEW w \in Workers,
             \/ Confirm(w) \/ ConfirmDenied(w) \/ Fence(w) \/ Replay(w)
             \/ Dispatch(w) \/ Denied(w) \/ Answered(w)
      PROVE  Trees'
  BY <1>3, <1>8 DEF Confirm, ConfirmDenied, Fence, Replay, Dispatch, Denied, Answered
<1>9. ASSUME NEW w \in Workers, Crash(w)
      PROVE  Trees'
  BY <1>1, <1>9 DEF Crash, Trees, Tree
<1> QED
  BY <1>4, <1>5, <1>6, <1>7, <1>8, <1>9 DEF Runtime

LEMMA RuntimeIInv ==
  ASSUME IInv, Runtime
  PROVE  IInv'
<1> USE DEF IInv
<1>1. running /\ UNCHANGED <<phase, control, file, procedure>>
  BY RuntimeRuns
<1>2. StoppedIdle' /\ OpenEpochsDiffer' /\ ApprovedIsReady' /\ FinalFile'
  BY <1>1 DEF StoppedIdle, OpenEpochsDiffer, ApprovedIsReady, FinalFile, procedure
<1>3. ReadySites'
  <2>1. ready = {writer} /\ phase[writer] = "open"
    BY <1>1 DEF ReadySites
  <2> QED
    BY <1>1, <2>1, WriterInformed DEF ReadySites, procedure
<1> QED
  BY <1>2, <1>3, RuntimeType, EmployedStep, FencedStep, RuntimeTrees

----------------------------------------------------------------------------
(* The operator's steps                                                      *)

\* What the operator does without stopping or permitting changes nothing for the processes.
LEMMA ProcessesUndisturbed ==
  ASSUME IInv, Operator, UNCHANGED <<worker, world, writer>>
  PROVE  Employed' /\ FencedOnce' /\ RequestedOnce'
<1>1. Kept /\ TypeInv
  BY OperatorKept DEF IInv
<1>2. FencedOnce /\ Employed /\ phase[writer] = "open"
  BY DEF IInv, ReadySites
<1>3. FencedOnce'
  BY <1>1, <1>2, StaysFencedOnce DEF world
<1> QED
  BY <1>3 DEF IInv, Employed, RequestedOnce, world

\* A database that is ready stays so while no more is asked or deleted.
LEMMA StaysReady ==
  ASSUME IInv, Operator, UNCHANGED <<world, writer, running, ready>>,
         \A s \in Sites : phase[s] = "open" => phase'[s] = "open"
  PROVE  ReadySites'
<1>1. Kept /\ TypeInv /\ ready \subseteq Sites
  BY OperatorKept DEF IInv, TypeInv, TypeOK
<1>2. ASSUME NEW s \in ready
      PROVE  Informed(rows[s])'
  <2>1. s \in Sites /\ phase[s] = "open" /\ Informed(rows[s])
    BY <1>1 DEF IInv, ReadySites
  <2> QED
    BY <1>1, <2>1, StaysInformed
<1> QED
  BY <1>1, <1>2 DEF IInv, ReadySites

FileStep ==
  \/ \E s \in Sites : BackupCheck(s) \/ ExportCheck(s) \/ ExportDomain(s)
  \/ BackupDump \/ ExportConfirmations \/ ExportReceipts

\* A file is final from the check that its database is stopped to the last row, and
\* holds what that database knew.
LEMMA FileContents ==
  ASSUME IInv, FileStep
  PROVE  FinalFile' /\ Tree(file'.rows.object)
<1> USE DEF IInv, TypeInv
<1>1. Tree(NoRows.object)
  BY ObjectsAssumption DEF Tree, NoRows
<1>2. UNCHANGED <<rows, world, procedure>>
  BY DEF FileStep, BackupCheck, BackupDump, ExportCheck, ExportConfirmations, ExportReceipts,
         ExportDomain
<1>3. ASSUME NEW s \in Sites, BackupCheck(s)
      PROVE  FinalFile' /\ Tree(file'.rows.object)
  BY <1>1, <1>3 DEF BackupCheck, File, FinalFile
<1>4. CASE BackupDump
  <2>1. file.from \in Sites
    BY <1>4 DEF BackupDump, FileHasSite
  <2> QED
    BY <1>4, <2>1 DEF BackupDump, File, FinalFile, Trees
<1>5. ASSUME NEW s \in Sites, ExportCheck(s)
      PROVE  FinalFile' /\ Tree(file'.rows.object)
  <2>1. file'.rows = NoRows /\ file'.kind = "frozen" /\ file'.from = s /\ file'.final = Final(s)
    BY <1>5 DEF ExportCheck, File
  <2>2. (running' = running) /\ (writer' = writer)
    BY <1>2 DEF procedure
  <2>3. FinalFile'
    BY <2>1, <2>2 DEF FinalFile, Final
  <2> QED
    BY <1>1, <2>1, <2>3
<1>6. CASE ExportConfirmations
  <2>1. [NoRows EXCEPT !.confirmation = rows[file.from].confirmation].object = NoRows.object
    BY DEF NoRows
  <2>2. /\ file'.rows.object = NoRows.object /\ file'.kind = "reading" /\ file.kind = "frozen"
        /\ file'.from = file.from /\ file'.final = file.final
    BY <1>6, <2>1 DEF ExportConfirmations, File
  <2>3. (running' = running) /\ (writer' = writer)
    BY <1>2 DEF procedure
  <2>4. FinalFile'
    BY <2>2, <2>3 DEF FinalFile
  <2> QED
    BY <1>1, <2>2, <2>4
<1>7. CASE ExportReceipts
  <2> DEFINE r == rows[file.from]
             q == [NoRows EXCEPT !.confirmation = file.rows.confirmation, !.attempt = r.attempt,
                                 !.object = Tombstones(r.object)]
  <2>1. file.from \in Sites /\ file.kind = "reading"
    BY <1>7 DEF ExportReceipts, FileHasSite
  <2>2. q.attempt = r.attempt /\ q.object = Tombstones(r.object)
    BY DEF NoRows
  <2>3. Tree(r.object)
    BY <2>1 DEF Trees
  <2>4. Tree(Tombstones(r.object))
    BY <2>3, ObjectsAssumption DEF Tree, Tombstones
  <2>5. file'.rows = q /\ file'.kind = "receipts" /\ file'.final = file.final
    BY <1>7 DEF ExportReceipts, File
  <2>6. ASSUME file.final
        PROVE  ~running /\ Informed(r)
    BY <2>1, <2>6 DEF FinalFile, ReadySites
  <2>7. ASSUME file.final
        PROVE  (~running)' /\ Informed(file.rows)'
    <3>1. /\ erased \subseteq Objects
          /\ \A o \in Objects : r.object[o] = "gone" => Tombstones(r.object)[o] = "gone"
      BY DEF TypeOK, Tombstones
    <3> QED
      BY <1>2, <2>2, <2>5, <2>6, <2>7, <3>1 DEF Informed, world, procedure
  <2> QED
    BY <2>2, <2>4, <2>5, <2>7 DEF FinalFile
<1>8. ASSUME NEW s \in Sites, ExportDomain(s)
      PROVE  FinalFile' /\ Tree(file'.rows.object)
  <2>1. /\ file'.rows = rows[s] /\ file'.kind = "domain" /\ file'.final = Final(s)
    BY <1>8 DEF ExportDomain, File
  <2>2. Final(s) => ~running /\ Informed(rows[s])
    BY DEF Final, ReadySites
  <2>3. Final(s) => (~running)' /\ Informed(file.rows)'
    BY <1>2, <2>1, <2>2 DEF Informed, world, procedure
  <2> QED
    BY <2>1, <2>3 DEF FinalFile, Trees
<1> QED
  BY <1>3, <1>4, <1>5, <1>6, <1>7, <1>8 DEF FileStep

LEMMA FileIInv ==
  ASSUME IInv, FileStep
  PROVE  IInv'
<1>1. UNCHANGED <<phase, control, rows, worker, world, procedure>>
  BY DEF FileStep, BackupCheck, BackupDump, ExportCheck, ExportConfirmations, ExportReceipts,
         ExportDomain
<1>2. Operator
  BY DEF FileStep, Operator
<1>3. TypeInv'
  BY <1>2, TypeStep DEF IInv, Next
<1>4. Employed' /\ FencedOnce' /\ RequestedOnce'
  BY <1>1, <1>2, ProcessesUndisturbed DEF procedure
<1>5. ReadySites'
  BY <1>1, <1>2, StaysReady DEF procedure
<1>6. FinalFile' /\ Trees'
  BY <1>1, FileContents DEF IInv, Trees, Tree
<1>7. StoppedIdle' /\ OpenEpochsDiffer' /\ ApprovedIsReady'
  BY <1>1 DEF IInv, StoppedIdle, OpenEpochsDiffer, ApprovedIsReady, procedure
<1> QED
  BY <1>3, <1>4, <1>5, <1>6, <1>7 DEF IInv

LEMMA StopIInv ==
  ASSUME IInv, Stop
  PROVE  IInv'
<1> USE DEF IInv
<1>1. Operator
  BY DEF Operator
<1>2. TypeInv'
  BY <1>1, TypeStep DEF Next
<1>3. UNCHANGED <<phase, control, rows, file, world, writer, ready, approval>>
      /\ running' = FALSE /\ running
      /\ \A w \in Workers : worker'[w] = Idle
  BY DEF Stop
<1>4. Employed' /\ StoppedIdle' /\ FencedOnce'
  BY <1>3 DEF Employed, StoppedIdle, FencedOnce, Idle
<1>5. ReadySites'
  BY <1>3 DEF ReadySites, Informed, world
<1> QED
  BY <1>2, <1>3, <1>4, <1>5
  DEF OpenEpochsDiffer, ApprovedIsReady, FinalFile, RequestedOnce, Trees, Tree, world

\* The control rows keep their epochs.
LEMMA SetEpochs ==
  ASSUME TypeOK, NEW s \in Sites, NEW egress, NEW draining,
         Set(s, control[s].epoch, egress, draining)
  PROVE  \A t \in Sites : control'[t].epoch = control[t].epoch
BY DEF TypeOK, Set

LEMMA FreezeIInv ==
  ASSUME IInv, NEW s \in Sites, Drain(s) \/ KillSwitch(s)
  PROVE  IInv'
<1> USE DEF IInv
<1>1. Operator
  BY DEF Operator
<1>2. TypeInv'
  BY <1>1, TypeStep DEF Next
<1>3. /\ UNCHANGED <<phase, rows, worker, file, world, procedure>>
      /\ \A t \in Sites : control'[t].epoch = control[t].epoch
  BY SetEpochs DEF Drain, KillSwitch, TypeInv
<1>4. Employed' /\ FencedOnce' /\ RequestedOnce'
  BY <1>1, <1>3, ProcessesUndisturbed DEF procedure
<1>5. ReadySites'
  BY <1>1, <1>3, StaysReady DEF procedure
<1>6. FinalFile' /\ Trees'
  BY <1>3 DEF FinalFile, Informed, Trees, Tree, world, procedure
<1>7. StoppedIdle' /\ OpenEpochsDiffer' /\ ApprovedIsReady'
  BY <1>3 DEF StoppedIdle, OpenEpochsDiffer, ApprovedIsReady, procedure
<1> QED
  BY <1>2, <1>4, <1>5, <1>6, <1>7

LEMMA ApproveIInv ==
  ASSUME IInv, NEW s \in Sites, Approve(s)
  PROVE  IInv'
<1> USE DEF IInv
<1>1. Operator
  BY DEF Operator
<1>2. TypeInv'
  BY <1>1, TypeStep DEF Next
<1>3. /\ UNCHANGED <<phase, control, rows, worker, file, world, writer, running, ready>>
      /\ approval' = control[s].epoch /\ s \in ready /\ phase[s] = "open"
  BY DEF Approve
<1>4. Employed' /\ FencedOnce' /\ RequestedOnce'
  BY <1>1, <1>3, ProcessesUndisturbed
<1>5. ReadySites'
  BY <1>1, <1>3, StaysReady
<1>6. ApprovedIsReady'
  BY <1>3 DEF ApprovedIsReady, OpenEpochsDiffer
<1>7. FinalFile' /\ Trees' /\ StoppedIdle' /\ OpenEpochsDiffer'
  BY <1>3 DEF FinalFile, Informed, Trees, Tree, StoppedIdle, OpenEpochsDiffer, world
<1> QED
  BY <1>2, <1>4, <1>5, <1>6, <1>7

\* The database that is permitted is ready: it is the writer, or knows all it did, and then
\* no process of the writer is at work.
LEMMA PermitIInv ==
  ASSUME IInv, NEW s \in Sites, PermitEgress(s)
  PROVE  IInv'
<1> USE DEF IInv
<1>1. Operator
  BY DEF Operator
<1>2. TypeInv'
  BY <1>1, TypeStep DEF Next
<1>3. /\ UNCHANGED <<phase, rows, worker, world, approval>>
      /\ \A t \in Sites : control'[t].epoch = control[t].epoch
      /\ writer' = s /\ running' = TRUE /\ ready' = {s}
      /\ ~file'.final /\ file'.rows = file.rows
      /\ phase[s] = "open" /\ control[s].epoch = approval
  BY SetEpochs DEF PermitEgress, File, TypeInv
<1>4. s \in ready /\ Informed(rows[s]) /\ (s # writer => ~running)
  BY <1>3 DEF ApprovedIsReady, ReadySites
<1>5. ReadySites'
  BY <1>3, <1>4 DEF ReadySites, Informed, world
<1>6. ApprovedIsReady' /\ OpenEpochsDiffer'
  BY <1>3 DEF ApprovedIsReady, OpenEpochsDiffer
<1>7. FinalFile' /\ Trees' /\ StoppedIdle'
  BY <1>3 DEF FinalFile, Trees, Tree, StoppedIdle
<1>8. Employed' /\ RequestedOnce'
  BY <1>3 DEF Employed, RequestedOnce, world
<1>9. CASE s = writer
  BY <1>1, <1>2, <1>3, <1>5, <1>6, <1>7, <1>8, <1>9, ProcessesUndisturbed
<1>10. CASE s # writer
  <2>1. \A w \in Workers : worker'[w].phase # "fenced"
    BY <1>3, <1>4, <1>10 DEF StoppedIdle, Idle
  <2>2. FencedOnce'
    BY <2>1 DEF FencedOnce
  <2> QED
    BY <1>2, <1>5, <1>6, <1>7, <1>8, <2>2
<1> QED
  BY <1>9, <1>10

LEMMA CommitIInv ==
  ASSUME IInv, NEW s \in Sites, RestoreCommit(s)
  PROVE  IInv'
<1> USE DEF IInv
<1>1. Operator
  BY DEF Operator
<1>2. TypeInv'
  BY <1>1, TypeStep DEF Next
<1>3. /\ UNCHANGED <<worker, file, world, procedure>>
      /\ phase[s] # "open" /\ phase'[s] # "open" /\ rows'[s] = file.rows
      /\ \A t \in Sites \ {s} : /\ phase'[t] = phase[t] /\ rows'[t] = rows[t]
                                /\ control'[t] = control[t]
  BY DEF RestoreCommit, TypeInv, TypeOK
<1>4. Employed' /\ FencedOnce' /\ RequestedOnce'
  BY <1>1, <1>3, ProcessesUndisturbed DEF procedure
<1>5. ReadySites'
  BY <1>1, <1>3, StaysReady DEF procedure
<1>6. Trees'
  BY <1>3 DEF Trees, Tree
<1>7. FinalFile' /\ StoppedIdle'
  BY <1>3 DEF FinalFile, Informed, StoppedIdle, world, procedure
<1>8. OpenEpochsDiffer' /\ ApprovedIsReady'
  BY <1>3 DEF OpenEpochsDiffer, ApprovedIsReady, procedure
<1> QED
  BY <1>2, <1>4, <1>5, <1>6, <1>7, <1>8

\* The epoch drawn is nobody's, and not the one the operator decided for.
LEMMA FinishIInv ==
  ASSUME IInv, NEW s \in Sites, RestoreFinish(s)
  PROVE  IInv'
<1> USE DEF IInv
<1>1. Operator
  BY DEF Operator
<1>2. TypeInv'
  BY <1>1, TypeStep DEF Next
<1> DEFINE object == rows[s].object
<1>3. /\ UNCHANGED <<worker, file, world, procedure>>
      /\ phase[s] # "open" /\ rows'[s].object = Without(object, Gone(object))
      /\ \A t \in Sites \ {s} : phase'[t] = phase[t] /\ rows'[t] = rows[t]
  BY DEF RestoreFinish, TypeInv, TypeOK
<1>4. PICK epoch \in NewEpoch(s) : RestoredControl(s, epoch)
  BY DEF RestoreFinish
<1>5. /\ control'[s].epoch # approval
      /\ \A t \in Sites \ {s} : control'[t] = control[t] /\ control'[s].epoch # control[t].epoch
  BY <1>4 DEF NewEpoch, RestoredControl, Set, TypeInv, TypeOK
<1>6. Employed' /\ FencedOnce' /\ RequestedOnce'
  BY <1>1, <1>3, ProcessesUndisturbed DEF procedure
<1>7. ReadySites'
  BY <1>1, <1>3, StaysReady DEF procedure
<1>8. Trees'
  <2>1. object \in ObjectStates /\ Tree(object) /\ Gone(object) \in SUBSET Objects
    BY RowsFields DEF Trees, Gone, TypeInv, TypeOK
  <2>2. Tree(Without(object, Gone(object)))
    BY <2>1, WithoutTree
  <2> QED
    BY <1>3, <2>2 DEF Trees, Tree
<1>9. FinalFile' /\ StoppedIdle'
  BY <1>3 DEF FinalFile, Informed, StoppedIdle, world, procedure
<1>10. OpenEpochsDiffer' /\ ApprovedIsReady'
  BY <1>3, <1>5 DEF OpenEpochsDiffer, ApprovedIsReady, procedure
<1> QED
  BY <1>2, <1>6, <1>7, <1>8, <1>9, <1>10

\* An import of a final file tells the database all that its source knew.
LEMMA ImportInforms ==
  ASSUME TypeInv, NEW s \in Sites, ApplyReceipts(s) \/ ApplyDomain(s),
         Informed(file.rows)
  PROVE  Informed(rows[s])'
<1> USE DEF TypeInv
<1> DEFINE r == rows[s]
           q == file.rows
<1>1. r \in Rows /\ q \in Rows /\ erased \subseteq Objects
  BY DEF TypeOK
<1>2. UNCHANGED world
  BY DEF ApplyReceipts, ApplyDomain
<1>3. rows'[s].attempt = [e \in Effects |-> MergeAttempt(r.attempt[e], q.attempt[e])]
  BY DEF ApplyReceipts, ApplyDomain, TypeOK
<1>4. \A e \in Effects : q.attempt[e] # "none" => rows'[s].attempt[e] # "none"
  BY <1>1, <1>3 DEF MergeAttempt, Settled
<1>5. \A o \in Objects : q.object[o] = "gone" => rows'[s].object[o] = "gone"
  <2>1. CASE ApplyReceipts(s)
    BY <2>1 DEF ApplyReceipts, TypeOK
  <2>2. CASE ApplyDomain(s)
    <3> DEFINE object == [o \in Objects |-> IF r.object[o] = "gone" THEN "gone" ELSE q.object[o]]
    <3>1. rows'[s].object = Without(object, Gone(object))
      BY <2>2 DEF ApplyDomain, TypeOK
    <3>2. \A o \in Objects : q.object[o] = "gone" => object[o] = "gone"
      OBVIOUS
    <3> QED
      BY <3>1, <3>2 DEF Without
  <2> QED
    BY <2>1, <2>2
<1> QED
  BY <1>1, <1>2, <1>4, <1>5 DEF Informed, world

LEMMA ImportTrees ==
  ASSUME IInv, NEW s \in Sites, ApplyReceipts(s) \/ ApplyDomain(s)
  PROVE  Trees'
<1> USE DEF IInv, TypeInv
<1> DEFINE r == rows[s]
           q == file.rows
<1>1. r.object \in ObjectStates /\ q.object \in ObjectStates
  BY RowsFields DEF TypeOK
<1>2. Tree(r.object) /\ Tree(q.object)
  BY DEF Trees
<1>3. file' = file /\ \A t \in Sites \ {s} : rows'[t] = rows[t]
  BY DEF ApplyReceipts, ApplyDomain, TypeOK
<1>4. Tree(rows'[s].object)
  <2>1. CASE ApplyReceipts(s)
    <3>1. rows'[s].object = [o \in Objects |-> IF q.object[o] = "gone" THEN "gone" ELSE r.object[o]]
      BY <2>1 DEF ApplyReceipts, TypeOK
    <3> QED
      BY <1>1, <1>2, <3>1, MergedTree DEF Merged
  <2>2. CASE ApplyDomain(s)
    <3> DEFINE object == Merged(r.object, q.object)
    <3>1. rows'[s].object = Without(object, Gone(object))
      BY <2>2 DEF ApplyDomain, TypeOK, Merged
    <3>2. Tree(object) /\ object \in ObjectStates /\ Gone(object) \in SUBSET Objects
      BY <1>1, <1>2, MergedTree DEF Gone
    <3> HIDE DEF object
    <3> QED
      BY <3>1, <3>2, WithoutTree
  <2> QED
    BY <2>1, <2>2
<1> QED
  BY <1>2, <1>3, <1>4 DEF Trees, Tree

LEMMA ImportIInv ==
  ASSUME IInv, NEW s \in Sites, ApplyReceipts(s) \/ ApplyDomain(s)
  PROVE  IInv'
<1> USE DEF IInv
<1>1. Operator
  BY DEF Operator
<1>2. TypeInv'
  BY <1>1, TypeStep DEF Next
<1>3. /\ UNCHANGED <<phase, control, worker, file, world, writer, running, approval>>
      /\ phase[s] = "open" /\ file.kind \in {"receipts", "domain"}
      /\ ready' = ready \/ (file.final /\ ready' = ready \cup {s})
  BY DEF ApplyReceipts, ApplyDomain
<1>4. Employed' /\ FencedOnce' /\ RequestedOnce'
  BY <1>1, <1>3, ProcessesUndisturbed
<1>5. ReadySites'
  <2>1. CASE ready' = ready
    BY <1>1, <1>3, <2>1, StaysReady
  <2>2. CASE file.final /\ ready' = ready \cup {s}
    <3>1. ~running /\ Informed(file.rows)
      BY <1>3, <2>2 DEF FinalFile
    <3>2. Informed(rows[s])'
      BY <3>1, ImportInforms
    <3>3. Kept /\ ready \subseteq Sites
      BY <1>1, OperatorKept DEF TypeInv, TypeOK
    <3>4. ASSUME NEW t \in ready
          PROVE  Informed(rows[t])'
      BY <1>3, <3>3, StaysInformed DEF ReadySites
    <3> QED
      BY <1>3, <2>2, <3>1, <3>2, <3>4 DEF ReadySites
  <2> QED
    BY <1>3, <2>1, <2>2
<1>6. FinalFile' /\ StoppedIdle' /\ OpenEpochsDiffer'
  BY <1>3 DEF FinalFile, Informed, StoppedIdle, OpenEpochsDiffer, world
<1>7. ApprovedIsReady'
  BY <1>3 DEF ApprovedIsReady
<1>8. Trees'
  BY ImportTrees
<1> QED
  BY <1>2, <1>4, <1>5, <1>6, <1>7, <1>8

LEMMA InductiveStep == IInv /\ [Next]_vars => IInv'
<1> SUFFICES ASSUME IInv, [Next]_vars PROVE IInv'
  OBVIOUS
<1>1. CASE Runtime
  BY <1>1, RuntimeIInv
<1>2. CASE Operator
  BY <1>2, FreezeIInv, PermitIInv, ApproveIInv, CommitIInv, FinishIInv, ImportIInv, StopIInv,
     FileIInv
  DEF Operator, FileStep
<1>3. CASE UNCHANGED vars
  <2>1. UNCHANGED <<phase, control, rows, worker, file, world, procedure>>
    BY <1>3 DEF vars
  <2>2. TypeInv'
    BY TypeStep DEF IInv
  <2>3. Employed' /\ StoppedIdle' /\ OpenEpochsDiffer' /\ ApprovedIsReady'
    BY <2>1 DEF IInv, Employed, StoppedIdle, OpenEpochsDiffer, ApprovedIsReady, procedure
  <2>4. ReadySites' /\ FinalFile'
    BY <2>1 DEF IInv, ReadySites, FinalFile, Informed, world, procedure
  <2>5. FencedOnce' /\ RequestedOnce' /\ Trees'
    BY <2>1 DEF IInv, FencedOnce, RequestedOnce, Trees, Tree, world, procedure
  <2> QED
    BY <2>2, <2>3, <2>4, <2>5 DEF IInv
<1> QED
  BY <1>1, <1>2, <1>3 DEF Next

\* The invariant holds in every behaviour, for any databases, effects, workers and epochs.
THEOREM Invariance == Spec => []IInv
BY IInvInit, InductiveStep, PTL DEF Spec

\* However often the runtime is frozen, backed up, restored, moved and permitted again, no
\* effect is asked of its provider twice.
THEOREM EffectsAreRequestedOnce == Spec => []RequestedOnce
<1>1. IInv => RequestedOnce
  BY DEF IInv
<1> QED
  BY <1>1, Invariance, PTL

\* What can be read where the runtime runs was not deleted, and neither was what it was
\* derived from, whatever was restored or imported since.
THEOREM DeletedStaysUnreadable == Spec => []ReadableAtWriter
<1>1. IInv => ReadableAtWriter
  <2> SUFFICES ASSUME IInv PROVE ReadableAtWriter
    OBVIOUS
  <2>1. writer \in Sites /\ Informed(rows[writer]) /\ Tree(rows[writer].object)
    BY DEF IInv, TypeInv, TypeOK, ReadySites, Trees
  <2> QED
    BY <2>1 DEF Informed, Tree, ReadableAtWriter
<1> QED
  BY <1>1, Invariance, PTL

=============================================================================
