---------------------------- MODULE PolicyLedger ----------------------------
(***************************************************************************)
(* The shared policy ledger of one owner (src/src/prm/storage/policy.py):  *)
(* grants with revisions, budget windows, call counters, and operations    *)
(* that reserve budget, are prepared durably before any I/O, and are       *)
(* settled afterwards. Several processes reserve, call and settle at once; *)
(* the owner revokes grants and the operator freezes egress meanwhile.     *)
(*                                                                         *)
(* A step is one committed transaction, except the transport call: it runs *)
(* inside two open transactions, one holding the rows of its own grants    *)
(* FOR UPDATE, the other the control row FOR SHARE, so a call is a state   *)
(* ("calling") and "guard" names the transactions that are still open.     *)
(* Either session may be lost while the call is under way.                 *)
(***************************************************************************)
EXTENDS Integers, FiniteSets, FiniteSetsExt

CONSTANTS Callers,       \* processes that call providers
          Ops,           \* operation references
          Compound,      \* operations with a text and a context member
          LocalOps,      \* operations whose provider is provider_local
          Grants,
          GrantOf,       \* the grant that covers a member kind
          Windows,
          Contexts,      \* budget contexts: the windows a registry charges
          UpperBounds, Capacities, Quotas,
          MaxRevision,   \* bound: the latest grant revision
          MaxMembers     \* bound: members ever reserved

Kinds == {"single", "text", "context"}

ASSUME LedgerAssumption ==
  /\ Compound \subseteq Ops /\ LocalOps \subseteq Ops
  /\ GrantOf \in [Kinds -> Grants]
  /\ Contexts \subseteq SUBSET Windows
  /\ UpperBounds \subseteq Nat /\ Capacities \subseteq Nat /\ Quotas \subseteq Nat \ {0}
  /\ MaxRevision \in Nat \ {0} /\ MaxMembers \in Nat

VARIABLES grant,     \* pa_policy.grants
          used,      \* pa_policy.call_counts
          window,    \* pa_policy.windows
          op,        \* pa_policy.operations
          members,   \* pa_policy.members
          minted,    \* members minted so far: the source of member ids
          held,      \* live reservation objects of each process
          call,      \* what each process is executing
          calls,     \* transport invocations of each operation
          frozen     \* pa_control.state: egress disabled or draining

ledger == <<window, op, members>>
authority == <<grant, frozen>>
vars == <<grant, used, window, op, members, minted, held, call, calls, frozen>>

Unpriced == -1   \* actual = NULL
NoOp == [state |-> "none", bound |-> 0, actual |-> Unpriced, windows |-> {}]
NoWindow == [state |-> "absent", capacity |-> 0, reserved |-> 0, consumed |-> 0]
NoGrant == [status |-> "none", revision |-> 0, quota |-> 0]
Idle == [phase |-> "idle", members |-> {}, prepared |-> {}, todo |-> {},
         outcome |-> "unknown", guard |-> {}]

Members == [op: Ops, kind: Kinds, id: 1..MaxMembers, grant: Grants, revision: 1..MaxRevision]
Sessions == {"policy", "control"}
KindsOf(o) == IF o \in Compound THEN {"text", "context"} ELSE {"single"}
OpsOf(ms) == {m.op : m \in ms}
MembersOf(o) == {m \in members : m.op = o}
Settled == {"accepted", "unknown"}

Init ==
  /\ grant = [g \in Grants |-> NoGrant]
  /\ used = [g \in Grants |-> [r \in 1..MaxRevision |-> 0]]
  /\ window = [w \in Windows |-> NoWindow]
  /\ op = [o \in Ops |-> NoOp]
  /\ members = {}
  /\ minted = 0
  /\ held = [c \in Callers |-> {}]
  /\ call = [c \in Callers |-> Idle]
  /\ calls = [o \in Ops |-> 0]
  /\ frozen = FALSE

-----------------------------------------------------------------------------
(* Row locks. A transport call holds its own grants and the control row;    *)
(* reserving, preparing and abandoning lock every grant of the owner. Who    *)
(* waits for longer than lock_timeout gives up, which changes nothing.      *)

GrantsInUse ==
  {m.grant : m \in UNION {call[c].members : c \in {d \in Callers :
                            call[d].phase = "calling" /\ "policy" \in call[d].guard}}}

ControlInUse == \E c \in Callers : call[c].phase = "calling" /\ "control" \in call[c].guard
OwnerGrantsFree == GrantsInUse = {}

-----------------------------------------------------------------------------
(* Grants, windows, the control row.                                        *)

RegisterGrant(g) ==
  /\ grant[g].status = "none"
  /\ \E q \in Quotas : grant' = [grant EXCEPT ![g] = [status |-> "active", revision |-> 1, quota |-> q]]
  /\ UNCHANGED <<used, ledger, minted, held, call, calls, frozen>>

ReplaceGrant(g) ==
  /\ grant[g].status \in {"active", "expired"}
  /\ g \notin GrantsInUse
  /\ \E r \in 1..MaxRevision, q \in Quotas :
       /\ r > grant[g].revision
       /\ grant' = [grant EXCEPT ![g] = [status |-> "active", revision |-> r, quota |-> q]]
  /\ UNCHANGED <<used, ledger, minted, held, call, calls, frozen>>

RevokeGrant(g) ==
  /\ grant[g].status \in {"active", "expired", "revoked"}
  /\ grant[g].revision < MaxRevision
  /\ g \notin GrantsInUse
  /\ grant' = [grant EXCEPT ![g].status = "revoked", ![g].revision = @ + 1]
  /\ UNCHANGED <<used, ledger, minted, held, call, calls, frozen>>

\* The validity ends by itself: no transaction, and no lock holds it back.
ExpireGrant(g) ==
  /\ grant[g].status = "active"
  /\ grant' = [grant EXCEPT ![g].status = "expired"]
  /\ UNCHANGED <<used, ledger, minted, held, call, calls, frozen>>

ConfigureWindow(w) ==
  /\ window[w].state = "absent"
  /\ \E n \in Capacities : window' = [window EXCEPT ![w].state = "open", ![w].capacity = n]
  /\ UNCHANGED <<authority, used, op, members, minted, held, call, calls>>

\* The window's end passes; its balance stays where it is.
CloseWindow(w) ==
  /\ window[w].state = "open"
  /\ window' = [window EXCEPT ![w].state = "closed"]
  /\ UNCHANGED <<authority, used, op, members, minted, held, call, calls>>

\* drain and kill_switch; permit_synthetic_egress.
SetFrozen(f) ==
  /\ f # frozen
  /\ ~ControlInUse
  /\ frozen' = f
  /\ UNCHANGED <<grant, used, ledger, minted, held, call, calls>>

-----------------------------------------------------------------------------
(* authorize_and_reserve.                                                   *)

EgressOpen(o) == o \in LocalOps \/ ~frozen
Authorized(g, r) == grant[g].status = "active" /\ grant[g].revision = r
MemberAuthorized(m) == Authorized(m.grant, m.revision)

QuotaLeft(g) == used[g][grant[g].revision] < grant[g].quota

\* Defective variant: what was spent no longer counts.
FitsUnspent(ctx, n) ==
  \A w \in ctx : window[w].state = "open" /\ window[w].reserved + n <= window[w].capacity

Fits(ctx, n) ==
  \A w \in ctx : /\ window[w].state = "open"
                 /\ window[w].reserved + window[w].consumed + n <= window[w].capacity

\* Defective variant: a window whose end has passed is not settled any more.
ChargeOpen(ctx, hold, spend) ==
  [w \in Windows |-> IF w \in ctx /\ window[w].state = "open"
                     THEN [window[w] EXCEPT !.reserved = @ + hold, !.consumed = @ + spend]
                     ELSE window[w]]

\* The windows of ctx, with what the operation holds and what it has spent changed.
Charge(ctx, hold, spend) ==
  [w \in Windows |-> IF w \in ctx THEN [window[w] EXCEPT !.reserved = @ + hold,
                                                        !.consumed = @ + spend]
                     ELSE window[w]]

CanAuthorize(c, o, k) ==
  /\ call[c].phase = "idle"
  /\ k \in KindsOf(o)
  /\ minted < MaxMembers
  /\ OwnerGrantsFree
  /\ EgressOpen(o)
  /\ grant[GrantOf[k]].status = "active"
  /\ QuotaLeft(GrantOf[k])

Mint(c, o, k) ==
  LET g == GrantOf[k]
      m == [op |-> o, kind |-> k, id |-> minted + 1, grant |-> g,
            revision |-> grant[g].revision]
  IN
  /\ minted' = minted + 1
  /\ used' = [used EXCEPT ![g][grant[g].revision] = @ + 1]
  /\ members' = members \cup {m}
  /\ held' = [held EXCEPT ![c] = @ \cup {m}]

\* Defective variant: an operation that was attempted may be reserved again.
ReserveAttempted(c, o, k) ==
  /\ CanAuthorize(c, o, k)
  /\ op[o].state \in {"none", "cancelled"} \cup Settled
  /\ \E ctx \in Contexts, n \in UpperBounds :
       /\ Fits(ctx, n)
       /\ window' = Charge(ctx, n, 0)
       /\ op' = [op EXCEPT ![o] = [state |-> "reserved", bound |-> n,
                                   actual |-> Unpriced, windows |-> ctx]]
  /\ Mint(c, o, k)
  /\ UNCHANGED <<authority, call, calls>>

ReserveOperation(c, o, k) ==
  /\ CanAuthorize(c, o, k)
  /\ op[o].state = "none"
  /\ \E ctx \in Contexts, n \in UpperBounds :
       /\ Fits(ctx, n)
       /\ window' = Charge(ctx, n, 0)
       /\ op' = [op EXCEPT ![o] = [state |-> "reserved", bound |-> n,
                                   actual |-> Unpriced, windows |-> ctx]]
  /\ Mint(c, o, k)
  /\ UNCHANGED <<authority, call, calls>>

\* The other half of a text/context pair joins the operation and its bound.
ReserveComplement(c, o, k) ==
  /\ CanAuthorize(c, o, k)
  /\ op[o].state = "reserved"
  /\ \E m \in members : MembersOf(o) = {m} /\ {m.kind, k} = {"text", "context"}
  /\ Mint(c, o, k)
  /\ UNCHANGED <<authority, window, op, call, calls>>

-----------------------------------------------------------------------------
(* abandon_before_transport: the object is dead whatever the database says. *)

Abandonable(c) ==
  CASE call[c].phase = "idle"      -> held[c]
    [] call[c].phase = "releasing" -> held[c] \cap call[c].members
    [] OTHER                       -> {}

\* A context that is given up leaves its text member with the reservation.
TextRemains(m) ==
  /\ m.kind = "context"
  /\ \E t \in members : t.kind = "text" /\ MembersOf(m.op) \ {m} = {t}

\* Defective variant: the state of the operation is not looked at.
AbandonPrepared(c, m) ==
  LET o == m.op IN
  /\ m \in Abandonable(c)
  /\ OwnerGrantsFree
  /\ held' = [held EXCEPT ![c] = @ \ {m}]
  /\ members' = members \ {m}
  /\ window' = Charge(op[o].windows, -op[o].bound, 0)
  /\ op' = [op EXCEPT ![o].state = "cancelled"]
  /\ UNCHANGED <<authority, used, minted, call, calls>>

Abandon(c, m) ==
  LET o == m.op IN
  /\ m \in Abandonable(c)
  /\ OwnerGrantsFree
  /\ held' = [held EXCEPT ![c] = @ \ {m}]
  /\ IF op[o].state # "reserved" THEN UNCHANGED ledger
     ELSE /\ members' = members \ {m}
          /\ IF TextRemains(m) THEN UNCHANGED <<window, op>>
             ELSE /\ window' = Charge(op[o].windows, -op[o].bound, 0)
                  /\ op' = [op EXCEPT ![o].state = "cancelled"]
  /\ UNCHANGED <<authority, used, minted, call, calls>>

AbandonFails(c, m) ==
  /\ m \in Abandonable(c)
  /\ held' = [held EXCEPT ![c] = @ \ {m}]
  /\ UNCHANGED <<authority, used, ledger, minted, call, calls>>

-----------------------------------------------------------------------------
(* execute_reserved, execute_reserved_groups, execute_prepared: prepare     *)
(* every operation, re-check under the grants' locks, call, settle.         *)

StartCall(c, ms) ==
  /\ call[c].phase = "idle"
  /\ ms # {} /\ ms \subseteq held[c]
  /\ OpsOf(ms) \subseteq LocalOps \/ OpsOf(ms) \cap LocalOps = {}
  /\ call' = [call EXCEPT ![c] = [Idle EXCEPT !.phase = "preparing", !.members = ms]]
  /\ UNCHANGED <<authority, used, ledger, minted, held, calls>>

Brought(c, o) == {m \in call[c].members : m.op = o}
Unprepared(c) == OpsOf(call[c].members) \ call[c].prepared

\* Defective variant: some of the members are enough.
CanPreparePart(c, o) ==
  /\ OwnerGrantsFree
  /\ op[o].state = "reserved"
  /\ Brought(c, o) \subseteq MembersOf(o)
  /\ \A m \in Brought(c, o) : MemberAuthorized(m)

CanPrepare(c, o) ==
  /\ OwnerGrantsFree
  /\ op[o].state = "reserved"
  /\ MembersOf(o) = Brought(c, o)
  /\ \A m \in Brought(c, o) : MemberAuthorized(m)

Prepare(c, o) ==
  /\ call[c].phase = "preparing"
  /\ o \in Unprepared(c)
  /\ CanPrepare(c, o)
  /\ op' = [op EXCEPT ![o].state = "prepared"]
  /\ held' = [held EXCEPT ![c] = @ \ Brought(c, o)]
  /\ call' = [call EXCEPT ![c].prepared = @ \cup {o}]
  /\ UNCHANGED <<authority, used, window, members, minted, calls>>

\* The call is off: what was prepared is settled as unknown, the rest released.
Settling(c, outcome) ==
  [call EXCEPT ![c].phase = "settling", ![c].outcome = outcome,
               ![c].todo = call[c].prepared, ![c].guard = {}]

\* Denied, timed out on a lock, or failed; or committed without an answer.
PrepareFails(c, o) ==
  /\ call[c].phase = "preparing"
  /\ o \in Unprepared(c)
  /\ \/ UNCHANGED op
     \/ CanPrepare(c, o) /\ op' = [op EXCEPT ![o].state = "prepared"]
  /\ call' = Settling(c, "unknown")
  /\ UNCHANGED <<authority, used, window, members, minted, held, calls>>

\* Defective variant: the grants are locked but not decided on again.
BeginUnchecked(c) ==
  /\ call[c].phase = "preparing"
  /\ Unprepared(c) = {}
  /\ \A m \in call[c].members : m.grant \notin GrantsInUse
  /\ \A o \in call[c].prepared : EgressOpen(o)
  /\ calls' = [o \in Ops |-> IF o \in call[c].prepared THEN calls[o] + 1 ELSE calls[o]]
  /\ call' = [call EXCEPT ![c].phase = "calling", ![c].guard = Sessions]
  /\ UNCHANGED <<authority, used, ledger, minted, held>>

BeginCall(c) ==
  /\ call[c].phase = "preparing"
  /\ Unprepared(c) = {}
  /\ \A m \in call[c].members : m.grant \notin GrantsInUse /\ MemberAuthorized(m)
  /\ \A o \in call[c].prepared : EgressOpen(o)
  /\ calls' = [o \in Ops |-> IF o \in call[c].prepared THEN calls[o] + 1 ELSE calls[o]]
  /\ call' = [call EXCEPT ![c].phase = "calling", ![c].guard = Sessions]
  /\ UNCHANGED <<authority, used, ledger, minted, held>>

BeginDenied(c) ==
  /\ call[c].phase = "preparing"
  /\ Unprepared(c) = {}
  /\ call' = Settling(c, "unknown")
  /\ UNCHANGED <<authority, used, ledger, minted, held, calls>>

\* A session dies under the call: its locks go, the provider cannot be fenced.
LoseGuard(c, s) ==
  /\ call[c].phase = "calling"
  /\ s \in call[c].guard
  /\ call' = [call EXCEPT ![c].guard = @ \ {s}]
  /\ UNCHANGED <<authority, used, ledger, minted, held, calls>>

EndCall(c, outcome) ==
  /\ call[c].phase = "calling"
  /\ outcome = "accepted" => call[c].guard = Sessions
  /\ call' = Settling(c, outcome)
  /\ UNCHANGED <<authority, used, ledger, minted, held, calls>>

-----------------------------------------------------------------------------
(* settle(owner, operation_ref, outcome=, actual=None or a known cost).     *)

\* Defective variant: usage above the bound is taken.
ConflictsUnbounded(o, actual) ==
  \/ op[o].state \notin {"prepared"} \cup Settled
  \/ op[o].actual # Unpriced /\ actual \notin {Unpriced, op[o].actual}

Conflicts(o, actual) ==
  \/ op[o].state \notin {"prepared"} \cup Settled
  \/ actual > op[o].bound
  \/ op[o].actual # Unpriced /\ actual \notin {Unpriced, op[o].actual}

SettleOp(o, outcome, actual) ==
  LET charge == IF actual = Unpriced THEN op[o].bound ELSE actual
      done == op[o].state \in Settled /\ (actual = Unpriced \/ op[o].actual # Unpriced)
  IN
  /\ ~Conflicts(o, actual)
  /\ IF done THEN UNCHANGED <<window, op>>
     ELSE /\ window' = IF op[o].state = "prepared"
                       THEN Charge(op[o].windows, -op[o].bound, charge)
                       ELSE Charge(op[o].windows, 0, actual - op[o].bound)
          /\ op' = [op EXCEPT ![o].state = outcome, ![o].actual = actual]

Settle(c, o) ==
  /\ call[c].phase = "settling"
  /\ o \in call[c].todo
  /\ SettleOp(o, call[c].outcome, Unpriced)
  /\ call' = [call EXCEPT ![c].todo = @ \ {o}]
  /\ UNCHANGED <<authority, used, members, minted, held, calls>>

\* Storage fails: an accepted call falls back to settling everything as unknown,
\* an unknown one leaves the operation prepared.
SettleFails(c, o) ==
  /\ call[c].phase = "settling"
  /\ o \in call[c].todo
  /\ call' = IF call[c].outcome = "accepted" THEN Settling(c, "unknown")
             ELSE [call EXCEPT ![c].todo = @ \ {o}]
  /\ UNCHANGED <<authority, used, ledger, minted, held, calls>>

\* Everything is settled: release what was never prepared, then report usage.
FinishSettling(c) ==
  /\ call[c].phase = "settling"
  /\ call[c].todo = {}
  /\ call' = [call EXCEPT ![c].phase = "releasing"]
  /\ UNCHANGED <<authority, used, ledger, minted, held, calls>>

\* execute_reserved hands an unprepared reservation back; a group call drops it.
FinishReleasing(c) ==
  /\ call[c].phase = "releasing"
  /\ Abandonable(c) = {} \/ Cardinality(OpsOf(call[c].members)) = 1
  /\ call' = [call EXCEPT ![c].phase = "reporting",
                          ![c].todo = {o \in call[c].prepared : calls[o] > 0}]
  /\ UNCHANGED <<authority, used, ledger, minted, held, calls>>

\* The usage observer of a model call: the cost is known, or nothing is said; a
\* cost above the bound is not recorded.
ReportUsage(c, o) ==
  /\ call[c].phase = "reporting"
  /\ o \in call[c].todo
  /\ \E outcome \in Settled, actual \in 0..(op[o].bound + 1) : SettleOp(o, outcome, actual)
  /\ call' = [call EXCEPT ![c].todo = @ \ {o}]
  /\ UNCHANGED <<authority, used, members, minted, held, calls>>

FinishCall(c) ==
  /\ call[c].phase = "reporting"
  /\ call' = [call EXCEPT ![c] = Idle]
  /\ UNCHANGED <<authority, used, ledger, minted, held, calls>>

Crash(c) ==
  /\ held[c] # {} \/ call[c] # Idle
  /\ held' = [held EXCEPT ![c] = {}]
  /\ call' = [call EXCEPT ![c] = Idle]
  /\ UNCHANGED <<authority, used, ledger, minted, calls>>

-----------------------------------------------------------------------------
Caller(c) ==
  \/ \E o \in Ops, k \in Kinds : ReserveOperation(c, o, k) \/ ReserveComplement(c, o, k)
  \/ \E m \in held[c] : Abandon(c, m) \/ AbandonFails(c, m)
  \/ \E ms \in SUBSET held[c] : StartCall(c, ms)
  \/ \E o \in Ops : Prepare(c, o) \/ PrepareFails(c, o)
  \/ BeginCall(c)
  \/ BeginDenied(c)
  \/ \E s \in Sessions : LoseGuard(c, s)
  \/ \E outcome \in Settled : EndCall(c, outcome)
  \/ \E o \in Ops : Settle(c, o) \/ SettleFails(c, o) \/ ReportUsage(c, o)
  \/ FinishSettling(c)
  \/ FinishReleasing(c)
  \/ FinishCall(c)
  \/ Crash(c)

Owner ==
  \/ \E g \in Grants : RegisterGrant(g) \/ ReplaceGrant(g) \/ RevokeGrant(g) \/ ExpireGrant(g)
  \/ \E w \in Windows : ConfigureWindow(w) \/ CloseWindow(w)
  \/ \E f \in BOOLEAN : SetFrozen(f)

Next == Owner \/ \E c \in Callers : Caller(c)

Spec == Init /\ [][Next]_vars

-----------------------------------------------------------------------------
(* Properties.                                                             *)

\* The shape of every table and of what the processes keep in memory; the
\* CHECK constraints of the DDL, balances never negative, included.
TypeOK ==
  /\ grant \in [Grants -> [status: {"none", "active", "expired", "revoked"},
                           revision: 0..MaxRevision, quota: {0} \cup Quotas]]
  /\ used \in [Grants -> [1..MaxRevision -> Nat]]
  /\ window \in [Windows -> [state: {"absent", "open", "closed"}, capacity: {0} \cup Capacities,
                             reserved: Nat, consumed: Nat]]
  /\ op \in [Ops -> [state: {"none", "reserved", "prepared", "cancelled"} \cup Settled,
                     bound: {0} \cup UpperBounds, actual: Nat \cup {Unpriced},
                     windows: {{}} \cup Contexts]]
  /\ members \subseteq Members
  /\ minted \in 0..MaxMembers
  /\ held \in [Callers -> SUBSET Members]
  /\ call \in [Callers -> [phase: {"idle", "preparing", "calling", "settling", "releasing",
                                   "reporting"},
                           members: SUBSET Members, prepared: SUBSET Ops, todo: SUBSET Ops,
                           outcome: Settled, guard: SUBSET Sessions]]
  /\ calls \in [Ops -> Nat]
  /\ frozen \in BOOLEAN

Holding(w) == {o \in Ops : w \in op[o].windows /\ op[o].state \in {"reserved", "prepared"}}
Spending(w) == {o \in Ops : w \in op[o].windows /\ op[o].state \in Settled}
Spent(o) == IF op[o].actual = Unpriced THEN op[o].bound ELSE op[o].actual

\* The counters of a window are exactly what its operations hold and have
\* spent: no path through reserve, abandon, settle, failure or crash charges
\* twice, forgets a charge or refunds what may have been used.
WindowsBalance ==
  \A w \in Windows :
    /\ window[w].reserved = MapThenSumSet(LAMBDA o : op[o].bound, Holding(w))
    /\ window[w].consumed = MapThenSumSet(Spent, Spending(w))

\* No window is ever committed beyond its capacity.
CapacityRespected ==
  \A w \in Windows : window[w].reserved + window[w].consumed <= window[w].capacity

\* A provider is called at most once for an operation, whatever failed, and the
\* budget of an operation whose provider was called is never released.
InvokedOnce ==
  \A o \in Ops : /\ calls[o] <= 1
                 /\ calls[o] = 1 => op[o].state \in {"prepared"} \cup Settled

\* While a guarded call is under way nobody revokes or replaces one of its
\* grants: a revocation wins before the call or waits for it.
GuardedCallKeepsGrants ==
  \A c \in Callers : call[c].phase = "calling" /\ "policy" \in call[c].guard =>
    \A m \in call[c].members : /\ grant[m.grant].revision = m.revision
                               /\ grant[m.grant].status \in {"active", "expired"}

\* Freezing egress completes only when no guarded external call is under way.
FreezeStopsCalls ==
  frozen => \A c \in Callers : call[c].phase = "calling" /\ "control" \in call[c].guard
                                 => OpsOf(call[c].members) \subseteq LocalOps

\* Whatever the owner does, revoking, replacing or freezing, a guarded call goes
\* on with the grants and the egress it was made under
\* (storage/policy.py:320-333, runtime/operations.py:54-57).
GuardedCallsUndisturbed == GuardedCallKeepsGrants /\ FreezeStopsCalls

\* A call carries exactly the scopes recorded for its operations: a context that
\* was given up is not sent, and one that was reserved is not left out.
CallCarriesItsScopes ==
  \A c \in Callers : call[c].phase = "calling" =>
    \A o \in call[c].prepared : MembersOf(o) = Brought(c, o)

\* What a settled operation costs only ever falls, once, from the bound to the
\* known usage, and it stays settled.
SettledOnce(o) ==
  op[o].state \in Settled =>
    /\ op'[o].state \in Settled
    /\ op[o].actual # Unpriced => op'[o] = op[o]
    /\ op[o].actual = Unpriced => op'[o].actual <= op[o].bound

ChargesSettleOnce == [][\A o \in Ops : SettledOnce(o)]_vars

\* "Final effect locks cover only current scope grant": a reservation waits for
\* a call in progress only when the call uses the grant it asks for.
UnrelatedScopesContinue ==
  \A g \in Grants : grant[g].status = "active" /\ g \notin GrantsInUse => OwnerGrantsFree

=============================================================================
