------------------------- MODULE PolicyLedgerProofs -------------------------
(* Theorems about PolicyLedger, for any number of processes, operations,    *)
(* grants and windows. The sums of the budget windows need a little theory   *)
(* of their own, which comes first.                                         *)
EXTENDS PolicyLedger, FiniteSetTheorems, WellFoundedInduction, TLAPS

-----------------------------------------------------------------------------
(* Sums over a finite set. The fold of the community modules is a recursive  *)
(* function over the subsets of the set; it is shown to be the one additive  *)
(* measure on them, by taking a smallest subset where that would fail.       *)

Choice(s) == CHOOSE x \in s : TRUE

Sum(F, S) == MapThenSumSet(LAMBDA x : F[x], S)

Measures(F, S) ==
  {T \in [SUBSET S -> Nat] :
     /\ T[{}] = 0
     /\ \A s \in SUBSET S : \A x \in S \ s : T[s \cup {x}] = T[s] + F[x]}

Unfolds(g, F, S) ==
  \A s \in SUBSET S : g[s] = IF s = {} THEN 0 ELSE F[Choice(s)] + g[s \ {Choice(s)}]

-----------------------------------------------------------------------------
(* The rows of the tables and what a process remembers.                     *)

Grant == [status: {"none", "active", "expired", "revoked"},
          revision: 0..MaxRevision, quota: {0} \cup Quotas]
Window == [state: {"absent", "open", "closed"}, capacity: {0} \cup Capacities,
           reserved: Int, consumed: Int]
States == {"none", "reserved", "prepared", "cancelled"} \cup Settled
Operation == [state: States, bound: {0} \cup UpperBounds, actual: Nat \cup {Unpriced},
              windows: {{}} \cup Contexts]
Phases == {"idle", "preparing", "calling", "settling", "releasing", "reporting"}
Process == [phase: Phases, members: SUBSET Members, prepared: SUBSET Ops, todo: SUBSET Ops,
            outcome: Settled, guard: SUBSET Sessions]

\* As TypeOK, but for the balances, which a sum has to show not to be negative.
Typed ==
  /\ grant \in [Grants -> Grant]
  /\ used \in [Grants -> [1..MaxRevision -> Nat]]
  /\ window \in [Windows -> Window]
  /\ op \in [Ops -> Operation]
  /\ members \subseteq Members
  /\ minted \in 0..MaxMembers
  /\ held \in [Callers -> SUBSET Members]
  /\ call \in [Callers -> Process]
  /\ calls \in [Ops -> Nat]
  /\ frozen \in BOOLEAN

-----------------------------------------------------------------------------
(* The inductive invariant.                                                 *)

\* A grant that was registered has a revision, a window that was not has no capacity.
Registered ==
  /\ \A g \in Grants : grant[g].status # "none" => grant[g].revision # 0
  /\ \A w \in Windows : window[w].state = "absent" => window[w].capacity = 0

\* What the rows of an operation table hold and have spent of a window.
HoldingOf(rows, w) == {o \in Ops : w \in rows[o].windows /\ rows[o].state \in {"reserved", "prepared"}}
SpendingOf(rows, w) == {o \in Ops : w \in rows[o].windows /\ rows[o].state \in Settled}
Bounds(rows) == [o \in Ops |-> rows[o].bound]
Costs(rows) == [o \in Ops |-> IF rows[o].actual = Unpriced THEN rows[o].bound ELSE rows[o].actual]

Balanced ==
  \A w \in Windows :
    /\ IsFiniteSet(HoldingOf(op, w)) /\ IsFiniteSet(SpendingOf(op, w))
    /\ window[w].reserved = Sum(Bounds(op), HoldingOf(op, w))
    /\ window[w].consumed = Sum(Costs(op), SpendingOf(op, w))

\* What a process prepared is its own, used up, carries what the process brought, and
\* has not been called while it is still preparing.
Prepared ==
  /\ \A c \in Callers : \A o \in call[c].prepared :
       /\ op[o].state \in {"prepared"} \cup Settled
       /\ MembersOf(o) = Brought(c, o)
       /\ call[c].phase = "preparing" => calls[o] = 0
  /\ \A c, d \in Callers : \A o \in call[c].prepared \cap call[d].prepared : c = d

IInv ==
  /\ Typed /\ Registered /\ Balanced /\ CapacityRespected
  /\ Prepared /\ InvokedOnce /\ GuardedCallsUndisturbed

-----------------------------------------------------------------------------
(* Sums.                                                                    *)

\* A family of finite sets that is not empty has a smallest member.
LEMMA Smallest ==
  ASSUME NEW S, IsFiniteSet(S), NEW D \in SUBSET (SUBSET S), D # {}
  PROVE  \E s \in D : \A u \in D : ~(u \subseteq s /\ u # s)
<1>1. IsWellFoundedOn(StrictSubsetOrdering(S), FiniteSubsetsOf(S))
      BY FS_StrictSubsetOrderingWellFounded
<1>2. FiniteSubsetsOf(S) = SUBSET S
      BY FS_FiniteSubsetsOfFinite
<1>3. \E s \in D : \A u \in D : ~(<<u, s>> \in StrictSubsetOrdering(S))
      BY <1>1, <1>2, WFMin
<1> QED BY <1>3 DEF StrictSubsetOrdering

\* There is an additive measure: one for a set without an element is extended to it.
LEMMA MeasureExists ==
  ASSUME NEW S, IsFiniteSet(S), NEW F, \A x \in S : F[x] \in Nat
  PROVE  \E T : T \in Measures(F, S)
<1> SUFFICES ASSUME Measures(F, S) = {} PROVE FALSE
    OBVIOUS
<1> DEFINE D == {s \in SUBSET S : Measures(F, s) = {}}
<1>1. PICK s \in D : \A u \in D : ~(u \subseteq s /\ u # s)
  <2>1. S \in D
        OBVIOUS
  <2>2. D \in SUBSET (SUBSET S)
        OBVIOUS
  <2> HIDE DEF D
  <2> QED BY <2>1, <2>2, Smallest
<1>2. s # {}
  <2>1. [u \in SUBSET {} |-> 0] \in Measures(F, {})
        BY DEF Measures
  <2> QED BY <2>1
<1>3. PICK x \in s : TRUE
      BY <1>2
<1>4. PICK T : T \in Measures(F, s \ {x})
      BY <1>1
<1> DEFINE U == [u \in SUBSET s |-> IF x \in u THEN T[u \ {x}] + F[x] ELSE T[u]]
<1>5. U \in Measures(F, s)
  <2>1. T \in [SUBSET (s \ {x}) -> Nat] /\ T[{}] = 0
        BY <1>4 DEF Measures
  <2>2. \A u \in SUBSET s : U[u] \in Nat
        BY <2>1
  <2>3. U[{}] = 0
        BY <2>1
  <2>4. ASSUME NEW u \in SUBSET s, NEW y \in s \ u PROVE U[u \cup {y}] = U[u] + F[y]
    <3>1. CASE y = x
      <4>1. (u \cup {y}) \ {x} = u
            BY <3>1
      <4> QED BY <3>1, <4>1
    <3>2. CASE y # x /\ x \in u
      <4>1. (u \cup {y}) \ {x} = (u \ {x}) \cup {y}
            BY <3>2
      <4>2. T[(u \ {x}) \cup {y}] = T[u \ {x}] + F[y]
            BY <1>4, <3>2 DEF Measures
      <4>3. T[u \ {x}] \in Nat /\ F[x] \in Nat /\ F[y] \in Nat
            BY <2>1
      <4>4. U[u \cup {y}] = T[u \ {x}] + F[y] + F[x]
            BY <3>2, <4>1, <4>2
      <4>5. U[u] = T[u \ {x}] + F[x]
            BY <3>2
      <4> QED BY <4>3, <4>4, <4>5
    <3>3. CASE y # x /\ x \notin u
      <4>1. T[u \cup {y}] = T[u] + F[y]
            BY <1>4, <3>3 DEF Measures
      <4> QED BY <3>3, <4>1
    <3> QED BY <3>1, <3>2, <3>3
  <2>5. U \in [SUBSET s -> Nat]
        BY <2>2
  <2> HIDE DEF U
  <2> QED BY <2>3, <2>4, <2>5 DEF Measures
<1> QED BY <1>1, <1>5

LEMMA ChoiceIn ==
  ASSUME NEW s, s # {}
  PROVE  Choice(s) \in s
BY DEF Choice

\* The measure unfolds as the fold does, and it is the only one that does.
LEMMA MeasureUnfolds ==
  ASSUME NEW S, NEW F, \A x \in S : F[x] \in Nat, NEW T \in Measures(F, S)
  PROVE  Unfolds(T, F, S)
<1>1. ASSUME NEW s \in SUBSET S
      PROVE  T[s] = IF s = {} THEN 0 ELSE F[Choice(s)] + T[s \ {Choice(s)}]
  <2>1. CASE s = {}
        BY <2>1 DEF Measures
  <2>2. CASE s # {}
    <3>1. Choice(s) \in s
          BY <2>2, ChoiceIn
    <3>2. T[(s \ {Choice(s)}) \cup {Choice(s)}] = T[s \ {Choice(s)}] + F[Choice(s)]
          BY <3>1 DEF Measures
    <3>3. (s \ {Choice(s)}) \cup {Choice(s)} = s
          BY <3>1
    <3>4. T[s \ {Choice(s)}] \in Nat /\ F[Choice(s)] \in Nat
          BY <3>1 DEF Measures
    <3> QED BY <2>2, <3>2, <3>3, <3>4
  <2> QED BY <2>1, <2>2
<1> QED BY <1>1 DEF Unfolds

LEMMA UnfoldIsMeasure ==
  ASSUME NEW S, IsFiniteSet(S), NEW F, \A x \in S : F[x] \in Nat, NEW T \in Measures(F, S),
         NEW g, Unfolds(g, F, S)
  PROVE  g[S] = T[S]
<1> SUFFICES ASSUME g[S] # T[S] PROVE FALSE
    OBVIOUS
<1> DEFINE D == {s \in SUBSET S : g[s] # T[s]}
<1>1. PICK s \in D : \A u \in D : ~(u \subseteq s /\ u # s)
  <2>1. S \in D
        OBVIOUS
  <2>2. D \in SUBSET (SUBSET S)
        OBVIOUS
  <2> HIDE DEF D
  <2> QED BY <2>1, <2>2, Smallest
<1>2. Unfolds(T, F, S)
      BY MeasureUnfolds
<1>3. s # {} /\ s \in SUBSET S
      BY <1>2 DEF Unfolds
<1>4. Choice(s) \in s
      BY <1>3, ChoiceIn
<1>5. g[s \ {Choice(s)}] = T[s \ {Choice(s)}]
      BY <1>1, <1>3, <1>4
<1>6. g[s] = F[Choice(s)] + g[s \ {Choice(s)}] /\ T[s] = F[Choice(s)] + T[s \ {Choice(s)}]
      BY <1>2, <1>3 DEF Unfolds
<1> QED BY <1>1, <1>5, <1>6

\* A function that unfolds as the fold does is what the fold is, by its definition.
Unfolding(F, S, g) ==
  [s \in SUBSET S |-> IF s = {} THEN 0 ELSE F[Choice(s)] + g[s \ {Choice(s)}]]

LEMMA SumIsMeasure ==
  ASSUME NEW S, IsFiniteSet(S), NEW F, \A x \in S : F[x] \in Nat, NEW T \in Measures(F, S)
  PROVE  Sum(F, S) = T[S]
<1> DEFINE iter == CHOOSE g : g = Unfolding(F, S, g)
<1>1. Sum(F, S) = iter[S]
      BY DEF Sum, MapThenSumSet, MapThenFoldSet, Choice, Unfolding
<1>2. T = Unfolding(F, S, T)
  <2>1. T = [s \in SUBSET S |-> T[s]]
        BY DEF Measures
  <2>2. Unfolds(T, F, S)
        BY MeasureUnfolds
  <2>3. [s \in SUBSET S |-> T[s]] = Unfolding(F, S, T)
        BY <2>2 DEF Unfolds, Unfolding
  <2> QED BY <2>1, <2>3
<1>3. iter = Unfolding(F, S, iter)
      BY <1>2
<1> HIDE DEF iter
<1>4. Unfolds(iter, F, S)
      BY <1>3 DEF Unfolds, Unfolding
<1>5. iter[S] = T[S]
      BY <1>4, UnfoldIsMeasure
<1> QED BY <1>1, <1>5

\* What the sums of the ledger are calculated by.
LEMMA SumType ==
  ASSUME NEW S, IsFiniteSet(S), NEW F, \A x \in S : F[x] \in Nat
  PROVE  Sum(F, S) \in Nat
<1>1. PICK T : T \in Measures(F, S)
      BY MeasureExists
<1>2. Sum(F, S) = T[S]
      BY <1>1, SumIsMeasure
<1> QED BY <1>1, <1>2 DEF Measures

LEMMA SumEmpty == \A F : Sum(F, {}) = 0
<1> SUFFICES ASSUME NEW F PROVE Sum(F, {}) = 0
    OBVIOUS
<1>1. PICK T : T \in Measures(F, {})
      BY MeasureExists, FS_EmptySet
<1>2. Sum(F, {}) = T[{}]
      BY <1>1, SumIsMeasure, FS_EmptySet
<1> QED BY <1>1, <1>2 DEF Measures

LEMMA SumSame ==
  ASSUME NEW S, IsFiniteSet(S), NEW F, NEW G, \A x \in S : F[x] \in Nat /\ G[x] = F[x]
  PROVE  Sum(G, S) = Sum(F, S)
<1>1. PICK T : T \in Measures(F, S)
      BY MeasureExists
<1>2. T \in Measures(G, S)
      BY <1>1 DEF Measures
<1>3. \A x \in S : F[x] \in Nat
      OBVIOUS
<1>4. \A x \in S : G[x] \in Nat
      OBVIOUS
<1>5. Sum(F, S) = T[S]
      BY <1>1, <1>3, SumIsMeasure
<1>6. Sum(G, S) = T[S]
      BY <1>2, <1>4, SumIsMeasure
<1> QED BY <1>5, <1>6

LEMMA SumAdd ==
  ASSUME NEW S, IsFiniteSet(S), NEW x, x \notin S, NEW F, \A y \in S \cup {x} : F[y] \in Nat
  PROVE  Sum(F, S \cup {x}) = Sum(F, S) + F[x]
<1>1. IsFiniteSet(S \cup {x})
      BY FS_AddElement
<1>2. PICK T : T \in Measures(F, S \cup {x})
      BY <1>1, MeasureExists
<1>3. Sum(F, S \cup {x}) = T[S \cup {x}]
      BY <1>1, <1>2, SumIsMeasure
<1> DEFINE R == [s \in SUBSET S |-> T[s]]
<1>4. R \in Measures(F, S)
  <2>1. R \in [SUBSET S -> Nat] /\ R[{}] = 0
        BY <1>2 DEF Measures
  <2>2. ASSUME NEW s \in SUBSET S, NEW y \in S \ s PROVE R[s \cup {y}] = R[s] + F[y]
        BY <1>2 DEF Measures
  <2> HIDE DEF R
  <2> QED BY <2>1, <2>2 DEF Measures
<1>5. \A y \in S : F[y] \in Nat
      OBVIOUS
<1>6. Sum(F, S) = R[S]
  <2> HIDE DEF R
  <2> QED BY <1>4, <1>5, SumIsMeasure
<1>7. T[S \cup {x}] = T[S] + F[x]
      BY <1>2 DEF Measures
<1> QED BY <1>3, <1>6, <1>7

\* One weight changes, and with it perhaps whether it counts.
Counted(F, S, x) == IF x \in S THEN F[x] ELSE 0

LEMMA SumSplit ==
  ASSUME NEW S, IsFiniteSet(S), NEW x, NEW F, \A y \in S : F[y] \in Nat
  PROVE  /\ IsFiniteSet(S \ {x})
         /\ Sum(F, S) = Sum(F, S \ {x}) + Counted(F, S, x)
         /\ Sum(F, S \ {x}) \in Nat /\ Counted(F, S, x) \in Nat
<1>1. IsFiniteSet(S \ {x})
      BY FS_RemoveElement
<1>2. Sum(F, S \ {x}) \in Nat
      BY <1>1, SumType
<1>3. CASE x \in S
  <2>1. (S \ {x}) \cup {x} = S
        BY <1>3
  <2>2. Sum(F, (S \ {x}) \cup {x}) = Sum(F, S \ {x}) + F[x]
        BY <1>1, <1>3, SumAdd
  <2> QED BY <1>1, <1>2, <1>3, <2>1, <2>2 DEF Counted
<1>4. CASE x \notin S
  <2>1. S \ {x} = S
        BY <1>4
  <2>2. Sum(F, S \ {x}) = Sum(F, S)
        BY <2>1, Zenon
  <2>3. Counted(F, S, x) = 0
        BY <1>4 DEF Counted
  <2> QED BY <1>1, <1>2, <2>2, <2>3
<1> QED BY <1>3, <1>4

LEMMA SumChange ==
  ASSUME NEW S, IsFiniteSet(S), NEW R, NEW x, R \ {x} = S \ {x},
         NEW F, \A y \in S : F[y] \in Nat,
         NEW G, \A y \in R : G[y] \in Nat, \A y \in S \ {x} : G[y] = F[y]
  PROVE  /\ IsFiniteSet(R)
         /\ Sum(G, R) = Sum(F, S) - Counted(F, S, x) + Counted(G, R, x)
         /\ Sum(F, S) \in Nat /\ Counted(F, S, x) \in Nat /\ Counted(G, R, x) \in Nat
<1>1. IsFiniteSet(R)
  <2>1. IsFiniteSet((S \ {x}) \cup {x})
        BY FS_RemoveElement, FS_AddElement
  <2>2. R \in SUBSET ((S \ {x}) \cup {x})
        OBVIOUS
  <2> QED BY <2>1, <2>2, FS_Subset
<1>2. /\ Sum(F, S) = Sum(F, S \ {x}) + Counted(F, S, x)
      /\ Sum(F, S \ {x}) \in Nat /\ Counted(F, S, x) \in Nat
      BY SumSplit
<1>3. /\ Sum(G, R) = Sum(G, R \ {x}) + Counted(G, R, x)
      /\ Counted(G, R, x) \in Nat
      BY <1>1, SumSplit
<1>4. Sum(G, R \ {x}) = Sum(F, S \ {x})
  <2>1. IsFiniteSet(S \ {x}) /\ \A y \in S \ {x} : F[y] \in Nat /\ G[y] = F[y]
        BY FS_RemoveElement
  <2>2. Sum(G, S \ {x}) = Sum(F, S \ {x})
        BY <2>1, SumSame
  <2> QED BY <2>2
<1> HIDE DEF Counted
<1> QED BY <1>1, <1>2, <1>3, <1>4

\* The two sums of WindowsBalance, over the rows of an operation table.
CostOf(rows, o) == IF rows[o].actual = Unpriced THEN rows[o].bound ELSE rows[o].actual

HoldingUnfolding(rows, S, g) ==
  [s \in SUBSET S |-> IF s = {} THEN 0 ELSE rows[Choice(s)].bound + g[s \ {Choice(s)}]]
SpendingUnfolding(rows, S, g) ==
  [s \in SUBSET S |-> IF s = {} THEN 0 ELSE CostOf(rows, Choice(s)) + g[s \ {Choice(s)}]]

LEMMA RowTypes ==
  ASSUME NEW rows \in [Ops -> Operation], NEW o \in Ops
  PROVE  /\ Bounds(rows)[o] = rows[o].bound /\ rows[o].bound \in Nat
         /\ Costs(rows)[o] = CostOf(rows, o) /\ CostOf(rows, o) \in Nat
         /\ rows[o].state \in States
<1>1. rows[o] \in Operation
      OBVIOUS
<1>2. /\ rows[o].bound \in {0} \cup UpperBounds /\ rows[o].actual \in Nat \cup {Unpriced}
      /\ rows[o].state \in States
      BY <1>1 DEF Operation
<1>3. UpperBounds \subseteq Nat
      BY LedgerAssumption
<1>4. Bounds(rows)[o] = rows[o].bound /\ rows[o].bound \in Nat
  <2>1. Bounds(rows)[o] = rows[o].bound
        BY DEF Bounds
  <2>2. {0} \cup UpperBounds \subseteq Nat
        BY <1>3
  <2>3. rows[o].bound \in Nat
        BY <1>2, <2>2, Zenon
  <2> QED BY <2>1, <2>3
<1>5. Costs(rows)[o] = CostOf(rows, o)
      BY DEF Costs, CostOf
<1>6. CostOf(rows, o) \in Nat
      BY <1>2, <1>4 DEF CostOf
<1> QED BY <1>2, <1>4, <1>5, <1>6

LEMMA HoldingIsSum ==
  ASSUME NEW rows \in [Ops -> Operation], NEW S \in SUBSET Ops, IsFiniteSet(S)
  PROVE  MapThenSumSet(LAMBDA o : rows[o].bound, S) = Sum(Bounds(rows), S)
<1> DEFINE iter == CHOOSE g : g = HoldingUnfolding(rows, S, g)
           F == Bounds(rows)
<1>1. MapThenSumSet(LAMBDA o : rows[o].bound, S) = iter[S]
      BY DEF MapThenSumSet, MapThenFoldSet, Choice, HoldingUnfolding
<1>2. \A x \in S : F[x] \in Nat /\ F[x] = rows[x].bound
      BY RowTypes
<1> HIDE DEF F
<1>3. PICK T : T \in Measures(F, S)
      BY <1>2, MeasureExists
<1>4. T = HoldingUnfolding(rows, S, T)
  <2>1. T = [s \in SUBSET S |-> T[s]]
        BY <1>3 DEF Measures
  <2>2. Unfolds(T, F, S)
        BY <1>2, <1>3, MeasureUnfolds
  <2>3. \A s \in SUBSET S : s # {} => F[Choice(s)] = rows[Choice(s)].bound
        BY <1>2, ChoiceIn
  <2>4. [s \in SUBSET S |-> T[s]] = HoldingUnfolding(rows, S, T)
        BY <2>2, <2>3 DEF Unfolds, HoldingUnfolding
  <2> QED BY <2>1, <2>4
<1>5. iter = HoldingUnfolding(rows, S, iter)
      BY <1>4
<1> HIDE DEF iter
<1>6. Unfolds(iter, F, S)
  <2>1. \A s \in SUBSET S : s # {} => F[Choice(s)] = rows[Choice(s)].bound
        BY <1>2, ChoiceIn
  <2> QED BY <1>5, <2>1 DEF Unfolds, HoldingUnfolding
<1>7. iter[S] = T[S] /\ Sum(F, S) = T[S]
      BY <1>2, <1>3, <1>6, UnfoldIsMeasure, SumIsMeasure
<1> QED BY <1>1, <1>7 DEF F

LEMMA SpendingIsSum ==
  ASSUME NEW rows \in [Ops -> Operation], NEW S \in SUBSET Ops, IsFiniteSet(S)
  PROVE  MapThenSumSet(LAMBDA o : CostOf(rows, o), S) = Sum(Costs(rows), S)
<1> DEFINE iter == CHOOSE g : g = SpendingUnfolding(rows, S, g)
           F == Costs(rows)
<1>1. MapThenSumSet(LAMBDA o : CostOf(rows, o), S) = iter[S]
      BY DEF MapThenSumSet, MapThenFoldSet, Choice, SpendingUnfolding
<1>2. \A x \in S : F[x] \in Nat /\ F[x] = CostOf(rows, x)
      BY RowTypes
<1> HIDE DEF F
<1>3. PICK T : T \in Measures(F, S)
      BY <1>2, MeasureExists
<1>4. T = SpendingUnfolding(rows, S, T)
  <2>1. T = [s \in SUBSET S |-> T[s]]
        BY <1>3 DEF Measures
  <2>2. Unfolds(T, F, S)
        BY <1>2, <1>3, MeasureUnfolds
  <2>3. \A s \in SUBSET S : s # {} => F[Choice(s)] = CostOf(rows, Choice(s))
        BY <1>2, ChoiceIn
  <2>4. [s \in SUBSET S |-> T[s]] = SpendingUnfolding(rows, S, T)
        BY <2>2, <2>3 DEF Unfolds, SpendingUnfolding
  <2> QED BY <2>1, <2>4
<1>5. iter = SpendingUnfolding(rows, S, iter)
      BY <1>4
<1> HIDE DEF iter
<1>6. Unfolds(iter, F, S)
  <2>1. \A s \in SUBSET S : s # {} => F[Choice(s)] = CostOf(rows, Choice(s))
        BY <1>2, ChoiceIn
  <2> QED BY <1>5, <2>1 DEF Unfolds, SpendingUnfolding
<1>7. iter[S] = T[S] /\ Sum(F, S) = T[S]
      BY <1>2, <1>3, <1>6, UnfoldIsMeasure, SumIsMeasure
<1> QED BY <1>1, <1>7 DEF F

LEMMA BalanceIsSum ==
  ASSUME Typed, Balanced, NEW w \in Windows
  PROVE  /\ window[w].reserved = MapThenSumSet(LAMBDA o : op[o].bound, Holding(w))
         /\ window[w].consumed = MapThenSumSet(Spent, Spending(w))
<1>1. Holding(w) = HoldingOf(op, w) /\ Spending(w) = SpendingOf(op, w)
      BY DEF Holding, HoldingOf, Spending, SpendingOf
<1>2. MapThenSumSet(LAMBDA o : op[o].bound, HoldingOf(op, w)) = Sum(Bounds(op), HoldingOf(op, w))
      BY HoldingIsSum DEF Typed, Balanced, HoldingOf
<1>3. MapThenSumSet(LAMBDA o : CostOf(op, o), SpendingOf(op, w)) = Sum(Costs(op), SpendingOf(op, w))
      BY SpendingIsSum DEF Typed, Balanced, SpendingOf
<1>4. MapThenSumSet(LAMBDA o : CostOf(op, o), SpendingOf(op, w)) = MapThenSumSet(Spent, SpendingOf(op, w))
      BY DEF CostOf, Spent, MapThenSumSet, MapThenFoldSet
<1> QED BY <1>1, <1>2, <1>3, <1>4 DEF Balanced

-----------------------------------------------------------------------------
(* What a step does to the operations and the windows.                      *)

\* An operation is reserved, given up, prepared, or settled.
Reserved(o, ctx, n) ==
  /\ op[o].state = "none"
  /\ Fits(ctx, n)
  /\ window' = Charge(ctx, n, 0)
  /\ op' = [op EXCEPT ![o] = [state |-> "reserved", bound |-> n, actual |-> Unpriced, windows |-> ctx]]

GivenUp(o) ==
  /\ op[o].state = "reserved"
  /\ window' = Charge(op[o].windows, -op[o].bound, 0)
  /\ op' = [op EXCEPT ![o].state = "cancelled"]

MadeReady(o) ==
  /\ op[o].state = "reserved"
  /\ window' = window
  /\ op' = [op EXCEPT ![o].state = "prepared"]

SettledTable(o, outcome, actual) == [op EXCEPT ![o].state = outcome, ![o].actual = actual]

FirstSettled(o, outcome, actual) ==
  /\ op[o].state = "prepared"
  /\ ~Conflicts(o, actual)
  /\ window' = Charge(op[o].windows, -op[o].bound, IF actual = Unpriced THEN op[o].bound ELSE actual)
  /\ op' = SettledTable(o, outcome, actual)

Repriced(o, outcome, actual) ==
  /\ op[o].state \in Settled /\ actual # Unpriced /\ op[o].actual = Unpriced
  /\ ~Conflicts(o, actual)
  /\ window' = Charge(op[o].windows, 0, actual - op[o].bound)
  /\ op' = SettledTable(o, outcome, actual)

Moves ==
  \/ \E w \in Windows : ConfigureWindow(w) \/ CloseWindow(w)
  \/ \E o \in Ops, ctx \in Contexts, n \in UpperBounds : Reserved(o, ctx, n)
  \/ \E o \in Ops : GivenUp(o) \/ MadeReady(o)
  \/ \E o \in Ops, outcome \in Settled, actual \in Nat \cup {Unpriced} :
       FirstSettled(o, outcome, actual) \/ Repriced(o, outcome, actual)
  \/ UNCHANGED <<window, op>>

LEMMA SettleMoves ==
  ASSUME NEW o \in Ops, NEW outcome \in Settled, NEW actual \in Nat \cup {Unpriced},
         SettleOp(o, outcome, actual)
  PROVE  \/ FirstSettled(o, outcome, actual) \/ Repriced(o, outcome, actual)
         \/ UNCHANGED <<window, op>>
<1>1. ~Conflicts(o, actual) /\ op[o].state \in {"prepared"} \cup Settled
      BY DEF SettleOp, Conflicts
<1>2. CASE op[o].state = "prepared"
      BY <1>1, <1>2 DEF SettleOp, FirstSettled, SettledTable, Settled
<1>3. CASE op[o].state \in Settled /\ (actual = Unpriced \/ op[o].actual # Unpriced)
      BY <1>3 DEF SettleOp
<1>4. CASE op[o].state \in Settled /\ actual # Unpriced /\ op[o].actual = Unpriced
      BY <1>1, <1>4 DEF SettleOp, Repriced, SettledTable, Settled
<1> QED BY <1>1, <1>2, <1>3, <1>4

LEMMA HeldIsMember ==
  ASSUME Typed, NEW c \in Callers, NEW m \in held[c]
  PROVE  m \in Members /\ m.op \in Ops /\ m.grant \in Grants
BY DEF Typed, Members

LEMMA CallerMoves ==
  ASSUME Typed, NEW c \in Callers, Caller(c)
  PROVE  Moves
<1>1. ASSUME NEW o \in Ops, NEW k \in Kinds, ReserveOperation(c, o, k)
      PROVE  Moves
  <2>1. PICK ctx \in Contexts, n \in UpperBounds :
          /\ Fits(ctx, n)
          /\ window' = Charge(ctx, n, 0)
          /\ op' = [op EXCEPT ![o] = [state |-> "reserved", bound |-> n, actual |-> Unpriced, windows |-> ctx]]
        BY <1>1 DEF ReserveOperation
  <2>2. op[o].state = "none"
        BY <1>1 DEF ReserveOperation
  <2> QED BY <2>1, <2>2 DEF Moves, Reserved
<1>2. ASSUME NEW m \in held[c], Abandon(c, m)
      PROVE  Moves
      BY <1>2, HeldIsMember DEF Abandon, GivenUp, Moves, ledger
<1>3. ASSUME NEW o \in Ops, Prepare(c, o) \/ PrepareFails(c, o)
      PROVE  Moves
      BY <1>3 DEF Prepare, PrepareFails, CanPrepare, MadeReady, Moves
<1>4. ASSUME NEW o \in Ops, Settle(c, o)
      PROVE  Moves
  <2>1. call[c].outcome \in Settled
        BY DEF Typed, Process
  <2>2. SettleOp(o, call[c].outcome, Unpriced)
        BY <1>4 DEF Settle
  <2> QED BY <2>1, <2>2, SettleMoves DEF Moves
<1>5. ASSUME NEW o \in Ops, ReportUsage(c, o)
      PROVE  Moves
  <2>1. op[o].bound \in Nat
        BY RowTypes DEF Typed
  <2>2. PICK outcome \in Settled, actual \in 0..(op[o].bound + 1) : SettleOp(o, outcome, actual)
        BY <1>5 DEF ReportUsage
  <2>3. actual \in Nat \cup {Unpriced}
        BY <2>1
  <2> QED BY <2>2, <2>3, SettleMoves DEF Moves
<1>6. ASSUME UNCHANGED <<window, op>> PROVE Moves
      BY <1>6 DEF Moves
<1>7. ASSUME NEW o \in Ops, NEW k \in Kinds, ReserveComplement(c, o, k)
      PROVE  UNCHANGED <<window, op>>
      BY <1>7 DEF ReserveComplement
<1>8. ASSUME NEW m \in held[c], AbandonFails(c, m)
      PROVE  UNCHANGED <<window, op>>
      BY <1>8 DEF AbandonFails, ledger
<1>9. ASSUME NEW ms \in SUBSET held[c], StartCall(c, ms)
      PROVE  UNCHANGED <<window, op>>
      BY <1>9 DEF StartCall, ledger
<1>10. ASSUME NEW s \in Sessions, LoseGuard(c, s)
      PROVE  UNCHANGED <<window, op>>
      BY <1>10 DEF LoseGuard, ledger
<1>11. ASSUME NEW outcome \in Settled, EndCall(c, outcome)
      PROVE  UNCHANGED <<window, op>>
      BY <1>11 DEF EndCall, ledger
<1>12. ASSUME NEW o \in Ops, SettleFails(c, o)
      PROVE  UNCHANGED <<window, op>>
      BY <1>12 DEF SettleFails, ledger
<1>13. CASE \/ BeginCall(c) \/ BeginDenied(c) \/ FinishSettling(c) \/ FinishReleasing(c)
            \/ FinishCall(c) \/ Crash(c)
  <2>1. UNCHANGED <<window, op>>
        BY <1>13 DEF BeginCall, BeginDenied, FinishSettling, FinishReleasing, FinishCall, Crash, ledger
  <2> QED BY <1>6, <2>1
<1> QED BY <1>1, <1>2, <1>3, <1>4, <1>5, <1>6, <1>7, <1>8, <1>9, <1>10, <1>11, <1>12, <1>13 DEF Caller

LEMMA LedgerMoves == Typed /\ [Next]_vars => Moves
<1> SUFFICES ASSUME Typed, [Next]_vars PROVE Moves
    OBVIOUS
<1>1. ASSUME NEW c \in Callers, Caller(c) PROVE Moves
      BY <1>1, CallerMoves
<1>2. CASE Owner
      BY <1>2 DEF Owner, RegisterGrant, ReplaceGrant, RevokeGrant, ExpireGrant, SetFrozen, ledger, Moves
<1>3. CASE UNCHANGED vars
      BY <1>3 DEF vars, ledger, Moves
<1> QED BY <1>1, <1>2, <1>3 DEF Next

\* What a charge leaves in a window.
LEMMA ChargeLeaves ==
  ASSUME Typed, NEW ctx, NEW hold \in Int, NEW spend \in Int, NEW w \in Windows
  PROVE  /\ Charge(ctx, hold, spend)[w] \in Window
         /\ Charge(ctx, hold, spend)[w].state = window[w].state
         /\ Charge(ctx, hold, spend)[w].capacity = window[w].capacity
         /\ Charge(ctx, hold, spend)[w].reserved
              = IF w \in ctx THEN window[w].reserved + hold ELSE window[w].reserved
         /\ Charge(ctx, hold, spend)[w].consumed
              = IF w \in ctx THEN window[w].consumed + spend ELSE window[w].consumed
<1>1. window[w] \in Window
      BY DEF Typed
<1> DEFINE held1 == [window[w] EXCEPT !.reserved = @ + hold]
           row == [window[w] EXCEPT !.reserved = @ + hold, !.consumed = @ + spend]
<1>2. Charge(ctx, hold, spend)[w] = IF w \in ctx THEN row ELSE window[w]
      BY DEF Charge
<1>3. /\ held1 \in Window /\ held1.state = window[w].state /\ held1.capacity = window[w].capacity
      /\ held1.reserved = window[w].reserved + hold /\ window[w].consumed \in Int
      BY <1>1 DEF Window
<1>4. row = [held1 EXCEPT !.consumed = window[w].consumed + spend]
      OBVIOUS
<1> HIDE DEF held1, row
<1>5. /\ row \in Window /\ row.state = window[w].state /\ row.capacity = window[w].capacity
      /\ row.reserved = window[w].reserved + hold /\ row.consumed = window[w].consumed + spend
      BY <1>3, <1>4 DEF Window
<1> QED BY <1>1, <1>2, <1>5

LEMMA ChargeType ==
  ASSUME Typed, NEW ctx, NEW hold \in Int, NEW spend \in Int
  PROVE  Charge(ctx, hold, spend) \in [Windows -> Window]
<1>1. \A w \in Windows : Charge(ctx, hold, spend)[w] \in Window
      BY ChargeLeaves
<1>2. Charge(ctx, hold, spend) = [w \in Windows |-> Charge(ctx, hold, spend)[w]]
      BY DEF Charge
<1> QED BY <1>1, <1>2

\* What a settlement leaves in an operation.
LEMMA SettlementLeaves ==
  ASSUME Typed, NEW o \in Ops, NEW outcome \in Settled, NEW actual \in Nat \cup {Unpriced},
         op' = SettledTable(o, outcome, actual)
  PROVE  /\ op' \in [Ops -> Operation]
         /\ op'[o].state = outcome /\ op'[o].actual = actual
         /\ op'[o].bound = op[o].bound /\ op'[o].windows = op[o].windows
         /\ \A p \in Ops \ {o} : op'[p] = op[p]
<1> DEFINE half == [op EXCEPT ![o].state = outcome]
<1>1. op \in [Ops -> Operation]
      BY DEF Typed
<1>2. /\ half \in [Ops -> Operation]
      /\ half[o].state = outcome /\ half[o].bound = op[o].bound /\ half[o].windows = op[o].windows
      /\ \A p \in Ops \ {o} : half[p] = op[p]
      BY <1>1 DEF Operation, States
<1>3. op' = [half EXCEPT ![o].actual = actual]
      BY DEF SettledTable
<1> HIDE DEF half
<1> DEFINE row == [half[o] EXCEPT !.actual = actual]
<1>4. /\ row \in Operation
      /\ row.state = half[o].state /\ row.actual = actual
      /\ row.bound = half[o].bound /\ row.windows = half[o].windows
  <2>1. half[o] \in Operation
        BY <1>2
  <2> QED BY <2>1 DEF Operation
<1>5. op' = [half EXCEPT ![o] = row]
      BY <1>3
<1> HIDE DEF row
<1> QED BY <1>2, <1>4, <1>5

\* A window opens or closes; its balance stays.
LEMMA WindowOpens ==
  ASSUME Typed, NEW v \in Windows, ConfigureWindow(v) \/ CloseWindow(v)
  PROVE  /\ window' \in [Windows -> Window] /\ op' = op
         /\ \A w \in Windows : /\ window'[w].reserved = window[w].reserved
                              /\ window'[w].consumed = window[w].consumed
         /\ \A w \in Windows : \/ window'[w] = window[w]
                              \/ /\ window[w].state = "absent"
                                 /\ window'[w].state = "open"
                              \/ /\ window[w].state = "open" /\ window'[w].state = "closed"
                                 /\ window'[w].capacity = window[w].capacity
<1>0. window \in [Windows -> Window]
      BY DEF Typed
<1>1. CASE CloseWindow(v)
  <2> DEFINE row == [window[v] EXCEPT !.state = "closed"]
  <2>1. window[v] \in Window
        BY <1>0
  <2>2. /\ row \in Window /\ row.state = "closed" /\ row.capacity = window[v].capacity
        /\ row.reserved = window[v].reserved /\ row.consumed = window[v].consumed
        BY <2>1 DEF Window
  <2>3. window[v].state = "open" /\ op' = op /\ window' = [window EXCEPT ![v] = row]
        BY <1>1 DEF CloseWindow
  <2> HIDE DEF row
  <2>4. window' \in [Windows -> Window] /\ window'[v] = row
        BY <1>0, <2>2, <2>3
  <2>5. \A w \in Windows \ {v} : window'[w] = window[w]
        BY <1>0, <2>3
  <2>6. ASSUME NEW w \in Windows
        PROVE  /\ window'[w].reserved = window[w].reserved /\ window'[w].consumed = window[w].consumed
               /\ \/ window'[w] = window[w]
                  \/ /\ window[w].state = "open" /\ window'[w].state = "closed"
                     /\ window'[w].capacity = window[w].capacity
    <3>1. CASE w = v
          BY <2>2, <2>3, <2>4, <3>1
    <3>2. CASE w # v
          BY <2>5, <3>2
    <3> QED BY <3>1, <3>2
  <2>7. \A w \in Windows : \/ window'[w] = window[w]
                           \/ /\ window[w].state = "absent"
                              /\ window'[w].state = "open"
                           \/ /\ window[w].state = "open" /\ window'[w].state = "closed"
                              /\ window'[w].capacity = window[w].capacity
        BY <2>6
  <2>8. \A w \in Windows : window'[w].reserved = window[w].reserved /\ window'[w].consumed = window[w].consumed
        BY <2>6
  <2> QED BY <2>3, <2>4, <2>7, <2>8, Zenon
<1>2. CASE ConfigureWindow(v)
  <2>1. PICK n \in Capacities : window' = [window EXCEPT ![v].state = "open", ![v].capacity = n]
        BY <1>2 DEF ConfigureWindow
  <2> DEFINE half == [window EXCEPT ![v].state = "open"]
  <2>2. /\ half \in [Windows -> Window] /\ half[v].state = "open"
        /\ \A w \in Windows : /\ half[w].reserved = window[w].reserved
                             /\ half[w].consumed = window[w].consumed
        /\ \A w \in Windows \ {v} : half[w] = window[w]
        BY <1>0 DEF Window
  <2>3. window' = [half EXCEPT ![v].capacity = n]
        BY <2>1
  <2> HIDE DEF half
  <2>4. /\ window' \in [Windows -> Window] /\ window'[v].state = "open"
        /\ \A w \in Windows : /\ window'[w].reserved = half[w].reserved
                             /\ window'[w].consumed = half[w].consumed
        /\ \A w \in Windows \ {v} : window'[w] = half[w]
        BY <2>2, <2>3 DEF Window
  <2>5. window[v].state = "absent" /\ op' = op
        BY <1>2 DEF ConfigureWindow
  <2>6. ASSUME NEW w \in Windows
        PROVE  \/ window'[w] = window[w]
               \/ /\ window[w].state = "absent"
                  /\ window'[w].state = "open"
    <3>1. CASE w = v
          BY <2>4, <2>5, <3>1
    <3>2. CASE w # v
          BY <2>2, <2>4, <3>2
    <3> QED BY <3>1, <3>2
  <2>7. \A w \in Windows : window'[w].reserved = window[w].reserved /\ window'[w].consumed = window[w].consumed
        BY <2>2, <2>4
  <2>8. \A w \in Windows : \/ window'[w] = window[w]
                           \/ /\ window[w].state = "absent"
                              /\ window'[w].state = "open"
                           \/ /\ window[w].state = "open" /\ window'[w].state = "closed"
                              /\ window'[w].capacity = window[w].capacity
        BY <2>6
  <2> QED BY <2>4, <2>5, <2>7, <2>8, Zenon
<1> QED BY <1>1, <1>2

LEMMA MovesType == Typed /\ Moves => window' \in [Windows -> Window] /\ op' \in [Ops -> Operation]
<1> SUFFICES ASSUME Typed, Moves PROVE window' \in [Windows -> Window] /\ op' \in [Ops -> Operation]
    OBVIOUS
<1>0. op \in [Ops -> Operation] /\ window \in [Windows -> Window]
      BY DEF Typed
<1>1. ASSUME NEW w \in Windows, ConfigureWindow(w) \/ CloseWindow(w)
      PROVE  window' \in [Windows -> Window] /\ op' \in [Ops -> Operation]
      BY <1>0, <1>1, WindowOpens
<1>2. ASSUME NEW o \in Ops, NEW ctx \in Contexts, NEW n \in UpperBounds, Reserved(o, ctx, n)
      PROVE  window' \in [Windows -> Window] /\ op' \in [Ops -> Operation]
  <2>1. n \in Int
        BY LedgerAssumption
  <2>2. [state |-> "reserved", bound |-> n, actual |-> Unpriced, windows |-> ctx] \in Operation
        BY DEF Operation, States
  <2> QED BY <1>0, <1>2, <2>1, <2>2, ChargeType DEF Reserved
<1>3. ASSUME NEW o \in Ops, GivenUp(o) \/ MadeReady(o)
      PROVE  window' \in [Windows -> Window] /\ op' \in [Ops -> Operation]
  <2>1. -op[o].bound \in Int
        BY <1>0, RowTypes
  <2>2. op' \in [Ops -> Operation]
        BY <1>0, <1>3 DEF GivenUp, MadeReady, Operation, States
  <2>3. Charge(op[o].windows, -op[o].bound, 0) \in [Windows -> Window]
        BY <2>1, ChargeType
  <2> QED BY <1>0, <1>3, <2>2, <2>3 DEF GivenUp, MadeReady
<1>4. ASSUME NEW o \in Ops, NEW outcome \in Settled, NEW actual \in Nat \cup {Unpriced},
             FirstSettled(o, outcome, actual) \/ Repriced(o, outcome, actual)
      PROVE  window' \in [Windows -> Window] /\ op' \in [Ops -> Operation]
  <2>1. op[o].bound \in Nat
        BY <1>0, RowTypes
  <2>2. actual # Unpriced => actual \in Nat
        OBVIOUS
  <2>3. /\ -op[o].bound \in Int
        /\ (IF actual = Unpriced THEN op[o].bound ELSE actual) \in Int
        /\ actual # Unpriced => actual - op[o].bound \in Int
        BY <2>1, <2>2
  <2>4. window' \in [Windows -> Window]
    <3>1. Charge(op[o].windows, -op[o].bound, IF actual = Unpriced THEN op[o].bound ELSE actual)
            \in [Windows -> Window]
          BY <2>3, ChargeType
    <3>2. actual # Unpriced => Charge(op[o].windows, 0, actual - op[o].bound) \in [Windows -> Window]
          BY <2>3, ChargeType
    <3> QED BY <1>4, <3>1, <3>2 DEF FirstSettled, Repriced
  <2>5. op' \in [Ops -> Operation]
        BY <1>4, SettlementLeaves DEF FirstSettled, Repriced
  <2> QED BY <2>4, <2>5
<1> QED BY <1>0, <1>1, <1>2, <1>3, <1>4 DEF Moves

\* What one operation holds and has spent of a window.
HeldFor(rows, w, o) ==
  IF w \in rows[o].windows /\ rows[o].state \in {"reserved", "prepared"} THEN rows[o].bound ELSE 0
SpentFor(rows, w, o) ==
  IF w \in rows[o].windows /\ rows[o].state \in Settled THEN CostOf(rows, o) ELSE 0

LEMMA OneRowChanges ==
  ASSUME NEW old \in [Ops -> Operation], NEW new \in [Ops -> Operation], NEW o \in Ops,
         \A p \in Ops \ {o} : new[p] = old[p], NEW w \in Windows,
         IsFiniteSet(HoldingOf(old, w)), IsFiniteSet(SpendingOf(old, w))
  PROVE  /\ IsFiniteSet(HoldingOf(new, w)) /\ IsFiniteSet(SpendingOf(new, w))
         /\ Sum(Bounds(new), HoldingOf(new, w))
              = Sum(Bounds(old), HoldingOf(old, w)) - HeldFor(old, w, o) + HeldFor(new, w, o)
         /\ Sum(Costs(new), SpendingOf(new, w))
              = Sum(Costs(old), SpendingOf(old, w)) - SpentFor(old, w, o) + SpentFor(new, w, o)
<1>1. /\ \A p \in Ops : Bounds(old)[p] \in Nat /\ Bounds(new)[p] \in Nat
      /\ \A p \in Ops : Costs(old)[p] \in Nat /\ Costs(new)[p] \in Nat
      BY RowTypes
<1>2. \A p \in Ops \ {o} : Bounds(new)[p] = Bounds(old)[p] /\ Costs(new)[p] = Costs(old)[p]
      BY DEF Bounds, Costs
<1>3. HoldingOf(new, w) \ {o} = HoldingOf(old, w) \ {o} /\ HoldingOf(old, w) \subseteq Ops
      BY DEF HoldingOf
<1>4. SpendingOf(new, w) \ {o} = SpendingOf(old, w) \ {o} /\ SpendingOf(old, w) \subseteq Ops
      BY DEF SpendingOf
<1>5. /\ Counted(Bounds(old), HoldingOf(old, w), o) = HeldFor(old, w, o)
      /\ Counted(Bounds(new), HoldingOf(new, w), o) = HeldFor(new, w, o)
      BY DEF Counted, HoldingOf, HeldFor, Bounds
<1>6. /\ Counted(Costs(old), SpendingOf(old, w), o) = SpentFor(old, w, o)
      /\ Counted(Costs(new), SpendingOf(new, w), o) = SpentFor(new, w, o)
      BY DEF Counted, SpendingOf, SpentFor, Costs, CostOf
<1>7. /\ IsFiniteSet(HoldingOf(new, w))
      /\ Sum(Bounds(new), HoldingOf(new, w))
           = Sum(Bounds(old), HoldingOf(old, w)) - Counted(Bounds(old), HoldingOf(old, w), o)
               + Counted(Bounds(new), HoldingOf(new, w), o)
  <2>1. HoldingOf(new, w) \subseteq Ops
        BY DEF HoldingOf
  <2> HIDE DEF Bounds, HoldingOf
  <2> QED BY <1>1, <1>2, <1>3, <2>1, SumChange
<1>8. /\ IsFiniteSet(SpendingOf(new, w))
      /\ Sum(Costs(new), SpendingOf(new, w))
           = Sum(Costs(old), SpendingOf(old, w)) - Counted(Costs(old), SpendingOf(old, w), o)
               + Counted(Costs(new), SpendingOf(new, w), o)
  <2>1. SpendingOf(new, w) \subseteq Ops
        BY DEF SpendingOf
  <2> QED BY <1>1, <1>2, <1>4, <2>1, SumChange
<1> QED BY <1>5, <1>6, <1>7, <1>8

\* So a window whose counters change by what the row holds and has spent stays balanced.
BalancedAt(rows, table, w) ==
  /\ IsFiniteSet(HoldingOf(rows, w)) /\ IsFiniteSet(SpendingOf(rows, w))
  /\ table[w].reserved = Sum(Bounds(rows), HoldingOf(rows, w))
  /\ table[w].consumed = Sum(Costs(rows), SpendingOf(rows, w))

LEMMA BalanceMoves ==
  ASSUME Typed, Balanced, NEW o \in Ops, op' \in [Ops -> Operation],
         \A p \in Ops \ {o} : op'[p] = op[p], NEW w \in Windows,
         window'[w].reserved = window[w].reserved - HeldFor(op, w, o) + HeldFor(op', w, o),
         window'[w].consumed = window[w].consumed - SpentFor(op, w, o) + SpentFor(op', w, o)
  PROVE  BalancedAt(op', window', w)
<1>1. op \in [Ops -> Operation] /\ BalancedAt(op, window, w)
      BY DEF Typed, Balanced, BalancedAt
<1>2. /\ IsFiniteSet(HoldingOf(op', w)) /\ IsFiniteSet(SpendingOf(op', w))
      /\ Sum(Bounds(op'), HoldingOf(op', w))
           = Sum(Bounds(op), HoldingOf(op, w)) - HeldFor(op, w, o) + HeldFor(op', w, o)
      /\ Sum(Costs(op'), SpendingOf(op', w))
           = Sum(Costs(op), SpendingOf(op, w)) - SpentFor(op, w, o) + SpentFor(op', w, o)
      BY <1>1, OneRowChanges DEF BalancedAt
<1> QED BY <1>1, <1>2 DEF BalancedAt

LEMMA BalanceStep == Typed /\ Balanced /\ Moves => Balanced'
<1> SUFFICES ASSUME Typed, Balanced, Moves, NEW w \in Windows PROVE BalancedAt(op', window', w)
    BY DEF Balanced, BalancedAt
<1>0. /\ op \in [Ops -> Operation] /\ op' \in [Ops -> Operation]
      /\ window[w].reserved \in Int /\ window[w].consumed \in Int
      BY MovesType DEF Typed, Window
<1>1. ASSUME op' = op, window'[w].reserved = window[w].reserved, window'[w].consumed = window[w].consumed
      PROVE  BalancedAt(op', window', w)
      BY <1>1 DEF Balanced, BalancedAt
<1>2. ASSUME NEW v \in Windows, ConfigureWindow(v) \/ CloseWindow(v)
      PROVE  BalancedAt(op', window', w)
  <2>1. op' = op /\ window'[w].reserved = window[w].reserved /\ window'[w].consumed = window[w].consumed
        BY <1>2, WindowOpens
  <2> QED BY <1>1, <2>1
<1>3. ASSUME NEW o \in Ops, NEW ctx \in Contexts, NEW n \in UpperBounds, Reserved(o, ctx, n)
      PROVE  BalancedAt(op', window', w)
  <2>1. n \in Int /\ n \in Nat
        BY LedgerAssumption
  <2>2. /\ window'[w].reserved = IF w \in ctx THEN window[w].reserved + n ELSE window[w].reserved
        /\ window'[w].consumed = IF w \in ctx THEN window[w].consumed + 0 ELSE window[w].consumed
        BY <1>3, <2>1, ChargeLeaves DEF Reserved
  <2>3. /\ op'[o] = [state |-> "reserved", bound |-> n, actual |-> Unpriced, windows |-> ctx]
        /\ \A p \in Ops \ {o} : op'[p] = op[p]
        BY <1>0, <1>3 DEF Reserved
  <2>4. /\ HeldFor(op, w, o) = 0 /\ HeldFor(op', w, o) = (IF w \in ctx THEN n ELSE 0)
        /\ SpentFor(op, w, o) = 0 /\ SpentFor(op', w, o) = 0
        BY <1>3, <2>3 DEF Reserved, HeldFor, SpentFor, Settled
  <2>5. /\ window'[w].reserved = window[w].reserved - HeldFor(op, w, o) + HeldFor(op', w, o)
        /\ window'[w].consumed = window[w].consumed - SpentFor(op, w, o) + SpentFor(op', w, o)
        BY <1>0, <2>1, <2>2, <2>4
  <2> QED BY <1>0, <2>3, <2>5, BalanceMoves
<1>4. ASSUME NEW o \in Ops, GivenUp(o) PROVE BalancedAt(op', window', w)
  <2>1. op[o].bound \in Nat /\ -op[o].bound \in Int
        BY <1>0, RowTypes
  <2>2. /\ window'[w].reserved
             = IF w \in op[o].windows THEN window[w].reserved + (-op[o].bound) ELSE window[w].reserved
        /\ window'[w].consumed = IF w \in op[o].windows THEN window[w].consumed + 0 ELSE window[w].consumed
    <3>1. /\ Charge(op[o].windows, -op[o].bound, 0)[w].reserved
               = IF w \in op[o].windows THEN window[w].reserved + (-op[o].bound) ELSE window[w].reserved
          /\ Charge(op[o].windows, -op[o].bound, 0)[w].consumed
               = IF w \in op[o].windows THEN window[w].consumed + 0 ELSE window[w].consumed
          BY <2>1, ChargeLeaves
    <3> QED BY <1>4, <3>1 DEF GivenUp
  <2>3. /\ op'[o].state = "cancelled" /\ op[o].state = "reserved"
        /\ \A p \in Ops \ {o} : op'[p] = op[p]
        BY <1>0, <1>4 DEF GivenUp, Operation
  <2>4. /\ HeldFor(op, w, o) = (IF w \in op[o].windows THEN op[o].bound ELSE 0) /\ HeldFor(op', w, o) = 0
        /\ SpentFor(op, w, o) = 0 /\ SpentFor(op', w, o) = 0
        BY <2>3 DEF HeldFor, SpentFor, Settled
  <2>5. /\ window'[w].reserved = window[w].reserved - HeldFor(op, w, o) + HeldFor(op', w, o)
        /\ window'[w].consumed = window[w].consumed - SpentFor(op, w, o) + SpentFor(op', w, o)
        BY <1>0, <2>1, <2>2, <2>4
  <2> QED BY <1>0, <2>3, <2>5, BalanceMoves
<1>5. ASSUME NEW o \in Ops, MadeReady(o) PROVE BalancedAt(op', window', w)
  <2>1. op[o].bound \in Nat
        BY <1>0, RowTypes
  <2>2. /\ op'[o].state = "prepared" /\ op[o].state = "reserved"
        /\ op'[o].windows = op[o].windows /\ op'[o].bound = op[o].bound
        /\ \A p \in Ops \ {o} : op'[p] = op[p]
        BY <1>0, <1>5 DEF MadeReady, Operation
  <2>3. /\ HeldFor(op', w, o) = HeldFor(op, w, o) /\ HeldFor(op, w, o) \in Nat
        /\ SpentFor(op, w, o) = 0 /\ SpentFor(op', w, o) = 0
        BY <2>1, <2>2 DEF HeldFor, SpentFor, Settled
  <2>4. /\ window'[w].reserved = window[w].reserved - HeldFor(op, w, o) + HeldFor(op', w, o)
        /\ window'[w].consumed = window[w].consumed - SpentFor(op, w, o) + SpentFor(op', w, o)
        BY <1>0, <1>5, <2>3 DEF MadeReady
  <2> QED BY <1>0, <2>2, <2>4, BalanceMoves
<1>6. ASSUME NEW o \in Ops, NEW outcome \in Settled, NEW actual \in Nat \cup {Unpriced},
             FirstSettled(o, outcome, actual)
      PROVE  BalancedAt(op', window', w)
  <2> DEFINE cost == IF actual = Unpriced THEN op[o].bound ELSE actual
  <2>1. op[o].bound \in Nat /\ -op[o].bound \in Int /\ cost \in Nat /\ cost \in Int
        BY <1>0, RowTypes
  <2>2. /\ op'[o].state = outcome /\ op'[o].actual = actual
        /\ op'[o].bound = op[o].bound /\ op'[o].windows = op[o].windows
        /\ \A p \in Ops \ {o} : op'[p] = op[p]
    <3>1. op' = SettledTable(o, outcome, actual)
          BY <1>6 DEF FirstSettled
    <3> QED BY <3>1, SettlementLeaves
  <2>3. /\ HeldFor(op, w, o) = (IF w \in op[o].windows THEN op[o].bound ELSE 0) /\ HeldFor(op', w, o) = 0
        /\ SpentFor(op, w, o) = 0 /\ SpentFor(op', w, o) = (IF w \in op[o].windows THEN cost ELSE 0)
        BY <1>6, <2>2 DEF FirstSettled, HeldFor, SpentFor, Settled, CostOf
  <2>4. window' = Charge(op[o].windows, -op[o].bound, cost)
        BY <1>6 DEF FirstSettled
  <2> HIDE DEF cost
  <2>5. /\ Charge(op[o].windows, -op[o].bound, cost)[w].reserved
             = IF w \in op[o].windows THEN window[w].reserved + (-op[o].bound) ELSE window[w].reserved
        /\ Charge(op[o].windows, -op[o].bound, cost)[w].consumed
             = IF w \in op[o].windows THEN window[w].consumed + cost ELSE window[w].consumed
        BY <2>1, ChargeLeaves
  <2>6. /\ window'[w].reserved = window[w].reserved - HeldFor(op, w, o) + HeldFor(op', w, o)
        /\ window'[w].consumed = window[w].consumed - SpentFor(op, w, o) + SpentFor(op', w, o)
        BY <1>0, <2>1, <2>3, <2>4, <2>5
  <2> QED BY <1>0, <2>2, <2>6, BalanceMoves
<1>7. ASSUME NEW o \in Ops, NEW outcome \in Settled, NEW actual \in Nat \cup {Unpriced},
             Repriced(o, outcome, actual)
      PROVE  BalancedAt(op', window', w)
  <2>1. actual \in Nat /\ op[o].bound \in Nat /\ actual - op[o].bound \in Int
        BY <1>0, <1>7, RowTypes DEF Repriced
  <2>2. /\ op'[o].state = outcome /\ op'[o].actual = actual
        /\ op'[o].bound = op[o].bound /\ op'[o].windows = op[o].windows
        /\ \A p \in Ops \ {o} : op'[p] = op[p]
    <3>1. op' = SettledTable(o, outcome, actual)
          BY <1>7 DEF Repriced
    <3> QED BY <3>1, SettlementLeaves
  <2>3. /\ HeldFor(op, w, o) = 0 /\ HeldFor(op', w, o) = 0
        /\ SpentFor(op, w, o) = (IF w \in op[o].windows THEN op[o].bound ELSE 0)
        /\ SpentFor(op', w, o) = (IF w \in op[o].windows THEN actual ELSE 0)
        BY <1>7, <2>2 DEF Repriced, HeldFor, SpentFor, Settled, CostOf
  <2>4. window' = Charge(op[o].windows, 0, actual - op[o].bound)
        BY <1>7 DEF Repriced
  <2>5. /\ Charge(op[o].windows, 0, actual - op[o].bound)[w].reserved
             = IF w \in op[o].windows THEN window[w].reserved + 0 ELSE window[w].reserved
        /\ Charge(op[o].windows, 0, actual - op[o].bound)[w].consumed
             = IF w \in op[o].windows THEN window[w].consumed + (actual - op[o].bound) ELSE window[w].consumed
        BY <2>1, ChargeLeaves
  <2>6. /\ window'[w].reserved = window[w].reserved - HeldFor(op, w, o) + HeldFor(op', w, o)
        /\ window'[w].consumed = window[w].consumed - SpentFor(op, w, o) + SpentFor(op', w, o)
        BY <1>0, <2>1, <2>3, <2>4, <2>5
  <2> QED BY <1>0, <2>2, <2>6, BalanceMoves
<1>8. CASE UNCHANGED <<window, op>>
      BY <1>1, <1>8
<1> QED BY <1>2, <1>3, <1>4, <1>5, <1>6, <1>7, <1>8 DEF Moves

\* A window that is charged no more than it gives back, or has room for, keeps to its capacity.
LEMMA CapacityStep == Typed /\ Registered /\ Balanced /\ CapacityRespected /\ Moves => CapacityRespected'
<1> SUFFICES ASSUME Typed, Registered, Balanced, CapacityRespected, Moves, NEW w \in Windows
             PROVE  window'[w].reserved + window'[w].consumed <= window'[w].capacity
    BY DEF CapacityRespected
<1>0. /\ op \in [Ops -> Operation]
      /\ window[w].reserved \in Int /\ window[w].consumed \in Int /\ window[w].capacity \in Int
      /\ window[w].reserved + window[w].consumed <= window[w].capacity
  <2>1. window[w] \in Window
        BY DEF Typed
  <2>2. {0} \cup Capacities \subseteq Int
        BY LedgerAssumption
  <2>3. window[w].capacity \in {0} \cup Capacities
        BY <2>1 DEF Window
  <2>4. window[w].capacity \in Int
        BY <2>2, <2>3, Zenon
  <2> QED BY <2>1, <2>4 DEF Typed, Window, CapacityRespected
<1>1. ASSUME NEW v \in Windows, ConfigureWindow(v) \/ CloseWindow(v)
      PROVE  window'[w].reserved + window'[w].consumed <= window'[w].capacity
  <2>1. /\ window' \in [Windows -> Window]
        /\ window'[w].reserved = window[w].reserved /\ window'[w].consumed = window[w].consumed
        /\ \/ window'[w] = window[w]
           \/ /\ window[w].state = "absent"
              /\ window'[w].state = "open"
           \/ window'[w].capacity = window[w].capacity
        BY <1>1, WindowOpens
  <2>2. window'[w].capacity \in Nat
    <3>1. window'[w].capacity \in {0} \cup Capacities
          BY <2>1 DEF Window
    <3>2. {0} \cup Capacities \subseteq Nat
          BY LedgerAssumption
    <3> QED BY <3>1, <3>2, Zenon
  <2>3. window[w].state = "absent" => window[w].capacity = 0
        BY DEF Registered
  <2> QED BY <1>0, <2>1, <2>2, <2>3
<1>2. ASSUME NEW o \in Ops, NEW ctx \in Contexts, NEW n \in UpperBounds, Reserved(o, ctx, n)
      PROVE  window'[w].reserved + window'[w].consumed <= window'[w].capacity
  <2>1. n \in Int
        BY LedgerAssumption
  <2>2. /\ window'[w].reserved = IF w \in ctx THEN window[w].reserved + n ELSE window[w].reserved
        /\ window'[w].consumed = IF w \in ctx THEN window[w].consumed + 0 ELSE window[w].consumed
        /\ window'[w].capacity = window[w].capacity
        BY <1>2, <2>1, ChargeLeaves DEF Reserved
  <2>3. w \in ctx => window[w].reserved + window[w].consumed + n <= window[w].capacity
        BY <1>2 DEF Reserved, Fits
  <2> QED BY <1>0, <2>1, <2>2, <2>3
<1>3. ASSUME NEW ctx, NEW hold \in Int, NEW spend \in Int, hold + spend <= 0,
             window' = Charge(ctx, hold, spend)
      PROVE  window'[w].reserved + window'[w].consumed <= window'[w].capacity
  <2>1. /\ window'[w].reserved = IF w \in ctx THEN window[w].reserved + hold ELSE window[w].reserved
        /\ window'[w].consumed = IF w \in ctx THEN window[w].consumed + spend ELSE window[w].consumed
        /\ window'[w].capacity = window[w].capacity
        BY <1>3, ChargeLeaves
  <2> QED BY <1>0, <1>3, <2>1
<1>4. ASSUME NEW o \in Ops, GivenUp(o)
      PROVE  window'[w].reserved + window'[w].consumed <= window'[w].capacity
  <2>1. op[o].bound \in Nat
        BY <1>0, RowTypes
  <2>2. -op[o].bound \in Int /\ (-op[o].bound) + 0 <= 0
        BY <2>1
  <2>3. window' = Charge(op[o].windows, -op[o].bound, 0)
        BY <1>4 DEF GivenUp
  <2> QED BY <1>3, <2>2, <2>3
<1>5. ASSUME NEW o \in Ops, NEW outcome \in Settled, NEW actual \in Nat \cup {Unpriced},
             FirstSettled(o, outcome, actual)
      PROVE  window'[w].reserved + window'[w].consumed <= window'[w].capacity
  <2> DEFINE cost == IF actual = Unpriced THEN op[o].bound ELSE actual
  <2>1. op[o].bound \in Nat
        BY <1>0, RowTypes
  <2>2. actual <= op[o].bound
        BY <1>5, <2>1 DEF FirstSettled, Conflicts, Unpriced
  <2>3. -op[o].bound \in Int /\ cost \in Int /\ (-op[o].bound) + cost <= 0
        BY <2>1, <2>2 DEF Unpriced
  <2>4. window' = Charge(op[o].windows, -op[o].bound, cost)
        BY <1>5 DEF FirstSettled
  <2> HIDE DEF cost
  <2> QED BY <1>3, <2>3, <2>4
<1>6. ASSUME NEW o \in Ops, NEW outcome \in Settled, NEW actual \in Nat \cup {Unpriced},
             Repriced(o, outcome, actual)
      PROVE  window'[w].reserved + window'[w].consumed <= window'[w].capacity
  <2>1. actual \in Nat /\ op[o].bound \in Nat
        BY <1>0, <1>6, RowTypes DEF Repriced
  <2>2. actual <= op[o].bound
        BY <1>6, <2>1 DEF Repriced, Conflicts
  <2>3. actual - op[o].bound \in Int /\ 0 + (actual - op[o].bound) <= 0
        BY <2>1, <2>2
  <2>4. window' = Charge(op[o].windows, 0, actual - op[o].bound)
        BY <1>6 DEF Repriced
  <2> QED BY <1>3, <2>3, <2>4
<1>7. CASE window' = window
      BY <1>0, <1>7
<1> QED BY <1>1, <1>2, <1>4, <1>5, <1>6, <1>7 DEF Moves, MadeReady

\* An operation that was attempted stays attempted, and what it cost is said once.
Attempted == {"prepared"} \cup Settled

LEMMA AttemptsStay ==
  ASSUME Typed, Moves, NEW o \in Ops
  PROVE  /\ op[o].state \in Attempted => op'[o].state \in Attempted
         /\ SettledOnce(o)
<1>0. op \in [Ops -> Operation] /\ op[o].bound \in Nat
      BY RowTypes DEF Typed
<1>1. CASE op'[o] = op[o]
      BY <1>0, <1>1 DEF SettledOnce, Unpriced
<1>2. CASE op[o].state \notin Attempted
      BY <1>2 DEF SettledOnce, Attempted
<1>3. ASSUME NEW p \in Ops, GivenUp(p) \/ MadeReady(p) PROVE op'[o] = op[o] \/ op[o].state \notin Attempted
      BY <1>0, <1>3 DEF GivenUp, MadeReady, Attempted, Settled
<1>4. ASSUME NEW p \in Ops, NEW ctx \in Contexts, NEW n \in UpperBounds, Reserved(p, ctx, n)
      PROVE  op'[o] = op[o] \/ op[o].state \notin Attempted
      BY <1>0, <1>4 DEF Reserved, Attempted, Settled
<1>5. ASSUME NEW p \in Ops, NEW outcome \in Settled, NEW actual \in Nat \cup {Unpriced},
             FirstSettled(p, outcome, actual) \/ Repriced(p, outcome, actual)
      PROVE  /\ op[o].state \in Attempted => op'[o].state \in Attempted
             /\ SettledOnce(o)
  <2>0. op' = SettledTable(p, outcome, actual)
        BY <1>5 DEF FirstSettled, Repriced
  <2>1. /\ op'[p].state = outcome /\ op'[p].actual = actual /\ op'[p].bound = op[p].bound
        /\ \A q \in Ops \ {p} : op'[q] = op[q]
        BY <2>0, SettlementLeaves
  <2>2. CASE o # p
        BY <1>1, <2>1, <2>2
  <2>3. CASE o = p /\ FirstSettled(p, outcome, actual)
        BY <2>1, <2>3 DEF FirstSettled, SettledOnce, Attempted, Settled
  <2>4. CASE o = p /\ Repriced(p, outcome, actual)
    <3>1. actual \in Nat /\ actual <= op[o].bound
          BY <1>0, <2>4 DEF Repriced, Conflicts
    <3> QED BY <2>1, <2>4, <3>1 DEF Repriced, SettledOnce, Attempted
  <2> QED BY <1>5, <2>2, <2>3, <2>4
<1>6. ASSUME NEW w \in Windows, ConfigureWindow(w) \/ CloseWindow(w) PROVE op'[o] = op[o]
      BY <1>6, WindowOpens
<1> QED BY <1>1, <1>2, <1>3, <1>4, <1>5, <1>6 DEF Moves

-----------------------------------------------------------------------------
(* What a step does to the processes.                                       *)

\* A process whose call is off, or over, goes on with what it prepared.
LEMMA SettlingLeaves ==
  ASSUME Typed, NEW c \in Callers, NEW outcome \in Settled
  PROVE  /\ Settling(c, outcome) \in [Callers -> Process]
         /\ Settling(c, outcome)[c].phase = "settling"
         /\ Settling(c, outcome)[c].prepared = call[c].prepared
         /\ Settling(c, outcome)[c].members = call[c].members
         /\ \A d \in Callers \ {c} : Settling(c, outcome)[d] = call[d]
<1>0. call \in [Callers -> Process]
      BY DEF Typed
<1> DEFINE one == [call EXCEPT ![c].phase = "settling"]
           two == [one EXCEPT ![c].outcome = outcome]
           three == [two EXCEPT ![c].todo = call[c].prepared]
           four == [three EXCEPT ![c].guard = {}]
<1>1. Settling(c, outcome) = four
      BY DEF Settling
<1>2. /\ one \in [Callers -> Process] /\ one[c].phase = "settling"
      /\ one[c].prepared = call[c].prepared /\ one[c].members = call[c].members
      /\ \A d \in Callers \ {c} : one[d] = call[d]
      BY <1>0 DEF Process, Phases
<1>3. call[c].prepared \in SUBSET Ops
      BY <1>0 DEF Process
<1> HIDE DEF one
<1>4. /\ two \in [Callers -> Process] /\ two[c].phase = "settling"
      /\ two[c].prepared = call[c].prepared /\ two[c].members = call[c].members
      /\ \A d \in Callers \ {c} : two[d] = call[d]
      BY <1>2 DEF Process
<1> HIDE DEF two
<1>5. /\ three \in [Callers -> Process] /\ three[c].phase = "settling"
      /\ three[c].prepared = call[c].prepared /\ three[c].members = call[c].members
      /\ \A d \in Callers \ {c} : three[d] = call[d]
      BY <1>3, <1>4 DEF Process
<1> HIDE DEF three
<1>6. /\ four \in [Callers -> Process] /\ four[c].phase = "settling"
      /\ four[c].prepared = call[c].prepared /\ four[c].members = call[c].members
      /\ \A d \in Callers \ {c} : four[d] = call[d]
      BY <1>5 DEF Process
<1> HIDE DEF four
<1> QED BY <1>1, <1>6

\* What one process is executing changes: it starts, prepares, calls, loses a lock, goes
\* on after the call, or is done.
Others(c) == \A d \in Callers \ {c} : call'[d] = call[d]
Same(c) == call'[c].prepared = call[c].prepared /\ call'[c].members = call[c].members

Starts(c) ==
  /\ Others(c) /\ calls' = calls
  /\ call'[c].phase \in {"idle", "preparing"} /\ call'[c].prepared = {}

Prepares(c, o) ==
  /\ Others(c) /\ calls' = calls /\ members' = members
  /\ op[o].state = "reserved" /\ op'[o].state = "prepared" /\ MembersOf(o) = Brought(c, o)
  /\ call[c].phase = "preparing" /\ call'[c].phase = "preparing"
  /\ call'[c].members = call[c].members /\ call'[c].prepared = call[c].prepared \cup {o}

Calls(c) ==
  /\ Others(c) /\ Same(c) /\ BeginCall(c)
  /\ call'[c].phase = "calling" /\ call'[c].guard = Sessions

StaysOnCall(c) ==
  /\ Others(c) /\ Same(c) /\ calls' = calls
  /\ call[c].phase = "calling" /\ call'[c].phase = "calling" /\ call'[c].guard \subseteq call[c].guard

GoesOn(c) ==
  /\ Others(c) /\ Same(c) /\ calls' = calls
  /\ call'[c].phase \in {"settling", "releasing", "reporting"}

Proceeds ==
  \/ \E c \in Callers :
       \/ Starts(c) \/ Calls(c) \/ StaysOnCall(c) \/ GoesOn(c)
       \/ \E o \in Ops : Prepares(c, o)
  \/ UNCHANGED <<call, calls>>

LEMMA CallerProceeds ==
  ASSUME Typed, NEW c \in Callers, Caller(c)
  PROVE  Proceeds /\ call' \in [Callers -> Process]
<1>0. call \in [Callers -> Process] /\ call[c] \in Process
      BY DEF Typed
<1>1. ASSUME UNCHANGED <<call, calls>> PROVE Proceeds /\ call' \in [Callers -> Process]
      BY <1>0, <1>1 DEF Proceeds
<1>2. ASSUME NEW o \in Ops, NEW k \in Kinds, ReserveOperation(c, o, k) \/ ReserveComplement(c, o, k)
      PROVE  Proceeds /\ call' \in [Callers -> Process]
      BY <1>1, <1>2 DEF ReserveOperation, ReserveComplement
<1>3. ASSUME NEW m \in held[c], Abandon(c, m) \/ AbandonFails(c, m)
      PROVE  Proceeds /\ call' \in [Callers -> Process]
      BY <1>1, <1>3 DEF Abandon, AbandonFails
<1>4. ASSUME NEW ms \in SUBSET held[c], StartCall(c, ms)
      PROVE  Proceeds /\ call' \in [Callers -> Process]
  <2> DEFINE row == [Idle EXCEPT !.phase = "preparing", !.members = ms]
  <2>1. ms \in SUBSET Members
        BY DEF Typed
  <2>2. row \in Process /\ row.phase = "preparing" /\ row.prepared = {}
        BY <2>1 DEF Idle, Process, Phases, Settled
  <2>3. call' = [call EXCEPT ![c] = row] /\ calls' = calls
        BY <1>4 DEF StartCall
  <2> HIDE DEF row
  <2>4. Starts(c)
        BY <1>0, <2>2, <2>3 DEF Starts, Others
  <2> QED BY <1>0, <2>2, <2>3, <2>4 DEF Proceeds
<1>5. ASSUME NEW o \in Ops, Prepare(c, o)
      PROVE  Proceeds /\ call' \in [Callers -> Process]
  <2>1. call' \in [Callers -> Process]
        BY <1>0, <1>5 DEF Prepare, Process
  <2>2. op[o].state = "reserved" /\ op'[o].state = "prepared" /\ MembersOf(o) = Brought(c, o)
        BY <1>5 DEF Prepare, CanPrepare, Typed, Operation
  <2>3. /\ Others(c) /\ calls' = calls /\ members' = members /\ call[c].phase = "preparing" /\ call'[c].phase = "preparing"
        /\ call'[c].members = call[c].members /\ call'[c].prepared = call[c].prepared \cup {o}
        BY <1>0, <1>5 DEF Prepare, Others, Process
  <2> QED BY <2>1, <2>2, <2>3 DEF Prepares, Proceeds
<1>6. ASSUME NEW outcome \in Settled, call' = Settling(c, outcome), calls' = calls
      PROVE  Proceeds /\ call' \in [Callers -> Process]
  <2>1. GoesOn(c)
        BY <1>6, SettlingLeaves DEF GoesOn, Others, Same
  <2> QED BY <1>6, <2>1, SettlingLeaves DEF Proceeds
<1>7. ASSUME NEW o \in Ops, PrepareFails(c, o)
      PROVE  Proceeds /\ call' \in [Callers -> Process]
      BY <1>6, <1>7 DEF PrepareFails, Settled
<1>8. CASE BeginCall(c)
  <2> DEFINE half == [call EXCEPT ![c].phase = "calling"]
  <2>1. call' = [half EXCEPT ![c].guard = Sessions]
        BY <1>8 DEF BeginCall
  <2>2. /\ half \in [Callers -> Process] /\ half[c].phase = "calling"
        /\ half[c].prepared = call[c].prepared /\ half[c].members = call[c].members
        /\ \A d \in Callers \ {c} : half[d] = call[d]
        BY <1>0 DEF Process, Phases
  <2> HIDE DEF half
  <2>3. /\ call' \in [Callers -> Process] /\ call'[c].phase = "calling" /\ call'[c].guard = Sessions
        /\ Others(c) /\ Same(c)
        BY <2>1, <2>2 DEF Process, Others, Same
  <2> QED BY <1>8, <2>3 DEF Calls, Proceeds
<1>9. CASE BeginDenied(c)
      BY <1>6, <1>9 DEF BeginDenied, Settled
<1>10. ASSUME NEW s \in Sessions, LoseGuard(c, s)
      PROVE  Proceeds /\ call' \in [Callers -> Process]
  <2>1. /\ call' \in [Callers -> Process] /\ calls' = calls /\ Others(c) /\ Same(c)
        /\ call[c].phase = "calling" /\ call'[c].phase = "calling" /\ call'[c].guard \subseteq call[c].guard
        BY <1>0, <1>10 DEF LoseGuard, Process, Others, Same
  <2> QED BY <2>1 DEF StaysOnCall, Proceeds
<1>11. ASSUME NEW outcome \in Settled, EndCall(c, outcome)
      PROVE  Proceeds /\ call' \in [Callers -> Process]
      BY <1>6, <1>11 DEF EndCall
<1>12. ASSUME NEW o \in Ops, call[c].phase \in {"settling", "reporting"}, calls' = calls,
              call' = [call EXCEPT ![c].todo = @ \ {o}]
      PROVE  Proceeds /\ call' \in [Callers -> Process]
  <2>1. /\ call' \in [Callers -> Process] /\ Others(c) /\ Same(c)
        /\ call'[c].phase \in {"settling", "reporting"}
        BY <1>0, <1>12 DEF Process, Others, Same
  <2> QED BY <1>12, <2>1 DEF GoesOn, Proceeds
<1>13. ASSUME NEW o \in Ops, Settle(c, o) \/ SettleFails(c, o) \/ ReportUsage(c, o)
      PROVE  Proceeds /\ call' \in [Callers -> Process]
      BY <1>6, <1>12, <1>13 DEF Settle, SettleFails, ReportUsage, Settled
<1>14. CASE FinishSettling(c)
  <2>1. /\ call' \in [Callers -> Process] /\ calls' = calls /\ Others(c) /\ Same(c)
        /\ call'[c].phase = "releasing"
        BY <1>0, <1>14 DEF FinishSettling, Process, Phases, Others, Same
  <2> QED BY <2>1 DEF GoesOn, Proceeds
<1>15. CASE FinishReleasing(c)
  <2> DEFINE half == [call EXCEPT ![c].phase = "reporting"]
             rest == {o \in call[c].prepared : calls[o] > 0}
  <2>1. call' = [half EXCEPT ![c].todo = rest] /\ calls' = calls
        BY <1>15 DEF FinishReleasing
  <2>2. /\ half \in [Callers -> Process] /\ half[c].phase = "reporting"
        /\ half[c].prepared = call[c].prepared /\ half[c].members = call[c].members
        /\ \A d \in Callers \ {c} : half[d] = call[d]
        BY <1>0 DEF Process, Phases
  <2>3. rest \in SUBSET Ops
        BY <1>0 DEF Process
  <2> HIDE DEF half, rest
  <2>4. /\ call' \in [Callers -> Process] /\ call'[c].phase = "reporting" /\ Others(c) /\ Same(c)
        BY <2>1, <2>2, <2>3 DEF Process, Others, Same
  <2> QED BY <2>1, <2>4 DEF GoesOn, Proceeds
<1>16. CASE FinishCall(c) \/ Crash(c)
  <2>1. call' = [call EXCEPT ![c] = Idle] /\ calls' = calls
        BY <1>16 DEF FinishCall, Crash
  <2>2. Idle \in Process /\ Idle.phase = "idle" /\ Idle.prepared = {}
        BY DEF Idle, Process, Phases, Settled
  <2>3. Starts(c)
        BY <1>0, <2>1, <2>2 DEF Starts, Others
  <2> QED BY <1>0, <2>1, <2>2, <2>3 DEF Proceeds
<1> QED BY <1>2, <1>3, <1>4, <1>5, <1>7, <1>8, <1>9, <1>10, <1>11, <1>13, <1>14, <1>15, <1>16 DEF Caller

LEMMA AllProceed == Typed /\ [Next]_vars => Proceeds /\ call' \in [Callers -> Process]
<1> SUFFICES ASSUME Typed, [Next]_vars PROVE Proceeds /\ call' \in [Callers -> Process]
    OBVIOUS
<1>1. ASSUME UNCHANGED <<call, calls>> PROVE Proceeds /\ call' \in [Callers -> Process]
      BY <1>1 DEF Proceeds, Typed
<1>2. ASSUME NEW c \in Callers, Caller(c) PROVE Proceeds /\ call' \in [Callers -> Process]
      BY <1>2, CallerProceeds
<1>3. CASE Owner
      BY <1>1, <1>3 DEF Owner, RegisterGrant, ReplaceGrant, RevokeGrant, ExpireGrant, ConfigureWindow,
         CloseWindow, SetFrozen
<1>4. CASE UNCHANGED vars
      BY <1>1, <1>4 DEF vars
<1> QED BY <1>2, <1>3, <1>4 DEF Next

-----------------------------------------------------------------------------
(* What a step does to the scopes, the grants and the control row.          *)

\* Scopes come and go only while their operation may still be reserved.
Minted(c) ==
  \E o \in Ops, k \in Kinds :
    op[o].state \in {"none", "reserved"} /\ CanAuthorize(c, o, k) /\ Mint(c, o, k)

GivesBack(c) ==
  /\ held' \in [Callers -> SUBSET Members] /\ UNCHANGED <<minted, used>>
  /\ \/ members' = members
     \/ \E m \in members : op[m.op].state = "reserved" /\ members' = members \ {m}

LEMMA CallerScopes ==
  ASSUME Typed, NEW c \in Callers, Caller(c)
  PROVE  /\ Minted(c) \/ GivesBack(c)
         /\ UNCHANGED authority
<1>0. held \in [Callers -> SUBSET Members]
      BY DEF Typed
<1>1. ASSUME NEW o \in Ops, NEW k \in Kinds, ReserveOperation(c, o, k) \/ ReserveComplement(c, o, k)
      PROVE  Minted(c) /\ UNCHANGED authority
  <2>1. CanAuthorize(c, o, k) /\ Mint(c, o, k) /\ UNCHANGED authority
        BY <1>1 DEF ReserveOperation, ReserveComplement
  <2>2. op[o].state \in {"none", "reserved"}
        BY <1>1 DEF ReserveOperation, ReserveComplement
  <2> QED BY <2>1, <2>2 DEF Minted
<1>2. ASSUME NEW m \in held[c], Abandon(c, m)
      PROVE  GivesBack(c) /\ UNCHANGED authority
  <2>1. held' \in [Callers -> SUBSET Members] /\ UNCHANGED <<minted, used>> /\ UNCHANGED authority
        BY <1>0, <1>2 DEF Abandon
  <2>2. CASE op[m.op].state # "reserved"
        BY <1>2, <2>1, <2>2 DEF Abandon, ledger, GivesBack
  <2>3. CASE op[m.op].state = "reserved"
    <3>1. members' = members \ {m}
          BY <1>2, <2>3 DEF Abandon
    <3>2. m \notin members => members' = members
          BY <3>1
    <3> QED BY <2>1, <2>3, <3>1, <3>2 DEF GivesBack
  <2> QED BY <2>2, <2>3
<1>3. ASSUME held' \in [Callers -> SUBSET Members], UNCHANGED <<authority, used, members, minted>>
      PROVE  GivesBack(c) /\ UNCHANGED authority
      BY <1>3 DEF GivesBack
<1>4. ASSUME NEW m \in held[c], AbandonFails(c, m)
      PROVE  GivesBack(c) /\ UNCHANGED authority
      BY <1>0, <1>3, <1>4 DEF AbandonFails, ledger
<1>5. ASSUME NEW ms \in SUBSET held[c], StartCall(c, ms)
      PROVE  GivesBack(c) /\ UNCHANGED authority
      BY <1>0, <1>3, <1>5 DEF StartCall, ledger
<1>6. ASSUME NEW o \in Ops, Prepare(c, o)
      PROVE  GivesBack(c) /\ UNCHANGED authority
      BY <1>0, <1>3, <1>6 DEF Prepare
<1>7. ASSUME NEW o \in Ops, PrepareFails(c, o)
      PROVE  GivesBack(c) /\ UNCHANGED authority
      BY <1>0, <1>3, <1>7 DEF PrepareFails
<1>8. ASSUME NEW o \in Ops, Settle(c, o) \/ SettleFails(c, o) \/ ReportUsage(c, o)
      PROVE  GivesBack(c) /\ UNCHANGED authority
      BY <1>0, <1>3, <1>8 DEF Settle, SettleFails, ReportUsage, ledger
<1>9. ASSUME NEW s \in Sessions, LoseGuard(c, s)
      PROVE  GivesBack(c) /\ UNCHANGED authority
      BY <1>0, <1>3, <1>9 DEF LoseGuard, ledger
<1>10. ASSUME NEW outcome \in Settled, EndCall(c, outcome)
      PROVE  GivesBack(c) /\ UNCHANGED authority
      BY <1>0, <1>3, <1>10 DEF EndCall, ledger
<1>11. CASE \/ BeginCall(c) \/ BeginDenied(c) \/ FinishSettling(c) \/ FinishReleasing(c)
            \/ FinishCall(c)
      BY <1>0, <1>3, <1>11 DEF BeginCall, BeginDenied, FinishSettling, FinishReleasing, FinishCall, ledger
<1>12. CASE Crash(c)
      BY <1>0, <1>3, <1>12 DEF Crash, ledger
<1> QED BY <1>1, <1>2, <1>4, <1>5, <1>6, <1>7, <1>8, <1>9, <1>10, <1>11, <1>12 DEF Caller

LEMMA MembersStay ==
  ASSUME Typed, [Next]_vars, NEW o \in Ops, op[o].state \in Attempted
  PROVE  {m \in members' : m.op = o} = MembersOf(o)
<1>1. CASE members' = members
      BY <1>1 DEF MembersOf
<1>2. ASSUME NEW c \in Callers, Minted(c) PROVE {m \in members' : m.op = o} = MembersOf(o)
  <2>1. PICK p \in Ops, k \in Kinds : op[p].state \in {"none", "reserved"} /\ Mint(c, p, k)
        BY <1>2 DEF Minted
  <2> DEFINE m == [op |-> p, kind |-> k, id |-> minted + 1, grant |-> GrantOf[k],
                   revision |-> grant[GrantOf[k]].revision]
  <2>2. members' = members \cup {m} /\ m.op = p
        BY <2>1 DEF Mint
  <2>3. p # o
        BY <2>1 DEF Attempted, Settled
  <2> QED BY <2>2, <2>3 DEF MembersOf
<1>3. ASSUME NEW c \in Callers, GivesBack(c) PROVE {m \in members' : m.op = o} = MembersOf(o)
      BY <1>1, <1>3 DEF GivesBack, Attempted, Settled, MembersOf
<1>4. CASE Owner
      BY <1>1, <1>4 DEF Owner, RegisterGrant, ReplaceGrant, RevokeGrant, ExpireGrant, ConfigureWindow,
         CloseWindow, SetFrozen, ledger
<1>5. CASE UNCHANGED vars
      BY <1>1, <1>5 DEF vars
<1> QED BY <1>2, <1>3, <1>4, <1>5, CallerScopes DEF Next

\* A grant keeps a revision, and never loses the one it has while a guarded call uses it.
LEMMA GrantRow ==
  ASSUME Typed, NEW g \in Grants
  PROVE  grant[g].revision \in 0..MaxRevision /\ grant[g].revision \in Nat /\ grant[g] \in Grant
<1>1. grant[g] \in Grant
      BY DEF Typed
<1>2. grant[g].revision \in 0..MaxRevision /\ MaxRevision \in Nat
      BY <1>1, LedgerAssumption DEF Grant
<1> QED BY <1>1, <1>2

LEMMA OwnerGrants ==
  ASSUME Typed, Registered, Owner
  PROVE  /\ grant' \in [Grants -> Grant]
         /\ \A g \in Grants : grant'[g].status # "none" => grant'[g].revision # 0
         /\ \A g \in Grants : g \in GrantsInUse /\ grant[g].status \in {"active", "expired"}
              => grant'[g].revision = grant[g].revision /\ grant'[g].status \in {"active", "expired"}
<1>0. grant \in [Grants -> Grant] /\ MaxRevision \in Nat \ {0}
      BY LedgerAssumption DEF Typed
<1> DEFINE Goal ==
      /\ grant' \in [Grants -> Grant]
      /\ \A g \in Grants : grant'[g].status # "none" => grant'[g].revision # 0
      /\ \A g \in Grants : g \in GrantsInUse /\ grant[g].status \in {"active", "expired"}
           => grant'[g].revision = grant[g].revision /\ grant'[g].status \in {"active", "expired"}
<1>1. ASSUME NEW g \in Grants, NEW row \in Grant, row.status # "none" => row.revision # 0,
             grant' = [grant EXCEPT ![g] = row],
             \/ g \notin GrantsInUse
             \/ grant[g].status = "none"
             \/ row.revision = grant[g].revision /\ row.status \in {"active", "expired"}
      PROVE  Goal
  <2>1. grant'[g] = row /\ \A h \in Grants \ {g} : grant'[h] = grant[h]
        BY <1>0, <1>1
  <2>2. grant' \in [Grants -> Grant]
        BY <1>0, <1>1
  <2>3. \A h \in Grants : grant'[h].status # "none" => grant'[h].revision # 0
        BY <1>1, <2>1 DEF Registered
  <2>4. \A h \in Grants : h \in GrantsInUse /\ grant[h].status \in {"active", "expired"}
           => grant'[h].revision = grant[h].revision /\ grant'[h].status \in {"active", "expired"}
        BY <1>1, <2>1
  <2> QED BY <2>2, <2>3, <2>4
<1>2. ASSUME grant' = grant PROVE Goal
      BY <1>0, <1>2 DEF Registered
<1> HIDE DEF Goal
<1>3. ASSUME NEW g \in Grants, RegisterGrant(g) PROVE Goal
  <2>1. PICK q \in Quotas : grant' = [grant EXCEPT ![g] = [status |-> "active", revision |-> 1, quota |-> q]]
        BY <1>3 DEF RegisterGrant
  <2> DEFINE row == [status |-> "active", revision |-> 1, quota |-> q]
  <2>2. row \in Grant /\ row.revision # 0
        BY <1>0 DEF Grant
  <2> HIDE DEF row
  <2>3. grant' = [grant EXCEPT ![g] = row]
        BY <2>1 DEF row
  <2> QED BY <1>1, <1>3, <2>2, <2>3 DEF RegisterGrant
<1>4. ASSUME NEW g \in Grants, ReplaceGrant(g) PROVE Goal
  <2>1. PICK r \in 1..MaxRevision, q \in Quotas :
          /\ r > grant[g].revision
          /\ grant' = [grant EXCEPT ![g] = [status |-> "active", revision |-> r, quota |-> q]]
        BY <1>4 DEF ReplaceGrant
  <2>2. [status |-> "active", revision |-> r, quota |-> q] \in Grant
        BY <1>0 DEF Grant
  <2>3. r # 0
        BY <1>0
  <2> QED BY <1>1, <1>4, <2>1, <2>2, <2>3 DEF ReplaceGrant
<1>5. ASSUME NEW g \in Grants, RevokeGrant(g) PROVE Goal
  <2> DEFINE half == [grant[g] EXCEPT !.status = "revoked"]
             row == [half EXCEPT !.revision = grant[g].revision + 1]
  <2>1. grant' = [grant EXCEPT ![g] = row]
        BY <1>5 DEF RevokeGrant
  <2>2. grant[g].revision \in Nat /\ grant[g].revision < MaxRevision /\ grant[g] \in Grant
        BY <1>5, GrantRow DEF RevokeGrant
  <2>3. half \in Grant
        BY <2>2 DEF Grant
  <2>4. grant[g].revision + 1 \in 0..MaxRevision /\ grant[g].revision + 1 # 0
        BY <1>0, <2>2
  <2> HIDE DEF half
  <2>5. row \in Grant /\ row.revision # 0
        BY <2>3, <2>4 DEF Grant
  <2> HIDE DEF row
  <2> QED BY <1>1, <1>5, <2>1, <2>5 DEF RevokeGrant
<1>6. ASSUME NEW g \in Grants, ExpireGrant(g) PROVE Goal
  <2> DEFINE row == [grant[g] EXCEPT !.status = "expired"]
  <2>1. grant' = [grant EXCEPT ![g] = row] /\ grant[g].status = "active"
        BY <1>6 DEF ExpireGrant
  <2>2. row \in Grant /\ row.status = "expired" /\ row.revision = grant[g].revision
        BY GrantRow DEF Grant
  <2>3. row.revision # 0
        BY <2>1, <2>2 DEF Registered
  <2> HIDE DEF row
  <2> QED BY <1>1, <2>1, <2>2, <2>3
<1>7. ASSUME NEW w \in Windows, ConfigureWindow(w) \/ CloseWindow(w) PROVE Goal
      BY <1>2, <1>7 DEF ConfigureWindow, CloseWindow, authority
<1>8. ASSUME NEW f \in BOOLEAN, SetFrozen(f) PROVE Goal
      BY <1>2, <1>8 DEF SetFrozen
<1>9. Goal
      BY <1>3, <1>4, <1>5, <1>6, <1>7, <1>8 DEF Owner
<1> QED BY <1>9 DEF Goal

LEMMA MintType ==
  ASSUME Typed, Registered, NEW c \in Callers, Minted(c)
  PROVE  /\ used' \in [Grants -> [1..MaxRevision -> Nat]]
         /\ members' \subseteq Members /\ minted' \in 0..MaxMembers
         /\ held' \in [Callers -> SUBSET Members]
<1>1. PICK o \in Ops, k \in Kinds : CanAuthorize(c, o, k) /\ Mint(c, o, k)
      BY DEF Minted
<1> DEFINE g == GrantOf[k]
           m == [op |-> o, kind |-> k, id |-> minted + 1, grant |-> g, revision |-> grant[g].revision]
<1>2. g \in Grants
      BY LedgerAssumption
<1>3. grant[g].revision \in 1..MaxRevision
  <2>1. grant[g].revision # 0
        BY <1>1, <1>2 DEF CanAuthorize, Registered
  <2> HIDE DEF g
  <2>2. grant[g].revision \in 0..MaxRevision
        BY <1>2, GrantRow
  <2> QED BY <2>1, <2>2, LedgerAssumption
<1>4. minted \in Nat /\ minted < MaxMembers /\ MaxMembers \in Nat
      BY <1>1, LedgerAssumption DEF CanAuthorize, Typed
<1>5. minted + 1 \in 1..MaxMembers /\ minted + 1 \in 0..MaxMembers
      BY <1>4
<1>6. m \in Members
      BY <1>2, <1>3, <1>5 DEF Members
<1>7. /\ minted' = minted + 1 /\ members' = members \cup {m} /\ held' = [held EXCEPT ![c] = @ \cup {m}]
      /\ used' = [used EXCEPT ![g][grant[g].revision] = @ + 1]
      BY <1>1 DEF Mint
<1> DEFINE r == grant[g].revision
           row == [used[g] EXCEPT ![r] = @ + 1]
<1>8. used' = [used EXCEPT ![g] = row]
      BY <1>7
<1>9. row \in [1..MaxRevision -> Nat]
  <2>1. ASSUME NEW counts \in [1..MaxRevision -> Nat], NEW x \in 1..MaxRevision
        PROVE  [counts EXCEPT ![x] = @ + 1] \in [1..MaxRevision -> Nat]
        OBVIOUS
  <2>2. used[g] \in [1..MaxRevision -> Nat] /\ r \in 1..MaxRevision
        BY <1>2, <1>3 DEF Typed
  <2> QED BY <2>1, <2>2
<1> HIDE DEF row, r, m, g
<1> QED BY <1>2, <1>5, <1>6, <1>7, <1>8, <1>9 DEF Typed

LEMMA TypedStep == Typed /\ Registered /\ [Next]_vars => Typed'
<1> SUFFICES ASSUME Typed, Registered, [Next]_vars PROVE Typed'
    OBVIOUS
<1>1. window' \in [Windows -> Window] /\ op' \in [Ops -> Operation]
      BY LedgerMoves, MovesType
<1>2. call' \in [Callers -> Process]
      BY AllProceed
<1>3. calls' \in [Ops -> Nat]
  <2>1. calls \in [Ops -> Nat]
        BY DEF Typed
  <2>2. ASSUME NEW c \in Callers, BeginCall(c) PROVE calls' \in [Ops -> Nat]
        BY <2>1, <2>2 DEF BeginCall
  <2> QED BY <2>1, <2>2, AllProceed DEF Proceeds, Starts, Calls, StaysOnCall, GoesOn, Prepares
<1>4. /\ used' \in [Grants -> [1..MaxRevision -> Nat]] /\ grant' \in [Grants -> Grant]
      /\ members' \subseteq Members /\ minted' \in 0..MaxMembers
      /\ held' \in [Callers -> SUBSET Members] /\ frozen' \in BOOLEAN
  <2>1. ASSUME NEW c \in Callers, Caller(c)
        PROVE  /\ used' \in [Grants -> [1..MaxRevision -> Nat]] /\ grant' \in [Grants -> Grant]
               /\ members' \subseteq Members /\ minted' \in 0..MaxMembers
               /\ held' \in [Callers -> SUBSET Members] /\ frozen' \in BOOLEAN
    <3>1. grant' = grant /\ frozen' = frozen /\ (Minted(c) \/ GivesBack(c))
          BY <2>1, CallerScopes DEF authority
    <3>2. GivesBack(c) => /\ used' = used /\ minted' = minted /\ members' \subseteq members
                          /\ held' \in [Callers -> SUBSET Members]
          BY DEF GivesBack
    <3> QED BY <3>1, <3>2, MintType DEF Typed
  <2>2. CASE Owner
    <3>1. UNCHANGED <<used, members, minted, held>> /\ (frozen' = frozen \/ frozen' \in BOOLEAN)
          BY <2>2 DEF Owner, RegisterGrant, ReplaceGrant, RevokeGrant, ExpireGrant, ConfigureWindow,
             CloseWindow, SetFrozen, ledger, authority
    <3> QED BY <2>2, <3>1, OwnerGrants DEF Typed
  <2>3. CASE UNCHANGED vars
        BY <2>3 DEF vars, Typed
  <2> QED BY <2>1, <2>2, <2>3 DEF Next
<1> QED BY <1>1, <1>2, <1>3, <1>4 DEF Typed

LEMMA RegisteredStep == Typed /\ Registered /\ [Next]_vars => Registered'
<1> SUFFICES ASSUME Typed, Registered, [Next]_vars PROVE Registered'
    OBVIOUS
<1>1. \A g \in Grants : grant'[g].status # "none" => grant'[g].revision # 0
  <2>1. CASE grant' = grant
        BY <2>1 DEF Registered
  <2>2. ASSUME NEW c \in Callers, Caller(c) PROVE grant' = grant
        BY <2>2, CallerScopes DEF authority
  <2>3. CASE Owner
        BY <2>3, OwnerGrants
  <2>4. CASE UNCHANGED vars
        BY <2>1, <2>4 DEF vars
  <2> QED BY <2>1, <2>2, <2>3, <2>4 DEF Next
<1>2. ASSUME NEW w \in Windows, window'[w].state = "absent" PROVE window'[w].capacity = 0
  <2>1. window[w].state = "absent" => window[w].capacity = 0
        BY DEF Registered
  <2>2. ASSUME NEW ctx, NEW hold \in Int, NEW spend \in Int, window' = Charge(ctx, hold, spend)
        PROVE  window'[w].capacity = 0
        BY <1>2, <2>1, <2>2, ChargeLeaves
  <2>3. CASE window' = window
        BY <1>2, <2>1, <2>3
  <2>4. ASSUME NEW v \in Windows, ConfigureWindow(v) \/ CloseWindow(v) PROVE window'[w].capacity = 0
        BY <1>2, <2>1, <2>4, WindowOpens
  <2>5. ASSUME NEW o \in Ops PROVE op[o].bound \in Nat /\ -op[o].bound \in Int
        BY RowTypes DEF Typed
  <2>6. ASSUME NEW o \in Ops, NEW ctx \in Contexts, NEW n \in UpperBounds, Reserved(o, ctx, n)
        PROVE  window'[w].capacity = 0
        BY <2>2, <2>6, LedgerAssumption DEF Reserved
  <2>7. ASSUME NEW o \in Ops, GivenUp(o) PROVE window'[w].capacity = 0
    <3>1. window' = Charge(op[o].windows, -op[o].bound, 0)
          BY <2>7 DEF GivenUp
    <3> QED BY <2>2, <2>5, <3>1
  <2>8. ASSUME NEW o \in Ops, NEW outcome \in Settled, NEW actual \in Nat \cup {Unpriced},
               FirstSettled(o, outcome, actual)
        PROVE  window'[w].capacity = 0
    <3> DEFINE cost == IF actual = Unpriced THEN op[o].bound ELSE actual
    <3>1. window' = Charge(op[o].windows, -op[o].bound, cost)
          BY <2>8 DEF FirstSettled
    <3>2. cost \in Int
          BY <2>5
    <3> HIDE DEF cost
    <3> QED BY <2>2, <2>5, <3>1, <3>2
  <2>9. ASSUME NEW o \in Ops, NEW outcome \in Settled, NEW actual \in Nat \cup {Unpriced},
               Repriced(o, outcome, actual)
        PROVE  window'[w].capacity = 0
    <3>1. window' = Charge(op[o].windows, 0, actual - op[o].bound)
          BY <2>9 DEF Repriced
    <3>2. actual - op[o].bound \in Int
          BY <2>5, <2>9 DEF Repriced
    <3> QED BY <2>2, <3>1, <3>2
  <2> QED BY <2>3, <2>4, <2>6, <2>7, <2>8, <2>9, LedgerMoves DEF Moves, MadeReady
<1> QED BY <1>1, <1>2 DEF Registered

-----------------------------------------------------------------------------
(* Calls.                                                                   *)

\* What is prepared stays its process's own and keeps its scopes.
LEMMA PreparedStep == Typed /\ Prepared /\ InvokedOnce /\ [Next]_vars => Prepared'
<1> SUFFICES ASSUME Typed, Prepared, InvokedOnce, [Next]_vars PROVE Prepared'
    OBVIOUS
<1>0. Moves /\ Proceeds
      BY LedgerMoves, AllProceed
<1> DEFINE Fine(c, o) == /\ op'[o].state \in Attempted
                         /\ {m \in members' : m.op = o} = {m \in call'[c].members : m.op = o}
                         /\ call'[c].phase = "preparing" => calls'[o] = 0
           Apart == \A c, d \in Callers : \A o \in call'[c].prepared \cap call'[d].prepared : c = d
           Goal == Apart /\ \A c \in Callers : \A o \in call'[c].prepared : Fine(c, o)
<1>1. SUFFICES Goal
      BY DEF Prepared, MembersOf, Brought, Attempted
<1>2. ASSUME NEW c \in Callers, NEW o \in call[c].prepared
      PROVE  /\ o \in Ops /\ op[o].state \in Attempted /\ op'[o].state \in Attempted
             /\ {m \in members' : m.op = o} = {m \in call[c].members : m.op = o}
             /\ call[c].phase = "preparing" => calls[o] = 0
  <2>1. o \in Ops
        BY DEF Typed, Process
  <2>2. /\ op[o].state \in Attempted /\ MembersOf(o) = Brought(c, o)
        /\ call[c].phase = "preparing" => calls[o] = 0
        BY DEF Prepared, Attempted
  <2>3. op'[o].state \in Attempted
        BY <1>0, <2>1, <2>2, AttemptsStay
  <2>4. {m \in members' : m.op = o} = MembersOf(o)
        BY <2>1, <2>2, MembersStay
  <2> QED BY <2>1, <2>2, <2>3, <2>4 DEF Brought
<1>3. \A c, d \in Callers : \A o \in call[c].prepared \cap call[d].prepared : c = d
      BY DEF Prepared
<1>4. ASSUME NEW c \in Callers, Others(c), call'[c].prepared \subseteq call[c].prepared
      PROVE  Apart
      BY <1>3, <1>4 DEF Others
<1>5. ASSUME NEW c \in Callers, Others(c), calls' = calls, \A o \in call'[c].prepared : Fine(c, o), Apart
      PROVE  Goal
      BY <1>2, <1>5 DEF Others
<1>6. ASSUME NEW c \in Callers, Starts(c) PROVE Goal
      BY <1>4, <1>5, <1>6 DEF Starts
<1>7. ASSUME NEW c \in Callers, StaysOnCall(c) \/ GoesOn(c) PROVE Goal
  <2>1. call'[c].phase # "preparing" /\ Same(c) /\ Others(c) /\ calls' = calls
        BY <1>7 DEF StaysOnCall, GoesOn
  <2>2. \A o \in call'[c].prepared : Fine(c, o)
        BY <1>2, <2>1 DEF Same
  <2> QED BY <1>4, <1>5, <2>1, <2>2 DEF Same
<1>8. ASSUME NEW c \in Callers, Calls(c) PROVE Goal
  <2>1. Apart
        BY <1>4, <1>8 DEF Calls, Same
  <2>2. ASSUME NEW d \in Callers, NEW o \in call'[d].prepared PROVE Fine(d, o)
    <3>1. CASE d = c
          BY <1>2, <1>8, <3>1 DEF Calls, Same
    <3>2. CASE d # c
      <4>1. call'[d] = call[d] /\ o \in call[d].prepared
            BY <1>8, <3>2 DEF Calls, Others
      <4>2. o \notin call[c].prepared
            BY <1>3, <3>2, <4>1
      <4>3. calls'[o] = calls[o]
            BY <1>2, <1>8, <4>1, <4>2 DEF Calls, BeginCall
      <4> QED BY <1>2, <4>1, <4>3
    <3> QED BY <3>1, <3>2
  <2> QED BY <2>1, <2>2
<1>9. ASSUME NEW c \in Callers, NEW p \in Ops, Prepares(c, p) PROVE Goal
  <2>1. /\ op[p].state = "reserved" /\ op'[p].state = "prepared" /\ MembersOf(p) = Brought(c, p)
        /\ Others(c) /\ calls' = calls /\ call[c].phase = "preparing" /\ call'[c].phase = "preparing"
        /\ call'[c].members = call[c].members /\ call'[c].prepared = call[c].prepared \cup {p}
        BY <1>9 DEF Prepares
  <2>2. \A d \in Callers : p \notin call[d].prepared
        BY <1>2, <2>1 DEF Attempted, Settled
  <2>3. Apart
        BY <1>3, <2>1, <2>2 DEF Others
  <2>4. {m \in members' : m.op = p} = {m \in call'[c].members : m.op = p}
        BY <1>9, <2>1 DEF Prepares, MembersOf, Brought
  <2>5. calls[p] = 0
        BY <2>1 DEF InvokedOnce, Typed, Settled
  <2>6. \A o \in call'[c].prepared : Fine(c, o)
        BY <1>2, <2>1, <2>4, <2>5 DEF Attempted
  <2> QED BY <1>5, <2>1, <2>3, <2>6
<1>10. CASE UNCHANGED <<call, calls>>
       BY <1>2, <1>3, <1>10
<1> QED BY <1>0, <1>6, <1>7, <1>8, <1>9, <1>10 DEF Proceeds

\* A call begins for operations that were not called, and what was attempted stays so.
LEMMA InvokedStep == Typed /\ Prepared /\ InvokedOnce /\ [Next]_vars => InvokedOnce'
<1> SUFFICES ASSUME Typed, Prepared, InvokedOnce, [Next]_vars, NEW o \in Ops
             PROVE  calls'[o] <= 1 /\ (calls'[o] = 1 => op'[o].state \in Attempted)
    BY DEF InvokedOnce, Attempted
<1>1. op[o].state \in Attempted => op'[o].state \in Attempted
      BY LedgerMoves, AttemptsStay
<1>2. CASE calls'[o] = calls[o]
      BY <1>1, <1>2 DEF InvokedOnce, Attempted
<1>3. ASSUME NEW c \in Callers, BeginCall(c), o \in call[c].prepared
      PROVE  calls'[o] <= 1 /\ (calls'[o] = 1 => op'[o].state \in Attempted)
  <2>1. calls[o] = 0 /\ op[o].state \in Attempted
        BY <1>3 DEF BeginCall, Prepared, Attempted
  <2>2. calls'[o] = 1
        BY <1>3, <2>1 DEF BeginCall
  <2> QED BY <1>1, <2>1, <2>2
<1>4. ASSUME NEW c \in Callers, BeginCall(c), o \notin call[c].prepared
      PROVE  calls'[o] = calls[o]
      BY <1>4 DEF BeginCall
<1> QED BY <1>2, <1>3, <1>4, AllProceed DEF Proceeds, Starts, Calls, StaysOnCall, GoesOn, Prepares

\* A guarded call holds its grants' rows and the control row: whoever would take away what
\* it was decided on waits.
UnderGuard(c, s) == call[c].phase = "calling" /\ s \in call[c].guard

LEMMA GuardComesFrom ==
  ASSUME Typed, [Next]_vars, NEW c \in Callers, NEW s \in Sessions, UnderGuard(c, s)'
  PROVE  /\ call'[c].members = call[c].members
         /\ UnderGuard(c, s) \/ BeginCall(c)
<1>1. CASE call'[c] = call[c]
      BY <1>1 DEF UnderGuard
<1>2. ASSUME NEW d \in Callers, Others(d), d # c PROVE call'[c] = call[c]
      BY <1>2 DEF Others
<1>3. CASE Calls(c)
      BY <1>3 DEF Calls, Same
<1>4. CASE StaysOnCall(c)
      BY <1>4 DEF StaysOnCall, Same, UnderGuard
<1>5. ~Starts(c) /\ ~GoesOn(c) /\ \A o \in Ops : ~Prepares(c, o)
      BY DEF Starts, GoesOn, Prepares, UnderGuard
<1>6. ASSUME NEW d \in Callers,
             \/ Starts(d) \/ Calls(d) \/ StaysOnCall(d) \/ GoesOn(d)
             \/ \E o \in Ops : Prepares(d, o)
      PROVE  Others(d)
      BY <1>6 DEF Starts, Calls, StaysOnCall, GoesOn, Prepares
<1>7. CASE UNCHANGED <<call, calls>>
      BY <1>1, <1>7
<1>8. Proceeds
      BY AllProceed
<1> QED BY <1>1, <1>2, <1>3, <1>4, <1>5, <1>6, <1>7, <1>8 DEF Proceeds

LEMMA GrantsStep == Typed /\ Registered /\ GuardedCallKeepsGrants /\ [Next]_vars => GuardedCallKeepsGrants'
<1> SUFFICES ASSUME Typed, Registered, GuardedCallKeepsGrants, [Next]_vars,
                    NEW c \in Callers, UnderGuard(c, "policy")', NEW m \in call'[c].members
             PROVE  grant'[m.grant].revision = m.revision /\ grant'[m.grant].status \in {"active", "expired"}
    BY DEF GuardedCallKeepsGrants, UnderGuard
<1>1. m \in call[c].members /\ (UnderGuard(c, "policy") \/ BeginCall(c))
      BY GuardComesFrom DEF Sessions
<1>2. m.grant \in Grants
      BY <1>1 DEF Typed, Process, Members
<1>3. grant[m.grant].revision = m.revision /\ grant[m.grant].status \in {"active", "expired"}
  <2>1. CASE UnderGuard(c, "policy")
        BY <1>1, <2>1 DEF GuardedCallKeepsGrants, UnderGuard
  <2>2. CASE BeginCall(c)
        BY <1>1, <2>2 DEF BeginCall, MemberAuthorized, Authorized
  <2> QED BY <1>1, <2>1, <2>2
<1>4. CASE grant' = grant
      BY <1>3, <1>4
<1>5. CASE Owner
  <2>1. call' = call
        BY <1>5 DEF Owner, RegisterGrant, ReplaceGrant, RevokeGrant, ExpireGrant, ConfigureWindow,
           CloseWindow, SetFrozen
  <2>2. m.grant \in GrantsInUse
        BY <1>1, <2>1 DEF GrantsInUse, UnderGuard
  <2> QED BY <1>2, <1>3, <1>5, <2>2, OwnerGrants
<1>6. ASSUME NEW d \in Callers, Caller(d) PROVE grant' = grant
      BY <1>6, CallerScopes DEF authority
<1>7. CASE UNCHANGED vars
      BY <1>4, <1>7 DEF vars
<1> QED BY <1>4, <1>5, <1>6, <1>7 DEF Next

LEMMA FreezeStep == Typed /\ FreezeStopsCalls /\ [Next]_vars => FreezeStopsCalls'
<1> SUFFICES ASSUME Typed, FreezeStopsCalls, [Next]_vars, frozen',
                    NEW c \in Callers, UnderGuard(c, "control")'
             PROVE  OpsOf(call'[c].members) \subseteq LocalOps
    BY DEF FreezeStopsCalls, UnderGuard
<1>1. /\ call'[c].members = call[c].members
      /\ UnderGuard(c, "control") \/ BeginCall(c)
      BY GuardComesFrom DEF Sessions
<1>2. CASE frozen
  <2>1. CASE UnderGuard(c, "control")
        BY <1>1, <1>2, <2>1 DEF FreezeStopsCalls, UnderGuard
  <2>2. CASE BeginCall(c)
        BY <1>1, <1>2, <2>2 DEF BeginCall, Unprepared, EgressOpen
  <2> QED BY <1>1, <2>1, <2>2
<1>3. CASE ~frozen
  <2>1. ~(frozen' = frozen)
        BY <1>3
  <2>2. ASSUME NEW d \in Callers, Caller(d) PROVE frozen' = frozen
        BY <2>2, CallerScopes DEF authority
  <2>3. ASSUME NEW f \in BOOLEAN, SetFrozen(f) PROVE FALSE
    <3>1. call' = call /\ ~ControlInUse
          BY <2>3 DEF SetFrozen
    <3> QED BY <3>1 DEF ControlInUse, UnderGuard
  <2>4. CASE \E g \in Grants : RegisterGrant(g) \/ ReplaceGrant(g) \/ RevokeGrant(g) \/ ExpireGrant(g)
        BY <2>1, <2>4 DEF RegisterGrant, ReplaceGrant, RevokeGrant, ExpireGrant
  <2>5. CASE \E w \in Windows : ConfigureWindow(w) \/ CloseWindow(w)
        BY <2>1, <2>5 DEF ConfigureWindow, CloseWindow, authority
  <2>6. CASE UNCHANGED vars
        BY <2>1, <2>6 DEF vars
  <2> QED BY <2>1, <2>2, <2>3, <2>4, <2>5, <2>6 DEF Next, Owner
<1> QED BY <1>2, <1>3

-----------------------------------------------------------------------------
LEMMA InitIInv == Init => IInv
<1> SUFFICES ASSUME Init PROVE IInv
    OBVIOUS
<1>1. Typed
  <2>1. NoGrant \in Grant /\ NoWindow \in Window /\ NoOp \in Operation /\ Idle \in Process
        BY LedgerAssumption DEF NoGrant, Grant, NoWindow, Window, NoOp, Operation, States, Idle,
           Process, Phases, Settled
  <2>2. 0 \in 0..MaxMembers
        BY LedgerAssumption
  <2> QED BY <2>1, <2>2 DEF Init, Typed
<1>2. Registered
      BY DEF Init, Registered, NoGrant, NoWindow
<1>3. Balanced
  <2>1. ASSUME NEW w \in Windows PROVE BalancedAt(op, window, w)
    <3>1. HoldingOf(op, w) = {} /\ SpendingOf(op, w) = {}
          BY DEF Init, HoldingOf, SpendingOf, NoOp, Settled
    <3>2. Sum(Bounds(op), {}) = 0 /\ Sum(Costs(op), {}) = 0
          BY SumEmpty
    <3>3. window[w].reserved = 0 /\ window[w].consumed = 0
          BY DEF Init, NoWindow
    <3>4. Sum(Bounds(op), HoldingOf(op, w)) = 0 /\ Sum(Costs(op), SpendingOf(op, w)) = 0
          BY <3>1, <3>2, Zenon
    <3> QED BY <3>1, <3>3, <3>4, FS_EmptySet DEF BalancedAt
  <2> QED BY <2>1 DEF Balanced, BalancedAt
<1>4. CapacityRespected
      BY DEF Init, CapacityRespected, NoWindow
<1>5. Prepared
      BY DEF Init, Prepared, Idle
<1>6. InvokedOnce
      BY DEF Init, InvokedOnce
<1>7. GuardedCallsUndisturbed
      BY DEF Init, GuardedCallsUndisturbed, GuardedCallKeepsGrants, FreezeStopsCalls, Idle
<1> QED BY <1>1, <1>2, <1>3, <1>4, <1>5, <1>6, <1>7 DEF IInv

LEMMA NextIInv == IInv /\ [Next]_vars => IInv'
<1> SUFFICES ASSUME IInv, [Next]_vars PROVE IInv'
    OBVIOUS
<1>1. Typed' /\ Registered'
      BY TypedStep, RegisteredStep DEF IInv
<1>2. Balanced' /\ CapacityRespected'
      BY LedgerMoves, BalanceStep, CapacityStep DEF IInv
<1>3. Prepared' /\ InvokedOnce'
      BY PreparedStep, InvokedStep DEF IInv
<1>4. GuardedCallsUndisturbed'
      BY GrantsStep, FreezeStep DEF IInv, GuardedCallsUndisturbed
<1> QED BY <1>1, <1>2, <1>3, <1>4 DEF IInv

\* The invariant the theorems below are read from: it holds at the start and every step of
\* the ledger, the calls and the owner (storage/policy.py:150-430) keeps it.
THEOREM Invariance == Spec => []IInv
<1> QED BY InitIInv, NextIInv, PTL DEF Spec

-----------------------------------------------------------------------------
(* The theorems.                                                            *)

LEMMA CountersNotNegative ==
  ASSUME Typed, Balanced, NEW w \in Windows
  PROVE  window[w].reserved \in Nat /\ window[w].consumed \in Nat
<1>1. op \in [Ops -> Operation] /\ HoldingOf(op, w) \subseteq Ops /\ SpendingOf(op, w) \subseteq Ops
      BY DEF Typed, HoldingOf, SpendingOf
<1>2. \A o \in Ops : Bounds(op)[o] \in Nat /\ Costs(op)[o] \in Nat
      BY <1>1, RowTypes
<1>3. IsFiniteSet(HoldingOf(op, w)) /\ IsFiniteSet(SpendingOf(op, w))
      BY DEF Balanced
<1>4. Sum(Bounds(op), HoldingOf(op, w)) \in Nat /\ Sum(Costs(op), SpendingOf(op, w)) \in Nat
      BY <1>1, <1>2, <1>3, SumType
<1> QED BY <1>4 DEF Balanced

\* The tables and the processes' memory keep the shape that the DDL and the code give
\* them; in particular no balance is ever negative (reserved >= 0 and consumed >= 0 in
\* pa_policy.windows), because each is a sum of bounds and costs.
THEOREM TypeCorrect == Spec => []TypeOK
<1>1. ASSUME Typed, Balanced PROVE TypeOK
  <2>1. window \in [Windows -> [state: {"absent", "open", "closed"}, capacity: {0} \cup Capacities,
                                reserved: Nat, consumed: Nat]]
    <3>1. \A w \in Windows : window[w].reserved \in Nat /\ window[w].consumed \in Nat
          BY <1>1, CountersNotNegative
    <3>2. window \in [Windows -> Window]
          BY <1>1 DEF Typed
    <3> QED BY <3>1, <3>2 DEF Window
  <2> QED BY <1>1, <2>1 DEF Typed, TypeOK, Grant, Operation, States, Process, Phases
<1>2. IInv => TypeOK
      BY <1>1 DEF IInv
<1> QED BY <1>2, Invariance, PTL

\* However reservations, abandonments, settlements, failures and crashes of any number of
\* processes interleave, the two counters of a budget window are the sums of what its
\* operations hold and have spent (authorize_and_reserve, settle and
\* _abandon_operation, storage/policy.py:194-305): nothing is charged twice, forgotten or refunded.
THEOREM WindowsAlwaysBalance == Spec => []WindowsBalance
<1>1. IInv => WindowsBalance
      BY BalanceIsSum DEF IInv, WindowsBalance
<1> QED BY <1>1, Invariance, PTL

\* No window is ever committed beyond its capacity, whoever reserves at the same time
\* (storage/policy.py:217-235, under the windows' row locks).
THEOREM CapacityIsNeverExceeded == Spec => []CapacityRespected
<1>1. IInv => CapacityRespected
      BY DEF IInv
<1> QED BY <1>1, Invariance, PTL

\* A provider is invoked at most once for an operation, and never for one whose budget is
\* given back (storage/policy.py:248-305 and 394-430).
THEOREM ProvidersAreInvokedOnce == Spec => []InvokedOnce
<1>1. IInv => InvokedOnce
      BY DEF IInv
<1> QED BY <1>1, Invariance, PTL

\* As long as its two sessions live, a call keeps the grants and the egress that it was
\* decided on: revoking, replacing and freezing wait for it (storage/policy.py:157-183,
\* 312-335; runtime/operations.py:54-57).
THEOREM GuardsHold == Spec => []GuardedCallsUndisturbed
<1>1. IInv => GuardedCallsUndisturbed
      BY DEF IInv
<1> QED BY <1>1, Invariance, PTL

\* A call under way carries exactly the scopes that are recorded for its operations
\* (_commit_durable_transport, storage/policy.py:248-268).
THEOREM CallsCarryTheirScopes == Spec => []CallCarriesItsScopes
<1>1. IInv => CallCarriesItsScopes
      BY DEF IInv, Prepared, CallCarriesItsScopes
<1> QED BY <1>1, Invariance, PTL

\* A settled operation stays settled; its cost falls at most once, from its bound to the
\* usage the provider reported (settle, storage/policy.py:273-294).
THEOREM CostsAreSaidOnce == Spec => ChargesSettleOnce
<1>1. IInv /\ [Next]_vars => \A o \in Ops : SettledOnce(o)
      BY LedgerMoves, AttemptsStay DEF IInv
<1> QED BY <1>1, Invariance, PTL DEF Spec, ChargesSettleOnce

=============================================================================
