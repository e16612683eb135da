SPECIFICATION Spec
CONSTANTS
  g1 = g1
  g2 = g2
  w1 = w1
  w2 = w2
  Callers = {c1, c2}
  Ops = {o1, o2, o3}
  Compound = {o1}
  LocalOps = {o2}
  Grants = {g1, g2}
  GrantOf <- TwoGrants
  Windows = {w1}
  Contexts <- OneWindow
  UpperBounds = {1}
  Capacities = {1, 2}
  Quotas = {1, 2}
  MaxRevision = 2
  MaxMembers = 3
SYMMETRY Symmetry
CONSTRAINT Slice
INVARIANTS
  TypeOK
  WindowsBalance
  CapacityRespected
  InvokedOnce
  GuardedCallsUndisturbed
  CallCarriesItsScopes
PROPERTIES
  ChargesSettleOnce
