SPECIFICATION Spec
CONSTANTS
  g1 = g1
  g2 = g2
  w1 = w1
  w2 = w2
  Callers = {c1, c2}
  Ops = {o1, o2}
  Compound = {o1}
  LocalOps = {}
  Grants = {g1, g2}
  GrantOf <- TwoGrants
  Windows = {w1}
  Contexts <- OneWindow
  UpperBounds = {1}
  Capacities = {2}
  Quotas = {2}
  MaxRevision = 1
  MaxMembers = 2
SYMMETRY Symmetry
INVARIANT UnrelatedScopesContinue
