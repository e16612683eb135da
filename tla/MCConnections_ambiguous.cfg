SPECIFICATION Spec
CONSTANTS
  p1 = p1
  p2 = p2
  p3 = p3
  f1 = f1
  f2 = f2
  f3 = f3
  Processes = {p1, p2, p3}
  Flows = {f1, f2, f3}
  MaxSecret = 3
  MaxRevision = 5
  CommitAnswered = FALSE
SYMMETRY Symmetry
INVARIANT ActiveSecretStored
CHECK_DEADLOCK FALSE
