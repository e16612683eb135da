SPECIFICATION ServiceSpec
CONSTANTS
  Jobs = {j1}
  Inputs = {i1}
  Workers = {w1}
  Connections = {}
  NoConnection = NoConnection
  Kinds = {"compute.assistant"}
  Priorities = {0}
  AttemptLimits = {2}
  LeaseLengths = {1}
  RetryDelays = {1}
  FencedOps = {"checkpoint", "complete", "retry"}
  AdmissionLimit = 2
  DeletionLimit = 3
  Horizon = 2
PROPERTIES
  LapsedLeaseRecovered
