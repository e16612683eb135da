SPECIFICATION ServiceSpec
CONSTANTS
  Jobs = {j1, j2}
  Inputs = {i1}
  Workers = {w1}
  Connections = {}
  NoConnection = NoConnection
  Kinds = {"compute.digest"}
  Priorities = {0}
  AttemptLimits = {2}
  LeaseLengths = {1}
  RetryDelays = {1}
  FencedOps = {"heartbeat", "complete", "retry"}
  AdmissionLimit = 2
  DeletionLimit = 3
  Horizon = 2
PROPERTIES
  JobsSettle
