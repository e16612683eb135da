SPECIFICATION Spec
CONSTANTS
  Jobs = {j1, j2, j3}
  Inputs = {i1}
  Workers = {w1, w2}
  Connections = {c1}
  NoConnection = NoConnection
  Kinds = {"compute.assistant", "effect.dispatch"}
  Priorities = {0}
  AttemptLimits = {2}
  LeaseLengths = {1}
  RetryDelays = {1}
  FencedOps = {"checkpoint", "complete", "retry"}
  AdmissionLimit = 2
  DeletionLimit = 4
  Horizon = 3
SYMMETRY Symmetry
CONSTRAINT Slice
INVARIANTS
  WriterStaysCurrent
  OneCurrentLease
  EffectClaimedOnce
  AttemptsBounded
  NoOrphanedResult
  AdmissionRespected
  SerialAssistant
PROPERTY OutcomeKept
