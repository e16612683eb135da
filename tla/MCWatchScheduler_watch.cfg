SPECIFICATION Spec
CONSTANTS
  s1 = s1
  A = A
  B = B
  t1 = t1
  c1 = c1
  c2 = c2
  d1 = d1
  d2 = d2
  Subjects = {s1}
  Prints = {A, B}
  Tickers = {t1}
  Collectors = {c1, c2}
  Senders = {d1, d2}
  DailyCap = 1
  MaxRevision = 2
  MaxSlot = 3
  MaxDay = 2
SYMMETRY Symmetry
INVARIANTS TypeOK QueuedIsCurrent GuardedCallsStayCurrent CapRespected
PROPERTY CollectsOnlyWhatIsDue
CHECK_DEADLOCK FALSE
