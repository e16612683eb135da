SPECIFICATION Spec
CONSTANTS
  p1 = p1
  c1 = c1
  c2 = c2
  Proposals = {p1}
  MaxVersion = 2
  Callers = {c1, c2}
  Traceable = {p1}
SYMMETRY Symmetry
INVARIANTS TypeOK OneUse DispatchExcludesChange SentWasShown
PROPERTY EachVersionTakesEffectOnce
CHECK_DEADLOCK FALSE
