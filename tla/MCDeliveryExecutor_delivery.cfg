SPECIFICATION Spec
CONSTANTS
  short = short
  long = long
  s1 = s1
  s2 = s2
  Results = {short, long}
  PartsOf <- OneShortOneLong
  g1 = g1
  Sources = {g1}
  SourcesOf <- OneSource
  Senders = {s1, s2}
SYMMETRY Symmetry
INVARIANTS TypeOK OneSenderPerMessage GuardedSendKeepsAnswer AggregateIsTrue PartsInOrder
PROPERTY EachMessageTakesEffectOnce
CHECK_DEADLOCK FALSE
