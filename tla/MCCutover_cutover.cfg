SPECIFICATION Spec
CONSTANTS
  Sites = {s1, s2}
  First = s1
  Effects = {e1}
  Objects = {memory, derived}
  memory = memory
  derived = derived
  Parent <- Derivation
  Workers = {w1}
  Epochs = {E1, E2}
  None = None
SYMMETRY Symmetry
CONSTRAINT Slice
INVARIANTS
  RequestedOnce
  ReadableAtWriter
  OnlyApprovedSends
PROPERTY NothingReopened
