SPECIFICATION Spec

CONSTANTS
  w1 = w1
  w2 = w2
  a = a
  b = b
  NoOne = NoOne
  NoItem = NoItem
  Writers = {w1, w2}
  Data = {a, b}
  ItemCount = 1
  GrowCount = 1
  MaxGrowCount = 1
  MultipleWriters = TRUE
  FiniteTimeout = TRUE
  MaxPushes = 3

SYMMETRY Symmetry

INVARIANTS
  NoTornCopy
  PopperSleepsOnlyWhenEmpty

PROPERTIES
  ImplementsBoundedQueue
