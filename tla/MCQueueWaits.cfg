SPECIFICATION FairSpec

CONSTANTS
  w1 = w1
  a = a
  NoOne = NoOne
  NoItem = NoItem
  Writers = {w1}
  Data = {a}
  ItemCount = 1
  GrowCount = 1
  MaxGrowCount = 1
  MultipleWriters = FALSE
  FiniteTimeout = FALSE
  MaxPushes = 4

INVARIANTS
  PusherSleepsOnlyWhenFull

PROPERTIES
  WaitingPopReturns
  WaitingPushReturns
