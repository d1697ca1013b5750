SPECIFICATION FairSpec
CONSTANTS
  w1 = w1
  w2 = w2
  a = a
  b = b
  None = None
  Writers = {w1, w2}
  Data = {a, b}
  ItemCount = 3
  MaxWrites = 3
PROPERTY ImplementsBoundedQueue
PROPERTY SleepersReturn
CHECK_DEADLOCK FALSE
