SPECIFICATION Spec

CONSTANTS
  Sizes <- MixedSizes
  InFlight = 2
  PayloadNumMax = 4
  Buffer = 5
  Window = 4
  PacketBuffers = 7
  ReorderLists = 2
  QueueSize = 2
  FreeQueueSize = 1
  None = None

CHECK_DEADLOCK FALSE

INVARIANTS
  DeliversInOrder
  RunsAreMaximal
  ResourcesAreConserved
  WindowCountIsExact
