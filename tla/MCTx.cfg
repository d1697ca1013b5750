\* Two streams whose packets need more work requests, scatter-gather entries
\* and adapter slots than there are, with sends and completions that fail, and
\* the loss and reset of a connection with one stream.
SPECIFICATION FairSpec

CONSTANTS
  App = {a1}
  Streams = 2
  Packets <- TwoPackets
  MaxTxPayloads = 2
  WorkRequests = 3
  PacketSglEntries = 5
  PayloadSglEntries = 2
  Batches = 2
  InProcess = 2
  PayloadNumMax = 1
  Messages = 1
  SendResults = {"Ok", "Failed"}
  AckResults = {"Ok", "Failed"}
  MaxLosses = 1
  None = None

CHECK_DEADLOCK FALSE
CONSTRAINTS
  BeforeRace
  OneEndpointIsLost
  LastCallIsRefused
INVARIANTS
  ResourcesAreConserved
  ReturnsOnce
  PacketsBelongToPayloads
  ResetLeavesNothing
PROPERTIES
  EveryPayloadReturns
