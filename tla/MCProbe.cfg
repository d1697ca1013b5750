\* One connection whose application sends nothing, with one fault anywhere, or
\* a payload per unit of time, with an error of the receiver at any moment.
\* The receiver opens its endpoint at a new address each time, and versions
\* of libfabric that older SDKs need are not built in.
SPECIFICATION FairSpec
CONSTANTS
  ProbePackets = 2
  FifoSize = 5
  CommandRetries = 2
  ResetRetries = 3
  AckWaits = 2
  AckWaitTime = 1
  AckTime = 1
  ManagerTime = 1
  ResetTime = 2
  ProbeTime = 3
  PingTime = 5
  PingMonitorTime = 10
  ReusesAddress = FALSE
  HasLibfabric19 = FALSE
  Apps = {FALSE, TRUE}
  Faults <- FaultsValue
  MaxFaults = 1
INVARIANT PacketsMeetTheirOwner
INVARIANT NeverWaitsForItself
PROPERTY OnlyProvenConnections
PROPERTY Settles
CHECK_DEADLOCK FALSE
