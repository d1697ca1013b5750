SPECIFICATION FairSpec
CONSTANTS
  None = None
  Garbage = Garbage
  MaxPacket = 66
  MaxEntries = 3
  Unit = 20
  TxSdks <- TxSdksValue
  RxSdks <- RxSdksValue
  Sources <- SourcesValue
  SglEntries = 4
  MaxPayloads = 2
  MaxFaults = 2
  CommandRetries = 2
  Numbers = 4
INVARIANTS
  SidesAgree
  PayloadsArrive
PROPERTY Connects
CHECK_DEADLOCK FALSE
