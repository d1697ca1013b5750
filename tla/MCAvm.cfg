SPECIFICATION Spec
CONSTANTS
  sender = sender
  receiver = receiver
  app = app
  Sender = sender
  Receiver = receiver
  App = app
  Thread <- MCThread
  ProfilesMax = 4
  NoThread = NoThread
  NoVersion = NoVersion
  Configs <- MCConfigs
  AppVersions <- MCAppVersions
  PacketLists <- MCPacketLists
  ForeignPayloads <- MCForeignPayloads
  MaxPayloads = 1
CONSTRAINT OneThingAtATime
INVARIANTS
  RegistryIsWhole
  ConfigurationArrives
  PacketsArrive
  CorruptionIsReported
CHECK_DEADLOCK FALSE
