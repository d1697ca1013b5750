SPECIFICATION Spec
CONSTANT Connections <- ConnectionsValue
CHECK_DEADLOCK FALSE
INVARIANTS
  NothingIsLost
  NoMisuse
