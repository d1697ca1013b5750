\* One endpoint of a receiver: commands, the destruction of the endpoint and
\* the shutdown of the connection, all of which must complete.
SPECIFICATION FairSpec

CONSTANTS
  e1 = e1
  None = None
  Endpoints = {e1}
  Transmitters = {FALSE}
  QueueSize = 2
  Changes = {"Reset", "Start"}
  MaxCommands = 2
  Destroyers = {FALSE}

INVARIANTS
  ProcessesInBarrier

PROPERTIES
  ShutdownCompletes
  DestroyReturns
  CommandsExecute
