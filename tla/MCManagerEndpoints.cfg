\* Two endpoints of a receiver, which may be destroyed, or of a transmitter:
\* a command and the shutdown of the connection.
SPECIFICATION Spec

CONSTANTS
  e1 = e1
  e2 = e2
  None = None
  Endpoints = {e1, e2}
  Transmitters = {FALSE, TRUE}
  QueueSize = 3
  Changes = {"Reset"}
  MaxCommands = 1
  Destroyers = {FALSE}

SYMMETRY Symmetry

INVARIANTS
  CountsAreExact
  ProcessesLiveEndpoints
  DestroyedIsGone

PROPERTIES
  DoneIsFinal
