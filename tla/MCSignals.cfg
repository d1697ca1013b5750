SPECIFICATION FairSpec
CONSTANTS
  w1 = w1
  w2 = w2
  w3 = w3
  queue = queue
  shutdown = shutdown
  abort = abort
  None = None
  Threads = {w1, w2, w3}
  Signals = {queue, shutdown, abort}
  Arrays <- Waiting
  MaxThreadsWaiting = 2
  MaxSets = 1
  MaxWaits = 3
INVARIANT DeletableWhenUnused
PROPERTY SetEndsWait
