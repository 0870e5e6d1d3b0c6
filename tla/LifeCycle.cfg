CONSTANTS
  SocketCount = 2
  Blocking = {1, 2}
  Creations = {TRUE, FALSE}
  Tries = 2
  MaxLost = 2
  MaxInbox = 1
SPECIFICATION FairSpec
INVARIANTS
  StartMeansRunning
PROPERTIES
  StartReturns
  ThreadsEnd
CHECK_DEADLOCK FALSE
