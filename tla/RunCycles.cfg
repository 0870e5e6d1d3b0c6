CONSTANTS
  SocketCount = 2
  SingleThread = TRUE
  DebugLog = TRUE
  PluginsTS = 1
  PluginsNTS = 0
  UserCalls = {"PostComand", "Connect_"}
  QueueSize = 1
  PoolSizes <- Pools223
SPECIFICATION FairSpec
INVARIANTS
  OwnedOnce
PROPERTIES
  AllComeHome
  NetworkKeepsCycling
