CONSTANTS
  UserThread = user
  NetworkThread = network
  NoThread = nobody
  Targets = {s1}
  Modes = {"insecure"}
  RepeatConnect = FALSE
  Times = 3
  ByteMod = 256
  SendResults = {"sent", "slow"}
  NTSPlugins = 1
  CountMod = 4
  AnswerKinds = {"refused"}
  MaxNesting = 3
  MaxPosted = 2
  MaxCancels = 1
  MaxDeliveries = 2
SPECIFICATION FairSpec
INVARIANTS
  LockGivenBack
PROPERTIES
  AttemptEnds
  NetworkKeepsCycling
