CONSTANTS
  UserThread = main
  NetworkThread = main
  NoThread = nobody
  Targets = {s1, s2}
  Modes = {"insecure", "any_key"}
  RepeatConnect = TRUE
  Times = 3
  ByteMod = 256
  SendResults = {"sent", "slow", "too_big"}
  NTSPlugins = 1
  CountMod = 4
  AnswerKinds = {"reply1", "reply2", "refused"}
  MaxNesting = 3
  MaxPosted = 2
  MaxCancels = 0
  MaxDeliveries = 2
SPECIFICATION Spec
INVARIANTS
  TypeOK
  NeverOverLimit
  EveryEndIsTold
  FailureIsFinal
PROPERTIES
  MtuNeverGrows
CHECK_DEADLOCK FALSE
