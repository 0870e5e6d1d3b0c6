CONSTANTS
  a1 = a1
  a2 = a2
  a3 = a3
  Addresses = {a1, a2, a3}
  Guids = {g1, g2, g3}
  NullAddress = noaddr
  NullGuid = noguid
  maxConnections = 2
  Bucket <- MCBucket
  Ip <- MCIp
  SecureIncoming = TRUE
  BadChallenges = FALSE
  LimitFrequency = FALSE
  ConnectsOut = FALSE
  Reroutes = {}
SPECIFICATION Spec
INVARIANTS
  TypeOK
  ActiveIsFound
  GuidsDistinct
  AnsweredHasSlot
PROPERTIES
  NoSlotTakenOver
