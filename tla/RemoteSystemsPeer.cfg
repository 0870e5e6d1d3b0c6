CONSTANTS
  a1 = a1
  a2 = a2
  a3 = a3
  Addresses = {a1, a2, a3}
  Guids = {g1, g2}
  NullAddress = noaddr
  NullGuid = noguid
  maxConnections = 2
  Bucket <- MCBucket
  Ip <- MCIp
  SecureIncoming = TRUE
  BadChallenges = TRUE
  LimitFrequency = FALSE
  ConnectsOut = TRUE
  Reroutes = {a3}
SPECIFICATION Spec
INVARIANTS
  ChainsExact
  ActiveListExact
