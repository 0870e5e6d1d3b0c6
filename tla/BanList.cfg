CONSTANTS
  home = home
  net = net
  h1 = h1
  h2 = h2
  Pattern = {home, net}
  Sender = {h1, h2}
  Covers <- MCCovers
  Terms = {0, 1}
  MaxTime = 2
  MaxBans = 2
SPECIFICATION Spec
INVARIANTS
  BannedStaysOut
