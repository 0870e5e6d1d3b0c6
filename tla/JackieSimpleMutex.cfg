CONSTANTS
  Threads = {t1, t2, t3}
  NoThread = nobody
  CountMod = 4
  MaxNesting = 3
SPECIFICATION FairSpec
INVARIANTS TypeOK MutualExclusion CountIsDepth NoSelfDeadlock
PROPERTIES OnlyHolderReenters AlwaysReleased
