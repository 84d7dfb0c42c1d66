SPECIFICATION FairSpec
CONSTANTS
  boot = boot  c1 = c1  c2 = c2  c3 = c3
  Caller = {boot, c1, c2}
  Boot = boot
  Ttl = 2
  MaxLoad = 1
  Aligned = {1, 3}
  Empty = {3}
  MaxVersion = 3
  MaxTime = 4
  MaxDrops = 1
INVARIANTS LoaderHoldsLock StaleAtMostTtl InvalidateForcesRead
PROPERTIES NeverBackwards CallsReturn
CHECK_DEADLOCK FALSE
