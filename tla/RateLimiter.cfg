\* Two keys, windows of three ticks; limits of 0, 1 and 3 and none at all.
CONSTANTS
  k1 = k1
  k2 = k2
  NaN = NaN
  Key = {k1, k2}
  Limits <- Configured
  Window = 3
  Burst = 2
SPECIFICATION FairSpec
INVARIANTS
  LimiterInv
  WindowIsRespected
  BurstIsBounded
  RefusedOnlyWhenUsedUp
PROPERTIES
  RefusalEnds
