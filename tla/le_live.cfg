SPECIFICATION FairSpec
CONSTANTS
  p1 = p1
  p2 = p2
  NoOne = NoOne
  Pod <- TwoPods
  Flaky <- TheOther
  Mortal <- OnePod
  StopMayTimeOut = FALSE
  LockTTL = 5
  Second = 2
  Interval = 2
  MaxRound = 1
INVARIANTS
  StopReleasesLock
PROPERTIES
  Failover
