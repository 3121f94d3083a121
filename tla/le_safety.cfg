SPECIFICATION Spec
CONSTANTS
  p1 = p1
  p2 = p2
  NoOne = NoOne
  Pod <- TwoPods
  Flaky <- TwoPods
  Mortal <- TwoPods
  StopMayTimeOut = TRUE
  LockTTL = 5
  Second = 2
  Interval = 2
  MaxRound = 1
SYMMETRY Symmetry
INVARIANTS
  TypeOK
  AtMostOneLeader
  LeaderHoldsLock
  LeaseMargin
PROPERTIES
  RenewalNeverRefused
  ImplementsLeadership
