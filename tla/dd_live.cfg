SPECIFICATION FairSpec
CONSTANTS
  p1 = p1
  p2 = p2
  Pod <- TwoPods
  Slot = {1}
  MaxRev = 2
  MaxTerms = 0
  Kinds = {"ok"}
  Evictable = {"version"}
  Mortal <- OnePod
  MayFail = TRUE
  MaxLate = 0
  PeriodsOverlap = FALSE
PROPERTIES
  FollowersConverge
  Refreshed
