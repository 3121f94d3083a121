SPECIFICATION FairSpec
CONSTANTS
  p1 = p1
  p2 = p2
  Pod <- TwoPods
  Slot = {1}
  MaxRev = 1
  MaxTerms = 2
  Kinds = {"ok"}
  Evictable = {}
  Mortal <- Nobody
  MayFail = FALSE
  MaxLate = 0
  PeriodsOverlap = FALSE
PROPERTIES
  TermsReachFollowers
