SPECIFICATION FairSpec
CONSTANTS
  p1 = p1
  p2 = p2
  Pod <- TwoPods
  Slot = {1}
  MaxRev = 1
  MaxTerms = 1
  Kinds = {"ok"}
  Evictable = {}
  Mortal <- OnePod
  MayFail = FALSE
  MaxLate = 1
  PeriodsOverlap = TRUE
PROPERTIES
  LoopsEnd
