SPECIFICATION Spec
CONSTANTS
  p1 = p1
  p2 = p2
  Pod <- TwoPods
  Slot = {1}
  MaxRev = 2
  MaxTerms = 0
  Kinds = {"ok", "failed"}
  Evictable = {}
  Mortal <- Nobody
  MayFail = FALSE
  MaxLate = 0
  PeriodsOverlap = FALSE
SYMMETRY Symmetry
INVARIANTS
  NoDataLoss
