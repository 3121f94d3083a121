SPECIFICATION HistorySpec
CONSTANTS
  p1 = p1
  p2 = p2
  Pod <- TwoPods
  Slot = {1}
  MaxRev = 2
  MaxTerms = 0
  Kinds = {"ok"}
  Evictable = {}
  Mortal <- Nobody
  MayFail = TRUE
  MaxLate = 1
  PeriodsOverlap = TRUE
SYMMETRY Symmetry
CONSTRAINTS
  LastIsFresh
  OneSync
INVARIANTS
  TypeOK
  AnnouncedWasStored
  ServedWasStored
  WritesAreFresh
