SPECIFICATION Spec
CONSTANTS
  c1 = c1
  loop = loop
  main = main
  Caller <- OneCaller
  Writer <- TwoWriters
  Envelopes <- SomeEnvelopes
  NoPairs = "none"
  MaxTime = 4
SYMMETRY Symmetry
INVARIANTS
  TypeOK
  AnswersHold
  RefreshNotBeforeRevision
  TimeLeftMeansValid
PROPERTIES
  KeepsRateSheets
