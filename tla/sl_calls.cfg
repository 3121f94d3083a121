SPECIFICATION FairSpec
CONSTANTS
  c1 = c1
  c2 = c2
  Caller <- TwoCallers
  Slot <- TwoSlots
  Nobody = Nobody
INVARIANTS
  TypeOK
  InitializeSucceeds
  NothingLeft
  LockGivenBack
PROPERTIES
  StoppedFirstNeverLeads
  CallsReturn
  GoroutinesEnd
