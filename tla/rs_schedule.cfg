SPECIFICATION Spec
CONSTANTS
  Buffer = 13
  RatesInterval = 5
  TermsInterval = 5
  Retry = 2
  MaxCall = 2
  Validity = {15, 18}
  MaxFailures = 1
  Start = 20
  Horizon = 70
CONSTRAINT WithinHorizon
INVARIANTS
  TypeOK
  RatesStayValid
PROPERTIES
  CallsSpaced
