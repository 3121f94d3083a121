SPECIFICATION Spec
CONSTANTS
  Day = 4
  MonthDays <- Months
  FirstDay = 300
  MaxDuration = 1023
  Upper <- UpperCase
  BpddNames <- Bases
  FreqNames <- Frequencies
  Cases <- SomeCases
  Now = 1500
CHECK_DEADLOCK FALSE
INVARIANTS
  TypeOK
  DueNearPeriodEnd
  TenorFits
  RateOfThePair
  SpotIsEnough
PROPERTIES
  LaterIsNotSooner
