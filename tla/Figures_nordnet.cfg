SPECIFICATION Spec
CONSTANTS
  Sources <- NordnetOnly
  Starts <- OneStart
  MaxWait = 0
  Dates <- SomeDates
  RateTexts <- SomeRates
INVARIANTS
  NominalRateReturned
