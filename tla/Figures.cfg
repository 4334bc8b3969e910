SPECIFICATION Spec
CONSTANTS
  Sources <- AllSources
  Starts <- SomeStarts
  MaxWait = 13
  Dates <- SomeDates
  RateTexts <- SomeRates
INVARIANTS
  TypeOK
  MonthAsPublished
  NoRowLost
  ChangeDateAsPublished
  RateAsPublished
