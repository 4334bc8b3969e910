SPECIFICATION Spec
CONSTANTS
  Readers <- OnlyLF
  Periods <- SomePeriods
  Columns = 2
  MaxRows = 2
INVARIANTS
  EmptyRatesKeepPlace
