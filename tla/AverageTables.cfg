SPECIFICATION Spec
CONSTANTS
  Readers <- AllReaders
  Periods <- SomePeriods
  Columns = 2
  MaxRows = 3
INVARIANTS
  TypeOK
  UnderItsHeading
  NothingMissed
