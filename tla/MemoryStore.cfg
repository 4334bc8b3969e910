SPECIFICATION Spec
CONSTANTS
  Sets <- MixedSets
  MaxUpserts = 4
INVARIANTS
  TypeOK
  NoDuplicates
  LatestWins
PROPERTIES
  ImplementsRateStore
CHECK_DEADLOCK FALSE
