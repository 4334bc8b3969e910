SPECIFICATION Spec
CONSTANTS
  Sets <- TierSets
  MaxUpserts = 3
INVARIANTS
  TiersKept
CHECK_DEADLOCK FALSE
