SPECIFICATION Spec
CONSTANTS
  Sources <- EverySource
  MaxSections = 2
  MaxRows = 2
INVARIANTS
  TypeOK
  RightColumn
  NoInventedRate
  RightSection
  BadRowAlone
