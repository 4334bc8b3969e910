SPECIFICATION SystemSpec
CONSTANTS
  c1 = c1
  c2 = c2
  Crawlers <- TwoCrawlers
  InterestSets <- ThreeSets
  MaxSends = 2
  Panicky <- OnePanicky
  StoreErrors <- OnlyRace
  MaxCap = 2
INVARIANTS
  SystemTypeOK
  SummaryOffByOneLine
  FaultOnlyAtAppend
PROPERTIES
  ImplementsCrawlService
  ImplementsMemoryStore
