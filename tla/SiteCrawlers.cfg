SPECIFICATION Spec
CONSTANTS
  Crawled <- AllBanks
  Rows = {1, 2}
INVARIANTS
  TypeOK
  FailuresAreIsolated
PROPERTIES
  CrawlEnds
  ImplementsSiteCrawler
