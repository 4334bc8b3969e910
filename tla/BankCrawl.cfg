SPECIFICATION BankSpec
CONSTANTS
  c1 = c1
  c2 = c2
  Crawlers <- TwoCrawlers
  one = c1
  InterestSets <- TwoTypes
  MaxSends = 2
  Panicky <- OnePanicky
  StoreErrors <- AnyError
  Crawled <- ThreeBanks
  Rows = {1}
  SetOf <- TypeOf
INVARIANTS
  TypeOK
  DeliveredInOrder
  QuietAfterWait
  AtMostOneUnstored
  SummaryMissesOnlyLast
  FindsAreStored
PROPERTIES
  OfferIsTaken
  RunEnds
  BankImplementsCrawlService
