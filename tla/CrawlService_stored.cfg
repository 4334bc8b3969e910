SPECIFICATION Spec
CONSTANTS
  c1 = c1
  c2 = c2
  s1 = s1
  s2 = s2
  Crawlers <- TwoCrawlers
  InterestSets <- TwoSets
  MaxSends = 1
  Panicky <- NoneOf
  StoreErrors <- NoErrors
INVARIANTS
  StoredBeforeExit
