SPECIFICATION Spec
CONSTANTS
  Lookahead = 3
  Skips <- NoneOrOne
  MaxTokens = 12
  MaxTables = 2
INVARIANTS
  TypeOK
  RightTable
  StopsWithTable
  RowsAsWritten
  WordsKept
