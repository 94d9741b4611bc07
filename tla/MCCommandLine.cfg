SPECIFICATION LineSpec
CONSTANTS
  MaxLine = 5
  MaxTokens = 7
  Lines <- MCLines
INVARIANTS
  TokensAsMeant
  ScansStayInside
  CleanSplit
  OwnWordsUnlessEmptied
