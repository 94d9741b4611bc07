SPECIFICATION DocSpec
CONSTANTS
  Delimiters <- MCDelimiters
  Environments <- MCEnvironments
  Status <- MCStatus
  MaxLines = 2
  MaxSymbols = 5
INVARIANTS
  DocumentAsMeant
