SPECIFICATION ExitSpec
CONSTANTS
  LLongMax = 511
  MaxDigits = 4
INVARIANTS
  NoSignedOverflow
  ExactCode
