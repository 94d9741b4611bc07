SPECIFICATION Spec
CONSTANTS
  Refs <- MCRefs
  Assignments <- MCAssignments
  Lines <- MCLines
  MaxTokens = 9
  MaxWord = 5
INVARIANTS
  MeantLine
  IndexPaired
  FailsOnlyOnOddValues
PROPERTIES
  Terminates
