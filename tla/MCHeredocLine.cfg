SPECIFICATION LineSpec
CONSTANTS
  Cap = 2
  MaxLen = 1
  MaxTyped = 3
  MaxInt = 3
  Faults <- AllFaults
INVARIANTS
  RunsWithDocument
  PromptIsAlone
  CancelledLineStatus
