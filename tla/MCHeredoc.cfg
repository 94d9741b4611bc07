SPECIFICATION Spec
CONSTANTS
  Cap = 3
  MaxLen = 2
  MaxTyped = 5
  MaxInt = 2
  Faults <- AllFaults
INVARIANTS
  TypeOK
  ReaderGone
  CancelledNotUsed
  AcceptedIsComplete
PROPERTIES
  ReturnsOrOverflows
