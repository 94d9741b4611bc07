SPECIFICATION Spec
CONSTANTS
  NSeg = 3
  Cap = 1
  MaxOut = 1
  Codes = {0}
  MaxInt = 1
  Faults <- AllFaults
INVARIANTS
  TypeOK
  OnlyOwnEnds
  ShellKeepsNoEnd
  EofMeansUpstreamGone
  SigpipeMeansReaderGone
  ReportedStatus
PROPERTIES
  ImplementsAbs
