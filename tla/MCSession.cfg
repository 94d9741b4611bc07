SPECIFICATION Spec
CONSTANTS
  Garbage = Garbage
  Codes <- MCCodes
  Signals <- MCSignals
  MaxInt = 2
INVARIANTS
  TypeOK
  NoOrphanWithoutHeredoc
  GarbageOnlyThroughPipeline
PROPERTIES
  SimpleStatus
  CtrlCKills
  LineEnds
