SPECIFICATION Spec
CONSTANTS
  MaxSeg = 3
  MaxRedir = 3
INVARIANTS
  RunsWithItsOwnFiles
  NumberNeverAliased
  TableRestored
