SPECIFICATION Spec
CONSTANTS
  a = a
  b = b
  Dirs = {a, b}
  Here = here
  Paths <- MCPaths
  EmptyItem = emptyItem
  NoPath = noPath
  MaxChanges = 2
INVARIANTS
  AsIfAtomic
  OutcomeHasReason
