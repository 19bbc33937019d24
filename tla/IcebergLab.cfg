SPECIFICATION Spec
CONSTANTS
  MaxRuns = 3
  MaxPuts = 2
  None = None
INVARIANTS
  TypeOK
  UnmarkedKept
  AssertionsHold
  RefusalExplained
CHECK_DEADLOCK FALSE
