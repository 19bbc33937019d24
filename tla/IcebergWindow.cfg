SPECIFICATION Spec
CONSTANTS
  MaxRuns = 3
  MaxPuts = 2
  None = None
INVARIANTS
  OnlyMarkedEmptied
CHECK_DEADLOCK FALSE
