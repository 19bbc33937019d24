SPECIFICATION FairSpec
CONSTANTS
  Paths <- MCPaths
  None = None
INVARIANTS
  ScannersAgree
  TablesByBlock
  ExitZeroMeansChecked
  TimedOutGone
PROPERTIES
  CheckEnds
CHECK_DEADLOCK FALSE
