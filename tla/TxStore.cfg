SPECIFICATION Spec
CONSTANTS
  Xid = {1, 2, 3}
  MaxWrites = 4
  None = None
INVARIANTS
  SeesOneVersion
  RecoveryExact
CHECK_DEADLOCK FALSE
