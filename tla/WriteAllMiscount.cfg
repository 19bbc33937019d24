SPECIFICATION Spec
CONSTANTS
  MaxTotal = 12
  ChunkSize = 4
  None = None
  NotAnInt = NotAnInt
  Reports <- MCMiscounts
INVARIANT
  EveryByteOrRaise
CHECK_DEADLOCK FALSE
