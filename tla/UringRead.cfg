SPECIFICATION FairSpec
CONSTANTS
  BufferSize = 3
INVARIANTS
  TypeOK
  BufferOutlivesRequest
  SuccessMeansRead
  NothingLeaks
PROPERTIES
  LifetimeKept
  ProcessEnds
CHECK_DEADLOCK FALSE
