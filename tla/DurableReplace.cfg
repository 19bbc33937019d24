SPECIFICATION FairSpec
CONSTANTS
  Chunks = 2
  MaxCalls = 3
INVARIANTS
  TypeOK
  FinalNeverTorn
  AckSurvives
  ReturnMeansVisible
PROPERTIES
  ImplementsAtomicFile
  CallsEnd
CHECK_DEADLOCK FALSE
