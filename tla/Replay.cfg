SPECIFICATION Spec
CONSTANTS
  e1 = e1
  e2 = e2
  e3 = e3
  r1 = r1
  r2 = r2
  EventId = {e1, e2, e3}
  RunId = {r1, r2}
  SequenceNo = {1, 2}
  State = {"Preparing", "Ready", "Failed"}
  File <- MCFiles
  Blank = Blank
  BadLine = BadLine
  BadRow = BadRow
  Absent = Absent
  MaxLines = 5
  RejectAt = 3
  RetainFrom = 3
INVARIANTS
  TypeOK
  SinksFollowCursors
  HotKeepsUp
  NoSilentSkip
  SuccessMeansConverged
  LatestState
PROPERTIES
  ImplementsLogPipeline
CHECK_DEADLOCK FALSE
