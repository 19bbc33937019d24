SPECIFICATION DocsSpec
CONSTANTS
  BookCount = 2
  Inputs <- MCInputs
  Word <- MCWord
  File <- MCFile
  a = a
  b = b
  None = None
INVARIANTS
  ExitZeroMeansSound
  NoFalseAlarm
CHECK_DEADLOCK FALSE
