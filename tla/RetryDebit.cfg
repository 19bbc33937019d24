SPECIFICATION FairSpec
CONSTANTS
  R42 = R42
  R43 = R43
  R44 = R44
  RequestId = {R42, R43, R44}
  Amount <- MCAmount
  InitialBalance = 9
  None = None
  Refused = Refused
INVARIANTS
  TypeOK
  ChargedOnce
  AnswersAgree
PROPERTIES
  EveryoneHears
CHECK_DEADLOCK FALSE
