SPECIFICATION Spec
CONSTANTS
  None = None
  ValueError = ValueError
  LookupError = LookupError
  Idle = Idle
  SearchKey = {1, 2, 3}
  MaxLength = 5
  Node = {1, 2, 3}
  Weight <- MCWeight
  MaxEdges = 3
  Amount = 6
  Coin = {1, 2, 3, 4}
  Item <- MCItem
  Capacity = 5
  Arrival = {0, 1, 3}
  MaxBurst = 4
  MaxQuantum = 3
  MaxJobs = 3
  MaxDemand = 3
  MaxBudget = 7
  Register = {1, 2}
  MaxProgram = 3
  Site = {1, 2}
  DeviceName = {1, 2}
  Memory = {1, 2, 3}
  MaxDevices = 3
  MaxIndex = 3
  MaxDeliveries = 6
  PageSize = 4
  Addresses = 16
  MaxSize = 3
  MaxAccount = 3
INVARIANTS
  AnswersCorrect
  TimelinesFair
CHECK_DEADLOCK FALSE
