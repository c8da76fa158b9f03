SPECIFICATION MCSpec
CONSTANTS
  Parents = 1
  Rows = 5
  Budget = 4
  SendShare = 2
  Recheck = 3
  Deaf <- EveryOther
  MaxComing = 1
  MaxPutOff = 0
CHECK_DEADLOCK FALSE
PROPERTY EveryRowIsReached
