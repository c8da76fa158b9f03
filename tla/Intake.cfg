SPECIFICATION MCFairSpec
CONSTANTS
  a1 = a1
  a2 = a2
  t1 = t1
  t2 = t2
  v1 = v1
  x = x
  None = none
  Assignments <- TwoAssignments
  Turns <- TwoTurns
  Revisions <- OneRevision
  Emitters <- OneEmitter
  MaxGeneration = 2
  MaxPauses = 2
  MaxEmits = 2
  MaxTrouble = 1
CHECK_DEADLOCK FALSE
INVARIANTS
  ReadyEndedNormally
  FinalIsQueuedOrOwed
PROPERTIES
  ClaimsSettle
  FailuresAreReported
