SPECIFICATION MCSpec
CONSTANTS
  p1 = p1
  p2 = p2
  r1 = r1
  r2 = r2
  d1 = d1
  a1 = a1
  a2 = a2
  child = child
  other = other
  None = none
  Nobody = nobody
  Processes <- TwoProcesses
  Requests <- TwoRequests
  Asks <- Uses
  Destinations <- OnePlace
  Attempts = 3
  Crashes = 2
  Assignments <- TwoAssignments
  Sessions <- TwoSessions
  Copies = {1, 2}
  Turns = 4
  Window = 2
  Ticks = 2
  Misses = 2
INVARIANTS
  EffectHappensOnce
  HoldsAreBounded
  HoldsAreAccountedFor
  JudgedWhereItClaimed
PROPERTIES
  ReceiptsHold
  OnlyOmissionsAreHeld
CHECK_DEADLOCK FALSE
