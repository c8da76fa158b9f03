SPECIFICATION MCSpec
CONSTANTS
  p1 = p1
  p2 = p2
  c1 = c1
  c2 = c2
  x = x
  y = y
  q1 = q1
  q2 = q2
  t1 = t1
  t2 = t2
  v1 = v1
  v2 = v2
  v3 = v3
  v4 = v4
  k1 = k1
  k2 = k2
  Pending = pending
  None = none
  Parents <- TwoParents
  Children <- TwoChildren
  Callers <- OneCaller
  Requests <- OneRequest
  Tasks <- TwoTasks
  Sessions <- TwoChildren
  Coordinators <- TwoCallers
  Nobody = none
  MaxFacts = 2
  Turns <- OneTurn
  MaxGeneration = 1
  Questions <- OwnersAlone
  MaxStatusChanges = 0
CHECK_DEADLOCK FALSE
INVARIANTS
  OneChildPerIssue
