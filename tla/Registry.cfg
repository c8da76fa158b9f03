SPECIFICATION MCSpec
CONSTANTS
  p1 = p1
  p2 = p2
  c1 = c1
  c2 = c2
  x = x
  y = y
  q1 = q1
  q2 = q2
  t1 = t1
  t2 = t2
  v1 = v1
  v2 = v2
  v3 = v3
  v4 = v4
  k1 = k1
  k2 = k2
  Pending = pending
  None = none
  Parents <- OneParent
  Children <- TwoChildren
  Callers <- TwoCallers
  Requests <- TwoRequests
  Tasks <- TwoTasks
  Sessions <- TwoChildren
  Coordinators <- TwoCallers
  Nobody = none
  MaxFacts = 2
  Turns <- TwoTurns
  MaxGeneration = 3
  Questions <- AllQuestions
  MaxStatusChanges = 3
CHECK_DEADLOCK FALSE
INVARIANTS
  DecisionsAgree
  NoContestIsLost
PROPERTIES
  OwnersAreRightful
  GenerationsAreRightful
