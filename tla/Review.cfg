SPECIFICATION MCFairSpec
CONSTANTS
  v1 = v1
  v2 = v2
  t1 = t1
  t2 = t2
  p1 = p1
  p2 = p2
  d1 = d1
  d2 = d2
  None = none
  Unread = unread
  Revisions <- TwoRevisions
  Turns <- TwoTurns
  Reviewers <- TwoReviewers
  Digests <- TwoDigests
  Concerns <- AllConcerns
  MaxGeneration = 3
  MaxEdits = 3
  MaxPauses = 2
  MaxAcks = 2
  MaxHostFailures = 1
CHECK_DEADLOCK FALSE
INVARIANTS
  MergedIsWhatWasIntegrated
  ReReviewCanProceed
PROPERTIES
  AcksStand
  RulingsStand
  ReviewFinishes
  PendingAckSettles
