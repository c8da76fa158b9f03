SPECIFICATION Spec
CONSTANTS
  e1 = e1
  e2 = e2
  d = d
  c = c
  o = o
  nobody = nobody
  NoProc <- nobody
  Events <- OneEvent
  Senders <- DaemonAndDeliver
  Reconcilers <- Deliver
  Operators <- NoOne
  MaxAttempts = 1
  BusyAttempts = 2
  MaxSends = 1
  AttemptBound = 3
  MaxCrashes = 0
CHECK_DEADLOCK FALSE
CONSTRAINT Undisturbed
INVARIANT OneTurnPerEvent
