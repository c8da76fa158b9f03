SPECIFICATION MCFairSpec
CONSTANTS
  e1 = e1
  e2 = e2
  d = d
  c = c
  o = o
  nobody = nobody
  NoProc <- nobody
  Events <- OneEvent
  Senders <- Daemon
  Reconcilers <- Daemon
  Operators <- NoOne
  MaxAttempts = 1
  BusyAttempts = 2
  MaxSends = 1
  AttemptBound = 2
  MaxCrashes = 1
  Deployments <- OneDaemon
PROPERTIES
  HandedOffOnce
 InFlightSettles
 QueuedIsDecided
CHECK_DEADLOCK FALSE
INVARIANTS
  NothingIsForgotten
