SPECIFICATION MCSpec
CONSTANTS
  e1 = e1
  e2 = e2
  d = d
  c = c
  o = o
  nobody = nobody
  NoProc <- nobody
  Events <- TwoEvents
  Senders <- DaemonAndDeliver
  Reconcilers <- Daemon
  Operators <- Deliver
  MaxAttempts = 1
  BusyAttempts = 2
  MaxSends = 1
  AttemptBound = 2
  MaxCrashes = 1
  Deployments <- SeveralProcesses
CHECK_DEADLOCK FALSE
INVARIANTS
  OneTurnUnlessOvertaken
  NoRowWaitsLong
PROPERTIES
  SendsAreSound
  DispatchNotDraggedBackUnlessOvertaken
