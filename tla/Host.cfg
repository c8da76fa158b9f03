SPECIFICATION MCSpec
CONSTANTS
  r1 = r1
  r2 = r2
  r3 = r3
  e1 = e1
  e2 = e2
  e3 = e3
  d1 = d1
  d2 = d2
  None = none
  Unset = unset
  Elsewhere = elsewhere
  Runs <- ThreeRuns
  Registrars <- ThreeRuns
  Hookers <- ThreeRuns
  Environments <- Three
  Destinations <- Dests
  DestOf <- Placed
  Kills = 2
  Faults = 2
  Hands = 1
  TableNames = {"bridge", "alias"}
  PackageName = "bridge"
  Commands = {"command", "another"}
  Timeouts = {5, 9}
  Settings = {"hold", "observe"}
  Edits = 1
  Losses = 1
INVARIANTS
  BuildIsItsOwn
  ReachedIsWhole
  LeftAsFound
  RepairIsPossible
PROPERTY
  RegistrationsAgree
CHECK_DEADLOCK FALSE
