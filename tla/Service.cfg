SPECIFICATION MCLive
CONSTANTS
  here = here
  there = there
  mine = mine
  theirs = theirs
  other = other
  s1 = s1
  s2 = s2
  g1 = g1
  g2 = g2
  t1 = t1
  c1 = c1
  c2 = c2
  h1 = h1
  Free = free
  Dirs <- TwoDirs
  Installs <- ThreeInstalls
  Supervisors <- Runs
  Commands <- Clients
  HomeOf <- Homes
  InstallOf <- Owners
  Bounded <- Daemons
  Takers <- TakeOvers
  Segments = 2
  Asks = 2
  Troubles = 1
  Reboots = 1
INVARIANTS
  ServesAlone
  OrphanIsReachable
  SignalsOnlyItsOwn
PROPERTIES
  StoppedIsTrue
  DisabledComesToRest
CHECK_DEADLOCK FALSE
