SPECIFICATION Spec
CONSTANTS
  r1 = r1
  r2 = r2
  r3 = r3
  c1 = c1
  c2 = c2
  Runners = {r1, r2, r3}
  Clients = {c1, c2}
  Scenarios <- Races
  Inodes = {1, 2, 3, 4, 5, 6, 7}
  LockTries = 2
  MaxCrashes = 1
  MaxSweeps = 1
  MaxLosses = 1
  None = None
INVARIANTS
  OneRunner
  ServingReachable
PROPERTIES
  StopIsTrue
  ImplementsService
SYMMETRY Symmetry
CHECK_DEADLOCK FALSE
CONSTRAINT OneFault
