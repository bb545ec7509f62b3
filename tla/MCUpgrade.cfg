SPECIFICATION FairSpec
CONSTANTS
  c1 = c1
  c2 = c2
  t1 = t1
  t2 = t2
  Client = {c1, c2}
  Task = {t1, t2}
  Pid = {11, 12}
  Populations <- Runners
INVARIANTS
  AnsweredOnce
  SnapshotStands
PROPERTIES
  PidsApart
  VerdictKept
  GoesOn
  ExitsReachTheirTask
CHECK_DEADLOCK FALSE
