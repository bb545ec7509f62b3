SPECIFICATION MCSpec
CONSTANTS
  r1 = r1
  r2 = r2
  web = web
  db = db
  job = job
  cmd = cmd
  env = env
  a = a
  b = b
  c = c
  Keys = {web, db, job}
  Fields = {cmd, env}
  Values = {a, b, c}
  Gone = Gone
  Reloads = {r1, r2}
  MaxId = 3
  MaxPlans = 2
  MaxEdits = 1
  MaxLocals = 1
  MaxRestarts = 1
INVARIANTS
  BaseWasSaid
  Merges
  Settles
  WrittenIsIn
PROPERTIES
  OnlyTaken
CHECK_DEADLOCK FALSE
SYMMETRY Same
CONSTRAINT OneOrChain
