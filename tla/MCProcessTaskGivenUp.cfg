SPECIFICATION Spec
\* The task may rest for good once its users send nothing more.
CHECK_DEADLOCK FALSE
CONSTANTS
  t = t
  init = init
  Task = {t}
  Init0 = init
  Listener = {}
  self = t
  Defs <- AllDefs
  VerbSet = {"Start", "Stop", "Restart", "Kill"}
  MaxCmds = 2
  MaxRuns = 2
  MaxFreezes = 1
INVARIANT
  ExitMetMeansNoProcess
