SPECIFICATION WSpec
CONSTANTS
  a = a
  b = b
  c = c
  none = none
  Task = {a, b, c}
  Init0 = none
  Listener = {}
  Mortal = {}
  Def <- ChainDef
  Selection <- AllAtOnce
  VerbSet = {"Start"}
  WaitConds = {"Ready", "Exit"}
  MaxCmds = 1
INVARIANTS
  PendingEnds
