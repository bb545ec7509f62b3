SPECIFICATION WFairSpec
CONSTANTS
  a = a
  b = b
  c = c
  none = none
  Task = {a, b}
  Init0 = none
  Listener = {b}
  Mortal = {b}
  Def <- PairDef
  Selection <- AllAtOnce
  VerbSet = {"Start", "Kill", "Remove"}
  WaitConds = {"Ready", "Exit", "Down"}
  MaxCmds = 2
INVARIANTS
  HeardIsCurrent
  PendingCanEnd
PROPERTIES
  DownAnswered
  Terminates
