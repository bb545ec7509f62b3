SPECIFICATION Spec
CONSTANTS
  a = a
  b = b
  c = c
  none = none
  Task = {a, b, c}
  Init0 = none
  Listener = {c}
  Mortal = {c}
  Def <- RewiredDef
  Selection <- SinglesAndAll
  VerbSet = {"Up", "Start", "Restart", "ForceRestart", "Stop", "Kill", "Veto", "Unpin", "Remove"}
  MaxCmds = 2
INVARIANTS
  TypeOK
  Reconciled
  TimersExact
  CountersExact
  GraphClosed
PROPERTIES
  StartsAfterDeps
  StopsAfterDependents
  LegalTransitions
