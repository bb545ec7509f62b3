SPECIFICATION Spec
CONSTANTS
  a = a
  W = W
  Narrow = {a}
  Wide = {W}
  Blank = Blank
  Filler = Filler
  Rest = Rest
  Capacity = 3
  MaxLine = 10
  Programs <- Users
INVARIANTS
  Sound
  RunsAreGlyphs
PROPERTIES
  TextKept
  CursorFollows
  ViewHolds
CHECK_DEADLOCK FALSE
