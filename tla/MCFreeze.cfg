SPECIFICATION Spec
CONSTANTS
  t1 = t1
  t2 = t2
  Task = {t1, t2}
  Mortal = {t1, t2}
  HasSave = TRUE
  MaxIntents = 2
  MaxQuits = 1
  MaxUpgrades = 2
  MaxEvents = 3
INVARIANTS
  FrozenAsAsked
  GracefulUnlessRepeated
  NothingLostOrOvertaken
PROPERTIES
  SaveFaithful
SYMMETRY Tasks
