SPECIFICATION FairSpec
CONSTANTS
  t1 = t1
  t2 = t2
  Task = {t1}
  Mortal = {}
  HasSave = TRUE
  MaxIntents = 0
  MaxQuits = 1
  MaxUpgrades = 1
  MaxEvents = 2
PROPERTIES
  QuitEnds
