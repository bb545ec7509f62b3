SPECIFICATION FairSpec
CONSTANTS
  t1 = t1
  t2 = t2
  Task = {t1}
  Mortal = {}
  HasSave = TRUE
  MaxIntents = 1
  MaxQuits = 2
  MaxUpgrades = 2
  MaxEvents = 3
PROPERTIES
  FreezesEnd
