SPECIFICATION Spec
CONSTANTS
  web = web
  Name = {web}
  Seeded <- MC_Seeded
  FirstId = 2
  Editor = {e1}
  MaxEdit = 2
  MaxFault = 0
CHECK_DEADLOCK FALSE
INVARIANTS
  NothingHangs
