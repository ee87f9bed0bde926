SPECIFICATION FairSpec
CONSTANTS
  web = web
  Name = {web, api}
  Seeded <- MC_Seeded
  FirstId = 2
  Editor = {e1}
  MaxEdit = 2
  MaxFault = 1
CHECK_DEADLOCK FALSE
INVARIANTS
  TypeOK
  
  CacheCurrent

  
