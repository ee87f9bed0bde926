SPECIFICATION Spec
CONSTANTS
  r1 = r1
  r2 = r2
  a = a
  x = x
  y = y
  Rule = {r1}
  Target <- MC_Two
  For <- MC_For
  Grace <- MC_Grace
  Epoch = 3
  MaxTime = 9
  MaxRestart = 1
  MayForget = TRUE
  MaySkip = TRUE
CHECK_DEADLOCK FALSE
INVARIANTS
  NothingOverlooked
PROPERTIES
  NoReAlert
  ImplementsIncident
