SPECIFICATION Spec
CONSTANTS
  r1 = r1
  r2 = r2
  a = a
  x = x
  y = y
  Rule = {r1, r2}
  Target <- MC_One
  For <- MC_For
  Grace <- MC_Grace
  Epoch = 3
  MaxTime = 10
  MaxRestart = 0
  MayForget = FALSE
  MaySkip = FALSE
CHECK_DEADLOCK FALSE
INVARIANTS
  TypeOK
  AnnouncedSinceStart
  EveryRecoveryAnnounced
PROPERTIES
  FiresOnlyWhenSustained
  RecoversOnlyWhenSettled
