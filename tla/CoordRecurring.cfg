SPECIFICATION FairSpec
CONSTANTS
  Node <- MC_Node2
  PeersOf <- MC_Mesh2
  Key = {down}
  TTL = 1
  MinGap = 2
  MaxOcc = 2
  MaxTime = 3
  MaxCrash = 0
  MaxLoss = 4
CHECK_DEADLOCK FALSE
INVARIANTS
  NoSilence
PROPERTIES
  AlertGetsOut
