SPECIFICATION Spec
CONSTANTS
  Node <- MC_Node2
  PeersOf <- MC_Mesh2
  Key = {down}
  TTL = 1
  MinGap = 0
  MaxOcc = 2
  MaxTime = 0
  MaxCrash = 0
  MaxLoss = 0
CHECK_DEADLOCK FALSE
INVARIANTS
  NoSilence
