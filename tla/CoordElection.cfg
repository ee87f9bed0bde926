SPECIFICATION Spec
CONSTANTS
  Node <- MC_Node3
  PeersOf <- MC_Mesh3
  Key = {down}
  TTL = 1
  MinGap = 0
  MaxOcc = 1
  MaxTime = 0
  MaxCrash = 1
  MaxLoss = 1
CHECK_DEADLOCK FALSE
INVARIANTS
  TypeOK
  SilencedOnlyByLostWatcher
  LateWatcherStandsDown
