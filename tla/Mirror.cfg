CONSTANTS
  Node = "peer"
  Own = "own"
  Units <- U2
  Checks = {"c"}
  Names = {"n"}
  Readings <- MCReadings
  CanFail = {}
  CanMiss = {"metrics", "disk"}
  Cores = 2
  TopN = 1
  DiskSize = 9
  Retention = 1
  Horizon = 100
  MaxSamples = 2
  MaxFaults = 0
  MaxRestarts = 0
  MaxPolls = 2
  MaxEdits = 1
  MaxDisturbed = 1
  MaxEvents = 4
SPECIFICATION Spec
INVARIANTS TypeOK InStep  OwnDataKept
CHECK_DEADLOCK FALSE
