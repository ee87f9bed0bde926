CONSTANTS
  Node = "node"
  Units <- U2
  Readings <- MCReadings
  CanFail <- MCCanFail
  Cores = 2
  TopN = 1
  DiskSize = 9
  Retention = 3
  Horizon = 100
  MaxSamples = 4
  MaxFaults = 1
  MaxRestarts = 1
SPECIFICATION CollectorSpec
INVARIANTS CollectorTypeOK HistoryBounded ForecastExact
 
CHECK_DEADLOCK FALSE
