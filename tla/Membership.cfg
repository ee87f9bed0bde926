CONSTANTS
  Node <- N
  Addr <- MCAddr
  Secret = {7}
  Names <- MCNames
  Owner <- MCOwner
  Advertise <- MCAdvertise
  NoAddr = "none"
  ClusterSecret <- MCSecret
  Tables0 <- MCTables
  Edits <- MCEdits
  MaxRounds = 2
  MaxLead = 0
  MaxEdits = 1
  MaxLost = 1
  MaxCrashes = 1
  MaxEvents = 1
SPECIFICATION Spec
INVARIANTS TypeOK  
PROPERTIES HandSetKept
CHECK_DEADLOCK FALSE
