CONSTANTS
  QueueSize = 3
  Batch = 2
  MaxRecords = 6
  MaxFaults = 2
SPECIFICATION FairSpec
INVARIANTS
  Accounted
PROPERTIES
  LogSpec
  QueueDrains
CHECK_DEADLOCK FALSE
