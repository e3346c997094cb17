CONSTANTS
  QueueSize = 3
  Batch = 2
  MaxRecords = 3
  MaxFaults = 0
SPECIFICATION Spec
INVARIANT CleanStopStoresAll
CHECK_DEADLOCK FALSE
