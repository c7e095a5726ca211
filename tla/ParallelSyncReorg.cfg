SPECIFICATION Spec
CONSTANTS
  MaxBlock = 4
  MaxReorgs = 1
  SyncChunkSize = 1
  NWorkers = 2
  Capacity = 1
  Eventful = {1, 3, 4}
  UnsafeDistance = 3
  Uint = 16
  MaxFaults = 1
INVARIANT LastBlockIsSet
