SPECIFICATION FairSpec
CONSTANTS
  MaxBlock = 3
  MaxReorgs = 1
  SyncChunkSize = 1
  NWorkers = 2
  Capacity = 1
  Eventful = {2, 3}
  UnsafeDistance = 3
  Uint = 16
  MaxFaults = 1
INVARIANTS TypeOK RangesDisjoint 
PROPERTY CatchesUp
