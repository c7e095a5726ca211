SPECIFICATION Spec
CONSTANTS
  NBatch = 2
  MaxBatchesForL1 = 1
  MaxPrice = 2
  Confirmations = 1
  MaxEvents = 1
INVARIANTS TypeOK NoDuplicatedData OneOutstanding HaltsOnlyAfterReorg 
 
CHECK_DEADLOCK FALSE
