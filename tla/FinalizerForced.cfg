CONSTANTS
  MaxBlocks = 4
  NTx = 1
  MaxForced = 2
  MaxErrors = 1
  MaxRestarts = 1
  HaltOnBatchNumber = 4
SPECIFICATION Spec
INVARIANTS ForcedBatchesInOrder SanityChecksPassUntilForced 
PROPERTY ClosedBatchesAreFinal
CHECK_DEADLOCK FALSE
