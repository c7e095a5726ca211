CONSTANTS
  MaxBlocks = 4
  NTx = 2
  MaxForced = 0
  MaxErrors = 2
  MaxRestarts = 0
  HaltOnBatchNumber = 0
SPECIFICATION FairSpec
INVARIANTS TypeOK RootChain TxsStoredOnceInOrder 
PROPERTIES ReorgCompletes
CHECK_DEADLOCK FALSE
