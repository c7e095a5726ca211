CONSTANTS
  MaxBlocks = 3
  NTx = 0
  MaxForced = 1
  MaxErrors = 0
  MaxRestarts = 0
  HaltOnBatchNumber = 0
SPECIFICATION Spec
INVARIANTS RootChain
CHECK_DEADLOCK FALSE
