CONSTANTS
  NBatch = 4
  NBlock = 3
  MaxRollbacks = 1
  MaxRestarts = 1
  SequentialBatchSanityCheck = FALSE
SPECIFICATION FairSpec
INVARIANTS CheckedMeansVerifiedUntilRollback
  
CHECK_DEADLOCK FALSE
