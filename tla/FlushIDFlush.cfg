CONSTANTS
  MaxBlocks = 3
  MaxOther = 1
  MaxRestarts = 1
SPECIFICATION FairSpec
INVARIANTS FlushedUntilRestart
PROPERTIES PollingReachesStore
CHECK_DEADLOCK FALSE
