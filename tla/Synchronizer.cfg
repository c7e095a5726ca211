SPECIFICATION FairSpec
CONSTANTS
  MaxBlock = 2
  MaxReorgs = 1
  SyncChunkSize = 1
  MaxFaults = 1
  MaxStopping = 1
INVARIANT TypeOK
PROPERTIES FollowsOneFork NoResetBeforeReorg CheckerMarksCanonical 
