CONSTANTS
    NumThreads = 8
    kWaiterShift = 3
SPECIFICATION FairSpec
PROPERTY SyncReturnsOrStarves
CHECK_DEADLOCK FALSE
