CONSTANTS
    NumThreads = 1
    kWaiterShift = 3
SPECIFICATION FairSpec
PROPERTY SyncReturns
CHECK_DEADLOCK FALSE
