CONSTANTS
    NumThreads = 7
    kWaiterShift = 3
SPECIFICATION FairSpec
INVARIANTS
    TypeOK
    NoUseAfterFree
    SyncReturnsResult
    SynchroFields
PROPERTY SyncReturnsOrStarves
