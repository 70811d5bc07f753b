CONSTANTS
    Root = w0
    Thread = {w0, w1, w2}
    kPreWaitShift = 2
    WordBits = 6
    EpochSize = 16
    MaxTasks = 2
SPECIFICATION FairSpec
INVARIANTS
    TypeOK
    NumWaitersExact
    WakeIsHeard
    SyncAllDone
    NoTheftFromDeadQueue
PROPERTIES
    ShutdownEnds
    SyncAllReturns
