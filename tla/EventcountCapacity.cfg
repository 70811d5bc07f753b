CONSTANTS
    Thread = {}
    kPreWaitShift = 8
    WordBits = 30
    EpochSize = 16
    NumWorkers = 256
SPECIFICATION Spec
INVARIANT CountsFit
