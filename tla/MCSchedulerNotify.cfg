CONSTANTS
    Root = w0
    Thread = {w0, w1, w2}
    kPreWaitShift = 2
    WordBits = 6
    EpochSize = 16
    MaxTasks = 3
SYMMETRY Symmetry
SPECIFICATION Spec
INVARIANT WorkIsLookedFor
