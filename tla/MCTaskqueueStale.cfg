CONSTANTS
    Task = {t1, t2, t3}
    Thief = {w1, w2}
    Owner = w0
    Nil = Nil
    InitialCapacity = 1
    MaxIndex = 4
SYMMETRY Symmetry
SPECIFICATION Spec
INVARIANT NoThiefHasFreedBuffer
CHECK_DEADLOCK FALSE
