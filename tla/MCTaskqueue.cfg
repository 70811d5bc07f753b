CONSTANTS
    Task = {t1, t2, t3}
    Thief = {w1, w2}
    Owner = w0
    Nil = Nil
    InitialCapacity = 1
    MaxIndex = 4
SYMMETRY Symmetry
SPECIFICATION Spec
INVARIANTS
    TypeOK
    NoTaskLostOrDoubled
    CollectsOnlyWhenEmpty
    StaleReadsLose
    StealReadsHead
    StolenOnce
PROPERTY ImplementsDeque
CHECK_DEADLOCK FALSE
