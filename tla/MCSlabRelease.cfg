SPECIFICATION Spec
CONSTANTS
    t1 = t1
    t2 = t2
    x1 = x1
    NULL = NULL
    Thread = {t1, t2}
    Block = {x1}
    Capacity = 2
    numOfSlabAllocOnMiss = 1
    POOL_LOW_MARK = 2
    POOL_HIGH_MARK = 2
    Windows = {"mail"}
INVARIANTS
    NothingDangling
SYMMETRY ThreadSymmetry
CHECK_DEADLOCK FALSE
