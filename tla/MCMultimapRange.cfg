SPECIFICATION Spec
CONSTANTS
    t1 = t1
    t2 = t2
    k1 = k1
    k2 = k2
    NULL = NULL
    Thread = {t1}
    Key = {k1, k2}
    Hash <- Colliding
    Width = 3
    allow_multimapping = TRUE
    InitialBuckets = 2
    MaxBuckets = 4
    my_maximum_bucket_size = 1
    Operations = {"insert", "equal_range"}
    MaxCalls = 4
INVARIANTS
    RangeWhole
CHECK_DEADLOCK FALSE
