SPECIFICATION Spec
CONSTANTS
    t1 = t1
    t2 = t2
    o1 = o1
    o2 = o2
    x1 = x1
    x2 = x2
    NULL = NULL
    Thread = {t1, t2}
    Observer = {o1, o2}
    Proxy = {x1, x2}
    Global = FALSE
    MaxEnables = 2
    MaxVisits = 2
INVARIANTS
    ClearEnds
CHECK_DEADLOCK FALSE
