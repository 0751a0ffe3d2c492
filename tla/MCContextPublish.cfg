SPECIFICATION Spec
CONSTANTS
    t1 = t1
    t2 = t2
    root = root
    x1 = x1
    x2 = x2
    NULL = NULL
    Thread = {t1, t2}
    Context = {root, x1, x2}
    Root = root
    Windows = {"publish"}
INVARIANTS
    NoDeadContext
SYMMETRY ThreadSymmetry
CHECK_DEADLOCK FALSE
