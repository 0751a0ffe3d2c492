SPECIFICATION Spec
CONSTANTS
    t1 = t1
    t2 = t2
    t3 = t3
    c1 = c1
    c2 = c2
    root = root
    x1 = x1
    x2 = x2
    a1 = a1
    a2 = a2
    NULL = NULL
INVARIANTS
    Exclusion
    NoDeadlock
    LockSound
    
    
    
    
    AllotmentRight
    
    
SYMMETRY ThreadSymmetry
CHECK_DEADLOCK FALSE
