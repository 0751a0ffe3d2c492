SPECIFICATION Spec
CONSTANTS
    t1 = t1
    t2 = t2
    t3 = t3
    x1 = x1
    x2 = x2
    x3 = x3
    x4 = x4
    o1 = o1
    o2 = o2
    box = box
    main = main
    dummy = dummy
    q1 = q1
    q2 = q2
    f1 = f1
    f2 = f2
    lim = lim
    NULL = NULL
INVARIANTS
    
    NothingLostOrRepeated
    WaitTruthful
    NoHang
PROPERTIES
    ImplementsMail
SYMMETRY ThreadSymmetry
CHECK_DEADLOCK FALSE
