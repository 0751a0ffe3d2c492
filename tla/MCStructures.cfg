SPECIFICATION Spec
CONSTANTS
    t1 = t1
    t2 = t2
    t3 = t3
    n1 = n1
    n2 = n2
    n3 = n3
    k1 = k1
    k2 = k2
    k3 = k3
    c1 = c1
    c2 = c2
    NULL = NULL
INVARIANTS
    
    StructureSound
    
    NoHang
SYMMETRY Symmetry
CHECK_DEADLOCK FALSE
