SPECIFICATION Spec
CONSTANTS
    c1 = c1
    c2 = c2
    w1 = w1
    w2 = w2
    p1 = p1
    p2 = p2
    NULL = NULL
PROPERTIES
    
    
    CallsReturn
    
CHECK_DEADLOCK FALSE
