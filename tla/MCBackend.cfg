SPECIFICATION Spec
CONSTANTS
    t1 = t1
    t2 = t2
    NULL = NULL
INVARIANTS
    TypeOK
    NothingLostOrRepeated
    StructureSound
    AnswersTrue
SYMMETRY ThreadSymmetry
CHECK_DEADLOCK FALSE
