------------------------- MODULE MCTaskGroupContext -------------------------
EXTENDS TaskGroupContext, TLC
CONSTANTS t1, t2, root, x1, x2

ThreadSymmetry == Permutations(Thread)
=============================================================================
