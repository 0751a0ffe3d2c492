-------------------------- MODULE MCSlabAllocator --------------------------
EXTENDS SlabAllocator, TLC
CONSTANTS t1, t2, x1

ThreadSymmetry == Permutations(Thread)
=============================================================================
