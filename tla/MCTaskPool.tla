----------------------------- MODULE MCTaskPool -----------------------------
EXTENDS TaskPool, TLC
CONSTANTS t1, t2, t3, t4, h1, h2

\* Programs that use affinities, and programs that use priorities.
AffinityOrPriority == {[affine |-> {t1, t2}, low |-> {}],
                       [affine |-> {}, low |-> {t1, t2}]}

\* t1 and t2 play one part in each program, t3 and t4 another.
TaskSymmetry == Permutations({t1, t2}) \cup Permutations({t3, t4})
=============================================================================
