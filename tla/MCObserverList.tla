--------------------------- MODULE MCObserverList ---------------------------
EXTENDS ObserverList
CONSTANTS t1, t2, o1, o2, x1, x2
=============================================================================
