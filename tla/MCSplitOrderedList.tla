------------------------- MODULE MCSplitOrderedList -------------------------
EXTENDS SplitOrderedList, TLC
CONSTANTS t1, t2, k1, k2

\* Two keys whose hash values differ in the highest bit, which the order key
\* of an element has no room for.
Colliding == k1 :> 3 @@ k2 :> 7
=============================================================================
