--------------------------- MODULE MCBoundedQueue ---------------------------
\* The configurations give every constant its value; with two micro-queues
\* and three tickets, the first and the last ticket share a micro-queue.
EXTENDS BoundedQueue, TLC

ThreadSymmetry == Permutations(Producer) \cup Permutations(Consumer)
=============================================================================
