------------------------ MODULE MCConcurrentMonitor ------------------------
EXTENDS ConcurrentMonitor
CONSTANTS w1, w2, n1, n2
=============================================================================
