SPECIFICATION Spec
CONSTANTS
  t1 = t1
  t2 = t2
  t3 = t3
  t4 = t4
  h1 = h1
  h2 = h2
  Task = {t1, t2, t3, t4}
  Programs <- AffinityOrPriority
  Thief = {h1, h2}
  Recipient = h1
  MinSize = 2
  Line = 2
  MaxBatch = 2
  MaxTopChanges = 2
INVARIANTS
  LockDiscipline
  NoDoubleTake
  NoLostTask
  NothingStranded
  OnlyLiveElements
  ArbitrationHolds
  ProxyTagTruthful
SYMMETRY TaskSymmetry
CHECK_DEADLOCK FALSE
