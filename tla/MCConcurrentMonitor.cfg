SPECIFICATION Spec
CONSTANTS
  w1 = w1
  w2 = w2
  n1 = n1
  n2 = n2
  Waiter = {w1, w2}
  Notifier = {n1, n2}
  Contexts = {1}
  MaxEvents = 2
  MaxCalls = 3
  EpochRange = 2
INVARIANTS
  TypeOK
  NoDanglingContext
  OneWakeup
  NoLostWakeup
PROPERTIES
  WaitEnds
  ImplementsMonitor
CHECK_DEADLOCK FALSE
