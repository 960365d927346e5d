SPECIFICATION Spec
CONSTANTS
  Groups = {g1, g2}
  Unaccounted = na
  Drainers = {}
  Closers = {}
  Waiters = {w1}
  MaxDispatch = 2
  MaxSink = 2
  MaxBarrier = 1
  MaxSnapshot = 1
INVARIANTS ReleaseCounted SinksInformed BarrierSound NoLostWakeup
SYMMETRY Symmetry
CHECK_DEADLOCK FALSE
