SPECIFICATION FairSpec
CONSTANTS
  Groups = {}
  Unaccounted = na
  Drainers = {d1}
  Closers = {c1, c2}
  Waiters = {}
  MaxDispatch = 2
  MaxSink = 0
  MaxBarrier = 0
  MaxSnapshot = 0
INVARIANTS DrainedIsEmpty ShutdownReleasesResources ClosedExactlyOnce
PROPERTIES DrainReturns CloseReturns
CHECK_DEADLOCK FALSE
