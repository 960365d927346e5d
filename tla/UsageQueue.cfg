SPECIFICATION Spec
CONSTANTS
  Events = {e1, e2, e3}
  Subscribers = {s1}
  Poppers = {p1}
  None = none
  Refresh = refresh
  Buffer = 1
  Batch = 2
  Compact = 2
  Retention = 0
  MaxTime = 1
  MaxCalls = 1
  MaxFailures = 1
INVARIANTS SubscribersOpen 
PROPERTIES ImplementsUsageFifo
SYMMETRY Symmetry
CHECK_DEADLOCK FALSE
