SPECIFICATION FairSpec
CONSTANTS
  Groups = {g1}
  Flushers = {f1}
  NoForce = none
  MaxSeq = 3
  MaxLifetime = 2
INVARIANTS NothingLost TicketsExact RunNeverSleepsOnWork FlushedAll
PROPERTIES ImplementsCumulativeRelease TicketsComplete
CHECK_DEADLOCK FALSE
