SPECIFICATION Spec
CONSTANTS
    Requests = {r1, r2}
    MaxDispatch = 3
    MaxFaults = 3
    None = None
INVARIANTS NoLeakedSlot NoUncountedExecution
PROPERTIES SlotsReturned
CHECK_DEADLOCK FALSE
