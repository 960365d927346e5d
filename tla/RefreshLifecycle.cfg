CONSTANTS
    Auths = {a1}
    NoAuth = NoAuth
    Clients = {c1}
    Operations = {"register", "remove", "modify", "register executor", "unregister executor"}
    Workers = {w1}
    JobBuffer = 1
    MaxLoops = 2
    MaxCalls = 2
    MaxJobs = 2
    MaxEnds = 1
    LateRounds = FALSE
    Spaced = TRUE
SPECIFICATION FairSpec
PROPERTIES EvaluatedAgain JobsEnd
INVARIANTS NotForgotten JobsAccountedFor
CHECK_DEADLOCK FALSE
