SPECIFICATION Spec
CONSTANTS
    None = None
    Ids = {c1, c2}
    Stored = {c1}
    Mutators = {1, 2}
    Savers = {q1, q2}
    Loader = loader
    Kinds = {"register", "update", "modify", "refresh", "result", "remove"}
    MetaIds = {c1}
    MaxEvents = 3
INVARIANTS
    StoreMatchesPublished
    
PROPERTIES
    ForegroundEnds
CHECK_DEADLOCK FALSE
