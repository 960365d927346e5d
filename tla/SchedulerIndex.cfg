SPECIFICATION Spec
CONSTANTS
  Ids = {c1, c2}
  Models = {a, b}
  ModelSets = {{b}}
  AnyModel = any
  Picked = {a, any}
  Initially = {c1, c2}
  Callers = {1, 2}
  MaxChanges = 3
  None = None
INVARIANTS ShardsFollowResults NoResurrection SyncedIsExact
SYMMETRY Symmetry
CHECK_DEADLOCK FALSE
