SPECIFICATION Spec
CONSTANTS
  Models = {a, b}
  Kinds = {"support", "server", "apikey"}
  Short = 1
  Mid = 2
  Long = 4
  Backoffs = {2}
  MaxClock = 5
  MaxDispatch = 3
  MaxAdmin = 0
  None = None
PROPERTY FailureExtends

CHECK_DEADLOCK FALSE
