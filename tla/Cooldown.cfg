SPECIFICATION Spec
CONSTANTS
  Models = {a, b}
  Kinds = {"support", "mid", "transient", "server", "challenge", "quota", "hint", "credquota", "credhint"}
  Short = 1
  Mid = 2
  Long = 4
  Backoffs = {2}
  MaxClock = 5
  MaxDispatch = 3
  MaxAdmin = 1
  None = None
INVARIANTS CooldownHolds CooldownEnds
SYMMETRY Symmetry
CHECK_DEADLOCK FALSE
