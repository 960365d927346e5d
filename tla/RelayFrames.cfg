SPECIFICATION FairSpec
CONSTANTS
  Sessions = {s1, s2}
  Providers = {p1}
  Requests = {r1}
  NonStreamCalls = {r1}
  None = none
  Last = 2
  Buffer = 1
INVARIANTS ChannelDiscipline AnswerEndsExplicitly SuccessIsComplete SessionMapExact
PROPERTIES CleanupEnds
CHECK_DEADLOCK FALSE
