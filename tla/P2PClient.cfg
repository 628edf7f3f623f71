SPECIFICATION FairSpec
CONSTANTS
  r1 = r1
  NumConns = 1
  Requests <- OneRequest
  MaxCalls = 1
  PingAfter = 0
  PongAfter = 2
  Environments <- Three
INVARIANTS
  ToldWhenClosed
  PongAgeExplained
PROPERTIES
  CallEnds
  ThreadsEnd
CHECK_DEADLOCK FALSE
