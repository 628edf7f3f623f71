SPECIFICATION FairSpec
CONSTANTS
  k1 = k1
  k2 = k2
  r1 = r1
  NumConns = 1
  MaxConnection = 0
  Requests <- None
  Callers <- None
  MethodOf <- SameMethod
  TargetOf <- ToFirst
  MaxCalls = 0
  Events = {"ping", "late"}
PROPERTIES
  NotAliveRemoved
CHECK_DEADLOCK FALSE
