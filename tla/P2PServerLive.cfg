SPECIFICATION FairSpec
CONSTANTS
  k1 = k1
  k2 = k2
  r1 = r1
  NumConns = 2
  MaxConnection = 0
  Requests <- None
  Callers <- TwoCallers
  MethodOf <- OwnMethod
  TargetOf <- ToOwn
  MaxCalls = 1
  Events = {"hangup"}
PROPERTIES
  HangupReported
  CallReturns
CHECK_DEADLOCK FALSE
