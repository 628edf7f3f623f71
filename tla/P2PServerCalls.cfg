SPECIFICATION Spec
CONSTANTS
  k1 = k1
  k2 = k2
  r1 = r1
  NumConns = 2
  MaxConnection = 1
  Requests <- None
  Callers <- TwoCallers
  MethodOf <- OwnMethod
  TargetOf <- ToFirst
  MaxCalls = 2
  Events = {"ping", "hangup", "loss", "bad", "late"}
INVARIANTS
  TypeOK
  ClosedLeavesNothing
  OwnReply
  ReplyHasReceiver
  ConnectionLimit
PROPERTIES
  ReportsKept
CHECK_DEADLOCK FALSE
