SPECIFICATION FairSpec
CONSTANTS
  k1 = k1
  k2 = k2
  r1 = r1
  NumConns = 1
  MaxConnection = 0
  Requests <- OneRequest
  Callers <- OneCaller
  MethodOf <- OwnMethod
  TargetOf <- ToFirst
  MaxCalls = 1
  Events = {"hangup", "shutdown", "handshake"}
PROPERTIES
  ShutdownCloses
CHECK_DEADLOCK FALSE
