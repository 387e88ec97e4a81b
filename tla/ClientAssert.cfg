\* Does stop find the client stopped?
CONSTANTS
  Endpoints = 1
  AutoReconnect = FALSE
  WebSocket = FALSE
  SyncStart = TRUE
  SendOnConnect = TRUE
  StopOnRecv = TRUE
  StartOnRecv = TRUE
  MaxStarts = 1
  MaxAttempts = 1
  MaxRecvs = 1
SPECIFICATION Spec
INVARIANTS
  StopFindsStopped
\* The calls are bounded: after the last stop nothing is left to do.
CHECK_DEADLOCK FALSE
