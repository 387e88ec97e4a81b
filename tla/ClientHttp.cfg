\* The client of SendAsync: no reconnection, start waits, two endpoints.
CONSTANTS
  Endpoints = 2
  AutoReconnect = FALSE
  WebSocket = FALSE
  SyncStart = TRUE
  SendOnConnect = TRUE
  StopOnRecv = TRUE
  StartOnRecv = TRUE
  MaxStarts = 3
  MaxAttempts = 3
  MaxRecvs = 2
SPECIFICATION FairSpec
INVARIANTS
  TypeOK
  StartedHasSocket
  OneReadOneWrite
  StopLeavesNothing
PROPERTIES
  KeepsPromise
  CallsReturn
  KeepsPromiseFair
\* The calls are bounded: after the last stop nothing is left to do.
CHECK_DEADLOCK FALSE
