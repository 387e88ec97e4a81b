\* Two requests, three calls of SendAsync, nested ones included.
CONSTANTS
  Endpoints = 1
  AutoReconnect = FALSE
  WebSocket = FALSE
  SyncStart = TRUE
  SendOnConnect = TRUE
  StopOnRecv = TRUE
  StartOnRecv = TRUE
  MaxStarts = 3
  MaxAttempts = 4
  MaxRecvs = 2
  r1 = r1
  r2 = r2
  Request = {r1, r2}
  NoRequest = NoRequest
SPECIFICATION HttpSpec
INVARIANTS
  RequestAliveOnConnect
  AnswerBelongs
  EveryCallHeardOf
\* The calls are bounded.
CHECK_DEADLOCK FALSE
