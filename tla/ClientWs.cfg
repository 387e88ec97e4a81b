\* A reconnecting WebSocket client started asynchronously, as under the natives.
CONSTANTS
  Endpoints = 1
  AutoReconnect = TRUE
  WebSocket = TRUE
  SyncStart = FALSE
  SendOnConnect = TRUE
  StopOnRecv = FALSE
  StartOnRecv = FALSE
  MaxStarts = 3
  MaxAttempts = 3
  MaxRecvs = 1
SPECIFICATION FairSpec
INVARIANTS
  OneGuard
  StaleReadHarmless
  NotifiedOnce
PROPERTIES
  NoReconnectAfterStop
  KeepsTrying
  QueueIsFair
  KeepsPromiseFair
\* The calls are bounded: after the last stop nothing is left to do.
CHECK_DEADLOCK FALSE
