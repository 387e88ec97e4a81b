\* A WebSocket object, its two clients, and the static http client.
CONSTANTS
  w1 = w1
  WebSocket = {w1}
  bad = bad
  unbuildable = unbuildable
  empty = empty
  Host = {bad, unbuildable, empty}
  NoHost = NoHost
  BadUrl = {bad}
  UnbuildableUrl = {unbuildable}
  NoUrl = empty
  MaxConnects = 2
  MaxSends = 1
  MaxFaults = 1
SPECIFICATION Spec
INVARIANTS
  ExtTypeOK
  ThreadsBelong
  DialsWhatWasAsked
PROPERTIES
  CrashExplained
  GameReturns
\* A crashed server stops.
CHECK_DEADLOCK FALSE
