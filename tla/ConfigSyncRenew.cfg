\* One renewal, no failure.
SPECIFICATION SyncSpec
CONSTANTS
  n1 = n1
  g1 = g1
  c1 = c1
  NoNode = NoNode
  NoStream = NoStream
  Nodes = {n1}
  Streams = {g1}
  WsStreams = {}
  Callers = {c1}
  Writes = {"renew"}
  ChanCap = 1
  WireCap = 1
  SigCap = 1
  MaxCalls = 1
  MaxFaults = 0
  MaxRestarts = 0
INVARIANTS CrlFreshWhenCurrent
\* The bounds are used up and every goroutine waits.
CHECK_DEADLOCK FALSE
