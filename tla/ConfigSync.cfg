\* One write of any kind, a failure, a restart of the controller or the node.
SPECIFICATION SyncFairSpec
CONSTANTS
  n1 = n1
  g1 = g1
  c1 = c1
  NoNode = NoNode
  NoStream = NoStream
  Nodes = {n1}
  Streams = {g1}
  WsStreams = {}
  Callers = {c1}
  Writes = {"admin", "revoke", "renew"}
  ChanCap = 1
  WireCap = 1
  SigCap = 1
  MaxCalls = 1
  MaxFaults = 1
  MaxRestarts = 1
INVARIANTS SyncTypeOK FreshWhenCurrent LabelFloor
PROPERTIES AppliesNewerOnly DeliverySpec ReconnectHeals
\* The bounds are used up and every goroutine waits.
CHECK_DEADLOCK FALSE
