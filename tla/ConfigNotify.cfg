\* One node, a gRPC and a WebSocket stream, one caller of RecomputeAndNotify.
SPECIFICATION NotifyFairSpec
CONSTANTS
  n1 = n1
  g1 = g1
  w1 = w1
  c1 = c1
  NoNode = NoNode
  Nodes = {n1}
  Streams = {g1, w1}
  WsStreams = {w1}
  Callers = {c1}
  ChanCap = 1
  WireCap = 1
  MaxCalls = 2
  MaxFaults = 1
INVARIANTS TypeOK NoPanic SubscriberServed
PROPERTIES NoBumpAfterClose NotifyEnds
