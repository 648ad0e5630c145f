\* One peer and one configuration, batches of two packets, no failure.
SPECIFICATION PoolSpec
CONSTANTS
  s1 = s1
  NoHop = NoHop
  NoConn = NoConn
  Hops = {h1}
  LanHops = {}
  Conns <- TwoToEach
  MinConnsPerHop = 1
  MaxConnsPerHop = 2
  MaxTotalConns = 2
  MaxWANPeers = 1
  ScaleAt = 1
  MaxBatch = 2
  Senders = {s1}
  MaxDialing = 1
  MaxUpdates = 1
  MaxFaults = 0
INVARIANTS NoWaitCycle
\* The bounds are used up and every goroutine waits.
CHECK_DEADLOCK FALSE
