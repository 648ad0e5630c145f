\* What carries a node's traffic, one component at a time.
SPECIFICATION TrafficSpec
CONSTANTS
  h1 = h1
  h2 = h2
  s1 = s1
  NoHop = NoHop
  NoConn = NoConn
  Hops = {h1, h2}
  LanHops = {}
  Conns <- TwoToFirst
  MinConnsPerHop = 1
  MaxConnsPerHop = 2
  MaxTotalConns = 2
  MaxWANPeers = 1
  ScaleAt = 1
  MaxBatch = 1
  Senders = {s1}
  MaxDialing = 1
  MaxUpdates = 2
  MaxFaults = 1
  q1 = q1
  q2 = q2
  ka = ka
  kb = kb
  DnsTasks = {q1, q2}
  Accepted = {ka, kb}
  PeerOf <- SamePeer
  InjectCap = 1
  f1 = f1
  f2 = f2
  f3 = f3
  FlowKeys = {f1, f2, f3}
  VipOf <- Vips
  FlowTimeout <- Timeouts
  Bits <- BitsOf
  Within <- WithinOf
  NodeConfigs <- TwoConfigs
  MaxFlows = 2
  MaxAge = 2
  MaxApplied = 2
  MaxReads = 4
  fa = fa
  fb = fb
  fc = fc
  fd = fd
  FrameNodes = {fa, fb, fc, fd}
  PacketSource = fa
  PacketTarget = fd
  FrameTtl = 8
  IpTtl = 3
  RankTables <- FourTables
  FirstDials <- RingDials
  MaxRankChanges = 2
  MaxDialChanges = 1
  MaxPackets = 2
  KernelRoom = 1
  MaxPings = 2
  MaxWrites = 2
  ta = ta
  tb = tb
  td = td
  TraceNodes = {ta, tb, td}
  TraceSource = ta
  TraceTarget = td
  TracedRoutes <- TwoRoutes
  FirstJoined <- AnyLinks
  TraceRounds = 2
  MaxProbeHops = 3
  MaxRelinks = 1
  PacketLens = {0, 1, 8, 9, 19, 20, 23, 24, 27, 28, 39, 40, 41, 60, 80, 81}
  HeaderWords = {0, 4, 5, 6, 15}
  PayloadLens = {0, 4, 5, 8, 9, 10, 11, 12, 43, 44, 45, 50, 60, 70}
  FieldLens = {0, 1, 4, 5, 12}
  FrameLens = {0, 1, 1400, 65507, 65535}
  RouteLens = {0, 1, 64, 255, 300}
  p1 = p1
  p2 = p2
  p3 = p3
  e1 = e1
  e2 = e2
  Sessions = {e1, e2}
  NoPath = NoPath
  Paths = {p1, p2, p3}
  RingRank <- Rings
  Baselines <- ThreeLists
  MaxBaselines = 3
INVARIANTS TrafficTypeOK CountsAtLeastLive NoStrayConn ClosedPoolIsEmpty PacketsBounded PeersUnderstand
PROPERTIES TrafficKeepsItsWay
\* Goroutines wait and programs stop when the bounds are used up.
CHECK_DEADLOCK FALSE
