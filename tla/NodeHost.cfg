\* How a node lives on its host, one component at a time.
SPECIFICATION HostSpec
CONSTANTS
  d1 = d1
  Dialers = {d1}
  MaxAssembly = 3
  MaxConfig = 3
  x1 = x1
  x2 = x2
  Dsts = {x1, x2}
  MaxPolicy = 4
  t1 = t1
  t2 = t2
  TxIds = {t1, t2}
  MaxQueries = 3
  DnsConfigs <- FourDns
  EgressLists <- TwoEgress
  Names = {"n"}
  MaxConfigs = 2
  MaxFwFaults = 2
  FwAddresses = {"u1", "u2", "v1", "v2", "t2", "none"}
  StunServers <- ThreeServers
  NatMaps <- NatKinds
  OwnAddresses <- TwoHosts
  Declared <- ThreeDeclared
  HostClass <- Classes
  ListenPort = 7447
  ClientPort = 40000
  MaxDiscoveries = 1
  FirstTries = 2
  MaxLocFaults = 3
  InternalPort = 1
  DynLow = 4
  DynHigh = 7
  PortStep = 3
  TakenPorts = {1, 4, 7}
  MaxRetries = 2
  MaxAttempts = 4
  MaxGwFaults = 2
  MaxExchanges = 3
  RpcConns = {1}
  MaxRpcRequests = 2
  MaxStreamLines = 1
  LineRoom = 1
  MaxRpcFaults = 1
  LogCap = 2
  MaxLogs = 5
  KeyUses = 2
  MaxBoots = 3
  MaxIdFaults = 2
  DirectTcp = {"t"}
  DirectUdp = {"u"}
  DirectIcmp = {"i", "j"}
  IcmpSlots = 1
  MaxDirectFlows = 2
INVARIANTS HostTypeOK IdentityWhole ReplacedCleanly ReportsTrue LocalServicesOrderly
PROPERTIES HeldWasGranted HostRecovers
\* Programs stop when the bounds are used up.
CHECK_DEADLOCK FALSE
