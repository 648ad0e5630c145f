\* Background services of a node, one at a time, with the faults each has to survive.
SPECIFICATION ServiceSpec
CONSTANTS
  d1 = d1
  r1 = r1
  NoLink = NoLink
  DirectLinks = {d1}
  RelayLinks = {r1}
  Rtts = {1, 3}
  LinkConfigs <- BothConfigs
  MinQuiet = 1
  RttThreshold = 1
  MaxLinkFaults = 2
  MaxTargetChanges = 1
  pa = pa
  pb = pb
  pc = pc
  pd = pd
  NoNode = NoNode
  ProbeNodes = {pa, pb, pc, pd}
  Routers = {pa, pb}
  ProbeTarget = pd
  VipOrder <- ByLetter
  LinkDelays <- SixDelays
  ChangingLinks <- Flaky
  MaxLinkChanges = 2
  MaxDisturbances = 1
  ra = ra
  rb = rb
  rc = rc
  Candidates <- ThreeRelays
  NoRelay = NoRelay
  RelayRtts = {1, 3}
  SwitchMargin = 2
  SwitchStreak = 3
  DegradeStreak = 2
  MaxQualityChanges = 3
  MaxReports = 2
  Primary = p
  Secondary = s
  Added = a
  MaxFaults = 3
  Protos = {"natpmp", "upnp"}
  Ports = {1, 2}
  MaxMapFaults = 1
INVARIANTS ServiceTypeOK OthersAgree
PROPERTIES SwitchJustified ServicesConverge
\* The failover ends when its context does.
CHECK_DEADLOCK FALSE
