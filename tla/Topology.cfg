\* The service with reports, an event, a failing save, a restart of the controller and of
\* a node; the incremental optimizer with five nodes, paths that cost the same among
\* them, and batches of two events; the forwarding tables of three nodes with one or two
\* base routes for each pair.
SPECIFICATION TopologySpec
CONSTANTS
  Node = {1, 2}
  Ingress = {1}
  BestTopology <- OptimizeTable
  AfterEvents <- OptApplyDeltas
  EdgeEvents <- OptDeltas
  Reports <- TwoReports
  Samples <- OneSample
  Limit <- AllLimits
  Budget = 3
  MaxFaults = 1
  TopoNode = {1, 2, 3, 4, 5}
  TopoIngress = {1, 2}
  MaxPeers = 2
  IngressK = 1
  RouteK = 2
  LeafUplinks = 1
  ProbeLimit = 1
  DirtyPercent = 50
  Start <- SmallStart
  Links <- SmallLinks
  Weights = {3}
  MaxBatch = 2
  TransitNodes = {1, 2, 3}
  FibRouteKs = {1, 2}
INVARIANTS TypeOK ServedIsSaved ResultsSound
PROPERTIES VersionsNotReused Settles
\* A forwarding table is made once.
CHECK_DEADLOCK FALSE
