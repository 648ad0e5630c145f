\* Two reports and a restart of the controller.
SPECIFICATION Spec
CONSTANTS
  Node = {1, 2}
  Ingress = {1}
  BestTopology <- OptimizeTable
  AfterEvents <- OptApplyDeltas
  EdgeEvents <- OptDeltas
  Reports <- TwoReports
  Samples <- OneSample
  Limit <- RestartLimits
  Budget = 3
  MaxFaults = 0
PROPERTIES KeepsAssignments
