SPECIFICATION StormSpec
CONSTANTS
  podA = podA
  podB = podB
  Pods <- MCPods
  Window = 2
  Threshold = 2
  MaxLag = 1
  MaxTime = 5
  MaxRecords = 3
SYMMETRY PodSymmetry
INVARIANTS
  VerdictsBetweenWindows
  ForgetsOnlyThePast
