SPECIFICATION BenchSpec
CONSTANTS
  Starts <- MCStarts
  MaxFaults = 2
INVARIANTS
  ReportsAgree
  ProvenanceVouches
  InjectedFaultCovered
  MoreEvidenceKeepsWinner
