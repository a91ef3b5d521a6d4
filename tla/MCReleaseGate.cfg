SPECIFICATION Spec
CONSTANTS
  Inputs <- MCInputs
  Crit <- MCCrit
  Garbled <- MCGarbled
  Blank <- MCBlank
INVARIANTS
  ClearRegressionBlocks
  PassNeedsEvidence
  RanksAgreeWithPairs
  ExitMatchesReports
CHECK_DEADLOCK FALSE
