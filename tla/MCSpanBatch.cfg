SPECIFICATION Spec
CONSTANTS
  PidWindow = 1
  ConnWindow = 2
  ServiceWindow = 4
  DefaultWindow = 6
  DefaultThreshold = 70
  DefaultFanout = 3
  Batches <- MCBatches
  Deliveries <- MCDeliveries
  Correlators <- MCCorrelators
  Times <- MCTimes
  MaxRounds = 2
INVARIANTS
  DebugAccounts
  CloserNeverWeaker
  EvaluatorPredictsEnrichment
PROPERTY LateSignalsOnlyAdd
CHECK_DEADLOCK FALSE
