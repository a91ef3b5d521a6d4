SPECIFICATION FairSpec
CONSTANTS
  Settings <- MCSettings
  Incidents = 2
  MaxRetry = 3
  Timeout = 2
INVARIANTS
  DeliveredInOrder
  RefusalIsFinal
  ExitTellsErrors
  SendBounded
PROPERTY RunEnds
