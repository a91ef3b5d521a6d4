SPECIFICATION FairSpec
CONSTANTS
  EventsPerSecondLimit = 1
  Configs <- MCConfigs
  SLOEvents = 1
  HelloTargets = 1
  HelloInterval = 2
  MaxClock = 3
  MaxTicks = 2
  MaxHello = 2
  MaxFaults = 1
INVARIANTS
  SoleCallerBudget
  ShedInCostOrder
  EnabledSetIsOne
PROPERTIES
  ExclusiveOutput
  KeepsEventFate
  TickCompletes
  ShutdownCompletes
