SPECIFICATION Spec
CONSTANTS
  EventsPerSecondLimit = 1
  Configs <- MCConfigs
  SLOEvents = 1
  HelloTargets = 1
  HelloInterval = 3
  MaxClock = 3
  MaxTicks = 2
  MaxHello = 2
  MaxFaults = 2
INVARIANT PerSecondBudget
