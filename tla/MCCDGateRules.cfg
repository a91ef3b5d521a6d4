SPECIFICATION Spec
CONSTANTS
  Clients = {1}
  Bodies <- MCBodies
  BackendFlags = {"stub"}
  LastBound = 1
  DefaultMax = 2
  StubMax = 1
  Window = 1
  MaxClock = 2
  MaxSlips = 0
  MaxGone = 1
  CommandLines <- MCCommandLines
  Files <- MCFiles
  Hosts <- MCHosts
  TickMS = 800
  RuleValues = {}
  MaxScrapes = 2
  NaN = NaN
  PosInf = PosInf
  NegInf = NegInf
  NoAnswer = NoAnswer
  Unreachable = Unreachable
INVARIANT HighMetricBlocks
