SPECIFICATION Spec
CONSTANTS
  Clients = {1, 2}
  Bodies <- MCBodies
  BackendFlags = {"", "llama_cpp", "vllm"}
  LastBound = 1
  DefaultMax = 2
  StubMax = 1
  Window = 1
  MaxClock = 2
  MaxSlips = 1
  MaxGone = 1
  CommandLines <- MCCommandLines
  Files <- MCFiles
  Hosts <- MCHosts
  TickMS = 800
  RuleValues <- MCRuleValues
  MaxScrapes = 2
  NaN = NaN
  PosInf = PosInf
  NegInf = NegInf
  NoAnswer = NoAnswer
  Unreachable = Unreachable
INVARIANTS
  OutcomeIsJustified
  HistogramBrackets
  ExitTellsOutcome
  BlockedBySlowRequest
