SPECIFICATION FairSpec
CONSTANTS
  k1 = k1
  k2 = k2
  Key <- MCKeys
  Programs <- ToolkitPrograms
  MaxEntries = 1
  RingSlots = 2
  MaxClock = 3
  MaxAttempts = 4
INVARIANTS
  SpanIsReal
  OneRecordPerOperation
  SlotsAccounted
  FifoDelivery
PROPERTY RecordsReachReader
