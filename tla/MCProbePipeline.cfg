SPECIFICATION FairSpec
CONSTANTS
  tls = tls
  dns = dns
  gpu = gpu
  p1 = p1
  p2 = p2
  p3 = p3
  NoProbe = NoProbe
  SignalName <- MCSignals
  Probe <- MCProbes
  SignalOf <- MCSignalOf
  allowed <- MCAllowed
  disableOrder <- MCOrder
  RingSlots = 1
  BufSize = 1
  MaxRecords = 2
INVARIANTS
  NoSendAfterClose
  LossAtCancelOnly
  RegisteredOrDetached
PROPERTIES
  KeepsFeedOrder
  StartReturns
