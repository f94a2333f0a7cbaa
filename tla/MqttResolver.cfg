SPECIFICATION SpecAll
CONSTANTS
  Conns = {c1, c2}
  NULL = NULL
  HostIsName = TRUE
  BrokerRefuses = FALSE
  GiveUp = 3
  MsgIdMax = 2
  SendBuffer = 2
  MaxMsgs = 1
  MaxFaults = 3
  MaxSignals = 1
  MaxRetries = 2
  MaxLosses = 4
INVARIANTS
  DnsTypeOK
  SingleConnection
  AcceptedIsUsed
  LookupHasTarget
PROPERTIES
  KeepsAccepted
  StaysConnected
  SignalStops
  ImplementsLink
