SPECIFICATION Spec
CONSTANTS
  Conns = {c1, c2, c3}
  NULL = NULL
  HostIsName = FALSE
  BrokerRefuses = TRUE
  GiveUp = 4
  MsgIdMax = 2
  SendBuffer = 2
  MaxMsgs = 1
  MaxFaults = 1
  MaxSignals = 0
PROPERTIES
  RefusedOnlyWithoutConnection
