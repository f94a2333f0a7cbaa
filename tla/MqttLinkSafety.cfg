SPECIFICATION SpecSession
CONSTANTS
  Conns = {c1, c2, c3}
  NULL = NULL
  HostIsName = TRUE
  BrokerRefuses = TRUE
  GiveUp = 4
  MsgIdMax = 1
  SendBuffer = 1
  MaxMsgs = 2
  MaxFaults = 2
  MaxSignals = 1
  Base = 4
  ConnectBody <- MCConnectBody
  Bodies <- MCBodies
  KeepAlive = 2
  PassMax = 1
  MaxPublished = 1
  MaxSteps = 1
  Jump = 3
  MaxInFlight = 2
SYMMETRY Symmetry
INVARIANTS SessionTypeOK ConnectionNeverDangles RunningIffConnection StartingHasAttempt ListIsExact HeardInOrder KeepsAlive
PROPERTIES LostOnlyForAReason BrokerHears EventsArrive
