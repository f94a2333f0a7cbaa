CONSTANTS
  ClkPin = 27
  DtPin = 22
  SwPin = 17
  P_CLK = 27
  P_DT = 22
  P_SW = 17
  QT_CNT = 7
  SlowWait = 3
  CntMax = 9
  MinPhase = 2
  MaxPhase = 3
  MinPress = 4
  MaxSignals = 1
SPECIFICATION Spec
INVARIANT DecodeTypeOK
PROPERTY ImplementsContract
CHECK_DEADLOCK FALSE
