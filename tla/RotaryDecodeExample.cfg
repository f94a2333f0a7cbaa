CONSTANTS
  ClkPin = 27
  DtPin = 22
  SwPin = 17
  P_CLK <- TypedClk
  P_DT <- TypedDt
  P_SW <- TypedSw
  QT_CNT = 7
  SlowWait = 3
  CntMax = 9
  MinPhase = 2
  MaxPhase = 3
  MinPress = 4
  MaxSignals = 1
SPECIFICATION Spec

PROPERTY VolumeOnlyIfTurned
CHECK_DEADLOCK FALSE
