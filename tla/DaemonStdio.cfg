CONSTANTS
  Fds = {0, 1, 2, 3, 4, 5}
  BufLines = 3
  SyslogAtStart = TRUE
  KnownBoard = TRUE
  t1 = t1
  t2 = t2
  Header <- MCHeader
  Clk = 22
  Dt = 27
  Sw = 17
  Used = {14}
  Tools = {t1, t2}
  MaxCommands = 2
  PinsGiven = {14, 27}
  ModesGiven = {1, 4}
  PudsGiven = {0, 2}
  LevelsGiven = {1}
SPECIFICATION SpecSetup
INVARIANTS SetupTypeOK TextReachesNobody WasAsked PullQuiet DoneAsAsked
SYMMETRY ToolSymmetry
CHECK_DEADLOCK FALSE
