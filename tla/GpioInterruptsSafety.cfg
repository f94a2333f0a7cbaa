CONSTANTS
  c1 = c1
  c2 = c2
  n1 = n1
  n2 = n2
  t1 = t1
  t2 = t2
  p1 = p1
  p2 = p2
  Callers = {c1, c2}
  Nodes = {n1, n2}
  Pollers = {t1, t2}
  Pins = {p1, p2}
  Edges = {"both"}
  NULL = NULL
  Unregisters = TRUE
  MaxFlips = 0
  MaxShutdowns = 1
  Builds = {"memory", "sysfs"}
  SysCallers = {"c1", "c2"}
  SysThreads = {"t1", "t2"}
  SysPins = {"p1"}
  Fds = {0, 1}
  MaxFds = 1
  MaxEdges = 1
SYMMETRY Symmetry
SPECIFICATION SpecBuilds
INVARIANTS BuildsTypeOK OnePoller
PROPERTY NeverLost
CHECK_DEADLOCK FALSE
