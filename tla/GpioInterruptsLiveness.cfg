CONSTANTS
  c1 = c1
  n1 = n1
  n2 = n2
  t1 = t1
  p1 = p1
  p2 = p2
  Callers = {c1}
  Nodes = {n1, n2}
  Pollers = {t1}
  Pins = {p1}
  Edges = {"both", "falling"}
  NULL = NULL
  Unregisters = FALSE
  MaxFlips = 2
  MaxShutdowns = 0
  Builds = {"memory", "sysfs"}
  SysCallers = {"c1", "c2"}
  SysThreads = {"t1", "t2"}
  SysPins = {"p1"}
  Fds = {0, 1}
  MaxFds = 1
  MaxEdges = 1
SPECIFICATION SpecBuilds
INVARIANTS HandedOver HolderIsAnswered NodesStay AlwaysPolled
PROPERTIES EdgesKept EventuallyFollowed EdgeReported CallsReturn EdgeServed
CHECK_DEADLOCK FALSE
