CONSTANTS
  c1 = c1
  n1 = n1
  n2 = n2
  t1 = t1
  t2 = t2
  p1 = p1
  p2 = p2
  Callers = {c1}
  Nodes = {n1, n2}
  Pollers = {t1, t2}
  Pins = {p1, p2}
  Edges = {"both"}
  NULL = NULL
  Unregisters = TRUE
  MaxFlips = 0
  MaxShutdowns = 0
SPECIFICATION Spec
INVARIANT CalledBeforeCleanup
CHECK_DEADLOCK FALSE
