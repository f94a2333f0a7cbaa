CONSTANTS
  l1 = l1
  l2 = l2
  Launches = {l1, l2}
  NULL = NULL
  NoStdin = {l1, l2}
  OpenFails = FALSE
  ForkFails = FALSE
  FopenFails = FALSE
  Killable = FALSE
SPECIFICATION Spec
INVARIANT AlwaysFirstInstance
CHECK_DEADLOCK FALSE
