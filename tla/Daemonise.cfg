CONSTANTS
  l1 = l1
  l2 = l2
  l3 = l3
  Launches = {l1, l2, l3}
  NULL = NULL
  NoStdin = {}
  OpenFails = TRUE
  ForkFails = TRUE
  FopenFails = TRUE
  Killable = TRUE
SYMMETRY Symmetry
SPECIFICATION Spec
INVARIANTS TypeOK FirstInstance PidFileNamesDaemon
CHECK_DEADLOCK FALSE
