--------------------------- MODULE MCDaemonStdio ----------------------------
(* A few connections at once are enough to use up every low descriptor.    *)
(* The pins are the knob's and one with another function, which shares the *)
(* register of its mode with the switch; the clock and the data contact    *)
(* share theirs, and all three share that of the resistors on a Pi 4.      *)
EXTENDS DaemonSetup, TLC

CONSTANTS t1, t2

MCHeader == <<14, 17, 22, 27>>
ToolSymmetry == Permutations({t1, t2})
=============================================================================
