----------------------- MODULE MCGpioInterruptBuilds ------------------------
(* With sysfs two threads register one pin, which is a registration each;  *)
(* the array has room for the descriptor of one of them.  Without sysfs    *)
(* threads, memory and pins are interchangeable.                           *)
EXTENDS GpioInterruptBuilds, TLC

Symmetry ==
  Permutations(Callers) \cup Permutations(Nodes) \cup Permutations(Pollers)
    \cup Permutations(Pins)
=============================================================================
