-------------------------- MODULE MCGpioInterrupts --------------------------
(* Threads, memory and pins are interchangeable.                           *)
EXTENDS GpioInterrupts, TLC

Symmetry ==
  Permutations(Callers) \cup Permutations(Nodes) \cup Permutations(Pollers)
    \cup Permutations(Pins)
=============================================================================
