---------------------------- MODULE MCDaemonise -----------------------------
(* Launches are interchangeable while they all have their descriptors.     *)
EXTENDS Daemonise, TLC

Symmetry == Permutations(Launches)
=============================================================================
