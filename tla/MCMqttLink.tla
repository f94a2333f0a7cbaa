----------------------------- MODULE MCMqttLink -----------------------------
(* Instances of MqttLink for TLC. *)
EXTENDS MqttLink, TLC

\* Connections differ only by their position in the list: sound for safety.
Symmetry == Permutations(Conns)
=============================================================================
