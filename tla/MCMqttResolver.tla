--------------------------- MODULE MCMqttResolver ---------------------------
(* Instance of MqttResolver for TLC. *)
EXTENDS MqttResolver, TLC
=============================================================================
