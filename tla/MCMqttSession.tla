--------------------------- MODULE MCMqttSession ----------------------------
(* Connections of MqttLink differ only by their position in the list.  The *)
(* digits of a length are worth 4 instead of 128, so that a body of four   *)
(* bytes has a length of two digits, as one of 128 bytes has.              *)
EXTENDS MqttSession, TLC

Symmetry == Permutations(Conns)

MCConnectBody == <<9>>
MCBodies == {<<1>>, <<4, 5, 6, 7>>}
=============================================================================
