---------------------------- MODULE MqttSession -----------------------------
(***************************************************************************)
(* MqttLink follows whole packets on all connections of the daemon,        *)
(* MqttStream the bytes of one of them.  A behaviour is seen one way or    *)
(* the other.                                                              *)
(***************************************************************************)
EXTENDS MqttLink, MqttStream

VARIABLE view   \* "packets" or "bytes", chosen at the start

InitSession == Init /\ InitStream /\ view \in {"packets", "bytes"}

OfPackets == view = "packets" /\ Next /\ UNCHANGED <<streamvars, view>>
OfBytes == view = "bytes" /\ NextStream /\ UNCHANGED <<vars, view>>

NextSession == OfPackets \/ OfBytes

SpecSession == InitSession /\ [][NextSession]_<<vars, streamvars, view>>

\* Type invariant of both: packet ids keep their width, buffers hold bytes.
SessionTypeOK == TypeOK /\ StreamTypeOK
=============================================================================
