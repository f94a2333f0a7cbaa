----------------------------- MODULE PacketPipe -----------------------------
(***************************************************************************)
(* What one direction of an MQTT connection promises: the packets put into *)
(* it are taken out whole, in order, each once; the end of the connection  *)
(* may take away those that are on their way.                              *)
(***************************************************************************)
EXTENDS Integers, Sequences

CONSTANT PipePackets

VARIABLES
  pipe,   \* the packets on their way
  taken   \* the packet taken last

NoPacket == [cmd |-> -1, body |-> <<>>]

InitPipe == pipe = <<>> /\ taken = NoPacket

Put == \E p \in PipePackets : pipe' = Append(pipe, p) /\ UNCHANGED taken
Take == pipe # <<>> /\ taken' = Head(pipe) /\ pipe' = Tail(pipe)
Lose == pipe' = <<>> /\ UNCHANGED taken

SpecPipe == InitPipe /\ [][Put \/ Take \/ Lose]_<<pipe, taken>>
=============================================================================
