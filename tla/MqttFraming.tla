---------------------------- MODULE MqttFraming -----------------------------
(***************************************************************************)
(* Packets of MQTT 3.1.1 as bytes: a header, the remaining length in       *)
(* digits of 7 bits, least significant first, each but the last with its   *)
(* top bit set, and the body.  Base is 0x80; a smaller one lets a short    *)
(* body have a length of two digits, and that of a CONNACK (2) still one.  *)
(*                                                                         *)
(* VarLength, PrependHeader and ParseMqtt are mongoose's (mqtt.c);         *)
(* Frames is the standard's reading of a stream, independent of them.      *)
(***************************************************************************)
EXTENDS Integers, Sequences, FiniteSetsExt

CONSTANT Base

\* At most the code's 128, and more than the two bytes of a CONNACK, so that its
\* length has one digit as in the code.
ASSUME BaseAssumption == Base \in 3 .. 128

Byte == 0 .. 255

\* What a digit is worth; the code goes on behind the fourth, which no packet
\* of the daemon or of the broker needs.
Place == <<1, Base, Base * Base, Base * Base * Base, Base * Base * Base * Base>>
TooLong == Base * Base * Base * Base

-----------------------------------------------------------------------------
(* struct mbuf *)

MbufInsert(buf, off, bytes) ==
  SubSeq(buf, 1, off) \o bytes \o SubSeq(buf, off + 1, Len(buf))
MbufAppend(buf, bytes) == MbufInsert(buf, Len(buf), bytes)

\* Mutant: what was not yet sent is dropped too.
MbufRemove_All(buf, n) == <<>>

MbufRemove(buf, n) == IF n <= Len(buf) THEN SubSeq(buf, n + 1, Len(buf)) ELSE buf

-----------------------------------------------------------------------------
(* mg_mqtt_prepend_header *)

Digits(n) == CHOOSE d \in 1 .. 4 : n < Place[d + 1] /\ (d = 1 \/ n >= Place[d])

VarLength(n) ==
  [k \in 1 .. Digits(n) |->
     ((n \div Place[k]) % Base) + (IF k < Digits(n) THEN Base ELSE 0)]

\* Mutant: the header is put in front of what is still waiting to be sent.
PrependHeader_InFront(buf, cmd, len) == MbufInsert(buf, 0, <<cmd * 16>> \o VarLength(len))

\* The body of len bytes is at the end of the buffer already.
PrependHeader(buf, cmd, len) ==
  MbufInsert(buf, Len(buf) - len, <<cmd * 16>> \o VarLength(len))

-----------------------------------------------------------------------------
(* parse_mqtt *)

\* The bytes of the length that the loop has read when it ends: up to the first
\* without its top bit, five at most, fewer when there are no more.
LengthBytes(io) ==
  LET ends == {k \in 1 .. Len(io) - 1 : io[k + 1] < Base} \cup {5, Len(io) - 1}
  IN  Min(ends)

Digit(io, k) == IF k <= LengthBytes(io) THEN (io[k + 1] % Base) * Place[k] ELSE 0
RemainingLength(io) == Digit(io, 1) + Digit(io, 2) + Digit(io, 3) + Digit(io, 4) + Digit(io, 5)

Cmd(io) == io[1] \div 16
CONNACK == 2

\* The bytes of the packet at the front of the buffer; -1 while it is not all
\* there, -2 when it makes no sense.
ParseMqtt(io) ==
  LET k == LengthBytes(io) IN
  IF Len(io) < 2 THEN -1
  ELSE IF io[k + 1] >= Base THEN IF k = 5 THEN -2 ELSE -1
  ELSE IF RemainingLength(io) > Len(io) - 1 - k THEN -1
  ELSE IF Cmd(io) = CONNACK /\ RemainingLength(io) < 2 THEN -2
  ELSE 1 + k + RemainingLength(io)

\* Mutant: the command is the whole header.
Message_WholeHeader(io) ==
  [cmd |-> io[1], body |-> SubSeq(io, LengthBytes(io) + 2, ParseMqtt(io))]

\* What the handler is given: the command and the body.
Message(io) == [cmd |-> Cmd(io), body |-> SubSeq(io, LengthBytes(io) + 2, ParseMqtt(io))]

-----------------------------------------------------------------------------
(* The standard *)

\* Where the length that begins at i ends, 0 when that is not there yet, and
\* the number that its digits are.
EndOfLength(bytes, i) ==
  LET ends == {j \in i .. i + 3 : j <= Len(bytes) /\ bytes[j] < Base}
  IN  IF ends = {} THEN 0 ELSE Min(ends)
Number(bytes, i, e) ==
  LET horner[j \in i .. e] == (bytes[j] % Base) + (IF j = e THEN 0 ELSE Base * horner[j + 1])
  IN  horner[i]

\* The packets that a stream holds; an incomplete one at its end is left out.
Frames(bytes) ==
  LET from[i \in 1 .. Len(bytes) + 1] ==
        LET e == EndOfLength(bytes, i + 1)
            last == e + Number(bytes, i + 1, e)
        IN  IF e = 0 \/ last > Len(bytes) THEN <<>>
            ELSE <<[cmd |-> bytes[i] \div 16, body |-> SubSeq(bytes, e + 1, last)]>> \o from[last + 1]
  IN  from[1]
=============================================================================
