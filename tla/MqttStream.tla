----------------------------- MODULE MqttStream -----------------------------
(***************************************************************************)
(* One connection of MqttLink, byte by byte: mongoose's send_mbuf and      *)
(* recv_mbuf, the framing of mqtt.c, its keep-alive, and a TCP connection  *)
(* that carries any number of bytes at a time.                             *)
(***************************************************************************)
EXTENDS MqttFraming

CONSTANTS
  ConnectBody,  \* what mg_send_mqtt_handshake_opt sends after the header
  Bodies,       \* topic and data of the commands
  KeepAlive,    \* opts.keep_alive, in ticks
  PassMax,      \* ticks that a pass of main_loop may take
  MaxPublished, \* bound: commands
  MaxSteps,     \* bound: steps of the clock
  Jump,         \* ticks of such a step
  MaxInFlight   \* bound: bytes on their way when a tick passes

ASSUME MqttStreamAssumption ==
  /\ ConnectBody \in Seq(Byte) /\ Len(ConnectBody) < TooLong
  /\ \A b \in Bodies : b \in Seq(Byte) /\ Len(b) < TooLong
  /\ {PassMax, MaxPublished, MaxSteps, Jump, MaxInFlight} \subseteq Nat
  /\ KeepAlive \in Nat /\ 2 * PassMax <= KeepAlive

CONNECT_CMD == 1
PUBLISH_CMD == 3
PINGREQ_CMD == 12
PINGRESP_CMD == 13

\* Before the first packet.
Nothing == [cmd |-> -1, body |-> <<>>]

VARIABLES
  established,  \* the connection has had MG_EV_CONNECT
  send_mbuf, to_broker, heard,   \* bytes queued, on their way, packet read last
  to_daemon, recv_mbuf, event,   \* the same in the other direction
  in_recv,      \* the loop of MG_EV_RECV is running
  published,    \* commands so far
  idle,         \* mg_time() - last_control_time
  pass,         \* ticks since the last MG_EV_POLL
  quiet,        \* true time since the last packet was queued
  stepped,      \* the clock was set back since then
  steps         \* steps of the clock so far

outgoing == <<send_mbuf, to_broker, heard>>
incoming == <<to_daemon, recv_mbuf, event, in_recv>>
alive == <<idle, quiet, stepped>>
clock == <<alive, pass, steps>>
streamvars == <<established, outgoing, incoming, published, clock>>

InitStream ==
  /\ established = FALSE
  /\ send_mbuf = <<>> /\ to_broker = <<>> /\ heard = Nothing
  /\ to_daemon = <<>> /\ recv_mbuf = <<>> /\ event = Nothing /\ in_recv = FALSE
  /\ published = 0 /\ idle = 0 /\ pass = 0 /\ quiet = 0 /\ stepped = FALSE /\ steps = 0

-----------------------------------------------------------------------------
\* mg_send for the parts of the body, then mg_mqtt_prepend_header.
Queue(cmd, body) ==
  /\ send_mbuf' = PrependHeader(MbufAppend(send_mbuf, body), cmd, Len(body))
  /\ idle' = 0 /\ quiet' = 0 /\ stepped' = FALSE

\* MG_EV_CONNECT: mg_send_mqtt_handshake_opt.
Handshake ==
  /\ ~established /\ established' = TRUE
  /\ Queue(CONNECT_CMD, ConnectBody)
  /\ pass' = 0
  /\ UNCHANGED <<to_broker, heard, incoming, published, steps>>

\* mg_mqtt_publish, from main_loop, with a QoS of 0.
Publish(body) ==
  /\ established /\ ~in_recv /\ published < MaxPublished
  /\ Queue(PUBLISH_CMD, body)
  /\ published' = published + 1
  /\ UNCHANGED <<established, to_broker, heard, incoming, pass, steps>>

\* Mutant: as for the commands, the interval is twice as long.
MqttPoll_Late ==
  /\ established /\ ~in_recv
  /\ pass' = 0
  /\ IF idle > 2 * KeepAlive
     THEN Queue(PINGREQ_CMD, <<>>)
     ELSE UNCHANGED <<send_mbuf, alive>>
  /\ UNCHANGED <<established, to_broker, heard, incoming, published, steps>>

\* MG_EV_POLL in mqtt_handler: mg_mqtt_ping.
MqttPoll ==
  /\ established /\ ~in_recv
  /\ pass' = 0
  /\ IF idle > KeepAlive
     THEN Queue(PINGREQ_CMD, <<>>)
     ELSE UNCHANGED <<send_mbuf, alive>>
  /\ UNCHANGED <<established, to_broker, heard, incoming, published, steps>>

\* mg_write_to_socket, mg_if_sent_cb: the socket takes n bytes.
WriteToSocket(n) ==
  /\ established /\ ~in_recv /\ n <= Len(send_mbuf)
  /\ to_broker' = to_broker \o SubSeq(send_mbuf, 1, n)
  /\ send_mbuf' = MbufRemove(send_mbuf, n)
  /\ UNCHANGED <<established, heard, incoming, published, clock>>

\* mg_handle_tcp_read, mg_recv_common: n bytes come in.
TcpRead(n) ==
  /\ established /\ ~in_recv /\ n <= Len(to_daemon)
  /\ recv_mbuf' = MbufAppend(recv_mbuf, SubSeq(to_daemon, 1, n))
  /\ to_daemon' = MbufRemove(to_daemon, n)
  /\ in_recv' = TRUE
  /\ UNCHANGED <<established, outgoing, event, published, clock>>

\* The connection is freed with its buffers.
Gone ==
  /\ established' = FALSE
  /\ send_mbuf' = <<>> /\ to_broker' = <<>> /\ to_daemon' = <<>> /\ recv_mbuf' = <<>>
  /\ in_recv' = FALSE
  /\ UNCHANGED <<heard, event, published, clock>>

\* A turn of the loop of MG_EV_RECV.
MqttReceive ==
  LET len == ParseMqtt(recv_mbuf) IN
  /\ in_recv
  /\ \/ /\ len > 0
        /\ event' = Message(recv_mbuf)
        /\ recv_mbuf' = MbufRemove(recv_mbuf, len)
        /\ UNCHANGED <<established, outgoing, to_daemon, in_recv, published, clock>>
     \/ /\ len = -1
        /\ in_recv' = FALSE
        /\ UNCHANGED <<established, outgoing, to_daemon, recv_mbuf, event, published, clock>>
     \/ len = -2 /\ Gone

\* MG_F_CLOSE_IMMEDIATELY for another reason.
CloseStream == established /\ ~in_recv /\ Gone

-----------------------------------------------------------------------------
\* The broker reads the packet at the front and answers as the standard asks.
Answers(p) ==
  CASE p.cmd = CONNECT_CMD -> <<CONNACK * 16, 2, 0, 0>>
    [] p.cmd = PINGREQ_CMD -> <<PINGRESP_CMD * 16, 0>>
    [] OTHER -> <<>>

BrokerTakes ==
  /\ Frames(to_broker) # <<>>
  /\ heard' = Head(Frames(to_broker))
  /\ LET e == EndOfLength(to_broker, 2) IN
     to_broker' = SubSeq(to_broker, e + Number(to_broker, 2, e) + 1, Len(to_broker))
  /\ to_daemon' = to_daemon \o Answers(heard')
  /\ UNCHANGED <<established, send_mbuf, recv_mbuf, event, in_recv, published, clock>>

\* Time passes; a pass is over in PassMax ticks.
Tick ==
  /\ established /\ pass < PassMax
  /\ Len(send_mbuf) + Len(to_broker) + Len(to_daemon) + Len(recv_mbuf) <= MaxInFlight
  /\ pass' = pass + 1 /\ idle' = idle + 1 /\ quiet' = quiet + 1
  /\ UNCHANGED <<established, outgoing, incoming, published, stepped, steps>>

\* The clock of the system is set, back or forward.
SetClock ==
  /\ established /\ steps < MaxSteps /\ steps' = steps + 1
  /\ \/ idle' = idle + Jump /\ UNCHANGED stepped
     \/ idle' = idle - Jump /\ stepped' = TRUE
  /\ UNCHANGED <<established, outgoing, incoming, published, pass, quiet>>

NextStream ==
  \/ Handshake \/ MqttPoll \/ MqttReceive \/ CloseStream
  \/ \E b \in Bodies : Publish(b)
  \/ \E n \in 1 .. Len(send_mbuf) : WriteToSocket(n)
  \/ \E n \in 1 .. Len(to_daemon) : TcpRead(n)
  \/ BrokerTakes \/ Tick \/ SetClock

SpecStream == InitStream /\ [][NextStream]_streamvars
-----------------------------------------------------------------------------
Packet == [cmd : 0 .. 15, body : Seq(Byte)]

\* Type invariant.
StreamTypeOK ==
  /\ {established, in_recv, stepped} \subseteq BOOLEAN
  /\ {send_mbuf, to_broker, to_daemon, recv_mbuf} \subseteq Seq(Byte)
  /\ heard \in Packet \cup {Nothing} /\ event \in Packet \cup {Nothing}
  /\ published \in 0 .. MaxPublished /\ steps \in 0 .. MaxSteps
  /\ idle \in Int /\ quiet \in Nat /\ pass \in 0 .. PassMax

\* Every packet the daemon queues reaches the broker whole and in order, however
\* the socket cuts the bytes and whatever was still queued when its header was
\* put in front of it (mongoose.c:10454-10477, 2664-2669).
OutPackets ==
  [cmd : {CONNECT_CMD}, body : {ConnectBody}] \cup [cmd : {PUBLISH_CMD}, body : Bodies]
    \cup [cmd : {PINGREQ_CMD}, body : {<<>>}]
Out == INSTANCE PacketPipe
         WITH PipePackets <- OutPackets, pipe <- Frames(to_broker \o send_mbuf), taken <- heard
BrokerHears == Out!SpecPipe

\* Every packet of the broker is one event, in order, whatever part of it a read
\* returns and whatever follows it (mongoose.c:10264-10403).
InPackets == [cmd : {CONNACK}, body : {<<0, 0>>}] \cup [cmd : {PINGRESP_CMD}, body : {<<>>}]
In == INSTANCE PacketPipe
        WITH PipePackets <- InPackets, pipe <- Frames(recv_mbuf \o to_daemon), taken <- event
EventsArrive == In!SpecPipe

\* The broker ends a connection that is quiet for one and a half times the
\* keep-alive interval.  The daemon never lets it wait so long, unless its clock
\* was set back, which keep-alive reads (mongoose.c:10404-10412, 10476).
\* The PINGREQ counts from the pass that queues it; the next one writes it, a few
\* milliseconds later.
KeepsAlive == established /\ ~stepped => 2 * quiet <= 3 * KeepAlive
=============================================================================
