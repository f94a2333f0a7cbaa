------------------------------ MODULE MqttLink ------------------------------
(***************************************************************************)
(* The MQTT side of the daemon: the reconnect logic at the top of          *)
(* main_loop (RotaryEncoder.c), start_mqtt / ev_handler / send_mqtt_msg    *)
(* (MQTT.c) and the part of mongoose they run on (connection list, poll    *)
(* cycle, TCP connect, MQTT handshake), together with the network and the  *)
(* broker at the other end.                                                *)
(*                                                                         *)
(* Everything the program does happens on one thread: pc says which call   *)
(* of main_loop it is in.  Network, broker and signals interleave with it. *)
(***************************************************************************)
EXTENDS Integers, Sequences, FiniteSets

CONSTANTS
  Conns,         \* memory for struct mg_connection: what can be live at once
  NULL,
  HostIsName,    \* the server is a host name (asynchronous DNS), not an IP
  BrokerRefuses, \* the broker may answer CONNECT with a refusal
  GiveUp,        \* INT_MAX in the code: failed attempts before main_loop returns
  MsgIdMax,      \* 65535 in the code
  SendBuffer,    \* bound: packets a socket holds that the broker has not read
  MaxMsgs,       \* bound: volume and mute commands in a behaviour
  MaxFaults,     \* bound: refusals, resets, failed lookups and broker restarts
  MaxSignals     \* bound: SIGINT / SIGTERM delivered

ASSUME MqttLinkAssumption ==
  /\ NULL \notin Conns
  /\ {HostIsName, BrokerRefuses} \subseteq BOOLEAN
  /\ {GiveUp, MsgIdMax, SendBuffer} \subseteq Nat \ {0}
  /\ {MaxMsgs, MaxFaults, MaxSignals} \subseteq Nat

VARIABLES
  pc,              \* where main_loop is
  FOREVER, called, \* loop flag and call counter of intHandler
  final,           \* the poll running is the last one, inside mg_mgr_free
  mqtt_status,     \* _mqtt_status_
  mqtt_connection, \* _mqtt_connection
  bad_mqtt,        \* consecutive failed attempts (local of main_loop)
  msg_id,          \* static counter of _send_mqtt_msg
  sent, log,       \* commands handed to send_mqtt_msg so far, fate of each
  active,          \* mgr->active_connections, newest first
  todo, ready,     \* rest of the poll's first loop, result of its select()
  stalled,         \* sockets this poll found, or left, with no room to write
  phase,           \* struct mg_connection: "open" once the MQTT protocol is set
  flag,            \* MG_F_CLOSE_IMMEDIATELY, MG_F_SEND_AND_CLOSE ("drain")
  out,             \* send_mbuf: the packets queued
  net,             \* the TCP connection, as the kernel knows it
  inbox,           \* what recv() will return, one item per call
  wire,            \* what the broker will read
  broker,          \* what the broker has done with the connection
  faults           \* faults the environment may still cause

prog == <<FOREVER, called, final, bad_mqtt>>
link == <<mqtt_status, mqtt_connection>>
msgs == <<msg_id, sent, log>>
poll == <<active, todo, ready, stalled>>
conn == <<phase, flag, out>>
peer == <<net, inbox, wire, broker>>
vars == <<pc, prog, link, msgs, poll, conn, peer, faults>>

CONNECT == 0                    \* the handshake packet; n > 0 is command n
Packets == 0 .. MaxMsgs

Phases == {"free", "resolving", "connecting", "open"}
Fates == {"unsent", "refused", "queued"}

Phase(p) == {c \in Conns : phase[c] = p}
Live == Conns \ Phase("free")

Init ==
  /\ pc = "init"
  /\ FOREVER = TRUE /\ called = 0 /\ final = FALSE
  /\ mqtt_status = "stopped" /\ mqtt_connection = NULL
  /\ bad_mqtt = 0
  /\ msg_id = 0 /\ sent = 0 /\ log = [m \in 1 .. MaxMsgs |-> "unsent"]
  /\ active = <<>> /\ todo = <<>> /\ ready = {} /\ stalled = {}
  /\ phase = [c \in Conns |-> "free"] /\ flag = [c \in Conns |-> "none"]
  /\ out = [c \in Conns |-> <<>>]
  /\ net = [c \in Conns |-> "none"] /\ broker = [c \in Conns |-> "none"]
  /\ inbox = [c \in Conns |-> <<>>] /\ wire = [c \in Conns |-> <<>>]
  /\ faults = MaxFaults

-----------------------------------------------------------------------------
(* MQTT.c: the event handler and the calls of main_loop into it.           *)

\* MG_EV_CONNECT: whatever the error, protocol and handshake are set up.
EvConnect(c) == mqtt_status' = "running" /\ mqtt_connection' = c

\* Mutants: CLOSE forgets the pointer; CLOSE forgets the status.
EvClose_KeepsPointer(c) == mqtt_status' = "stopped" /\ UNCHANGED mqtt_connection
EvClose_KeepsStatus(c) == mqtt_connection' = NULL /\ UNCHANGED mqtt_status

\* MG_EV_CLOSE of any connection.
EvClose(c) == mqtt_status' = "stopped" /\ mqtt_connection' = NULL

\* Mutant: the refusal leaves the pointer.
EvConnack_KeepsPointer(reply) ==
  /\ mqtt_status' = IF reply = "NAK" THEN "stopped" ELSE mqtt_status
  /\ UNCHANGED mqtt_connection

\* Mutant: the return code is compared the wrong way round.
EvConnack_Inverted(reply) ==
  IF reply = "ACK"
  THEN mqtt_status' = "stopped" /\ mqtt_connection' = NULL
  ELSE UNCHANGED link

\* MG_EV_MQTT_CONNACK: only a refusal does something.
EvConnack(reply) ==
  IF reply = "NAK"
  THEN mqtt_status' = "stopped" /\ mqtt_connection' = NULL
  ELSE UNCHANGED link

\* mg_connect into a free structure.  A numeric address starts the TCP
\* connect and enters the list at once, a name only after its lookup.
MgConnect(c) ==
  /\ c \in Phase("free")
  /\ IF HostIsName
     THEN /\ phase' = [phase EXCEPT ![c] = "resolving"]
          /\ UNCHANGED <<net, active>>
     ELSE /\ phase' = [phase EXCEPT ![c] = "connecting"]
          /\ net' = [net EXCEPT ![c] = "syn"]
          /\ active' = <<c>> \o active
  /\ UNCHANGED <<flag, out, inbox, wire, broker>>

StartMqtt == \E c \in Conns : MgConnect(c) /\ mqtt_status' = "starting"

\* mg_connect returned NULL (no memory): start_mqtt calls exit().
StartMqttFails ==
  /\ Phase("free") = {}
  /\ pc' = "exited"
  /\ UNCHANGED <<mqtt_status, conn, peer, active>>

\* Mutant: no wrap.
NextMsgId_NoWrap == msg_id + 1

NextMsgId == IF msg_id >= MsgIdMax THEN 1 ELSE msg_id + 1

\* Mutant: the header inserted at the start of send_mbuf.
Enqueue_AtStart(q, m) == <<m>> \o q

\* mg_mqtt_publish: behind what is queued already.
Enqueue(q, m) == Append(q, m)

SendMqttMsg(m) ==
  /\ sent' = m
  /\ IF mqtt_status = "stopped" \/ mqtt_connection = NULL
     THEN /\ log' = [log EXCEPT ![m] = "refused"]
          /\ UNCHANGED <<msg_id, conn>>
     ELSE /\ log' = [log EXCEPT ![m] = "queued"]
          /\ msg_id' = NextMsgId
          /\ out' = [out EXCEPT ![mqtt_connection] = Enqueue(@, m)]
          /\ UNCHANGED <<phase, flag>>

-----------------------------------------------------------------------------
(* main_loop *)

\* Mutant: the loop waits for the connection to end.
LoopGoesOn_WhileRunning == FOREVER \/ mqtt_status = "running"

\* while (FOREVER)
LoopGoesOn == FOREVER

\* Mutant: an attempt per iteration until one succeeds.
MustReconnect_UntilRunning == mqtt_status # "running"

\* if (_mqtt_status_ == mqttstopped)
MustReconnect == mqtt_status = "stopped"

Setup ==
  /\ pc = "init"
  /\ \/ StartMqtt /\ pc' = "loop"
     \/ StartMqttFails
  /\ UNCHANGED <<prog, mqtt_connection, msgs, todo, ready, stalled, faults>>

\* A new attempt, and the count of failed ones.
Reconnect ==
  /\ pc = "loop" /\ LoopGoesOn /\ MustReconnect
  /\ \/ /\ StartMqtt
        /\ bad_mqtt' = bad_mqtt + 1
        /\ pc' = IF bad_mqtt' >= GiveUp THEN "exited" ELSE "select"
     \/ StartMqttFails /\ UNCHANGED bad_mqtt
  /\ UNCHANGED <<FOREVER, called, final, mqtt_connection, msgs, faults>>
  /\ UNCHANGED <<todo, ready, stalled>>

KeepGoing ==
  /\ pc = "loop" /\ LoopGoesOn /\ ~MustReconnect
  /\ bad_mqtt' = IF mqtt_status = "running" THEN 0 ELSE bad_mqtt
  /\ pc' = "select"
  /\ UNCHANGED <<FOREVER, called, final, link, msgs, poll, conn, peer, faults>>

\* The knob, then the button; each may produce one command.
Input(here, there) ==
  /\ pc = here /\ pc' = there
  /\ \/ sent < MaxMsgs /\ SendMqttMsg(sent + 1)
     \/ UNCHANGED <<msgs, conn>>
  /\ UNCHANGED <<prog, link, poll, peer, faults>>

ReadKnob == Input("knob", "button")
ReadButton == Input("button", "loop")

\* Mutant: mg_mgr_free without its poll.
LeaveLoop_NoPoll ==
  /\ pc = "loop" /\ ~LoopGoesOn
  /\ final' = TRUE
  /\ pc' = "closeall"
  /\ UNCHANGED <<FOREVER, called, bad_mqtt, link, msgs, poll, conn, peer, faults>>

\* mg_mgr_free, which begins with one more poll.
LeaveLoop ==
  /\ pc = "loop" /\ ~LoopGoesOn
  /\ final' = TRUE
  /\ pc' = "select"
  /\ UNCHANGED <<FOREVER, called, bad_mqtt, link, msgs, poll, conn, peer, faults>>

-----------------------------------------------------------------------------
(* mg_socket_if_poll: select, a pass over the list, a sweep of closed ones. *)

\* Sockets select() may report as not writable: those that still hold packets,
\* and always those that are full.
Full == {c \in Phase("open") : Len(wire[c]) >= SendBuffer}
Slow == {c \in Phase("open") : wire[c] # <<>>}

\* select() has something to report of c.
Ready(c) ==
  \/ phase[c] = "connecting" /\ net[c] \in {"up", "err"}
  \/ /\ phase[c] = "open"
     /\ net[c] = "err" \/ inbox[c] # <<>> \/ (out[c] # <<>> /\ c \notin stalled')

Select ==
  /\ pc = "select" /\ pc' = "handle"
  /\ stalled' \in SUBSET Slow /\ Full \subseteq stalled'
  /\ ready' = {c \in Conns : Ready(c)}
  /\ todo' = active
  /\ UNCHANGED <<prog, link, msgs, active, conn, peer, faults>>

\* Mutant: what send() did not take is thrown away.
Write_Forgets(c) ==
  IF out[c] = <<>> \/ c \in stalled
  THEN UNCHANGED <<out, wire, stalled>>
  ELSE \E n \in 1 .. Len(out[c]) :
         /\ Len(wire[c]) + n <= SendBuffer
         /\ wire' = [wire EXCEPT ![c] = @ \o SubSeq(out[c], 1, n)]
         /\ out' = [out EXCEPT ![c] = <<>>]
         /\ UNCHANGED stalled

\* mg_write_to_socket, if the socket is writable: one send() takes what there is
\* room for, the rest stays queued.  A packet cut in two stays until its last
\* byte is taken; a send() that ends no packet is as if select() had not
\* reported the socket.
Write(c) ==
  IF out[c] = <<>> \/ c \in stalled
  THEN UNCHANGED <<out, wire, stalled>>
  ELSE \E n \in 1 .. Len(out[c]) :
         /\ Len(wire[c]) + n <= SendBuffer
         /\ wire' = [wire EXCEPT ![c] = @ \o SubSeq(out[c], 1, n)]
         /\ out' = [out EXCEPT ![c] = SubSeq(@, n + 1, Len(@))]
         /\ stalled' = IF n < Len(out[c]) THEN stalled \cup {c} ELSE stalled

\* Mutant: the protocol is set, the handshake is not sent.
Connected_NoHandshake(c) ==
  /\ phase[c] = "connecting"
  /\ EvConnect(c)
  /\ phase' = [phase EXCEPT ![c] = "open"]
  /\ flag' = [flag EXCEPT ![c] = IF net[c] = "up" THEN @ ELSE "immediately"]
  /\ UNCHANGED <<out, peer, stalled>>

\* MG_F_CONNECTING and writable: mg_if_connect_cb, which raises MG_EV_CONNECT
\* even when the connect failed; the handshake leaves in the same call.
Connected(c) ==
  /\ phase[c] = "connecting"
  /\ EvConnect(c)
  /\ phase' = [phase EXCEPT ![c] = "open"]
  /\ IF net[c] = "up"
     THEN /\ wire' = [wire EXCEPT ![c] = Append(@, CONNECT)]
          /\ UNCHANGED <<flag, out>>
     ELSE /\ flag' = [flag EXCEPT ![c] = "immediately"]
          /\ out' = [out EXCEPT ![c] = <<CONNECT>>]
          /\ UNCHANGED wire
  /\ UNCHANGED <<net, inbox, broker, stalled>>

\* recv() fails, or send() when the reset comes after it: the connection is to be
\* closed, and what is queued stays where it is.
ReadError(c) ==
  /\ phase[c] = "open" /\ net[c] = "err"
  /\ flag' = [flag EXCEPT ![c] = "immediately"]
  /\ UNCHANGED <<link, phase, out, peer, stalled>>

Received(c) == IF inbox[c] = <<>> THEN "none" ELSE Head(inbox[c])

\* One recv() if there is something to read (the end of the stream stays
\* there), then the write.
ReadWrite(c) ==
  /\ phase[c] = "open" /\ net[c] = "up"
  /\ EvConnack(Received(c))
  /\ IF Received(c) = "FIN"
     THEN flag' = [flag EXCEPT ![c] = "drain"] /\ UNCHANGED inbox
     ELSE /\ inbox' = [inbox EXCEPT ![c] = IF @ = <<>> THEN @ ELSE Tail(@)]
          /\ UNCHANGED flag
  /\ Write(c)
  /\ UNCHANGED <<phase, net, broker>>

\* mg_mgr_handle_conn for the next connection of the list.
HandleConn ==
  /\ pc = "handle" /\ todo # <<>>
  /\ todo' = Tail(todo)
  /\ IF Head(todo) \in ready
     THEN \/ Connected(Head(todo))
          \/ ReadError(Head(todo))
          \/ ReadWrite(Head(todo))
     ELSE UNCHANGED <<link, conn, peer, stalled>>
  /\ UNCHANGED <<pc, prog, msgs, active, ready, faults>>

\* The DNS answer is read: resolve_cb starts the TCP connect.
Resolved(c) ==
  /\ pc = "handle" /\ phase[c] = "resolving"
  /\ phase' = [phase EXCEPT ![c] = "connecting"]
  /\ net' = [net EXCEPT ![c] = "syn"]
  /\ active' = <<c>> \o active
  /\ UNCHANGED <<pc, prog, link, msgs, todo, ready, stalled, flag, out>>
  /\ UNCHANGED <<inbox, wire, broker, faults>>

EndHandle ==
  /\ pc = "handle" /\ todo = <<>>
  /\ pc' = "sweep"
  /\ UNCHANGED <<prog, link, msgs, poll, conn, peer, faults>>

\* mg_close_conn / mg_destroy_conn: out of the list, MG_EV_CLOSE, freed.
\* What was queued is lost; what the kernel took is not followed further.
Close(c) ==
  /\ EvClose(c)
  /\ phase' = [phase EXCEPT ![c] = "free"] /\ flag' = [flag EXCEPT ![c] = "none"]
  /\ out' = [out EXCEPT ![c] = <<>>]
  /\ net' = [net EXCEPT ![c] = "none"] /\ broker' = [broker EXCEPT ![c] = "none"]
  /\ inbox' = [inbox EXCEPT ![c] = <<>>] /\ wire' = [wire EXCEPT ![c] = <<>>]
  /\ UNCHANGED <<pc, prog, msgs, todo, ready, stalled>>

\* Mutant: the head of the list is taken for the connection's predecessor.
Unlink_Head(i) == Tail(active)

\* mg_remove_conn
Unlink(i) == SubSeq(active, 1, i - 1) \o SubSeq(active, i + 1, Len(active))

MustClose(c) ==
  \/ flag[c] = "immediately"
  \/ flag[c] = "drain" /\ out[c] = <<>>

SweepConn ==
  /\ pc = "sweep"
  /\ \E i \in 1 .. Len(active) :
       /\ MustClose(active[i])
       /\ \A j \in 1 .. i - 1 : ~MustClose(active[j])
       /\ Close(active[i])
       /\ active' = Unlink(i)
  /\ UNCHANGED faults

\* The lookup failed: resolve_cb raises MG_EV_CONNECT (-1), then MG_EV_CLOSE,
\* when an answer without an address is read or its connection is swept.
ResolveFailed(c) ==
  /\ pc \in {"handle", "sweep"} /\ phase[c] = "resolving" /\ faults > 0
  /\ Close(c)
  /\ faults' = faults - 1
  /\ UNCHANGED active

EndSweep ==
  /\ pc = "sweep"
  /\ \A i \in 1 .. Len(active) : ~MustClose(active[i])
  /\ pc' = IF final THEN "closeall" ELSE "knob"
  /\ UNCHANGED <<prog, link, msgs, poll, conn, peer, faults>>

\* mg_mgr_free after its poll: every connection, pending lookups included.
CloseAll ==
  /\ pc = "closeall"
  /\ \/ active # <<>> /\ Close(Head(active)) /\ active' = Tail(active)
     \/ \E c \in Phase("resolving") : Close(c) /\ UNCHANGED active
  /\ UNCHANGED faults

Exit ==
  /\ pc = "closeall" /\ active = <<>> /\ Phase("resolving") = {}
  /\ pc' = "exited"
  /\ UNCHANGED <<prog, link, msgs, poll, conn, peer, faults>>

-----------------------------------------------------------------------------
(* The environment: signals, TCP, the broker. *)

\* intHandler; the fourth call ends the process at once.
Signal ==
  /\ pc \notin {"init", "exited"} /\ called < MaxSignals
  /\ FOREVER' = FALSE
  /\ called' = called + 1
  /\ pc' = IF called' > 3 THEN "exited" ELSE pc
  /\ UNCHANGED <<final, bad_mqtt, link, msgs, poll, conn, peer, faults>>

Env == UNCHANGED <<pc, prog, link, msgs, poll, conn>>

TcpUp(c) ==
  /\ net[c] = "syn"
  /\ net' = [net EXCEPT ![c] = "up"]
  /\ UNCHANGED <<inbox, wire, broker, faults>> /\ Env

\* Connect refused or timed out, or an established connection reset.
TcpError(c) ==
  /\ net[c] \in {"syn", "up"} /\ faults > 0
  /\ net' = [net EXCEPT ![c] = "err"] /\ broker' = [broker EXCEPT ![c] = "none"]
  /\ inbox' = [inbox EXCEPT ![c] = <<>>] /\ wire' = [wire EXCEPT ![c] = <<>>]
  /\ faults' = faults - 1 /\ Env

Hears(c, p) == net[c] = "up" /\ wire[c] # <<>> /\ Head(wire[c]) = p

Accepted == {c \in Conns : broker[c] = "accepted"}

\* One session per client id, and the program has one id: accepting a new
\* connection closes the one that had the session.
BrokerAccepts(c) ==
  /\ Hears(c, CONNECT) /\ broker[c] = "none"
  /\ wire' = [wire EXCEPT ![c] = Tail(@)]
  /\ broker' = [d \in Conns |-> IF d = c THEN "accepted"
                                ELSE IF d \in Accepted THEN "closed" ELSE broker[d]]
  /\ inbox' = [d \in Conns |-> IF d = c THEN Append(inbox[d], "ACK")
                               ELSE IF d \in Accepted THEN Append(inbox[d], "FIN")
                               ELSE inbox[d]]
  /\ UNCHANGED <<net, faults>> /\ Env

\* A refusal is followed by the close the MQTT standard demands of the server.
BrokerRefusesIt(c) ==
  /\ BrokerRefuses /\ faults > 0
  /\ Hears(c, CONNECT) /\ broker[c] = "none"
  /\ wire' = [wire EXCEPT ![c] = Tail(@)]
  /\ broker' = [broker EXCEPT ![c] = "closed"]
  /\ inbox' = [inbox EXCEPT ![c] = @ \o <<"NAK", "FIN">>]
  /\ faults' = faults - 1
  /\ UNCHANGED net /\ Env

\* A command is read (and dropped when the broker has closed its side).
BrokerReads(c) ==
  /\ \E m \in 1 .. MaxMsgs : Hears(c, m)
  /\ wire' = [wire EXCEPT ![c] = Tail(@)]
  /\ UNCHANGED <<net, inbox, broker, faults>> /\ Env

BrokerRestarts ==
  /\ faults > 0 /\ Accepted # {}
  /\ broker' = [d \in Conns |-> IF d \in Accepted THEN "closed" ELSE broker[d]]
  /\ inbox' = [d \in Conns |-> IF d \in Accepted THEN Append(inbox[d], "FIN") ELSE inbox[d]]
  /\ faults' = faults - 1
  /\ UNCHANGED <<net, wire>> /\ Env

-----------------------------------------------------------------------------
Main ==
  \/ Setup \/ Reconnect \/ KeepGoing \/ ReadKnob \/ ReadButton \/ LeaveLoop
  \/ Select \/ HandleConn \/ EndHandle \/ SweepConn \/ EndSweep \/ CloseAll \/ Exit

Network(c) ==
  \/ TcpUp(c) \/ TcpError(c)
  \/ BrokerAccepts(c) \/ BrokerRefusesIt(c) \/ BrokerReads(c)

Exited == pc = "exited" /\ UNCHANGED vars

Next ==
  \/ Main
  \/ \E c \in Conns : Resolved(c) \/ ResolveFailed(c) \/ Network(c)
  \/ BrokerRestarts \/ Signal \/ Exited

\* The thread keeps running (every call of the loop returns), TCP and the
\* broker answer, and a lookup is answered or given up after three queries.
Fairness ==
  /\ WF_vars(Main)
  /\ \A c \in Conns :
       /\ WF_vars(TcpUp(c))
       /\ WF_vars(BrokerAccepts(c))
       /\ WF_vars(BrokerReads(c))
       /\ SF_vars(Resolved(c))

Spec == Init /\ [][Next]_vars /\ Fairness

-----------------------------------------------------------------------------
PCs == {"init", "loop", "select", "handle", "sweep", "knob", "button",
        "closeall", "exited"}

\* What the connections look like to the program and to the network.
ConnTypes ==
  /\ phase \in [Conns -> Phases]
  /\ flag \in [Conns -> {"none", "immediately", "drain"}]
  /\ out \in [Conns -> Seq(Packets)]

PeerTypes ==
  /\ net \in [Conns -> {"none", "syn", "up", "err"}]
  /\ inbox \in [Conns -> Seq({"ACK", "NAK", "FIN"})]
  /\ wire \in [Conns -> Seq(Packets)]
  /\ broker \in [Conns -> {"none", "accepted", "closed"}]

LogType == log \in [1 .. MaxMsgs -> Fates]

FlagTypes == FOREVER \in BOOLEAN /\ final \in BOOLEAN

ScalarTypes ==
  /\ pc \in PCs
  /\ called \in Nat /\ bad_mqtt \in Nat /\ faults \in Nat
  /\ mqtt_status \in {"starting", "running", "stopped"}
  /\ mqtt_connection \in Conns \cup {NULL}
  /\ msg_id \in 0 .. MsgIdMax
  /\ sent \in 0 .. MaxMsgs
  /\ ready \subseteq Conns /\ stalled \subseteq Conns

ListTypes == active \in Seq(Conns) /\ todo \in Seq(Conns)

\* Type invariant.
TypeOK == ConnTypes /\ PeerTypes /\ LogType /\ FlagTypes /\ ScalarTypes /\ ListTypes

\* send_mqtt_msg and mongoose dereference _mqtt_connection without looking:
\* whenever it is set, it is a connection of the program that has not been
\* freed and whose MQTT protocol data exists (MQTT.c:82-94, mongoose.c:10456).
ConnectionNeverDangles ==
  mqtt_connection # NULL => phase[mqtt_connection] = "open"

\* The two globals say the same thing at every step of the thread, although
\* four places write them: "running" exactly while there is a connection.
RunningIffConnection == mqtt_status = "running" <=> mqtt_connection # NULL

\* main_loop only acts on "stopped": it may sit in "starting" only while an
\* attempt is under way that will raise an event (RotaryEncoder.c:207-223).
StartingHasAttempt ==
  mqtt_status = "starting" => Phase("resolving") \cup Phase("connecting") # {}

\* mongoose's list holds each connection once, and every one that is not
\* waiting for its lookup: a connection outside it would never be closed.
ListIsExact ==
  /\ {active[i] : i \in 1 .. Len(active)} = Phase("connecting") \cup Phase("open")
  /\ \A i, j \in 1 .. Len(active) : active[i] = active[j] => i = j

\* The broker never reads a command on a connection before its CONNECT
\* (mg_send_mqtt_handshake_opt and mg_mqtt_publish share send_mbuf).
CommandAfterConnect ==
  \A c \in Conns, m \in 1 .. MaxMsgs : Hears(c, m) => broker[c] # "none"

\* Against a broker that accepts every CONNECT, each failed connection is gone
\* before the next attempt, so the program never has two.
SingleConnection == ~BrokerRefuses => \A c, d \in Live : c = d

\* The connection that has the broker's session is the one that _mqtt_connection
\* points to from the moment it is accepted: with a broker that accepts, no session
\* is ever left to a connection that the program has stopped using, or is about to
\* (MQTT.c:109-134, RotaryEncoder.c:207-223).
AcceptedIsUsed ==
  ~BrokerRefuses => \A c \in Accepted : mqtt_connection = c

\* And the program never costs itself a session: until mg_mgr_free an accepted
\* connection ends by a fault from outside only, not by the sweep, a retry or a
\* session taken over (mongoose.c:3928-3934, RotaryEncoder.c:207-223).
KeepsAccepted ==
  [][~BrokerRefuses =>
       \A c \in Accepted : c \in Accepted' \/ faults' < faults \/ pc = "closeall"]_vars

Holds(q, m) == \E i \in 1 .. Len(q) : q[i] = m

\* The process ends without mg_mgr_free: the fourth signal, giving up, no memory.
EndsAtOnce ==
  /\ pc' = "exited"
  /\ called' > 3 \/ bad_mqtt' >= GiveUp \/ Phase("free") = {}

\* A command that send_mqtt_msg has queued leaves send_mbuf for the kernel, and
\* is dropped for one of three reasons only: its connection has failed, it is
\* closed by mg_mgr_free after the last poll found or left its socket full, or the
\* process ends without mg_mgr_free.  Neither the sweep, nor a short write, nor
\* the end of the program drops one that could still have been written.
LostOnlyForAReason ==
  [][\A c \in Conns, m \in 1 .. MaxMsgs :
       pc # "exited" /\ Holds(out[c], m) /\ ~(pc' # "exited" /\ Holds(out'[c], m))
         => \/ Holds(wire'[c], m)
            \/ flag[c] = "immediately" \/ net[c] = "err"
            \/ pc = "closeall" /\ c \in stalled
            \/ EndsAtOnce]_vars

\* On one connection packets are sent in the order of the calls, the handshake
\* first, however many send() takes at a time: what the socket holds and what is
\* queued behind it are one stream (mg_mqtt_prepend_header inserts into the middle
\* of send_mbuf, mg_write_to_socket takes from its front).
StreamInOrder ==
  \A c \in Conns :
    LET s == wire[c] \o out[c] IN \A i, j \in 1 .. Len(s) : i < j => s[i] < s[j]

\* Together: whatever is queued, written or refused in between, the broker reads the
\* handshake of a connection and then its commands in the order of the calls.
HeardInOrder == CommandAfterConnect /\ StreamInOrder

\* Against a broker that accepts, once the faults are over the program ends up
\* holding, for good, the connection that has the broker's session.
StaysConnected ==
  <>[](\/ pc = "exited"
       \/ mqtt_connection # NULL /\ broker[mqtt_connection] = "accepted")

\* A signal ends the program.
SignalStops == (~FOREVER) ~> (pc = "exited")

\* The message "No mqtt connection, can't send message" (MQTT.c:83) is only
\* given when the program has no connection that the broker has accepted.
RefusedOnlyWithoutConnection ==
  [][\A m \in 1 .. MaxMsgs :
       log[m] = "unsent" /\ log'[m] = "refused"
         => Phase("open") \cap Accepted = {}]_vars
=============================================================================
