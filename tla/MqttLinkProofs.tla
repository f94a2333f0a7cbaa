--------------------------- MODULE MqttLinkProofs ---------------------------
(***************************************************************************)
(* The safety of MqttLink, for any number of connections, commands, faults *)
(* and signals.  First the globals of MQTT.c: the pointer never dangles,   *)
(* it agrees with the status, and "starting" never waits for nothing.      *)
(* Then mongoose: its list, the order of what is queued and written, the   *)
(* one connection at a time, and what the last poll leaves.                *)
(***************************************************************************)
EXTENDS MqttLink, SequenceTheorems, TLAPS

\* What the steps of the program assume of one another.
LinkInv ==
  /\ ConnectionNeverDangles
  /\ RunningIffConnection
  /\ StartingHasAttempt

\* The first attempt finds the status as it was initialised.
StoppedAtFirst == pc = "init" => mqtt_status = "stopped"

IInv == TypeOK /\ LinkInv /\ StoppedAtFirst

-----------------------------------------------------------------------------
(* Types. *)

\* mg_remove_conn leaves a list of connections.
LEMMA UnlinkType ==
  ASSUME active \in Seq(Conns), NEW i \in 1 .. Len(active)
  PROVE  Unlink(i) \in Seq(Conns)
<1>1. SubSeq(active, 1, i - 1) \in Seq(Conns)
  <2>1. \A k \in 1 .. i - 1 : active[k] \in Conns
    BY ElementOfSeq
  <2> QED BY <2>1, SubSeqProperties
<1>2. SubSeq(active, i + 1, Len(active)) \in Seq(Conns)
  <2>1. \A k \in i + 1 .. Len(active) : active[k] \in Conns
    BY ElementOfSeq
  <2> QED BY <2>1, SubSeqProperties
<1> QED BY <1>1, <1>2, ConcatProperties DEF Unlink

LEMMA InitType == Init => TypeOK
<1> SUFFICES ASSUME Init PROVE TypeOK
  OBVIOUS
<1>1. ConnTypes
  BY DEF Init, ConnTypes, Phases
<1>2. PeerTypes
  BY DEF Init, PeerTypes
<1>3. FlagTypes
  BY Zenon DEF Init, FlagTypes
<1>4. ListTypes
  BY DEF Init, ListTypes
<1>5. LogType
  BY DEF Init, LogType, Fates
<1>6. ScalarTypes
  BY MqttLinkAssumption DEF Init, ScalarTypes, PCs
<1> QED BY <1>1, <1>2, <1>3, <1>4, <1>5, <1>6 DEF TypeOK

\* mg_connect and mg_close_conn keep the types of what they write.
LEMMA StartType ==
  ASSUME TypeOK, StartMqtt
  PROVE  ConnTypes' /\ PeerTypes' /\ active' \in Seq(Conns) /\ mqtt_status' = "starting"
<1>1. PICK c \in Conns : MgConnect(c) /\ mqtt_status' = "starting"
  BY DEF StartMqtt
<1>2. ConnTypes'
  BY <1>1 DEF TypeOK, MgConnect, ConnTypes, Phases
<1>3. PeerTypes'
  BY <1>1 DEF TypeOK, MgConnect, PeerTypes
<1>4. active' \in Seq(Conns)
  <2>1. <<c>> \in Seq(Conns) /\ active \in Seq(Conns)
    BY DEF TypeOK, ListTypes
  <2>2. active' \in {active, <<c>> \o active}
    BY <1>1 DEF MgConnect
  <2> QED BY <2>1, <2>2, ConcatProperties
<1> QED BY <1>1, <1>2, <1>3, <1>4

LEMMA CloseType ==
  ASSUME TypeOK, NEW c \in Conns, Close(c)
  PROVE  /\ ConnTypes' /\ PeerTypes'
         /\ mqtt_status' = "stopped" /\ mqtt_connection' = NULL
<1>1. ConnTypes'
  BY DEF TypeOK, Close, ConnTypes, Phases
<1>2. PeerTypes'
  BY DEF TypeOK, Close, PeerTypes
<1> QED BY <1>1, <1>2 DEF Close, EvClose

\* A send() takes the first packets of the queue, as they are, and leaves the
\* others.
Splits(q, n, taken, rest) ==
  /\ Len(taken) = n /\ \A i \in 1 .. n : taken[i] = q[i]
  /\ Len(rest) = Len(q) - n /\ \A i \in 1 .. Len(q) - n : rest[i] = q[n + i]

LEMMA WriteTakes ==
  ASSUME TypeOK, NEW c \in Conns, Write(c), out[c] # <<>>, c \notin stalled
  PROVE  \E n \in 1 .. Len(out[c]), taken \in Seq(Packets), rest \in Seq(Packets) :
           /\ Splits(out[c], n, taken, rest)
           /\ wire' = [wire EXCEPT ![c] = @ \o taken]
           /\ out' = [out EXCEPT ![c] = rest]
           /\ stalled' = IF n < Len(out[c]) THEN stalled \cup {c} ELSE stalled
<1>1. PICK n \in 1 .. Len(out[c]) :
        /\ wire' = [wire EXCEPT ![c] = @ \o SubSeq(out[c], 1, n)]
        /\ out' = [out EXCEPT ![c] = SubSeq(@, n + 1, Len(@))]
        /\ stalled' = IF n < Len(out[c]) THEN stalled \cup {c} ELSE stalled
  BY DEF Write
<1>2. out[c] \in Seq(Packets) /\ n \in Nat /\ Len(out[c]) \in Nat
  BY DEF TypeOK, ConnTypes
<1>3. \A i \in 1 .. Len(out[c]) : out[c][i] \in Packets
  BY <1>2, ElementOfSeq
<1>4. out' = [out EXCEPT ![c] = SubSeq(out[c], n + 1, Len(out[c]))]
  BY <1>1 DEF TypeOK, ConnTypes
<1> DEFINE taken == SubSeq(out[c], 1, n)
           rest == SubSeq(out[c], n + 1, Len(out[c]))
<1>5. /\ taken \in Seq(Packets) /\ Len(taken) = n
      /\ \A i \in 1 .. n : taken[i] = out[c][i]
  <2>1. \A i \in 1 .. n : out[c][i] \in Packets
    BY <1>2, <1>3
  <2> QED BY <1>2, <2>1, SubSeqProperties
<1>6. /\ rest \in Seq(Packets) /\ Len(rest) = Len(out[c]) - n
      /\ \A i \in 1 .. Len(out[c]) - n : rest[i] = out[c][n + i]
  <2>1. \A i \in n + 1 .. Len(out[c]) : out[c][i] \in Packets
    BY <1>2, <1>3
  <2>2. Len(out[c]) - (n + 1) + 1 = Len(out[c]) - n
    BY <1>2
  <2> QED BY <1>2, <2>1, <2>2, SubSeqProperties
<1> QED BY <1>1, <1>4, <1>5, <1>6 DEF Splits

\* A group that a step leaves unchanged keeps its type.
LEMMA Unchanged ==
  ASSUME TypeOK
  PROVE  /\ UNCHANGED conn => ConnTypes'
         /\ UNCHANGED peer => PeerTypes'
         /\ UNCHANGED log => LogType'
         /\ UNCHANGED <<FOREVER, final>> => FlagTypes'
         /\ UNCHANGED <<active, todo>> => ListTypes'
<1>1. UNCHANGED conn => ConnTypes'
  BY DEF TypeOK, ConnTypes, conn
<1>2. UNCHANGED peer => PeerTypes'
  BY DEF TypeOK, PeerTypes, peer
<1>3. UNCHANGED <<FOREVER, final>> => FlagTypes'
  BY DEF TypeOK, FlagTypes
<1>4. UNCHANGED <<active, todo>> => ListTypes'
  BY DEF TypeOK, ListTypes
<1>5. UNCHANGED log => LogType'
  BY DEF TypeOK, LogType
<1> QED BY <1>1, <1>2, <1>3, <1>4, <1>5

\* It writes to one socket only.
LEMMA WriteElsewhere ==
  ASSUME TypeOK, NEW d \in Conns, Write(d), NEW c \in Conns, c # d
  PROVE  out'[c] = out[c] /\ wire'[c] = wire[c]
<1>1. CASE out[d] = <<>> \/ d \in stalled
  BY <1>1 DEF Write
<1>2. CASE ~(out[d] = <<>> \/ d \in stalled)
  <2>1. PICK n \in 1 .. Len(out[d]), taken \in Seq(Packets), rest \in Seq(Packets) :
          /\ Splits(out[d], n, taken, rest)
          /\ wire' = [wire EXCEPT ![d] = @ \o taken]
          /\ out' = [out EXCEPT ![d] = rest]
          /\ stalled' = IF n < Len(out[d]) THEN stalled \cup {d} ELSE stalled
    BY <1>2, WriteTakes
  <2> QED BY <2>1 DEF TypeOK, ConnTypes, PeerTypes
<1> QED BY <1>1, <1>2

LEMMA NextType == TypeOK /\ [Next]_vars => TypeOK'
<1> SUFFICES ASSUME TypeOK, [Next]_vars PROVE TypeOK'
  OBVIOUS
<1> USE MqttLinkAssumption, Unchanged
<1> USE DEF TypeOK, prog, link, msgs, poll
<1>0. ScalarTypes /\ ListTypes
  OBVIOUS
<1>1. CASE Setup
  <2>1. CASE StartMqtt /\ pc' = "loop"
    <3>1. ScalarTypes'
      BY <1>0, <1>1, <2>1, StartType DEF Setup, ScalarTypes, PCs
    <3> QED BY <1>0, <1>1, <2>1, <3>1, StartType DEF Setup, ListTypes
  <2>2. CASE StartMqttFails
    <3>1. ScalarTypes'
      BY <1>0, <1>1, <2>2 DEF Setup, StartMqttFails, ScalarTypes, PCs
    <3> QED BY <1>0, <1>1, <2>2, <3>1 DEF Setup, StartMqttFails
  <2> QED BY <1>1, <2>1, <2>2 DEF Setup
<1>2. CASE Reconnect
  <2>1. CASE StartMqtt /\ bad_mqtt' = bad_mqtt + 1 /\ pc' \in PCs
    <3>1. ScalarTypes'
      BY <1>0, <1>2, <2>1, StartType DEF Reconnect, ScalarTypes
    <3> QED BY <1>0, <1>2, <2>1, <3>1, StartType DEF Reconnect, ListTypes
  <2>2. CASE StartMqttFails /\ UNCHANGED bad_mqtt
    <3>1. ScalarTypes'
      BY <1>0, <1>2, <2>2 DEF Reconnect, StartMqttFails, ScalarTypes, PCs
    <3> QED BY <1>0, <1>2, <2>2, <3>1 DEF Reconnect, StartMqttFails
  <2> QED BY <1>2, <2>1, <2>2 DEF Reconnect, PCs
<1>3. CASE KeepGoing
  <2>1. ScalarTypes'
    BY <1>0, <1>3 DEF KeepGoing, ScalarTypes, PCs
  <2> QED BY <1>3, <2>1 DEF KeepGoing
<1>4. ASSUME NEW here \in PCs, NEW there \in PCs, Input(here, there) PROVE TypeOK'
  <2>1. CASE UNCHANGED <<msgs, conn>>
    <3>1. ScalarTypes'
      BY <1>0, <1>4, <2>1 DEF Input, ScalarTypes
    <3> QED BY <1>4, <2>1, <3>1 DEF Input
  <2>2. CASE sent < MaxMsgs /\ SendMqttMsg(sent + 1)
    <3>1. sent' \in 1 .. MaxMsgs /\ sent' = sent + 1
      BY <1>0, <2>2 DEF SendMqttMsg, ScalarTypes
    <3>2. msg_id' \in 0 .. MsgIdMax
      BY <1>0, <2>2 DEF SendMqttMsg, NextMsgId, ScalarTypes
    <3>3. ScalarTypes'
      BY <1>0, <1>4, <3>1, <3>2 DEF Input, ScalarTypes
    <3>4. LogType'
      BY <2>2, <3>1 DEF SendMqttMsg, LogType, Fates
    <3>5. ConnTypes'
      <4>1. CASE UNCHANGED out
        BY <2>2, <4>1 DEF SendMqttMsg, ConnTypes, conn
      <4>2. CASE ~UNCHANGED out
        <5>1. mqtt_connection \in Conns
          BY <1>0, <2>2, <4>2 DEF SendMqttMsg, ScalarTypes, conn
        <5>2. Append(out[mqtt_connection], sent + 1) \in Seq(Packets)
          <6>1. sent + 1 \in Packets
            BY <3>1 DEF Packets
          <6> QED BY <5>1, <6>1, AppendProperties DEF ConnTypes
        <5> QED BY <2>2, <4>2, <5>1, <5>2 DEF SendMqttMsg, Enqueue, ConnTypes, conn
      <4> QED BY <4>1, <4>2
    <3> QED BY <1>4, <3>3, <3>4, <3>5 DEF Input
  <2> QED BY <1>4, <2>1, <2>2 DEF Input
<1>5. CASE LeaveLoop
  <2>1. ScalarTypes'
    BY <1>0, <1>5 DEF LeaveLoop, ScalarTypes, PCs
  <2>2. FlagTypes'
    BY <1>5 DEF LeaveLoop, FlagTypes
  <2> QED BY <1>5, <2>1, <2>2 DEF LeaveLoop
<1>6. CASE Select
  <2>1. ScalarTypes'
    BY <1>0, <1>6 DEF Select, ScalarTypes, PCs, Slow, Phase
  <2>2. ListTypes'
    BY <1>0, <1>6 DEF Select, ListTypes
  <2> QED BY <1>6, <2>1, <2>2 DEF Select
<1>7. CASE HandleConn
  <2> DEFINE c == Head(todo)
  <2>0. c \in Conns /\ ListTypes'
    BY <1>0, <1>7, HeadTailProperties DEF HandleConn, ListTypes
  <2>s. ASSUME mqtt_status' \in {"starting", "running", "stopped"},
               mqtt_connection' \in Conns \cup {NULL},
               stalled' \subseteq Conns
        PROVE  ScalarTypes'
    BY <1>0, <1>7, <2>s DEF HandleConn, ScalarTypes
  <2>1. CASE Connected(c)
    <3>0. <<CONNECT>> \in Seq(Packets)
      BY DEF CONNECT, Packets
    <3>1. ConnTypes'
      BY <2>0, <2>1, <3>0 DEF Connected, ConnTypes, Phases
    <3>2. PeerTypes'
      <4>1. Append(wire[c], CONNECT) \in Seq(Packets)
        BY <2>0, AppendProperties DEF PeerTypes, CONNECT, Packets
      <4> QED BY <2>0, <2>1, <4>1 DEF Connected, PeerTypes
    <3>3. ScalarTypes'
      BY <1>0, <2>0, <2>1, <2>s DEF Connected, EvConnect, ScalarTypes
    <3> QED BY <1>7, <2>0, <2>1, <3>1, <3>2, <3>3 DEF HandleConn, Connected
  <2>2. CASE ReadError(c)
    <3>1. ConnTypes'
      BY <2>0, <2>2 DEF ReadError, ConnTypes
    <3>2. ScalarTypes'
      BY <1>0, <2>2, <2>s DEF ReadError, ScalarTypes
    <3> QED BY <1>7, <2>0, <2>2, <3>1, <3>2 DEF HandleConn, ReadError
  <2>3. CASE ReadWrite(c)
    <3>0. /\ out' \in [Conns -> Seq(Packets)] /\ wire' \in [Conns -> Seq(Packets)]
          /\ stalled' \subseteq Conns
      <4>1. CASE out[c] = <<>> \/ c \in stalled
        BY <1>0, <2>3, <4>1 DEF ReadWrite, Write, ConnTypes, PeerTypes, ScalarTypes
      <4>2. CASE ~(out[c] = <<>> \/ c \in stalled)
        <5>1. PICK taken \in Seq(Packets), rest \in Seq(Packets) :
                 /\ wire' = [wire EXCEPT ![c] = @ \o taken]
                 /\ out' = [out EXCEPT ![c] = rest]
                 /\ stalled' \in {stalled, stalled \cup {c}}
          BY <2>0, <2>3, <4>2, WriteTakes DEF ReadWrite
        <5>2. wire[c] \o taken \in Seq(Packets)
          BY <2>0, <5>1, ConcatProperties DEF PeerTypes
        <5> QED BY <1>0, <2>0, <5>1, <5>2 DEF ConnTypes, PeerTypes, ScalarTypes
      <4> QED BY <4>1, <4>2
    <3>1. ConnTypes'
      BY <2>0, <2>3, <3>0 DEF ReadWrite, ConnTypes
    <3>2. PeerTypes'
      <4>1. inbox' \in [Conns -> Seq({"ACK", "NAK", "FIN"})]
        <5>1. inbox[c] # <<>> => Tail(inbox[c]) \in Seq({"ACK", "NAK", "FIN"})
          BY <2>0, HeadTailProperties DEF PeerTypes
        <5> QED BY <2>0, <2>3, <5>1 DEF ReadWrite, PeerTypes
      <4> QED BY <2>3, <3>0, <4>1 DEF ReadWrite, PeerTypes
    <3>3. ScalarTypes'
      BY <1>0, <2>3, <2>s, <3>0 DEF ReadWrite, EvConnack, ScalarTypes
    <3> QED BY <1>7, <2>0, <3>1, <3>2, <3>3 DEF HandleConn
  <2>4. CASE UNCHANGED <<link, conn, peer, stalled>>
    <3>1. ScalarTypes'
      BY <1>0, <2>4, <2>s DEF ScalarTypes
    <3> QED BY <1>7, <2>0, <2>4, <3>1 DEF HandleConn
  <2> QED BY <1>7, <2>1, <2>2, <2>3, <2>4 DEF HandleConn
<1>8. CASE EndHandle
  <2>1. ScalarTypes'
    BY <1>0, <1>8 DEF EndHandle, ScalarTypes, PCs
  <2> QED BY <1>8, <2>1 DEF EndHandle
<1>c. ASSUME NEW c \in Conns, Close(c), faults' \in Nat, active' \in Seq(Conns)
      PROVE  TypeOK'
  <2>1. ScalarTypes'
    BY <1>0, <1>c, CloseType DEF Close, ScalarTypes
  <2>2. ListTypes'
    BY <1>0, <1>c DEF Close, ListTypes
  <2> QED BY <1>c, <2>1, <2>2, CloseType DEF Close
<1>9. CASE SweepConn
  <2>1. PICK i \in 1 .. Len(active) : Close(active[i]) /\ active' = Unlink(i)
    BY <1>9 DEF SweepConn
  <2>2. active[i] \in Conns /\ active' \in Seq(Conns)
    BY <1>0, <2>1, UnlinkType, ElementOfSeq DEF ListTypes
  <2> QED BY <1>0, <1>9, <1>c, <2>1, <2>2 DEF SweepConn, ScalarTypes
<1>10. CASE EndSweep
  <2>1. ScalarTypes'
    BY <1>0, <1>10 DEF EndSweep, ScalarTypes, PCs
  <2> QED BY <1>10, <2>1 DEF EndSweep
<1>11. CASE CloseAll
  <2>1. CASE active # <<>> /\ Close(Head(active)) /\ active' = Tail(active)
    <3>1. Head(active) \in Conns /\ Tail(active) \in Seq(Conns)
      BY <1>0, <2>1, HeadTailProperties DEF ListTypes
    <3> QED BY <1>0, <1>11, <1>c, <2>1, <3>1 DEF CloseAll, ScalarTypes
  <2>2. ASSUME NEW c \in Conns, Close(c), UNCHANGED active PROVE TypeOK'
    BY <1>0, <1>11, <1>c, <2>2 DEF CloseAll, ScalarTypes, ListTypes
  <2> QED BY <1>11, <2>1, <2>2 DEF CloseAll, Phase
<1>12. CASE Exit
  <2>1. ScalarTypes'
    BY <1>0, <1>12 DEF Exit, ScalarTypes, PCs
  <2> QED BY <1>12, <2>1 DEF Exit
<1>13. ASSUME NEW c \in Conns, Resolved(c) PROVE TypeOK'
  <2>1. ConnTypes'
    BY <1>13 DEF Resolved, ConnTypes, Phases
  <2>2. PeerTypes'
    BY <1>13 DEF Resolved, PeerTypes
  <2>3. ScalarTypes'
    BY <1>0, <1>13 DEF Resolved, ScalarTypes
  <2>4. ListTypes'
    BY <1>0, <1>13 DEF Resolved, ListTypes
  <2> QED BY <1>13, <2>1, <2>2, <2>3, <2>4 DEF Resolved
<1>14. ASSUME NEW c \in Conns, ResolveFailed(c) PROVE TypeOK'
  BY <1>0, <1>14, <1>c DEF ResolveFailed, ScalarTypes, ListTypes
<1>e. ASSUME Env, PeerTypes', faults' \in Nat PROVE TypeOK'
  <2>1. ScalarTypes'
    BY <1>0, <1>e DEF Env, ScalarTypes
  <2> QED BY <1>e, <2>1 DEF Env
<1>15. ASSUME NEW c \in Conns, Network(c) PROVE TypeOK'
  <2>1. CASE TcpUp(c)
    <3>1. PeerTypes' BY <2>1 DEF TcpUp, PeerTypes
    <3> QED BY <1>0, <1>e, <2>1, <3>1 DEF TcpUp, ScalarTypes
  <2>2. CASE TcpError(c)
    <3>1. PeerTypes' BY <2>2 DEF TcpError, PeerTypes
    <3> QED BY <1>0, <1>e, <2>2, <3>1 DEF TcpError, ScalarTypes
  <2>3. CASE BrokerAccepts(c)
    <3>1. PeerTypes' BY <2>3 DEF BrokerAccepts, Hears, PeerTypes
    <3> QED BY <1>0, <1>e, <2>3, <3>1 DEF BrokerAccepts, ScalarTypes
  <2>4. CASE BrokerRefusesIt(c)
    <3>1. PeerTypes' BY <2>4 DEF BrokerRefusesIt, Hears, PeerTypes
    <3> QED BY <1>0, <1>e, <2>4, <3>1 DEF BrokerRefusesIt, ScalarTypes
  <2>5. CASE BrokerReads(c)
    <3>1. PeerTypes' BY <2>5 DEF BrokerReads, Hears, PeerTypes
    <3> QED BY <1>0, <1>e, <2>5, <3>1 DEF BrokerReads, ScalarTypes
  <2> QED BY <1>15, <2>1, <2>2, <2>3, <2>4, <2>5 DEF Network
<1>16. CASE BrokerRestarts
  <2>1. PeerTypes' BY <1>16 DEF BrokerRestarts, PeerTypes
  <2> QED BY <1>0, <1>e, <1>16, <2>1 DEF BrokerRestarts, ScalarTypes
<1>17. CASE Signal
  <2>1. ScalarTypes'
    BY <1>0, <1>17 DEF Signal, ScalarTypes, PCs
  <2>2. FlagTypes'
    BY <1>17 DEF Signal, FlagTypes
  <2> QED BY <1>17, <2>1, <2>2 DEF Signal
<1>18. CASE UNCHANGED vars
  <2>1. ScalarTypes'
    BY <1>0, <1>18 DEF vars, ScalarTypes
  <2> QED BY <1>18, <2>1 DEF vars
<1>19. ReadKnob \/ ReadButton => TypeOK'
  BY <1>4 DEF ReadKnob, ReadButton, PCs
<1> QED
  BY <1>1, <1>2, <1>3, <1>5, <1>6, <1>7, <1>8, <1>9, <1>10, <1>11, <1>12, <1>13,
     <1>14, <1>15, <1>16, <1>17, <1>18, <1>19 DEF Next, Main, Exited

\* Every variable of the model keeps its type.
THEOREM TypeCorrect == Spec => []TypeOK
BY InitType, NextType, PTL DEF Spec

-----------------------------------------------------------------------------
(* The globals of MQTT.c.  LinkInv is inductive together with the types: an  *)
(* event handler that sets the pointer also opens the connection it points   *)
(* to, and whatever frees a connection clears the pointer.                   *)

LEMMA InitLink == Init => LinkInv
BY DEF Init, LinkInv, ConnectionNeverDangles, RunningIffConnection, StartingHasAttempt

\* A step that touches neither the globals nor the phases.
LEMMA LinkUnchanged ==
  ASSUME LinkInv, UNCHANGED link, UNCHANGED phase
  PROVE  LinkInv'
BY DEF LinkInv, ConnectionNeverDangles, RunningIffConnection, StartingHasAttempt,
       link, Phase

\* mg_connect while stopped: the new connection is the attempt under way.
LEMMA LinkStart ==
  ASSUME TypeOK, LinkInv, StartMqtt, UNCHANGED mqtt_connection, mqtt_status = "stopped"
  PROVE  LinkInv'
<1>1. PICK c \in Conns : MgConnect(c) /\ mqtt_status' = "starting"
  BY DEF StartMqtt
<1>2. phase'[c] \in {"resolving", "connecting"}
  BY <1>1 DEF MgConnect, TypeOK, ConnTypes
<1>3. mqtt_connection' = NULL
  BY DEF LinkInv, RunningIffConnection
<1> QED BY <1>1, <1>2, <1>3
        DEF LinkInv, ConnectionNeverDangles, RunningIffConnection, StartingHasAttempt, Phase

LEMMA LinkClose ==
  ASSUME TypeOK, NEW c \in Conns, Close(c)
  PROVE  LinkInv'
BY DEF Close, EvClose, LinkInv, ConnectionNeverDangles, RunningIffConnection,
       StartingHasAttempt

LEMMA NextLink == IInv /\ [Next]_vars => LinkInv'
<1> SUFFICES ASSUME TypeOK, LinkInv, StoppedAtFirst, [Next]_vars PROVE LinkInv'
  BY DEF IInv
<1> USE MqttLinkAssumption
<1>0. ScalarTypes /\ ListTypes /\ ConnTypes
  BY DEF TypeOK
<1>1. CASE Setup
  <2>1. mqtt_status = "stopped"
    BY <1>1 DEF Setup, StoppedAtFirst
  <2>2. CASE StartMqttFails
    BY <1>1, <2>2, LinkUnchanged DEF Setup, StartMqttFails, link, conn
  <2> QED BY <1>1, <2>1, <2>2, LinkStart DEF Setup
<1>2. CASE Reconnect
  <2>1. CASE StartMqttFails
    BY <1>2, <2>1, LinkUnchanged DEF Reconnect, StartMqttFails, link, conn
  <2> QED BY <1>2, <2>1, LinkStart DEF Reconnect, MustReconnect
<1>3. CASE KeepGoing \/ LeaveLoop \/ Select \/ EndHandle \/ EndSweep \/ Exit \/ Signal
  BY <1>3, LinkUnchanged
     DEF KeepGoing, LeaveLoop, Select, EndHandle, EndSweep, Exit, Signal, conn
<1>4. CASE ReadKnob \/ ReadButton
  BY <1>4, LinkUnchanged DEF ReadKnob, ReadButton, Input, SendMqttMsg, conn
<1>5. CASE HandleConn
  <2> DEFINE c == Head(todo)
  <2>0. c \in Conns
    BY <1>0, <1>5, HeadTailProperties DEF HandleConn, ListTypes
  <2>1. CASE Connected(c)
    BY <1>0, <2>0, <2>1
       DEF Connected, EvConnect, LinkInv, ConnectionNeverDangles,
           RunningIffConnection, StartingHasAttempt, ConnTypes
  <2>2. CASE ReadError(c) \/ UNCHANGED <<link, conn, peer, stalled>>
    BY <2>2, LinkUnchanged DEF ReadError, conn
  <2>3. CASE ReadWrite(c)
    <3>1. CASE Received(c) = "NAK"
      BY <2>3, <3>1
         DEF ReadWrite, EvConnack, LinkInv, ConnectionNeverDangles,
             RunningIffConnection, StartingHasAttempt
    <3>2. CASE Received(c) # "NAK"
      BY <2>3, <3>2, LinkUnchanged DEF ReadWrite, EvConnack
    <3> QED BY <3>1, <3>2
  <2> QED BY <1>5, <2>1, <2>2, <2>3 DEF HandleConn
<1>6. CASE SweepConn
  <2>1. PICK i \in 1 .. Len(active) : Close(active[i])
    BY <1>6 DEF SweepConn
  <2>2. active[i] \in Conns
    BY <1>0, <2>1, ElementOfSeq DEF ListTypes
  <2> QED BY <2>1, <2>2, LinkClose
<1>7. CASE CloseAll
  <2>1. PICK c \in Conns : Close(c)
    BY <1>0, <1>7, HeadTailProperties DEF CloseAll, Phase, ListTypes
  <2> QED BY <2>1, LinkClose
<1>8. ASSUME NEW c \in Conns, Resolved(c) PROVE LinkInv'
  BY <1>0, <1>8
     DEF Resolved, LinkInv, ConnectionNeverDangles, RunningIffConnection,
         StartingHasAttempt, link, Phase, ConnTypes
<1>9. ASSUME NEW c \in Conns, ResolveFailed(c) PROVE LinkInv'
  BY <1>9, LinkClose DEF ResolveFailed
<1>10. ASSUME NEW c \in Conns, Network(c) PROVE LinkInv'
  BY <1>10, LinkUnchanged
     DEF Network, TcpUp, TcpError, BrokerAccepts, BrokerRefusesIt, BrokerReads, Env, conn
<1>11. CASE BrokerRestarts \/ UNCHANGED vars
  BY <1>11, LinkUnchanged DEF BrokerRestarts, Env, conn, vars
<1> QED
  BY <1>1, <1>2, <1>3, <1>4, <1>5, <1>6, <1>7, <1>8, <1>9, <1>10, <1>11
     DEF Next, Main, Exited

LEMMA NextFirst == IInv /\ [Next]_vars => StoppedAtFirst'
<1> SUFFICES ASSUME StoppedAtFirst, [Next]_vars, pc' = "init" PROVE mqtt_status' = "stopped"
  BY DEF IInv, StoppedAtFirst
<1>1. CASE Main
  BY <1>1 DEF Main, Setup, StartMqttFails, Reconnect, KeepGoing, ReadKnob, ReadButton,
              Input, LeaveLoop, Select, HandleConn, EndHandle, SweepConn, Close, EndSweep,
              CloseAll, Exit
<1>2. CASE ~Main
  BY <1>2 DEF Next, Resolved, ResolveFailed, Close, Network, TcpUp, TcpError,
              BrokerAccepts, BrokerRefusesIt, BrokerReads, BrokerRestarts, Signal, Env,
              Exited, vars, link, StoppedAtFirst
<1> QED BY <1>1, <1>2

LEMMA Inductive == Spec => []IInv
<1>1. Init => IInv
  BY InitType, InitLink DEF IInv, StoppedAtFirst, Init
<1>2. IInv /\ [Next]_vars => IInv'
  BY NextType, NextLink, NextFirst DEF IInv
<1> QED BY <1>1, <1>2, PTL DEF Spec

\* _mqtt_connection is NULL or a connection in use, at every step of the thread.
THEOREM NeverDangles == Spec => []ConnectionNeverDangles
<1>1. IInv => ConnectionNeverDangles
  BY DEF IInv, LinkInv
<1> QED BY <1>1, Inductive, PTL

\* _mqtt_status_ and _mqtt_connection never contradict each other.
THEOREM GlobalsAgree == Spec => []RunningIffConnection
<1>1. IInv => RunningIffConnection
  BY DEF IInv, LinkInv
<1> QED BY <1>1, Inductive, PTL

\* main_loop never waits in mqttstarting for an event nothing will raise.
THEOREM NeverStuckStarting == Spec => []StartingHasAttempt
<1>1. IInv => StartingHasAttempt
  BY DEF IInv, LinkInv
<1> QED BY <1>1, Inductive, PTL


-----------------------------------------------------------------------------
(* What a step can do to the connections and the commands. *)

\* No connection and no command changes.
Idles == UNCHANGED <<link, sent, log, active, conn, peer>>

\* A new attempt.
Starts(c) ==
  /\ MgConnect(c)
  /\ mqtt_status = "stopped" /\ mqtt_status' = "starting" /\ UNCHANGED <<mqtt_connection, sent, log>>

\* A command of the loop.
Commands == sent < MaxMsgs /\ SendMqttMsg(sent + 1) /\ UNCHANGED <<link, active, peer>>

\* One connection of the poll.
Handles(c) ==
  /\ pc = "handle" /\ c \in ready /\ UNCHANGED <<sent, log, active>>
  /\ Connected(c) \/ ReadError(c) \/ ReadWrite(c)

\* The end of a connection, in the list or still waiting for its lookup.
Closes(c) ==
  /\ Close(c)
  /\ \/ \E i \in 1 .. Len(active) : active[i] = c /\ active' = Unlink(i)
     \/ phase[c] = "resolving" /\ UNCHANGED active

\* The network and the broker.
OtherEnd(c) == Network(c) \/ BrokerRestarts

LEMMA HeadUnlinks ==
  ASSUME active \in Seq(Conns), active # <<>>
  PROVE  /\ 1 \in 1 .. Len(active) /\ active[1] = Head(active)
         /\ Tail(active) = Unlink(1)
<1>1. 1 \in 1 .. Len(active) /\ active[1] = Head(active)
  BY EmptySeq, LenProperties
<1>2. SubSeq(active, 1, 1 - 1) = <<>>
  BY SubSeqEmpty
<1>3. SubSeq(active, 1 + 1, Len(active)) = Tail(active)
  BY TailIsSubSeq
<1>4. <<>> \o Tail(active) = Tail(active)
  BY HeadTailProperties, ConcatEmptySeq
<1> QED BY <1>1, <1>2, <1>3, <1>4 DEF Unlink

LEMMA StepKinds ==
  ASSUME IInv, [Next]_vars
  PROVE  \/ Idles \/ Commands
         \/ \E c \in Conns : Starts(c) \/ Handles(c) \/ Closes(c) \/ Resolved(c) \/ OtherEnd(c)
<1> USE DEF IInv, TypeOK
<1>0. ListTypes
  OBVIOUS
<1>1. CASE Setup
  <2>1. CASE StartMqttFails
    BY <1>1, <2>1 DEF Setup, StartMqttFails, Idles, link, msgs
  <2>2. CASE StartMqtt
    <3>1. PICK c \in Conns : MgConnect(c) /\ mqtt_status' = "starting"
      BY <2>2 DEF StartMqtt
    <3>2. Starts(c)
      BY <1>1, <3>1 DEF Setup, StoppedAtFirst, Starts, msgs
    <3> QED BY <3>2
  <2> QED BY <1>1, <2>1, <2>2 DEF Setup
<1>2. CASE Reconnect
  <2>1. CASE StartMqttFails
    BY <1>2, <2>1 DEF Reconnect, StartMqttFails, Idles, link, msgs
  <2>2. CASE StartMqtt
    <3>1. PICK c \in Conns : MgConnect(c) /\ mqtt_status' = "starting"
      BY <2>2 DEF StartMqtt
    <3>2. Starts(c)
      BY <1>2, <3>1 DEF Reconnect, MustReconnect, Starts, msgs
    <3> QED BY <3>2
  <2> QED BY <1>2, <2>1, <2>2 DEF Reconnect
<1>3. CASE KeepGoing \/ LeaveLoop \/ Select \/ EndHandle \/ EndSweep \/ Exit \/ Signal
  BY <1>3 DEF KeepGoing, LeaveLoop, Select, EndHandle, EndSweep, Exit, Signal, Idles, msgs, poll
<1>4. CASE ReadKnob \/ ReadButton
  BY <1>4 DEF ReadKnob, ReadButton, Input, Idles, Commands, msgs, poll
<1>5. CASE HandleConn
  <2>1. Head(todo) \in Conns
    BY <1>0, <1>5, HeadTailProperties DEF HandleConn, ListTypes
  <2>2. CASE Head(todo) \in ready
    <3>1. Handles(Head(todo))
      BY <1>5, <2>2 DEF HandleConn, Handles, msgs
    <3> QED BY <2>1, <3>1
  <2>3. CASE Head(todo) \notin ready
    BY <1>5, <2>3 DEF HandleConn, Idles, msgs
  <2> QED BY <2>2, <2>3
<1>6. CASE SweepConn
  <2>1. PICK i \in 1 .. Len(active) : Close(active[i]) /\ active' = Unlink(i)
    BY <1>6 DEF SweepConn
  <2>2. active[i] \in Conns
    BY <1>0, <2>1, ElementOfSeq DEF ListTypes
  <2> QED BY <2>1, <2>2 DEF Closes
<1>7. CASE CloseAll
  <2>1. CASE active # <<>> /\ Close(Head(active)) /\ active' = Tail(active)
    <3>1. Head(active) \in Conns
      BY <1>0, <2>1, HeadTailProperties DEF ListTypes
    <3>2. Closes(Head(active))
      BY <1>0, <2>1, HeadUnlinks DEF ListTypes, Closes
    <3> QED BY <3>1, <3>2
  <2>2. CASE \E c \in Phase("resolving") : Close(c) /\ UNCHANGED active
    BY <2>2 DEF Phase, Closes
  <2> QED BY <1>7, <2>1, <2>2 DEF CloseAll
<1>8. CASE \E c \in Conns : Resolved(c)
  BY <1>8
<1>9. CASE \E c \in Conns : ResolveFailed(c)
  BY <1>9 DEF ResolveFailed, Closes
<1>10. CASE \E c \in Conns : Network(c)
  BY <1>10 DEF OtherEnd
<1>11. CASE BrokerRestarts
  <2>1. PICK c \in Conns : TRUE
    BY <1>11 DEF BrokerRestarts, Accepted
  <2> QED BY <1>11, <2>1 DEF OtherEnd
<1>12. CASE UNCHANGED vars
  BY <1>12 DEF vars, Idles, msgs, poll
<1> QED
  BY <1>1, <1>2, <1>3, <1>4, <1>5, <1>6, <1>7, <1>8, <1>9, <1>10, <1>11, <1>12
     DEF Next, Main, Exited

-----------------------------------------------------------------------------
(* The list of mongoose *)

Elements(list) == {list[i] : i \in 1 .. Len(list)}
NoTwice(list) == \A i, j \in 1 .. Len(list) : list[i] = list[j] => i = j

\* mg_add_conn
LEMMA AddedElements ==
  ASSUME active \in Seq(Conns), NEW c \in Conns, NoTwice(active), c \notin Elements(active)
  PROVE  /\ Elements(<<c>> \o active) = Elements(active) \cup {c}
         /\ NoTwice(<<c>> \o active)
<1> DEFINE h == <<c>>
           new == h \o active
<1>1. h \in Seq(Conns) /\ Len(h) = 1 /\ h[1] = c
  OBVIOUS
<1>2. Len(active) \in Nat
  BY LenProperties
<1> HIDE DEF h
<1>3. /\ Len(new) = Len(h) + Len(active)
      /\ \A i \in 1 .. Len(h) + Len(active) :
           new[i] = IF i <= Len(h) THEN h[i] ELSE active[i - Len(h)]
  BY <1>1, ConcatProperties
<1> HIDE DEF new
<1>4. Len(new) = Len(active) + 1 /\ new[1] = c /\ \A i \in 1 .. Len(active) : new[i + 1] = active[i]
  BY <1>1, <1>2, <1>3
<1>5. \A i \in 1 .. Len(new) : i = 1 \/ (i - 1 \in 1 .. Len(active) /\ new[i] = active[i - 1])
  BY <1>2, <1>4
<1>6. Elements(new) = Elements(active) \cup {c}
  <2>1. \A x \in Elements(new) : x \in Elements(active) \cup {c}
    BY <1>4, <1>5 DEF Elements
  <2>2. c \in Elements(new)
    BY <1>2, <1>4 DEF Elements
  <2>3. \A x \in Elements(active) : x \in Elements(new)
    <3> SUFFICES ASSUME NEW i \in 1 .. Len(active) PROVE active[i] \in Elements(new)
      BY DEF Elements
    <3>1. i + 1 \in 1 .. Len(new) /\ new[i + 1] = active[i]
      BY <1>2, <1>4
    <3> QED BY <3>1 DEF Elements
  <2> QED BY <2>1, <2>2, <2>3
<1>7. NoTwice(new)
  <2> SUFFICES ASSUME NEW i \in 1 .. Len(new), NEW j \in 1 .. Len(new), new[i] = new[j]
               PROVE  i = j
    BY DEF NoTwice
  <2>1. CASE i = 1 /\ j = 1
    BY <2>1
  <2>2. CASE i = 1 /\ j # 1
    BY <1>4, <1>5, <2>2 DEF Elements
  <2>3. CASE i # 1 /\ j = 1
    BY <1>4, <1>5, <2>3 DEF Elements
  <2>4. CASE i # 1 /\ j # 1
    <3>1. i - 1 = j - 1
      BY <1>5, <2>4 DEF NoTwice
    <3> QED BY <1>2, <1>4, <3>1
  <2> QED BY <2>1, <2>2, <2>3, <2>4
<1> QED BY <1>6, <1>7 DEF new, h

\* mg_remove_conn
LEMMA UnlinkedElements ==
  ASSUME active \in Seq(Conns), NEW i \in 1 .. Len(active), NoTwice(active)
  PROVE  /\ Elements(Unlink(i)) = Elements(active) \ {active[i]}
         /\ NoTwice(Unlink(i))
<1> DEFINE a == SubSeq(active, 1, i - 1)
           b == SubSeq(active, i + 1, Len(active))
           n == Len(active)
<1>1. n \in Nat /\ i \in 1 .. n
  BY LenProperties
<1>2. a \in Seq(Conns) /\ Len(a) = i - 1 /\ \A k \in 1 .. i - 1 : a[k] = active[k]
  <2>1. \A k \in 1 .. i - 1 : active[k] \in Conns
    BY <1>1, ElementOfSeq
  <2> HIDE DEF n
  <2>2. /\ a \in Seq(Conns) /\ Len(a) = IF 1 <= i - 1 THEN (i - 1) - 1 + 1 ELSE 0
        /\ \A k \in 1 .. (i - 1) - 1 + 1 : a[k] = active[1 + k - 1]
    BY <1>1, <2>1, SubSeqProperties
  <2> HIDE DEF a
  <2> QED BY <1>1, <2>2
<1>3. b \in Seq(Conns) /\ Len(b) = n - i /\ \A k \in 1 .. n - i : b[k] = active[i + k]
  <2>1. \A k \in i + 1 .. n : active[k] \in Conns
    BY <1>1, ElementOfSeq
  <2>2. /\ b \in Seq(Conns) /\ Len(b) = IF i + 1 <= n THEN n - (i + 1) + 1 ELSE 0
        /\ \A k \in 1 .. n - (i + 1) + 1 : b[k] = active[(i + 1) + k - 1]
    BY <1>1, <2>1, SubSeqProperties
  <2> HIDE DEF b
  <2> QED BY <1>1, <2>2
<1>4. Unlink(i) = a \o b
  BY DEF Unlink
<1> HIDE DEF a, b
<1>5. /\ Len(Unlink(i)) = Len(a) + Len(b)
      /\ \A k \in 1 .. Len(a) + Len(b) : Unlink(i)[k] = IF k <= Len(a) THEN a[k] ELSE b[k - Len(a)]
  <2>1. a \in Seq(Conns) /\ b \in Seq(Conns)
    BY <1>2, <1>3
  <2> QED BY <2>1, <1>4, ConcatProperties
<1> DEFINE from(k) == IF k < i THEN k ELSE k + 1
<1>6. /\ Len(Unlink(i)) = n - 1
      /\ \A k \in 1 .. n - 1 : from(k) \in 1 .. n /\ from(k) # i /\ Unlink(i)[k] = active[from(k)]
  <2> HIDE DEF n
  <2>1. Len(Unlink(i)) = n - 1
    BY <1>1, <1>2, <1>3, <1>5
  <2>2. ASSUME NEW k \in 1 .. n - 1
        PROVE  from(k) \in 1 .. n /\ from(k) # i /\ Unlink(i)[k] = active[from(k)]
    <3>1. CASE k < i
      <4>1. k \in 1 .. i - 1 /\ k \in 1 .. Len(a) + Len(b) /\ k <= Len(a)
        BY <1>1, <1>2, <1>3, <3>1
      <4>2. Unlink(i)[k] = active[k]
        BY <1>2, <1>5, <4>1
      <4> QED BY <1>1, <3>1, <4>2
    <3>2. CASE ~(k < i)
      <4>1. k - (i - 1) \in 1 .. n - i /\ k \in 1 .. Len(a) + Len(b) /\ ~(k <= Len(a))
        BY <1>1, <1>2, <1>3, <3>2
      <4>2. Unlink(i)[k] = b[k - (i - 1)]
        BY <1>2, <1>5, <4>1
      <4>3. i + (k - (i - 1)) = k + 1
        BY <1>1
      <4> QED BY <1>1, <1>3, <3>2, <4>1, <4>2, <4>3
    <3> QED BY <3>1, <3>2
  <2> QED BY <2>1, <2>2
<1>7. Elements(Unlink(i)) = Elements(active) \ {active[i]}
  <2>1. ASSUME NEW k \in 1 .. n - 1
        PROVE  Unlink(i)[k] \in Elements(active) \ {active[i]}
    BY <1>1, <1>6 DEF Elements, NoTwice
  <2>2. ASSUME NEW k \in 1 .. n, active[k] # active[i]
        PROVE  active[k] \in Elements(Unlink(i))
    <3>1. CASE k < i
      <4>1. k \in 1 .. n - 1 /\ from(k) = k
        BY <1>1, <3>1
      <4> QED BY <1>6, <4>1 DEF Elements
    <3>2. CASE k > i
      <4>1. k - 1 \in 1 .. n - 1 /\ from(k - 1) = k
        BY <1>1, <3>2
      <4> QED BY <1>6, <4>1 DEF Elements
    <3>3. k # i
      BY <2>2
    <3> QED BY <1>1, <3>1, <3>2, <3>3
  <2> QED BY <1>6, <2>1, <2>2 DEF Elements
<1>8. NoTwice(Unlink(i))
  <2> SUFFICES ASSUME NEW j \in 1 .. n - 1, NEW k \in 1 .. n - 1, Unlink(i)[j] = Unlink(i)[k]
               PROVE  j = k
    BY <1>6 DEF NoTwice
  <2>1. from(j) = from(k)
    BY <1>6 DEF NoTwice
  <2> QED BY <1>1, <2>1
<1> QED BY <1>7, <1>8

LEMMA ListInductive ==
  ASSUME IInv, ListIsExact, [Next]_vars
  PROVE  ListIsExact'
<1> USE DEF Phase
<1>0. ConnTypes /\ active \in Seq(Conns)
  BY DEF IInv, TypeOK, ListTypes
<1>a. /\ Elements(active) = {c \in Conns : phase[c] \in {"connecting", "open"}}
      /\ NoTwice(active)
  BY DEF ListIsExact, Elements, NoTwice
<1>b. ASSUME Elements(active') = {c \in Conns : phase'[c] \in {"connecting", "open"}},
             NoTwice(active')
      PROVE  ListIsExact'
  BY <1>b DEF ListIsExact, Elements, NoTwice
<1>1. CASE Idles
  BY <1>1, <1>a, <1>b DEF Idles, conn
<1>2. CASE Commands
  BY <1>2, <1>a, <1>b DEF Commands, SendMqttMsg, conn
<1>3. ASSUME NEW c \in Conns, Starts(c) PROVE ListIsExact'
  <2>1. phase[c] = "free" /\ c \notin Elements(active)
    BY <1>3, <1>a DEF Starts, MgConnect
  <2>2. CASE HostIsName
    BY <1>0, <1>3, <1>a, <1>b, <2>1, <2>2 DEF Starts, MgConnect, ConnTypes
  <2>3. CASE ~HostIsName
    <3>1. active' = <<c>> \o active /\ phase' = [phase EXCEPT ![c] = "connecting"]
      BY <1>3, <2>3 DEF Starts, MgConnect
    <3>2. Elements(active') = Elements(active) \cup {c} /\ NoTwice(active')
      BY <1>0, <1>a, <2>1, <3>1, AddedElements
    <3> QED BY <1>0, <1>a, <1>b, <3>1, <3>2 DEF ConnTypes
  <2> QED BY <2>2, <2>3
<1>4. ASSUME NEW c \in Conns, Handles(c) PROVE ListIsExact'
  <2>1. active' = active
    BY <1>4 DEF Handles
  <2>2. CASE Connected(c)
    BY <1>0, <1>a, <1>b, <2>1, <2>2 DEF Connected, ConnTypes
  <2>3. CASE ReadError(c) \/ ReadWrite(c)
    BY <1>a, <1>b, <2>1, <2>3 DEF ReadError, ReadWrite
  <2> QED BY <1>4, <2>2, <2>3 DEF Handles
<1>5. ASSUME NEW c \in Conns, Closes(c) PROVE ListIsExact'
  <2>1. phase' = [phase EXCEPT ![c] = "free"]
    BY <1>5 DEF Closes, Close
  <2>2. CASE phase[c] = "resolving" /\ UNCHANGED active
    BY <1>0, <1>a, <1>b, <2>1, <2>2 DEF ConnTypes
  <2>3. ASSUME NEW i \in 1 .. Len(active), active[i] = c, active' = Unlink(i)
        PROVE  ListIsExact'
    <3>1. Elements(active') = Elements(active) \ {c} /\ NoTwice(active')
      BY <1>0, <1>a, <2>3, UnlinkedElements
    <3> QED BY <1>0, <1>a, <1>b, <2>1, <3>1 DEF ConnTypes
  <2> QED BY <1>5, <2>2, <2>3 DEF Closes
<1>6. ASSUME NEW c \in Conns, Resolved(c) PROVE ListIsExact'
  <2>1. c \notin Elements(active)
    BY <1>6, <1>a DEF Resolved
  <2>2. active' = <<c>> \o active /\ phase' = [phase EXCEPT ![c] = "connecting"]
    BY <1>6 DEF Resolved
  <2>3. Elements(active') = Elements(active) \cup {c} /\ NoTwice(active')
    BY <1>0, <1>a, <2>1, <2>2, AddedElements
  <2> QED BY <1>0, <1>a, <1>b, <2>2, <2>3 DEF ConnTypes
<1>7. ASSUME NEW c \in Conns, OtherEnd(c) PROVE ListIsExact'
  BY <1>7, <1>a, <1>b
     DEF OtherEnd, Network, TcpUp, TcpError, BrokerAccepts, BrokerRefusesIt, BrokerReads,
         BrokerRestarts, Env, poll, conn
<1> QED BY StepKinds, <1>1, <1>2, <1>3, <1>4, <1>5, <1>6, <1>7

-----------------------------------------------------------------------------
(* One connection at a time *)

SingleInv ==
  ~BrokerRefuses =>
    /\ SingleConnection
    /\ mqtt_status = "stopped" => Live = {}
    /\ \A c \in Conns : inbox[c] \in Seq({"ACK", "FIN"})

LEMMA SingleInductive ==
  ASSUME IInv, ListIsExact, SingleInv, [Next]_vars
  PROVE  SingleInv'
<1> SUFFICES ASSUME ~BrokerRefuses PROVE SingleInv'
  BY DEF SingleInv
<1> USE DEF Live, Phase
<1>0. ConnTypes /\ PeerTypes
  BY DEF IInv, TypeOK
<1>1. CASE Idles
  BY <1>1 DEF Idles, link, conn, peer, SingleInv, SingleConnection
<1>2. CASE Commands
  BY <1>2 DEF Commands, SendMqttMsg, link, conn, peer, SingleInv, SingleConnection
<1>3. ASSUME NEW c \in Conns, Starts(c) PROVE SingleInv'
  <2>1. \A d \in Conns : phase[d] = "free"
    BY <1>3 DEF Starts, SingleInv
  <2>2. \A d \in Conns : phase'[d] # "free" => d = c
    BY <1>0, <1>3, <2>1 DEF Starts, MgConnect, ConnTypes
  <2>3. mqtt_status' # "stopped" /\ UNCHANGED inbox
    BY <1>3 DEF Starts, MgConnect
  <2> QED BY <2>2, <2>3 DEF SingleInv, SingleConnection
<1>4. ASSUME NEW c \in Conns, Handles(c) PROVE SingleInv'
  <2>1. CASE Connected(c)
    <3>1. Live' = Live
      BY <1>0, <2>1 DEF Connected, ConnTypes
    <3>2. mqtt_status' # "stopped" /\ UNCHANGED inbox
      BY <2>1 DEF Connected, EvConnect
    <3> QED BY <3>1, <3>2 DEF SingleInv, SingleConnection
  <2>2. CASE ReadError(c)
    BY <1>4, <2>2 DEF ReadError, peer, link, SingleInv, SingleConnection
  <2>3. CASE ReadWrite(c)
    <3>1. inbox[c] \in Seq({"ACK", "FIN"})
      BY DEF SingleInv
    <3>2. Received(c) # "NAK"
      BY <3>1, HeadTailProperties DEF Received
    <3>3. UNCHANGED <<link, phase>>
      BY <2>3, <3>2 DEF ReadWrite, EvConnack
    <3>4. inbox[c] # <<>> => Tail(inbox[c]) \in Seq({"ACK", "FIN"})
      BY <3>1, HeadTailProperties
    <3>5. \A d \in Conns : inbox'[d] \in Seq({"ACK", "FIN"})
      <4>1. inbox' = inbox \/ inbox' = [inbox EXCEPT ![c] = IF @ = <<>> THEN @ ELSE Tail(@)]
        BY <2>3 DEF ReadWrite
      <4> QED BY <1>0, <3>1, <3>4, <4>1 DEF PeerTypes, SingleInv
    <3> QED BY <3>3, <3>5 DEF link, SingleInv, SingleConnection
  <2> QED BY <1>4, <2>1, <2>2, <2>3 DEF Handles
<1>5. ASSUME NEW c \in Conns, Closes(c) PROVE SingleInv'
  <2>1. phase[c] # "free"
    BY <1>5 DEF Closes, ListIsExact
  <2>2. \A d \in Conns : phase'[d] = "free"
    BY <1>0, <1>5, <2>1 DEF Closes, Close, ConnTypes, SingleInv, SingleConnection
  <2>3. \A d \in Conns : inbox'[d] \in Seq({"ACK", "FIN"})
    BY <1>0, <1>5 DEF Closes, Close, PeerTypes, SingleInv
  <2> QED BY <2>2, <2>3 DEF SingleInv, SingleConnection
<1>6. ASSUME NEW c \in Conns, Resolved(c) PROVE SingleInv'
  <2>1. Live' = Live
    BY <1>0, <1>6 DEF Resolved, ConnTypes
  <2> QED BY <1>6, <2>1 DEF Resolved, link, SingleInv, SingleConnection
<1>7. ASSUME NEW c \in Conns, OtherEnd(c) PROVE SingleInv'
  <2>1. \A d \in Conns : inbox'[d] \in Seq({"ACK", "FIN"})
    <3>1. CASE TcpUp(c) \/ BrokerReads(c)
      BY <3>1 DEF TcpUp, BrokerReads, SingleInv
    <3>2. CASE TcpError(c)
      BY <1>0, <3>2 DEF TcpError, SingleInv, PeerTypes
    <3>3. CASE BrokerAccepts(c)
      BY <3>3, AppendProperties DEF BrokerAccepts, SingleInv
    <3>4. CASE BrokerRestarts
      BY <3>4, AppendProperties DEF BrokerRestarts, SingleInv
    <3> QED BY <1>7, <3>1, <3>2, <3>3, <3>4 DEF OtherEnd, Network, BrokerRefusesIt
  <2>2. Env
    BY <1>7 DEF OtherEnd, Network, TcpUp, TcpError, BrokerAccepts, BrokerRefusesIt,
                BrokerReads, BrokerRestarts
  <2> QED BY <2>1, <2>2 DEF Env, link, conn, SingleInv, SingleConnection
<1> QED BY StepKinds, <1>1, <1>2, <1>3, <1>4, <1>5, <1>6, <1>7

-----------------------------------------------------------------------------
(* The order of the packets *)

Increasing(q) == \A i, j \in 1 .. Len(q) : i < j => q[i] < q[j]
UpTo(q, n) == \A i \in 1 .. Len(q) : q[i] <= n
Before(p, q) == \A i \in 1 .. Len(p), j \in 1 .. Len(q) : p[i] < q[j]

\* What is queued is younger than what is written, and all of it is older than
\* the next command; there is a stream only on an open connection, and until the
\* broker has read from it, it begins with the handshake.
QueueOf(c) ==
  /\ Increasing(wire[c]) /\ Increasing(out[c]) /\ Before(wire[c], out[c])
  /\ UpTo(wire[c], sent) /\ UpTo(out[c], sent)
  /\ phase[c] # "open" => wire[c] = <<>> /\ out[c] = <<>>
  /\ phase[c] = "open" => net[c] \in {"up", "err"}
  /\ phase[c] = "open" /\ net[c] = "up" /\ broker[c] = "none"
       => wire[c] # <<>> /\ Head(wire[c]) = CONNECT

\* A connection that select() found ready is still there when its turn comes.
ReadyInv ==
  pc = "handle" =>
    \A c \in ready : phase[c] \in {"connecting", "open"} /\ net[c] \in {"up", "err"}

QueueInv == ReadyInv /\ \A c \in Conns : QueueOf(c)

\* Packets are numbers.
LEMMA QueueTypes ==
  ASSUME TypeOK, NEW c \in Conns
  PROVE  /\ wire[c] \in Seq(Nat) /\ out[c] \in Seq(Nat)
         /\ \A i \in 1 .. Len(wire[c]) : wire[c][i] \in Nat
         /\ \A i \in 1 .. Len(out[c]) : out[c][i] \in Nat
<1>1. Packets \subseteq Nat
  BY MqttLinkAssumption DEF Packets
<1>2. wire[c] \in Seq(Packets) /\ out[c] \in Seq(Packets)
  BY DEF TypeOK, ConnTypes, PeerTypes
<1>3. wire[c] \in Seq(Nat) /\ out[c] \in Seq(Nat)
  BY <1>1, <1>2, SeqMonotonic
<1> QED BY <1>3, ElementOfSeq

\* A connection that a step leaves alone, whose commands it does not renumber.
LEMMA QueueUnchanged ==
  ASSUME TypeOK, NEW c \in Conns, QueueOf(c), sent' \in Nat, sent' >= sent,
         wire'[c] = wire[c], out'[c] = out[c],
         phase'[c] = phase[c], net'[c] = net[c], broker[c] = "none" \/ broker'[c] # "none"
  PROVE  QueueOf(c)'
<1>1. /\ \A i \in 1 .. Len(wire[c]) : wire[c][i] \in Nat
      /\ \A i \in 1 .. Len(out[c]) : out[c][i] \in Nat
      /\ sent \in Nat
  BY QueueTypes, MqttLinkAssumption DEF TypeOK, ScalarTypes
<1>2. UpTo(wire[c], sent') /\ UpTo(out[c], sent')
  BY <1>1 DEF QueueOf, UpTo
<1>3. broker'[c] = "none" => broker[c] = "none"
  OBVIOUS
<1> QED BY <1>2, <1>3 DEF QueueOf, Increasing, Before, UpTo

\* A connection without a stream.
LEMMA QueueEmpty ==
  ASSUME NEW c \in Conns, wire'[c] = <<>>, out'[c] = <<>>, phase'[c] # "open"
  PROVE  QueueOf(c)'
BY DEF QueueOf, Increasing, Before, UpTo

LEMMA ReadyInductive ==
  ASSUME IInv, QueueInv, [Next]_vars
  PROVE  ReadyInv'
<1> SUFFICES ASSUME pc' = "handle", NEW c \in ready'
             PROVE  phase'[c] \in {"connecting", "open"} /\ net'[c] \in {"up", "err"}
  BY DEF ReadyInv
<1>0. ConnTypes /\ PeerTypes /\ ScalarTypes /\ ListTypes
  BY DEF IInv, TypeOK
<1>a. CASE pc = "handle" /\ c \in ready /\ phase'[c] = phase[c] /\ net'[c] = net[c]
  BY <1>a DEF QueueInv, ReadyInv
<1>1. CASE Select
  <2>1. c \in Conns /\ Ready(c)
    BY <1>1 DEF Select
  <2> QED BY <1>1, <2>1 DEF Select, conn, peer, Ready, QueueInv, QueueOf
<1>2. CASE HandleConn
  <2> DEFINE d == Head(todo)
  <2>0. d \in Conns
    BY <1>0, <1>2, HeadTailProperties DEF HandleConn, ListTypes
  <2>1. pc = "handle" /\ c \in ready /\ c \in Conns
    BY <1>0, <1>2 DEF HandleConn, ScalarTypes
  <2>2. phase[c] \in {"connecting", "open"} /\ net[c] \in {"up", "err"}
    BY <2>1 DEF QueueInv, ReadyInv
  <2>3. UNCHANGED net
    BY <1>2 DEF HandleConn, Connected, ReadError, ReadWrite, peer
  <2>4. phase' = phase \/ phase' = [phase EXCEPT ![d] = "open"]
    BY <1>2 DEF HandleConn, Connected, ReadError, ReadWrite, conn
  <2> QED BY <1>0, <2>0, <2>1, <2>2, <2>3, <2>4 DEF ConnTypes
<1>3. ASSUME NEW d \in Conns, Resolved(d) \/ ResolveFailed(d)
      PROVE  phase'[c] \in {"connecting", "open"} /\ net'[c] \in {"up", "err"}
  <2>1. pc = "handle" /\ c \in ready /\ phase[d] = "resolving" /\ c \in Conns
    BY <1>0, <1>3 DEF Resolved, ResolveFailed, Close, ScalarTypes
  <2>2. c # d
    BY <2>1 DEF QueueInv, ReadyInv
  <2> QED BY <1>0, <1>3, <1>a, <2>1, <2>2
        DEF Resolved, ResolveFailed, Close, ConnTypes, PeerTypes
<1>4. ASSUME NEW d \in Conns, Network(d)
      PROVE  phase'[c] \in {"connecting", "open"} /\ net'[c] \in {"up", "err"}
  <2>1. pc = "handle" /\ c \in ready /\ UNCHANGED phase /\ c \in Conns
    BY <1>0, <1>4 DEF Network, TcpUp, TcpError, BrokerAccepts, BrokerRefusesIt, BrokerReads,
                      Env, conn, poll, ScalarTypes
  <2>2. net' \in {net, [net EXCEPT ![d] = "up"], [net EXCEPT ![d] = "err"]}
    BY <1>4 DEF Network, TcpUp, TcpError, BrokerAccepts, BrokerRefusesIt, BrokerReads
  <2> QED BY <1>0, <2>1, <2>2 DEF QueueInv, ReadyInv, PeerTypes
<1>5. CASE BrokerRestarts \/ Signal \/ UNCHANGED vars
  BY <1>5, <1>a DEF BrokerRestarts, Signal, vars, Env, conn, poll, peer
<1>6. CASE \/ Setup \/ Reconnect \/ KeepGoing \/ ReadKnob \/ ReadButton \/ LeaveLoop
           \/ EndHandle \/ SweepConn \/ EndSweep \/ CloseAll \/ Exit
  BY <1>6 DEF Setup, StartMqttFails, Reconnect, KeepGoing, ReadKnob, ReadButton, Input, LeaveLoop,
              EndHandle, SweepConn, Close, EndSweep, CloseAll, Exit
<1> QED BY <1>1, <1>2, <1>3, <1>4, <1>5, <1>6 DEF Next, Main, Exited

\* Two sequences in order, the first before the second, are one in order.
LEMMA StreamIncreases ==
  ASSUME NEW p \in Seq(Nat), NEW q \in Seq(Nat), Increasing(p), Increasing(q), Before(p, q)
  PROVE  Increasing(p \o q)
<1>1. /\ p \o q \in Seq(Nat) /\ Len(p \o q) = Len(p) + Len(q)
      /\ \A i \in 1 .. Len(p) + Len(q) : (p \o q)[i] = IF i <= Len(p) THEN p[i] ELSE q[i - Len(p)]
  BY ConcatProperties
<1>2. Len(p) \in Nat /\ Len(q) \in Nat
  BY LenProperties
<1>3. \A i \in 1 .. Len(p) + Len(q) :
        \/ i \in 1 .. Len(p) /\ (p \o q)[i] = p[i]
        \/ i - Len(p) \in 1 .. Len(q) /\ (p \o q)[i] = q[i - Len(p)]
  BY <1>1, <1>2
<1> SUFFICES ASSUME NEW i \in 1 .. Len(p) + Len(q), NEW j \in 1 .. Len(p) + Len(q), i < j
             PROVE  (p \o q)[i] < (p \o q)[j]
  BY <1>1 DEF Increasing
<1>4. CASE i \in 1 .. Len(p) /\ (p \o q)[i] = p[i] /\ j \in 1 .. Len(p) /\ (p \o q)[j] = p[j]
  BY <1>4 DEF Increasing
<1>5. CASE i \in 1 .. Len(p) /\ (p \o q)[i] = p[i]
           /\ j - Len(p) \in 1 .. Len(q) /\ (p \o q)[j] = q[j - Len(p)]
  BY <1>5 DEF Before
<1>6. CASE i - Len(p) \in 1 .. Len(q) /\ (p \o q)[i] = q[i - Len(p)]
           /\ j - Len(p) \in 1 .. Len(q) /\ (p \o q)[j] = q[j - Len(p)]
  <2>1. i - Len(p) < j - Len(p)
    BY <1>2
  <2>2. q[i - Len(p)] < q[j - Len(p)]
    BY <1>6, <2>1 DEF Increasing
  <2> QED BY <1>6, <2>2
<1>7. i \in 1 .. Len(p) \/ ~(j \in 1 .. Len(p))
  BY <1>2
<1> QED BY <1>3, <1>4, <1>5, <1>6, <1>7

\* Packets moved from the front of one ordered queue to the end of the one before it.
LEMMA WriteKeepsOrder ==
  ASSUME NEW p \in Seq(Nat), NEW old \in Seq(Nat), NEW q \in Seq(Nat), NEW rest \in Seq(Nat),
         NEW n \in 1 .. Len(old), NEW top,
         Increasing(p), Increasing(old), Before(p, old), UpTo(p, top), UpTo(old, top),
         Splits(old, n, q, rest)
  PROVE  /\ Increasing(p \o q) /\ Increasing(rest) /\ Before(p \o q, rest)
         /\ UpTo(p \o q, top) /\ UpTo(rest, top)
         /\ p # <<>> => p \o q # <<>> /\ Head(p \o q) = Head(p)
<1>1. /\ p \o q \in Seq(Nat) /\ Len(p \o q) = Len(p) + Len(q)
      /\ \A i \in 1 .. Len(p) + Len(q) : (p \o q)[i] = IF i <= Len(p) THEN p[i] ELSE q[i - Len(p)]
  BY ConcatProperties
<1>2. Len(p) \in Nat /\ Len(q) \in Nat /\ Len(rest) \in Nat /\ Len(old) \in Nat /\ n \in Nat
  BY LenProperties
<1>3. \A i \in 1 .. Len(p) + Len(q) :
        \/ i \in 1 .. Len(p) /\ (p \o q)[i] = p[i]
        \/ /\ i - Len(p) \in 1 .. Len(q) /\ i - Len(p) \in 1 .. Len(old)
           /\ (p \o q)[i] = old[i - Len(p)]
  BY <1>1, <1>2 DEF Splits
<1>4. \A i \in 1 .. Len(rest) : n + i \in 1 .. Len(old) /\ rest[i] = old[n + i]
  BY <1>2 DEF Splits
<1>5. Increasing(p \o q)
  <2> SUFFICES ASSUME NEW i \in 1 .. Len(p) + Len(q), NEW j \in 1 .. Len(p) + Len(q), i < j
               PROVE  (p \o q)[i] < (p \o q)[j]
    BY <1>1 DEF Increasing
  <2>1. CASE i \in 1 .. Len(p) /\ (p \o q)[i] = p[i] /\ j \in 1 .. Len(p) /\ (p \o q)[j] = p[j]
    BY <2>1 DEF Increasing
  <2>2. CASE i \in 1 .. Len(p) /\ (p \o q)[i] = p[i]
             /\ j - Len(p) \in 1 .. Len(old) /\ (p \o q)[j] = old[j - Len(p)]
    BY <2>2 DEF Before
  <2>3. CASE i - Len(p) \in 1 .. Len(old) /\ (p \o q)[i] = old[i - Len(p)]
             /\ j - Len(p) \in 1 .. Len(old) /\ (p \o q)[j] = old[j - Len(p)]
    <3>1. i - Len(p) < j - Len(p)
      BY <1>2
    <3> QED BY <2>3, <3>1 DEF Increasing
  <2>4. ~(i - Len(p) \in 1 .. Len(q) /\ j \in 1 .. Len(p))
    BY <1>2
  <2> QED BY <1>3, <2>1, <2>2, <2>3, <2>4
<1>6. Increasing(rest)
  <2> SUFFICES ASSUME NEW i \in 1 .. Len(rest), NEW j \in 1 .. Len(rest), i < j
               PROVE  rest[i] < rest[j]
    BY DEF Increasing
  <2>1. n + i < n + j
    BY <1>2
  <2> QED BY <1>4, <2>1 DEF Increasing
<1>7. Before(p \o q, rest)
  <2> SUFFICES ASSUME NEW i \in 1 .. Len(p) + Len(q), NEW j \in 1 .. Len(rest)
               PROVE  (p \o q)[i] < rest[j]
    BY <1>1 DEF Before
  <2>1. CASE i \in 1 .. Len(p) /\ (p \o q)[i] = p[i]
    BY <1>4, <2>1 DEF Before
  <2>2. CASE /\ i - Len(p) \in 1 .. Len(q) /\ i - Len(p) \in 1 .. Len(old)
             /\ (p \o q)[i] = old[i - Len(p)]
    <3>1. i - Len(p) < n + j
      BY <1>2, <2>2 DEF Splits
    <3> QED BY <1>4, <2>2, <3>1 DEF Increasing
  <2> QED BY <1>3, <2>1, <2>2
<1>8. UpTo(p \o q, top) /\ UpTo(rest, top)
  BY <1>1, <1>3, <1>4 DEF UpTo
<1>9. p # <<>> => p \o q # <<>> /\ Head(p \o q) = Head(p)
  <2> SUFFICES ASSUME p # <<>> PROVE p \o q # <<>> /\ Head(p \o q) = Head(p)
    OBVIOUS
  <2>1. Len(p) >= 1 /\ Head(p) = p[1]
    BY <1>2, EmptySeq, LenProperties
  <2>2. Len(p \o q) >= 1 /\ (p \o q)[1] = p[1]
    BY <1>1, <1>2, <2>1
  <2>3. p \o q # <<>> /\ Head(p \o q) = (p \o q)[1]
    BY <1>1, <2>2
  <2> QED BY <2>1, <2>2, <2>3
<1> QED BY <1>5, <1>6, <1>7, <1>8, <1>9

LEMMA QueueInductive ==
  ASSUME IInv, QueueInv, [Next]_vars, NEW c \in Conns
  PROVE  QueueOf(c)'
<1>0. TypeOK /\ ConnTypes /\ PeerTypes /\ ScalarTypes /\ QueueOf(c)
  BY DEF IInv, TypeOK, QueueInv
<1>s. sent \in Nat /\ sent >= sent
  BY <1>0, MqttLinkAssumption DEF ScalarTypes
<1>t. /\ wire[c] \in Seq(Nat) /\ out[c] \in Seq(Nat)
      /\ \A i \in 1 .. Len(wire[c]) : wire[c][i] \in Nat
      /\ \A i \in 1 .. Len(out[c]) : out[c][i] \in Nat
  BY <1>0, QueueTypes
<1>1. CASE Idles
  BY <1>0, <1>1, <1>s, QueueUnchanged DEF Idles, conn, peer
<1>2. CASE Commands
  <2>1. CASE UNCHANGED out
    <3>1. sent' = sent + 1 /\ UNCHANGED <<peer, phase>>
      BY <1>2, <2>1 DEF Commands, SendMqttMsg, conn
    <3> QED BY <1>0, <1>s, <2>1, <3>1, QueueUnchanged DEF peer
  <2>2. CASE ~UNCHANGED out
    <3>1. /\ mqtt_connection \in Conns /\ sent' = sent + 1 /\ UNCHANGED <<peer, phase>>
          /\ out' = [out EXCEPT ![mqtt_connection] = Append(@, sent + 1)]
      BY <1>0, <1>2, <2>2 DEF Commands, SendMqttMsg, Enqueue, conn, ScalarTypes
    <3>2. CASE c # mqtt_connection
      <4>1. out'[c] = out[c] /\ phase'[c] = phase[c]
        BY <1>0, <3>1, <3>2 DEF ConnTypes
      <4>2. wire'[c] = wire[c] /\ net'[c] = net[c] /\ broker'[c] = broker[c]
        BY <3>1 DEF peer
      <4>3. sent' \in Nat /\ sent' >= sent
        BY <1>s, <3>1
      <4> QED BY <1>0, <4>1, <4>2, <4>3, QueueUnchanged
    <3>3. CASE c = mqtt_connection
      <4>1. phase[c] = "open"
        <5>1. mqtt_connection # NULL
          BY <3>1, MqttLinkAssumption
        <5> QED BY <3>3, <5>1 DEF IInv, LinkInv, ConnectionNeverDangles
      <4> DEFINE q == out[c]
                 n == sent + 1
      <4>2. out'[c] = Append(q, n)
        BY <1>0, <3>1, <3>3 DEF ConnTypes
      <4>3. q \in Seq(Nat) /\ n \in Nat
        BY <1>s, <1>t
      <4> HIDE DEF q, n
      <4>4. /\ Len(Append(q, n)) = Len(q) + 1 /\ Append(q, n)[Len(q) + 1] = n
            /\ \A i \in 1 .. Len(q) : Append(q, n)[i] = q[i]
        BY <4>3, AppendProperties
      <4>5. Len(q) \in Nat
        BY <4>3, LenProperties
      <4>6. /\ Increasing(q) /\ UpTo(q, sent) /\ UpTo(wire[c], sent) /\ Before(wire[c], q)
        BY <1>0 DEF QueueOf, q
      <4>7. \A i \in 1 .. Len(q) + 1 : i \in 1 .. Len(q) \/ i = Len(q) + 1
        BY <4>5
      <4>n. n = sent + 1 /\ \A i \in 1 .. Len(q) : q[i] \in Nat
        BY <1>t DEF n, q
      <4>8. Increasing(Append(q, n))
        <5> SUFFICES ASSUME NEW i \in 1 .. Len(q) + 1, NEW j \in 1 .. Len(q) + 1, i < j
                     PROVE  Append(q, n)[i] < Append(q, n)[j]
          BY <4>4 DEF Increasing
        <5>1. i \in 1 .. Len(q)
          BY <4>5
        <5>2. CASE j \in 1 .. Len(q)
          BY <4>4, <4>6, <5>1, <5>2 DEF Increasing
        <5>3. CASE j = Len(q) + 1
          <6>1. q[i] <= sent /\ q[i] \in Nat
            BY <4>6, <4>n, <5>1 DEF UpTo
          <6> QED BY <1>s, <4>4, <4>n, <5>1, <5>3, <6>1
        <5> QED BY <4>7, <5>2, <5>3
      <4>9. UpTo(Append(q, n), n)
        <5> SUFFICES ASSUME NEW i \in 1 .. Len(q) + 1 PROVE Append(q, n)[i] <= n
          BY <4>4 DEF UpTo
        <5>1. CASE i \in 1 .. Len(q)
          BY <1>s, <4>4, <4>6, <4>n, <5>1 DEF UpTo
        <5>2. CASE i = Len(q) + 1
          BY <4>3, <4>4, <5>2
        <5> QED BY <4>7, <5>1, <5>2
      <4>10. UpTo(wire[c], n)
        BY <1>s, <1>t, <4>6, <4>n DEF UpTo
      <4>11. Before(wire[c], Append(q, n))
        <5> SUFFICES ASSUME NEW i \in 1 .. Len(wire[c]), NEW j \in 1 .. Len(q) + 1
                     PROVE  wire[c][i] < Append(q, n)[j]
          BY <4>4 DEF Before
        <5>1. CASE j \in 1 .. Len(q)
          BY <4>4, <4>6, <5>1 DEF Before
        <5>2. CASE j = Len(q) + 1
          BY <1>s, <1>t, <4>4, <4>6, <4>n, <5>2 DEF UpTo
        <5> QED BY <4>7, <5>1, <5>2
      <4>12. sent' = n /\ wire'[c] = wire[c] /\ phase'[c] = "open"
             /\ net'[c] = net[c] /\ broker'[c] = broker[c]
        BY <3>1, <4>1, <4>n DEF peer
      <4> QED BY <1>0, <4>1, <4>2, <4>6, <4>8, <4>9, <4>10, <4>11, <4>12 DEF QueueOf
    <3> QED BY <3>2, <3>3
  <2> QED BY <2>1, <2>2
<1>3. ASSUME NEW d \in Conns, Starts(d) PROVE QueueOf(c)'
  <2>1. UNCHANGED <<sent, wire, out, broker>>
    BY <1>3 DEF Starts, MgConnect
  <2>2. CASE c = d
    <3>1. phase[c] # "open" /\ phase'[c] # "open"
      BY <1>0, <1>3, <2>2 DEF Starts, MgConnect, ConnTypes, Phase
    <3> QED BY <1>0, <2>1, <3>1, QueueEmpty DEF QueueOf
  <2>3. CASE c # d
    <3>1. phase'[c] = phase[c] /\ net'[c] = net[c]
      BY <1>0, <1>3, <2>3 DEF Starts, MgConnect, ConnTypes, PeerTypes
    <3> QED BY <1>0, <1>s, <2>1, <3>1, QueueUnchanged
  <2> QED BY <2>2, <2>3
<1>4. ASSUME NEW d \in Conns, Handles(d) PROVE QueueOf(c)'
  <2>0. sent' = sent
    BY <1>4 DEF Handles
  <2>1. CASE c # d
    <3>1. /\ wire'[c] = wire[c] /\ out'[c] = out[c] /\ phase'[c] = phase[c]
          /\ net'[c] = net[c] /\ broker'[c] = broker[c]
      <4>1. CASE Connected(d)
        BY <1>0, <2>1, <4>1 DEF Connected, ConnTypes, PeerTypes
      <4>2. CASE ReadError(d)
        BY <1>0, <2>1, <4>2 DEF ReadError, peer
      <4>3. CASE ReadWrite(d)
        BY <1>0, <2>1, <4>3, WriteElsewhere DEF ReadWrite, ConnTypes, PeerTypes
      <4> QED BY <1>4, <4>1, <4>2, <4>3 DEF Handles
    <3> QED BY <1>0, <1>s, <2>0, <3>1, QueueUnchanged
  <2>2. CASE c = d /\ Connected(d)
    <3>1. wire[c] = <<>> /\ out[c] = <<>> /\ net[c] \in {"up", "err"}
      BY <1>0, <1>4, <2>2 DEF Connected, QueueOf, Handles, QueueInv, ReadyInv
    <3>2. phase'[c] = "open" /\ net'[c] = net[c] /\ broker'[c] = broker[c]
      BY <1>0, <2>2 DEF Connected, ConnTypes
    <3>3. CASE net[c] = "up"
      <4>1. wire'[c] = <<CONNECT>> /\ out'[c] = <<>>
        <5>1. wire'[c] = Append(wire[c], CONNECT) /\ out' = out
          BY <1>0, <2>2, <3>3 DEF Connected, PeerTypes
        <5> QED BY <3>1, <5>1
      <4>2. /\ Len(wire'[c]) = 1 /\ wire'[c][1] = 0 /\ Len(out'[c]) = 0
            /\ wire'[c] # <<>> /\ Head(wire'[c]) = CONNECT
        BY <4>1 DEF CONNECT
      <4>3. Increasing(wire'[c]) /\ Increasing(out'[c]) /\ Before(wire'[c], out'[c])
        BY <4>2 DEF Increasing, Before
      <4>4. UpTo(wire'[c], sent') /\ UpTo(out'[c], sent')
        BY <1>s, <2>0, <4>2 DEF UpTo
      <4> QED BY <3>1, <3>2, <4>2, <4>3, <4>4 DEF QueueOf
    <3>4. CASE net[c] # "up"
      <4>1. out'[c] = <<CONNECT>> /\ wire'[c] = <<>>
        BY <1>0, <2>2, <3>1, <3>4 DEF Connected, ConnTypes
      <4>2. Len(out'[c]) = 1 /\ out'[c][1] = 0 /\ Len(wire'[c]) = 0
        BY <4>1 DEF CONNECT
      <4>3. Increasing(wire'[c]) /\ Increasing(out'[c]) /\ Before(wire'[c], out'[c])
        BY <4>2 DEF Increasing, Before
      <4>4. UpTo(wire'[c], sent') /\ UpTo(out'[c], sent')
        BY <1>s, <2>0, <4>2 DEF UpTo
      <4> QED BY <3>1, <3>2, <3>4, <4>3, <4>4 DEF QueueOf
    <3> QED BY <3>3, <3>4
  <2>3. CASE c = d /\ ReadError(d)
    BY <1>0, <1>s, <2>0, <2>3, QueueUnchanged DEF ReadError, peer
  <2>4. CASE c = d /\ ReadWrite(d)
    <3>u. CASE out[c] = <<>> \/ c \in stalled
      BY <1>0, <1>s, <2>0, <2>4, <3>u, QueueUnchanged DEF ReadWrite, Write
    <3>w. CASE ~(out[c] = <<>> \/ c \in stalled)
      <4>0. Write(c) /\ out[c] # <<>> /\ c \notin stalled
        BY <2>4, <3>w DEF ReadWrite
      <4>1. PICK n \in 1 .. Len(out[c]), taken \in Seq(Packets), rest \in Seq(Packets) :
              /\ Splits(out[c], n, taken, rest)
              /\ wire' = [wire EXCEPT ![c] = @ \o taken]
              /\ out' = [out EXCEPT ![c] = rest]
              /\ stalled' = IF n < Len(out[c]) THEN stalled \cup {c} ELSE stalled
        BY <1>0, <4>0, WriteTakes
      <4>2. taken \in Seq(Nat) /\ rest \in Seq(Nat)
        <5>1. Packets \subseteq Nat
          BY MqttLinkAssumption DEF Packets
        <5> QED BY <4>1, <5>1, SeqMonotonic
      <4>3. /\ wire'[c] = wire[c] \o taken /\ out'[c] = rest /\ phase'[c] = "open"
            /\ phase[c] = "open" /\ net'[c] = net[c] /\ net[c] = "up" /\ broker'[c] = broker[c]
        BY <1>0, <2>4, <4>1 DEF ReadWrite, ConnTypes, PeerTypes
      <4>4. broker[c] = "none" => wire[c] # <<>> /\ Head(wire[c]) = CONNECT
        BY <1>0, <4>3 DEF QueueOf
      <4>5. /\ Increasing(wire[c]) /\ Increasing(out[c]) /\ Before(wire[c], out[c])
            /\ UpTo(wire[c], sent) /\ UpTo(out[c], sent)
        BY <1>0 DEF QueueOf
      <4>6. /\ Increasing(wire[c] \o taken) /\ Increasing(rest) /\ Before(wire[c] \o taken, rest)
            /\ UpTo(wire[c] \o taken, sent) /\ UpTo(rest, sent)
            /\ wire[c] # <<>> => wire[c] \o taken # <<>> /\ Head(wire[c] \o taken) = Head(wire[c])
        BY <1>t, <4>1, <4>2, <4>5, WriteKeepsOrder
      <4> QED BY <2>0, <4>3, <4>4, <4>6 DEF QueueOf
    <3> QED BY <3>u, <3>w
  <2> QED BY <1>4, <2>1, <2>2, <2>3, <2>4 DEF Handles
<1>5. ASSUME NEW d \in Conns, Closes(d) PROVE QueueOf(c)'
  <2>1. CASE c = d
    BY <1>0, <1>5, <2>1, QueueEmpty DEF Closes, Close, ConnTypes, PeerTypes
  <2>2. CASE c # d
    BY <1>0, <1>5, <1>s, <2>2, QueueUnchanged DEF Closes, Close, ConnTypes, PeerTypes, msgs
  <2> QED BY <2>1, <2>2
<1>6. ASSUME NEW d \in Conns, Resolved(d) PROVE QueueOf(c)'
  <2>0. UNCHANGED <<sent, wire, out, broker>>
    BY <1>6 DEF Resolved, msgs
  <2>1. CASE c = d
    <3>1. phase[c] # "open" /\ phase'[c] # "open"
      BY <1>0, <1>6, <2>1 DEF Resolved, ConnTypes
    <3> QED BY <1>0, <2>0, <3>1, QueueEmpty DEF QueueOf
  <2>2. CASE c # d
    BY <1>0, <1>6, <1>s, <2>0, <2>2, QueueUnchanged DEF Resolved, ConnTypes, PeerTypes
  <2> QED BY <2>1, <2>2
<1>7. ASSUME NEW d \in Conns, OtherEnd(d) PROVE QueueOf(c)'
  <2>0. UNCHANGED <<sent, out, phase>>
    BY <1>7 DEF OtherEnd, Network, TcpUp, TcpError, BrokerAccepts, BrokerRefusesIt, BrokerReads,
                BrokerRestarts, Env, msgs, conn
  <2>t. ASSUME wire'[c] = Tail(wire[c]), wire[c] # <<>>, net'[c] = net[c], phase[c] = "open",
               broker'[c] # "none"
        PROVE  QueueOf(c)'
    <3> DEFINE p == wire[c]
    <3>1. p \in Seq(Nat) /\ p # <<>> /\ wire'[c] = Tail(p)
      BY <1>t, <2>t
    <3>2. Increasing(p) /\ Before(p, out[c]) /\ UpTo(p, sent) /\ Increasing(out[c])
          /\ UpTo(out[c], sent) /\ net[c] \in {"up", "err"}
      BY <1>0, <2>t DEF QueueOf
    <3> HIDE DEF p
    <3>3. Len(p) \in Nat /\ Len(Tail(p)) = Len(p) - 1
          /\ \A i \in 1 .. Len(p) - 1 : Tail(p)[i] = p[i + 1] /\ i + 1 \in 1 .. Len(p)
      BY <3>1, LenProperties, HeadTailProperties
    <3>4. Increasing(Tail(p))
      <4> SUFFICES ASSUME NEW i \in 1 .. Len(p) - 1, NEW j \in 1 .. Len(p) - 1, i < j
                   PROVE  Tail(p)[i] < Tail(p)[j]
        BY <3>3 DEF Increasing
      <4>1. i + 1 < j + 1
        BY <3>3
      <4> QED BY <3>2, <3>3, <4>1 DEF Increasing
    <3>5. Before(Tail(p), out[c]) /\ UpTo(Tail(p), sent)
      BY <3>2, <3>3 DEF Before, UpTo
    <3> QED BY <2>0, <2>t, <3>1, <3>2, <3>4, <3>5 DEF QueueOf
  <2>e. ASSUME wire'[c] = <<>>, phase[c] = "open" => net'[c] = "err"
        PROVE  QueueOf(c)'
    <3>1. Increasing(<<>>) /\ UpTo(<<>>, sent) /\ Before(<<>>, out[c])
      BY DEF Increasing, UpTo, Before
    <3> QED BY <1>0, <2>0, <2>e, <3>1 DEF QueueOf
  <2>o. ASSUME wire[c] # <<>> PROVE phase[c] = "open"
    BY <1>0, <2>o DEF QueueOf
  <2>1. CASE TcpUp(d)
    <3>1. CASE c = d
      <4>1. phase[c] # "open" /\ wire[c] = <<>> /\ UNCHANGED wire
        BY <1>0, <2>1, <3>1 DEF TcpUp, QueueOf
      <4> QED BY <2>e, <4>1
    <3>2. CASE c # d
      BY <1>0, <1>s, <2>0, <2>1, <3>2, QueueUnchanged DEF TcpUp, PeerTypes
    <3> QED BY <3>1, <3>2
  <2>2. CASE TcpError(d)
    <3>1. CASE c = d
      BY <1>0, <2>2, <2>e, <3>1 DEF TcpError, PeerTypes
    <3>2. CASE c # d
      BY <1>0, <1>s, <2>0, <2>2, <3>2, QueueUnchanged DEF TcpError, PeerTypes
    <3> QED BY <3>1, <3>2
  <2>3. CASE BrokerAccepts(d)
    <3>1. CASE c = d
      BY <1>0, <2>3, <2>o, <2>t, <3>1 DEF BrokerAccepts, Hears, PeerTypes
    <3>2. CASE c # d
      <4>1. wire'[c] = wire[c] /\ net'[c] = net[c] /\ (broker[c] = "none" \/ broker'[c] # "none")
        BY <1>0, <2>3, <3>2 DEF BrokerAccepts, PeerTypes
      <4> QED BY <1>0, <1>s, <2>0, <4>1, QueueUnchanged
    <3> QED BY <3>1, <3>2
  <2>4. CASE BrokerRefusesIt(d)
    <3>1. CASE c = d
      BY <1>0, <2>4, <2>o, <2>t, <3>1 DEF BrokerRefusesIt, Hears, PeerTypes
    <3>2. CASE c # d
      BY <1>0, <1>s, <2>0, <2>4, <3>2, QueueUnchanged DEF BrokerRefusesIt, PeerTypes
    <3> QED BY <3>1, <3>2
  <2>5. CASE BrokerReads(d)
    <3>1. CASE c = d
      <4>1. PICK m \in 1 .. MaxMsgs : Hears(d, m)
        BY <2>5 DEF BrokerReads
      <4>2. phase[c] = "open" /\ wire[c] # <<>> /\ Head(wire[c]) = m /\ net[c] = "up"
        BY <2>o, <3>1, <4>1 DEF Hears
      <4>3. broker[c] # "none"
        <5>1. m # CONNECT
          BY <4>1 DEF CONNECT
        <5> QED BY <1>0, <4>2, <5>1 DEF QueueOf
      <4> QED BY <1>0, <2>5, <2>t, <3>1, <4>2, <4>3 DEF BrokerReads, PeerTypes
    <3>2. CASE c # d
      BY <1>0, <1>s, <2>0, <2>5, <3>2, QueueUnchanged DEF BrokerReads, PeerTypes
    <3> QED BY <3>1, <3>2
  <2>6. CASE BrokerRestarts
    <3>1. wire'[c] = wire[c] /\ net'[c] = net[c] /\ (broker[c] = "none" \/ broker'[c] # "none")
      BY <1>0, <2>6 DEF BrokerRestarts, PeerTypes
    <3> QED BY <1>0, <1>s, <2>0, <3>1, QueueUnchanged
  <2> QED BY <1>7, <2>1, <2>2, <2>3, <2>4, <2>5, <2>6 DEF OtherEnd, Network
<1> QED BY StepKinds, <1>1, <1>2, <1>3, <1>4, <1>5, <1>6, <1>7

-----------------------------------------------------------------------------
(* What the last poll leaves *)

Failed(c) == flag[c] = "immediately" \/ net[c] = "err"
Left(c) == Failed(c) \/ c \in stalled
ToCome(c) == c \in ready /\ \E i \in 1 .. Len(todo) : todo[i] = c

\* In the poll of mg_mgr_free, after which no command comes, every connection that
\* still has packets queued has its turn to come, has failed, or is one whose socket
\* had no room.
DrainInv ==
  /\ final => pc \in {"select", "handle", "sweep", "closeall", "exited"}
  /\ pc = "closeall" => final
  /\ final /\ pc = "handle" => \A c \in Conns : out[c] # <<>> => Left(c) \/ ToCome(c)
  /\ final /\ pc \in {"sweep", "closeall"} => \A c \in Conns : out[c] # <<>> => Left(c)

LEMMA DrainUnchanged ==
  ASSUME DrainInv, UNCHANGED <<pc, final, ready, todo, stalled>>,
         \A c \in Conns : out'[c] = <<>> \/ (out'[c] = out[c] /\ (Failed(c) => Failed(c)'))
  PROVE  DrainInv'
BY DEF DrainInv, ToCome, Left

LEMMA CloseDrains ==
  ASSUME TypeOK, DrainInv, NEW d \in Conns, Close(d), UNCHANGED final
  PROVE  DrainInv'
<1>1. ConnTypes /\ PeerTypes
  BY DEF TypeOK
<1>2. \A c \in Conns : out'[c] = <<>> \/ (out'[c] = out[c] /\ (Failed(c) => Failed(c)'))
  BY <1>1 DEF Close, ConnTypes, PeerTypes, Failed
<1> QED BY <1>2, DrainUnchanged DEF Close

LEMMA DrainInductive ==
  ASSUME IInv, ListIsExact, QueueInv, DrainInv, [Next]_vars
  PROVE  DrainInv'
<1>0. TypeOK /\ ConnTypes /\ PeerTypes /\ ScalarTypes /\ ListTypes /\ FlagTypes
  BY DEF IInv, TypeOK
<1>q. \A c \in Conns : phase[c] # "open" => out[c] = <<>>
  BY DEF QueueInv, QueueOf
<1>1. CASE Select
  <2>1. ASSUME NEW c \in Conns, out[c] # <<>> PROVE Left(c)' \/ ToCome(c)'
    <3>1. phase[c] = "open" /\ net[c] \in {"up", "err"}
      BY <2>1 DEF QueueInv, QueueOf
    <3>2. c \in ready' \/ c \in stalled'
      BY <1>1, <2>1, <3>1 DEF Select, Ready
    <3>3. \E i \in 1 .. Len(active) : active[i] = c
      BY <3>1 DEF ListIsExact, Phase
    <3> QED BY <1>1, <3>2, <3>3 DEF Select, ToCome, Left
  <2> QED BY <1>1, <2>1 DEF Select, DrainInv, prog, conn
<1>2. CASE HandleConn
  <2>0. todo \in Seq(Conns) /\ todo # <<>> /\ Head(todo) \in Conns
    BY <1>0, <1>2, HeadTailProperties DEF HandleConn, ListTypes
  <2>d. PICK d \in Conns : d = Head(todo)
    BY <2>0
  <2>1. \A c \in Conns : ToCome(c) /\ c # d => ToCome(c)'
    <3> SUFFICES ASSUME NEW c \in Conns, ToCome(c), c # d PROVE ToCome(c)'
      OBVIOUS
    <3>1. PICK i \in 1 .. Len(todo) : todo[i] = c
      BY DEF ToCome
    <3>2. Len(todo) \in Nat /\ todo[1] = d
      BY <2>0, <2>d, LenProperties
    <3>3. i # 1
      BY <3>1, <3>2
    <3>4. i - 1 \in 1 .. Len(Tail(todo)) /\ Tail(todo)[i - 1] = c
      <4>1. /\ Len(Tail(todo)) = Len(todo) - 1
            /\ \A j \in 1 .. Len(Tail(todo)) : Tail(todo)[j] = todo[j + 1]
        BY <2>0, HeadTailProperties
      <4>2. i - 1 \in 1 .. Len(todo) - 1 /\ (i - 1) + 1 = i
        BY <3>1, <3>2, <3>3
      <4> QED BY <3>1, <4>1, <4>2
    <3> QED BY <1>2, <3>4 DEF HandleConn, ToCome
  <2>2. \A c \in Conns : c # d => out'[c] = out[c] /\ (Failed(c) => Failed(c)')
    <3>1. CASE Connected(d)
      BY <1>0, <3>1 DEF Connected, ConnTypes, Failed
    <3>2. CASE ReadError(d)
      BY <1>0, <3>2 DEF ReadError, peer, ConnTypes, Failed
    <3>3. CASE ReadWrite(d)
      BY <1>0, <3>3, WriteElsewhere DEF ReadWrite, ConnTypes, Failed
    <3>4. CASE UNCHANGED <<link, conn, peer, stalled>>
      BY <3>4 DEF conn, peer, Failed
    <3> QED BY <1>2, <2>d, <3>1, <3>2, <3>3, <3>4 DEF HandleConn
  <2>s. stalled \subseteq stalled'
    <3>1. ASSUME ReadWrite(d) PROVE stalled \subseteq stalled'
      BY <3>1 DEF ReadWrite, Write
    <3> QED BY <1>2, <2>d, <3>1 DEF HandleConn, Connected, ReadError
  <2>3. out'[d] = <<>> \/ Left(d)' \/ (d \notin ready /\ UNCHANGED <<out, flag, net>>)
    <3>1. CASE d \notin ready
      BY <1>2, <2>d, <3>1 DEF HandleConn, conn, peer
    <3>2. CASE d \in ready /\ Connected(d)
      <4>1. out[d] = <<>>
        BY <1>q, <2>0, <3>2 DEF Connected
      <4>2. CASE net[d] = "up"
        BY <3>2, <4>1, <4>2 DEF Connected
      <4>3. CASE net[d] # "up"
        BY <1>0, <3>2, <4>3 DEF Connected, ConnTypes, Failed, Left
      <4> QED BY <4>2, <4>3
    <3>3. CASE ReadError(d)
      BY <1>0, <2>0, <3>3 DEF ReadError, ConnTypes, Failed, Left
    <3>4. CASE ReadWrite(d)
      <4>1. CASE out[d] = <<>> \/ d \in stalled
        BY <3>4, <4>1 DEF ReadWrite, Write, Left
      <4>2. CASE ~(out[d] = <<>> \/ d \in stalled)
        <5>1. PICK n \in 1 .. Len(out[d]), taken \in Seq(Packets), rest \in Seq(Packets) :
                /\ Splits(out[d], n, taken, rest) /\ out' = [out EXCEPT ![d] = rest]
                /\ stalled' = IF n < Len(out[d]) THEN stalled \cup {d} ELSE stalled
          BY <1>0, <3>4, <4>2, WriteTakes DEF ReadWrite
        <5>2. CASE n < Len(out[d])
          BY <5>1, <5>2 DEF Left
        <5>3. CASE n = Len(out[d])
          <6>1. Len(rest) = 0
            BY <1>0, <5>1, <5>3, LenProperties DEF ConnTypes, Splits
          <6>2. rest = <<>>
            BY <6>1, EmptySeq
          <6> QED BY <1>0, <5>1, <6>2 DEF ConnTypes
        <5>4. Len(out[d]) \in Nat
          BY <1>0, LenProperties DEF ConnTypes
        <5> QED BY <5>2, <5>3, <5>4
      <4> QED BY <4>1, <4>2
    <3> QED BY <1>2, <2>d, <3>1, <3>2, <3>3, <3>4 DEF HandleConn
  <2>4. pc = "handle" /\ pc' = "handle" /\ UNCHANGED <<final, ready>>
    BY <1>2 DEF HandleConn, prog
  <2>5. ASSUME final, NEW c \in Conns, out'[c] # <<>> PROVE Left(c)' \/ ToCome(c)'
    <3>1. CASE c = d
      <4>1. Left(d)' \/ (d \notin ready /\ UNCHANGED <<out, flag, net>>)
        BY <2>3, <2>5, <3>1
      <4>2. CASE d \notin ready /\ UNCHANGED <<out, flag, net>>
        BY <2>4, <2>5, <2>s, <3>1, <4>2 DEF DrainInv, ToCome, Failed, Left
      <4> QED BY <3>1, <4>1, <4>2
    <3>2. CASE c # d
      BY <2>1, <2>2, <2>4, <2>5, <2>s, <3>2 DEF DrainInv, Left
    <3> QED BY <3>1, <3>2
  <2> QED BY <2>4, <2>5 DEF DrainInv
<1>3. CASE EndHandle
  <2>1. \A c \in Conns : ~ToCome(c)
    BY <1>3 DEF EndHandle, ToCome
  <2> QED BY <1>3, <2>1 DEF EndHandle, DrainInv, prog, poll, conn, peer, Failed, Left
<1>4. CASE SweepConn \/ CloseAll
  <2>1. PICK d \in Conns : Close(d)
    BY <1>0, <1>4, ElementOfSeq, HeadTailProperties DEF SweepConn, CloseAll, Phase, ListTypes
  <2> QED BY <1>0, <2>1, CloseDrains DEF Close, prog
<1>5. CASE EndSweep
  BY <1>5 DEF EndSweep, DrainInv, prog, poll, conn, peer, Failed, Left
<1>6. CASE LeaveLoop
  BY <1>6 DEF LeaveLoop, DrainInv
<1>7. CASE Setup \/ Reconnect \/ KeepGoing \/ ReadKnob \/ ReadButton
  <2>1. ~final /\ final' = final /\ pc' # "closeall"
    BY <1>7 DEF Setup, StartMqttFails, Reconnect, KeepGoing, ReadKnob, ReadButton, Input,
                DrainInv, prog
  <2> QED BY <2>1 DEF DrainInv
<1>8. CASE Exit
  BY <1>8 DEF Exit, DrainInv, prog
<1>9. ASSUME NEW d \in Conns, Resolved(d) PROVE DrainInv'
  <2>1. \A c \in Conns : out'[c] = <<>> \/ (out'[c] = out[c] /\ (Failed(c) => Failed(c)'))
    BY <1>0, <1>9, <1>q DEF Resolved, PeerTypes, Failed
  <2> QED BY <1>9, <2>1, DrainUnchanged DEF Resolved, prog
<1>10. ASSUME NEW d \in Conns, ResolveFailed(d) PROVE DrainInv'
  BY <1>0, <1>10, CloseDrains DEF ResolveFailed, Close, prog
<1>11. ASSUME NEW d \in Conns, Network(d) PROVE DrainInv'
  <2>1. Env
    BY <1>11 DEF Network, TcpUp, TcpError, BrokerAccepts, BrokerRefusesIt, BrokerReads
  <2>2. \A c \in Conns : net[c] = "err" => net'[c] = "err"
    BY <1>0, <1>11 DEF Network, TcpUp, TcpError, BrokerAccepts, BrokerRefusesIt, BrokerReads,
                       PeerTypes
  <2> QED BY <2>1, <2>2, DrainUnchanged DEF Env, prog, poll, conn, Failed
<1>12. CASE BrokerRestarts
  BY <1>12, DrainUnchanged DEF BrokerRestarts, Env, prog, poll, conn, Failed
<1>13. CASE Signal
  BY <1>13 DEF Signal, DrainInv, ToCome, Failed, Left, conn, peer, poll
<1>14. CASE UNCHANGED vars
  BY <1>14, DrainUnchanged DEF vars, prog, poll, conn, peer, Failed
<1> QED
  BY <1>1, <1>2, <1>3, <1>4, <1>5, <1>6, <1>7, <1>8, <1>9, <1>10, <1>11, <1>12, <1>13, <1>14
     DEF Next, Main, Exited

\* All of it together is inductive.
FullInv == IInv /\ ListIsExact /\ SingleInv /\ QueueInv /\ DrainInv

\* A command leaves a queue for the kernel, or with its connection.
LEMMA LeavesByClose ==
  ASSUME FullInv, [Next]_vars, NEW c \in Conns, NEW m \in 1 .. MaxMsgs,
         Holds(out[c], m), ~Holds(out'[c], m)
  PROVE  Holds(wire'[c], m) \/ Close(c)
<1>0. /\ TypeOK /\ ConnTypes /\ PeerTypes /\ ScalarTypes /\ IInv /\ QueueOf(c)
      /\ out[c] \in Seq(Packets)
  BY DEF FullInv, IInv, TypeOK, ConnTypes, QueueInv
<1>1. ~Idles
  BY DEF Idles, conn
<1>2. CASE Commands
  <2>1. CASE UNCHANGED out
    BY <2>1
  <2>2. CASE ~UNCHANGED out
    <3>1. mqtt_connection \in Conns /\ out' = [out EXCEPT ![mqtt_connection] = Append(@, sent + 1)]
      BY <1>0, <1>2, <2>2 DEF Commands, SendMqttMsg, Enqueue, conn, ScalarTypes
    <3>2. CASE c # mqtt_connection
      BY <1>0, <3>1, <3>2 DEF ConnTypes
    <3>3. CASE c = mqtt_connection
      <4>1. sent + 1 \in Packets
        BY <1>0, <1>2, MqttLinkAssumption DEF Commands, ScalarTypes, Packets
      <4>2. out'[c] = Append(out[c], sent + 1)
        BY <1>0, <3>1, <3>3 DEF ConnTypes
      <4>3. /\ Len(Append(out[c], sent + 1)) = Len(out[c]) + 1
            /\ \A i \in 1 .. Len(out[c]) : Append(out[c], sent + 1)[i] = out[c][i]
        BY <1>0, <4>1, AppendProperties
      <4>4. Len(out[c]) \in Nat
        BY <1>0, LenProperties
      <4> QED BY <4>2, <4>3, <4>4 DEF Holds
    <3> QED BY <3>2, <3>3
  <2> QED BY <2>1, <2>2
<1>3. ASSUME NEW d \in Conns, Starts(d) \/ Resolved(d) \/ OtherEnd(d) PROVE UNCHANGED out
  BY <1>3 DEF Starts, MgConnect, Resolved, OtherEnd, Network, TcpUp, TcpError, BrokerAccepts,
              BrokerRefusesIt, BrokerReads, BrokerRestarts, Env, conn
<1>4. ASSUME NEW d \in Conns, Handles(d) PROVE Holds(wire'[c], m)
  <2>1. ~ReadError(d)
    BY DEF ReadError
  <2>2. ~Connected(d)
    <3> SUFFICES ASSUME Connected(d) PROVE FALSE
      OBVIOUS
    <3>1. CASE c = d
      BY <1>0, <3>1 DEF Connected, QueueOf, Holds
    <3>2. CASE c # d
      BY <1>0, <3>2 DEF Connected, ConnTypes
    <3> QED BY <3>1, <3>2
  <2>3. ReadWrite(d)
    BY <1>4, <2>1, <2>2 DEF Handles
  <2>4. c = d
    BY <1>0, <2>3, WriteElsewhere DEF ReadWrite
  <2>5. out[c] # <<>> /\ c \notin stalled
    BY <2>3, <2>4 DEF ReadWrite, Write, Holds
  <2>w. Write(c)
    BY <2>3, <2>4 DEF ReadWrite
  <2>6. PICK n \in 1 .. Len(out[c]), taken \in Seq(Packets), rest \in Seq(Packets) :
          /\ Splits(out[c], n, taken, rest)
          /\ wire' = [wire EXCEPT ![c] = @ \o taken]
          /\ out' = [out EXCEPT ![c] = rest]
          /\ stalled' = IF n < Len(out[c]) THEN stalled \cup {c} ELSE stalled
    BY <1>0, <2>5, <2>w, WriteTakes
  <2>7. wire'[c] = wire[c] \o taken /\ out'[c] = rest /\ wire[c] \in Seq(Packets)
    BY <1>0, <2>6 DEF ConnTypes, PeerTypes
  <2>8. PICK i \in 1 .. Len(out[c]) : out[c][i] = m
    BY DEF Holds
  <2>9. Len(out[c]) \in Nat /\ Len(wire[c]) \in Nat /\ n \in Nat
    BY <1>0, <2>7, LenProperties
  <2>10. i <= n
    <3> SUFFICES ASSUME i > n PROVE FALSE
      BY <2>9
    <3>1. i - n \in 1 .. Len(rest) /\ rest[i - n] = m
      BY <2>6, <2>8, <2>9 DEF Splits
    <3> QED BY <2>7, <3>1 DEF Holds
  <2>11. /\ Len(wire[c] \o taken) = Len(wire[c]) + n
         /\ \A j \in 1 .. Len(wire[c]) + n :
              (wire[c] \o taken)[j] = IF j <= Len(wire[c]) THEN wire[c][j]
                                      ELSE taken[j - Len(wire[c])]
    <3> DEFINE w == wire[c]
    <3>1. w \in Seq(Packets) /\ taken \in Seq(Packets) /\ Len(taken) = n
      BY <2>6, <2>7 DEF Splits
    <3> HIDE DEF w
    <3>2. /\ Len(w \o taken) = Len(w) + n
          /\ \A j \in 1 .. Len(w) + n :
               (w \o taken)[j] = IF j <= Len(w) THEN w[j] ELSE taken[j - Len(w)]
      BY <3>1, ConcatProperties
    <3> QED BY <3>2 DEF w
  <2>12. /\ Len(wire[c]) + i \in 1 .. Len(wire[c] \o taken)
         /\ (wire[c] \o taken)[Len(wire[c]) + i] = taken[i] /\ taken[i] = m
    BY <2>6, <2>8, <2>9, <2>10, <2>11 DEF Splits
  <2> QED BY <2>7, <2>12 DEF Holds
<1>5. ASSUME NEW d \in Conns, Closes(d) PROVE d = c
  BY <1>0, <1>5 DEF Closes, Close, ConnTypes
<1> QED BY <1>0, StepKinds, <1>1, <1>2, <1>3, <1>4, <1>5 DEF Closes

\* The process ends by the end of mg_mgr_free, which leaves no queue, or by exit().
LEMMA EndsWithoutQueue ==
  ASSUME FullInv, [Next]_vars, pc # "exited", pc' = "exited", ~EndsAtOnce
  PROVE  \A c \in Conns : out[c] = <<>>
<1>0. IInv /\ ScalarTypes
  BY DEF FullInv, IInv, TypeOK
<1>1. CASE Exit
  <2>1. \A c \in Conns : phase[c] # "open"
    <3>1. active = <<>>
      BY <1>1 DEF Exit
    <3>2. Len(active) = 0
      BY <3>1
    <3> QED BY <3>2 DEF FullInv, ListIsExact, Phase
  <2> QED BY <2>1 DEF FullInv, QueueInv, QueueOf
<1>2. ~Setup /\ ~Reconnect
  BY DEF Setup, Reconnect, StartMqttFails, EndsAtOnce
<1>3. ~Signal
  BY DEF Signal, EndsAtOnce
<1>4. ~(\/ KeepGoing \/ ReadKnob \/ ReadButton \/ LeaveLoop \/ Select \/ HandleConn \/ EndHandle
       \/ SweepConn \/ EndSweep \/ CloseAll)
  BY DEF KeepGoing, ReadKnob, ReadButton, Input, LeaveLoop, Select, HandleConn, EndHandle, SweepConn,
         Close, EndSweep, CloseAll
<1>5. \A d \in Conns : ~(Resolved(d) \/ ResolveFailed(d) \/ Network(d))
  BY DEF Resolved, ResolveFailed, Close, Network, TcpUp, TcpError, BrokerAccepts, BrokerRefusesIt,
         BrokerReads, Env
<1>6. ~BrokerRestarts /\ ~Exited /\ ~UNCHANGED vars
  BY DEF BrokerRestarts, Env, Exited, vars
<1> QED BY <1>1, <1>2, <1>3, <1>4, <1>5, <1>6 DEF Next, Main

\* Who closes a connection with packets queued closes one that has failed, or, after
\* the last poll, one whose socket had no room.
LEMMA CloseOfFailed ==
  ASSUME IInv, QueueInv, DrainInv, [Next]_vars,
         NEW c \in Conns, Close(c), out[c] # <<>>
  PROVE  Failed(c) \/ (pc = "closeall" /\ c \in stalled)
<1> SUFFICES ASSUME ~Failed(c), ~(pc = "closeall" /\ c \in stalled) PROVE FALSE
  OBVIOUS
<1>0. ConnTypes /\ ListTypes
  BY DEF IInv, TypeOK
<1>1. phase[c] = "open" /\ phase'[c] = "free"
  BY <1>0 DEF QueueInv, QueueOf, Close, ConnTypes
<1>2. ASSUME NEW d \in Conns, Close(d) PROVE d = c
  BY <1>0, <1>1, <1>2 DEF Close, ConnTypes
<1>3. CASE SweepConn
  <2>1. PICK i \in 1 .. Len(active) : MustClose(active[i]) /\ Close(active[i])
    BY <1>3 DEF SweepConn
  <2>2. active[i] = c
    BY <1>0, <1>2, <2>1, ElementOfSeq DEF ListTypes
  <2> QED BY <2>1, <2>2 DEF MustClose, Failed
<1>4. CASE CloseAll
  BY <1>4 DEF CloseAll, DrainInv, Left
<1>5. ASSUME NEW d \in Conns, ResolveFailed(d) PROVE FALSE
  <2>1. d = c
    BY <1>2, <1>5 DEF ResolveFailed
  <2> QED BY <1>1, <1>5, <2>1 DEF ResolveFailed
<1>6. ASSUME NEW d \in Conns, Resolved(d) \/ Network(d) PROVE FALSE
  <2>1. phase'[c] # "free"
    BY <1>0, <1>1, <1>6 DEF Resolved, Network, TcpUp, TcpError, BrokerAccepts, BrokerRefusesIt,
                            BrokerReads, Env, conn, ConnTypes
  <2> QED BY <1>1, <2>1
<1>7. CASE \/ Setup \/ Reconnect \/ KeepGoing \/ ReadKnob \/ ReadButton \/ LeaveLoop \/ Select
           \/ EndHandle \/ EndSweep \/ Exit \/ BrokerRestarts \/ Signal \/ UNCHANGED vars
  <2>1. phase'[c] # "free"
    <3>1. CASE StartMqtt
      BY <1>0, <1>1, <3>1 DEF StartMqtt, MgConnect, ConnTypes
    <3>2. CASE UNCHANGED phase
      BY <1>1, <3>2
    <3>3. StartMqtt \/ UNCHANGED phase
      BY <1>7 DEF Setup, StartMqttFails, Reconnect, KeepGoing, ReadKnob, ReadButton, Input,
                  SendMqttMsg, LeaveLoop, Select, EndHandle, EndSweep, Exit, BrokerRestarts, Env,
                  Signal, vars, conn
    <3> QED BY <3>1, <3>2, <3>3
  <2> QED BY <1>1, <2>1
<1>8. CASE HandleConn
  <2>1. phase'[c] # "free"
    BY <1>0, <1>1, <1>8 DEF HandleConn, Connected, ReadError, ReadWrite, conn, ConnTypes
  <2> QED BY <1>1, <2>1
<1> QED BY <1>3, <1>4, <1>5, <1>6, <1>7, <1>8 DEF Next, Main, Exited

-----------------------------------------------------------------------------
(* The theorems *)

LEMMA InitFull == Init => FullInv
<1> SUFFICES ASSUME Init PROVE FullInv
  OBVIOUS
<1>1. IInv
  BY InitType, InitLink DEF IInv, StoppedAtFirst, Init
<1>2. ListIsExact
  BY DEF Init, ListIsExact, Phase
<1>3. SingleInv
  BY DEF Init, SingleInv, SingleConnection, Live, Phase
<1>4. QueueInv
  BY DEF Init, QueueInv, ReadyInv, QueueOf, Increasing, Before, UpTo
<1>5. DrainInv
  BY DEF Init, DrainInv
<1> QED BY <1>1, <1>2, <1>3, <1>4, <1>5 DEF FullInv

LEMMA NextFull == FullInv /\ [Next]_vars => FullInv'
<1> SUFFICES ASSUME FullInv, [Next]_vars PROVE FullInv'
  OBVIOUS
<1>1. IInv'
  BY NextType, NextLink, NextFirst DEF FullInv, IInv
<1>2. ListIsExact' /\ SingleInv' /\ DrainInv'
  BY ListInductive, SingleInductive, DrainInductive DEF FullInv
<1>3. QueueInv'
  BY ReadyInductive, QueueInductive DEF FullInv, QueueInv
<1> QED BY <1>1, <1>2, <1>3 DEF FullInv

\* What a reader of the code may rely on at every step.
LinkSafe ==
  /\ TypeOK /\ ConnectionNeverDangles /\ RunningIffConnection /\ StartingHasAttempt
  /\ ListIsExact /\ SingleConnection /\ StreamInOrder /\ CommandAfterConnect

LEMMA FullIsSafe == FullInv => LinkSafe
<1> SUFFICES ASSUME FullInv PROVE LinkSafe
  OBVIOUS
<1>1. TypeOK /\ ConnectionNeverDangles /\ RunningIffConnection /\ StartingHasAttempt /\ ListIsExact
  BY DEF FullInv, IInv, LinkInv
<1>2. SingleConnection
  BY DEF FullInv, SingleInv, SingleConnection
<1>3. StreamInOrder
  <2> SUFFICES ASSUME NEW c \in Conns PROVE Increasing(wire[c] \o out[c])
    BY DEF StreamInOrder, Increasing
  <2>1. wire[c] \in Seq(Nat) /\ out[c] \in Seq(Nat)
    BY <1>1, QueueTypes
  <2> QED BY <2>1, StreamIncreases DEF FullInv, QueueInv, QueueOf
<1>4. CommandAfterConnect
  <2> SUFFICES ASSUME NEW c \in Conns, NEW m \in 1 .. MaxMsgs, Hears(c, m)
               PROVE  broker[c] # "none"
    BY DEF CommandAfterConnect
  <2>1. net[c] = "up" /\ wire[c] # <<>> /\ Head(wire[c]) = m /\ m # CONNECT
    BY DEF Hears, CONNECT
  <2> QED BY <2>1 DEF FullInv, QueueInv, QueueOf
<1> QED BY <1>1, <1>2, <1>3, <1>4 DEF LinkSafe

LEMMA LossStep ==
  FullInv /\ [Next]_vars =>
    [\A c \in Conns, m \in 1 .. MaxMsgs :
       pc # "exited" /\ Holds(out[c], m) /\ ~(pc' # "exited" /\ Holds(out'[c], m))
         => \/ Holds(wire'[c], m)
            \/ flag[c] = "immediately" \/ net[c] = "err"
            \/ pc = "closeall" /\ c \in stalled
            \/ EndsAtOnce]_vars
<1> SUFFICES ASSUME FullInv, [Next]_vars, NEW c \in Conns, NEW m \in 1 .. MaxMsgs,
                    pc # "exited", Holds(out[c], m),
                    ~(pc' # "exited" /\ Holds(out'[c], m)),
                    ~Holds(wire'[c], m), ~EndsAtOnce
             PROVE  Failed(c) \/ (pc = "closeall" /\ c \in stalled)
  BY DEF Failed
<1>1. out[c] # <<>>
  BY DEF Holds
<1>2. pc' # "exited"
  BY <1>1, EndsWithoutQueue
<1>3. Close(c)
  BY <1>2, LeavesByClose
<1> QED BY <1>1, <1>3, CloseOfFailed DEF FullInv

\* The safety of the link asks for no fairness, so that it holds of whatever takes
\* its steps: of the link with the resolver, and of a session.
THEOREM LinkStaysSafe == Init /\ [][Next]_vars => []LinkSafe /\ LostOnlyForAReason
BY InitFull, NextFull, FullIsSafe, LossStep, PTL DEF LostOnlyForAReason

\* mongoose's list of connections never loses one and never holds one twice.
THEOREM ListStaysExact == Spec => []ListIsExact
<1>1. LinkSafe => ListIsExact
  BY DEF LinkSafe
<1> QED BY <1>1, LinkStaysSafe, PTL DEF Spec

\* Against a broker that accepts there is one connection at most.
THEOREM StaysSingle == Spec => []SingleConnection
<1>1. LinkSafe => SingleConnection
  BY DEF LinkSafe
<1> QED BY <1>1, LinkStaysSafe, PTL DEF Spec

\* The packets of a connection are queued and written in the order of the calls.
THEOREM AlwaysInOrder == Spec => []StreamInOrder
<1>1. LinkSafe => StreamInOrder
  BY DEF LinkSafe
<1> QED BY <1>1, LinkStaysSafe, PTL DEF Spec

\* No command reaches the broker on a connection before its handshake.
THEOREM HandshakeFirst == Spec => []CommandAfterConnect
<1>1. LinkSafe => CommandAfterConnect
  BY DEF LinkSafe
<1> QED BY <1>1, LinkStaysSafe, PTL DEF Spec

\* So the broker reads on every connection what the calls queued for it, in their
\* order and behind its handshake (mg_mqtt_prepend_header, mongoose.c:10454-10477).
THEOREM AlwaysHeardInOrder == Spec => []HeardInOrder
BY HandshakeFirst, AlwaysInOrder, PTL DEF HeardInOrder

\* A command that send_mqtt_msg took is lost only with a connection that failed, or
\* that mg_mgr_free closes although its socket had no room in the last poll, or by an
\* exit() in the middle (mongoose.c:2387, 3556, 3739, RotaryEncoder.c:75, 214).
THEOREM LossNeedsAReason == Spec => LostOnlyForAReason
BY LinkStaysSafe, PTL DEF Spec

LEMMA RefusalStep ==
  ~BrokerRefuses /\ FullInv /\ [Next]_vars =>
    [\A m \in 1 .. MaxMsgs :
       log[m] = "unsent" /\ log'[m] = "refused" => Phase("open") \cap Accepted = {}]_vars
<1> SUFFICES ASSUME ~BrokerRefuses, FullInv, [Next]_vars, NEW m \in 1 .. MaxMsgs,
                    log[m] = "unsent", log'[m] = "refused"
             PROVE  Phase("open") \cap Accepted = {}
  OBVIOUS
<1>0. LogType /\ ScalarTypes /\ IInv
  BY DEF FullInv, IInv, TypeOK
<1>1. ASSUME NEW c \in Conns, Closes(c) \/ Handles(c) PROVE FALSE
  <2>1. ~Closes(c)
    BY DEF Closes, Close, msgs
  <2>2. ~Handles(c)
    BY DEF Handles
  <2> QED BY <1>1, <2>1, <2>2 DEF Handles
<1>2. ~Idles
  BY DEF Idles
<1>3. ASSUME NEW c \in Conns, Starts(c) \/ Resolved(c) \/ OtherEnd(c) PROVE FALSE
  BY <1>3 DEF Starts, Resolved, OtherEnd, Network, TcpUp, TcpError, BrokerAccepts,
              BrokerRefusesIt, BrokerReads, BrokerRestarts, Env, msgs
<1>4. Commands
  BY <1>0, StepKinds, <1>1, <1>2, <1>3
<1>5. mqtt_status = "stopped" \/ mqtt_connection = NULL
  BY <1>0, <1>4 DEF Commands, SendMqttMsg, LogType
<1>6. CASE mqtt_status = "stopped"
  <2>1. Live = {}
    BY <1>6 DEF FullInv, SingleInv
  <2> QED BY <2>1 DEF Live, Phase
<1>7. CASE mqtt_status # "stopped"
  <2>1. mqtt_status = "starting"
    BY <1>0, <1>5, <1>7 DEF IInv, LinkInv, RunningIffConnection, ScalarTypes
  <2>2. PICK c \in Conns : phase[c] \in {"resolving", "connecting"}
    BY <1>0, <2>1 DEF IInv, LinkInv, StartingHasAttempt, Phase
  <2>3. \A d \in Live : d = c
    BY <2>2 DEF FullInv, SingleInv, SingleConnection, Live, Phase
  <2> QED BY <2>2, <2>3 DEF Live, Phase
<1> QED BY <1>6, <1>7

\* Only a refusal can make the program refuse commands while an accepted connection
\* is open: with a broker that always accepts, the CLOSE that clears the pointer is
\* the one of the connection it points to (MQTT.c:130-134).
THEOREM NoRefusalNoGap ==
  ASSUME ~BrokerRefuses
  PROVE  Spec => RefusedOnlyWithoutConnection
BY InitFull, NextFull, RefusalStep, PTL DEF Spec, RefusedOnlyWithoutConnection

-----------------------------------------------------------------------------
(* The session at the broker                                                *)

\* A connection is flagged, or has more to read than an answer to its CONNECT, only
\* once it is open and its end has come from the other side.
HealthyOf(c) ==
  /\ phase[c] # "open" => flag[c] = "none" /\ inbox[c] = <<>>
  /\ net[c] = "up" /\ broker[c] # "closed" => flag[c] = "none" /\ inbox[c] \in Seq({"ACK"})
  /\ broker[c] = "accepted" => phase[c] = "open" /\ net[c] = "up"

HealthyInv == ~BrokerRefuses => \A c \in Conns : HealthyOf(c)

LEMMA HealthyUnchanged ==
  ASSUME NEW c \in Conns, HealthyOf(c),
         phase'[c] = phase[c], flag'[c] = flag[c], net'[c] = net[c], inbox'[c] = inbox[c],
         broker'[c] = broker[c]
  PROVE  HealthyOf(c)'
BY DEF HealthyOf

\* What the thread does to a connection.
LEMMA HealthyHandles ==
  ASSUME FullInv, ~BrokerRefuses, HealthyInv, NEW d \in Conns, Handles(d)
  PROVE  HealthyInv'
<1> SUFFICES ASSUME NEW c \in Conns PROVE HealthyOf(c)'
  BY DEF HealthyInv
<1>0. ConnTypes /\ PeerTypes /\ HealthyOf(c) /\ HealthyOf(d)
  BY DEF FullInv, IInv, TypeOK, HealthyInv
<1>1. CASE c # d
  <2>1. /\ phase' = phase \/ phase' = [phase EXCEPT ![d] = "open"]
        /\ flag' = flag \/ \E f \in {"immediately", "drain"} : flag' = [flag EXCEPT ![d] = f]
        /\ inbox' = inbox \/ \E q : inbox' = [inbox EXCEPT ![d] = q]
        /\ UNCHANGED <<net, broker>>
    <3>1. CASE Connected(d)
      <4>1. flag' = flag \/ flag' = [flag EXCEPT ![d] = "immediately"]
        BY <3>1 DEF Connected
      <4> QED BY <3>1, <4>1 DEF Connected
    <3>2. CASE ReadError(d)
      BY <3>2 DEF ReadError, peer
    <3>3. CASE ReadWrite(d)
      <4>1. flag' = flag \/ flag' = [flag EXCEPT ![d] = "drain"]
        BY <3>3 DEF ReadWrite
      <4>2. inbox' = inbox \/ \E q : inbox' = [inbox EXCEPT ![d] = q]
        BY <3>3 DEF ReadWrite
      <4> QED BY <3>3, <4>1, <4>2 DEF ReadWrite
    <3> QED BY <3>1, <3>2, <3>3 DEF Handles
  <2>2. /\ phase'[c] = phase[c] /\ flag'[c] = flag[c] /\ inbox'[c] = inbox[c]
        /\ net'[c] = net[c] /\ broker'[c] = broker[c]
    BY <1>0, <1>1, <2>1 DEF ConnTypes, PeerTypes
  <2> QED BY <1>0, <2>2, HealthyUnchanged
<1>2. CASE c = d /\ Connected(c)
  <2>1. /\ phase[c] = "connecting" /\ phase'[c] = "open" /\ UNCHANGED <<net, inbox, broker>>
        /\ net[c] = "up" => flag'[c] = flag[c]
    BY <1>0, <1>2 DEF Connected, ConnTypes
  <2>2. flag[c] = "none" /\ inbox[c] = <<>> /\ broker[c] # "accepted"
    BY <1>0, <2>1 DEF HealthyOf
  <2>3. inbox[c] \in Seq({"ACK"})
    BY <2>2
  <2> QED BY <2>1, <2>2, <2>3 DEF HealthyOf
<1>3. CASE c = d /\ ReadError(c)
  BY <1>0, <1>3 DEF ReadError, HealthyOf, peer
<1>4. CASE c = d /\ ReadWrite(c)
  <2>1. /\ phase[c] = "open" /\ net[c] = "up" /\ UNCHANGED <<phase, net, broker>>
        /\ IF Received(c) = "FIN"
           THEN UNCHANGED inbox
           ELSE UNCHANGED flag /\ inbox'[c] = IF inbox[c] = <<>> THEN <<>> ELSE Tail(inbox[c])
    BY <1>0, <1>4 DEF ReadWrite, PeerTypes
  <2>2. CASE broker[c] = "closed"
    BY <2>1, <2>2 DEF HealthyOf
  <2>3. CASE broker[c] # "closed"
    <3>1. flag[c] = "none" /\ inbox[c] \in Seq({"ACK"})
      BY <1>0, <2>1, <2>3 DEF HealthyOf
    <3>2. inbox[c] # <<>> => Head(inbox[c]) = "ACK" /\ Tail(inbox[c]) \in Seq({"ACK"})
      BY <3>1, HeadTailProperties
    <3>3. Received(c) # "FIN"
      BY <3>2 DEF Received
    <3> QED BY <2>1, <3>1, <3>2, <3>3 DEF HealthyOf
  <2> QED BY <2>2, <2>3
<1> QED BY <1>1, <1>2, <1>3, <1>4 DEF Handles

\* What the network and the broker do to it.
LEMMA HealthyOtherEnd ==
  ASSUME FullInv, ~BrokerRefuses, HealthyInv, NEW d \in Conns, OtherEnd(d)
  PROVE  HealthyInv'
<1> SUFFICES ASSUME NEW c \in Conns PROVE HealthyOf(c)'
  BY DEF HealthyInv
<1>0. ConnTypes /\ PeerTypes /\ HealthyOf(c) /\ HealthyOf(d) /\ QueueOf(c) /\ QueueOf(d)
  BY DEF FullInv, IInv, TypeOK, HealthyInv, QueueInv
<1>e. UNCHANGED <<phase, flag>>
  BY DEF OtherEnd, Network, TcpUp, TcpError, BrokerAccepts, BrokerRefusesIt, BrokerReads,
         BrokerRestarts, Env, conn
<1>1. CASE TcpUp(d)
  <2>1. UNCHANGED <<inbox, broker>> /\ net[d] = "syn" /\ net' = [net EXCEPT ![d] = "up"]
    BY <1>1 DEF TcpUp
  <2>2. CASE c = d
    <3>1. phase[c] # "open"
      BY <1>0, <2>1, <2>2 DEF QueueOf
    <3>2. flag[c] = "none" /\ inbox[c] = <<>> /\ broker[c] # "accepted"
      BY <1>0, <3>1 DEF HealthyOf
    <3>3. inbox[c] \in Seq({"ACK"})
      BY <3>2
    <3> QED BY <1>e, <2>1, <3>1, <3>2, <3>3 DEF HealthyOf
  <2>3. CASE c # d
    BY <1>0, <1>e, <2>1, <2>3, HealthyUnchanged DEF PeerTypes
  <2> QED BY <2>2, <2>3
<1>2. CASE TcpError(d)
  <2>1. /\ net' = [net EXCEPT ![d] = "err"] /\ broker' = [broker EXCEPT ![d] = "none"]
        /\ inbox' = [inbox EXCEPT ![d] = <<>>]
    BY <1>2 DEF TcpError
  <2>2. CASE c = d
    BY <1>0, <1>e, <2>1, <2>2 DEF HealthyOf, PeerTypes
  <2>3. CASE c # d
    BY <1>0, <1>e, <2>1, <2>3, HealthyUnchanged DEF PeerTypes
  <2> QED BY <2>2, <2>3
<1>3. CASE BrokerAccepts(d)
  <2>1. /\ net[d] = "up" /\ wire[d] # <<>> /\ broker[d] = "none" /\ UNCHANGED net
        /\ broker'[c] = IF c = d THEN "accepted" ELSE IF broker[c] = "accepted" THEN "closed" ELSE broker[c]
        /\ inbox'[c] = IF c = d THEN Append(inbox[c], "ACK")
                       ELSE IF broker[c] = "accepted" THEN Append(inbox[c], "FIN") ELSE inbox[c]
    BY <1>3 DEF BrokerAccepts, Hears, Accepted
  <2>2. CASE c = d
    <3>1. phase[c] = "open"
      BY <1>0, <2>1, <2>2 DEF QueueOf
    <3>2. flag[c] = "none" /\ inbox[c] \in Seq({"ACK"})
      BY <1>0, <2>1, <2>2 DEF HealthyOf
    <3>3. Append(inbox[c], "ACK") \in Seq({"ACK"})
      BY <3>2, AppendProperties
    <3> QED BY <1>e, <2>1, <2>2, <3>1, <3>2, <3>3 DEF HealthyOf
  <2>3. CASE c # d /\ broker[c] = "accepted"
    BY <1>0, <1>e, <2>1, <2>3 DEF HealthyOf
  <2>4. CASE c # d /\ broker[c] # "accepted"
    BY <1>0, <1>e, <2>1, <2>4, HealthyUnchanged
  <2> QED BY <2>2, <2>3, <2>4
<1>4. CASE BrokerReads(d)
  BY <1>0, <1>4, <1>e, HealthyUnchanged DEF BrokerReads
<1>5. CASE BrokerRestarts
  <2>1. /\ UNCHANGED net
        /\ broker'[c] = IF broker[c] = "accepted" THEN "closed" ELSE broker[c]
        /\ inbox'[c] = IF broker[c] = "accepted" THEN Append(inbox[c], "FIN") ELSE inbox[c]
    BY <1>5 DEF BrokerRestarts, Accepted
  <2>2. CASE broker[c] = "accepted"
    BY <1>0, <1>e, <2>1, <2>2 DEF HealthyOf
  <2>3. CASE broker[c] # "accepted"
    BY <1>0, <1>e, <2>1, <2>3, HealthyUnchanged
  <2> QED BY <2>2, <2>3
<1> QED BY <1>1, <1>2, <1>3, <1>4, <1>5 DEF OtherEnd, Network, BrokerRefusesIt

LEMMA HealthyNext == FullInv /\ HealthyInv /\ [Next]_vars => HealthyInv'
<1> SUFFICES ASSUME FullInv, ~BrokerRefuses, HealthyInv, [Next]_vars PROVE HealthyInv'
  BY DEF HealthyInv
<1>0. IInv /\ ConnTypes /\ PeerTypes
  BY DEF FullInv, IInv, TypeOK
<1>1. CASE Idles
  BY <1>1 DEF Idles, conn, peer, HealthyInv, HealthyOf
<1>2. CASE Commands
  <2>1. UNCHANGED <<phase, flag, net, inbox, broker>>
    BY <1>2 DEF Commands, SendMqttMsg, conn, peer
  <2> QED BY <2>1 DEF HealthyInv, HealthyOf
<1>3. ASSUME NEW d \in Conns, Starts(d) \/ Resolved(d) PROVE HealthyInv'
  <2> SUFFICES ASSUME NEW c \in Conns PROVE HealthyOf(c)'
    BY DEF HealthyInv
  <2>1. /\ phase[d] # "open" /\ \E p \in {"resolving", "connecting"} : phase' = [phase EXCEPT ![d] = p]
        /\ net' = net \/ net' = [net EXCEPT ![d] = "syn"]
        /\ UNCHANGED <<flag, inbox, broker>>
    BY <1>3 DEF Starts, MgConnect, Phase, Resolved
  <2>2. HealthyOf(c)
    BY DEF HealthyInv
  <2>3. CASE c = d
    <3>1. flag[c] = "none" /\ inbox[c] = <<>> /\ broker[c] # "accepted"
      BY <2>1, <2>2, <2>3 DEF HealthyOf
    <3>2. inbox[c] \in Seq({"ACK"})
      BY <3>1
    <3> QED BY <2>1, <3>1, <3>2 DEF HealthyOf
  <2>4. CASE c # d
    <3>1. phase'[c] = phase[c] /\ net'[c] = net[c]
      BY <1>0, <2>1, <2>4 DEF ConnTypes, PeerTypes
    <3> QED BY <2>1, <2>2, <3>1, HealthyUnchanged
  <2> QED BY <2>3, <2>4
<1>4. ASSUME NEW d \in Conns, Handles(d) PROVE HealthyInv'
  BY <1>4, HealthyHandles
<1>5. ASSUME NEW d \in Conns, Closes(d) PROVE HealthyInv'
  <2> SUFFICES ASSUME NEW c \in Conns PROVE HealthyOf(c)'
    BY DEF HealthyInv
  <2>1. /\ phase' = [phase EXCEPT ![d] = "free"] /\ flag' = [flag EXCEPT ![d] = "none"]
        /\ net' = [net EXCEPT ![d] = "none"] /\ broker' = [broker EXCEPT ![d] = "none"]
        /\ inbox' = [inbox EXCEPT ![d] = <<>>]
    BY <1>5 DEF Closes, Close
  <2>2. CASE c = d
    BY <1>0, <2>1, <2>2 DEF HealthyOf, ConnTypes, PeerTypes
  <2>3. CASE c # d
    BY <1>0, <2>1, <2>3, HealthyUnchanged DEF HealthyInv, ConnTypes, PeerTypes
  <2> QED BY <2>2, <2>3
<1>6. ASSUME NEW d \in Conns, OtherEnd(d) PROVE HealthyInv'
  BY <1>6, HealthyOtherEnd
<1> QED BY <1>0, StepKinds, <1>1, <1>2, <1>3, <1>4, <1>5, <1>6

\* The program uses the one connection that is open.
LEMMA OpenIsUsed ==
  ASSUME FullInv, ~BrokerRefuses, NEW c \in Conns, phase[c] = "open"
  PROVE  mqtt_connection = c
<1>0. ScalarTypes /\ IInv
  BY DEF FullInv, IInv, TypeOK
<1>1. \A d \in Conns : phase[d] # "free" => d = c
  BY DEF FullInv, SingleInv, SingleConnection, Live, Phase
<1>2. mqtt_status # "stopped"
  BY DEF FullInv, SingleInv, Live, Phase
<1>3. mqtt_status # "starting"
  BY <1>0, <1>1 DEF IInv, LinkInv, StartingHasAttempt, Phase
<1>4. mqtt_connection \in Conns /\ phase[mqtt_connection] = "open"
  BY <1>0, <1>2, <1>3 DEF IInv, LinkInv, RunningIffConnection, ConnectionNeverDangles, ScalarTypes
<1> QED BY <1>1, <1>4

LEMMA AcceptedIsOpen == FullInv /\ HealthyInv => AcceptedIsUsed
<1> SUFFICES ASSUME FullInv, HealthyInv, ~BrokerRefuses, NEW c \in Conns, broker[c] = "accepted"
             PROVE  mqtt_connection = c
  BY DEF AcceptedIsUsed, Accepted
<1>1. phase[c] = "open"
  BY DEF HealthyInv, HealthyOf
<1> QED BY <1>1, OpenIsUsed

LEMMA AcceptedIsKept ==
  ASSUME FullInv, HealthyInv, [Next]_vars, ~BrokerRefuses, NEW c \in Accepted
  PROVE  c \in Accepted' \/ faults' < faults \/ pc = "closeall"
<1>0. /\ IInv /\ ConnTypes /\ PeerTypes /\ ScalarTypes /\ ListTypes
      /\ c \in Conns /\ broker[c] = "accepted"
  BY DEF FullInv, IInv, TypeOK, Accepted
<1>1. phase[c] = "open" /\ flag[c] = "none" /\ net[c] = "up"
  BY <1>0 DEF HealthyInv, HealthyOf
<1>2. ASSUME NEW d \in Conns, Close(d), d # c PROVE c \in Accepted'
  BY <1>0, <1>2 DEF Close, PeerTypes, Accepted
<1>3. CASE SweepConn
  <2>1. PICK i \in 1 .. Len(active) : MustClose(active[i]) /\ Close(active[i])
    BY <1>3 DEF SweepConn
  <2>2. active[i] \in Conns /\ active[i] # c
    BY <1>0, <1>1, <2>1, ElementOfSeq DEF ListTypes, MustClose
  <2> QED BY <1>2, <2>1, <2>2
<1>4. CASE CloseAll
  BY <1>4 DEF CloseAll
<1>5. ASSUME NEW d \in Conns, ResolveFailed(d) \/ TcpError(d) PROVE faults' < faults
  BY <1>0, <1>5 DEF ResolveFailed, TcpError, ScalarTypes
<1>6. ASSUME NEW d \in Conns, BrokerRefusesIt(d) PROVE FALSE
  BY <1>6 DEF BrokerRefusesIt
<1>7. CASE BrokerRestarts
  BY <1>0, <1>7 DEF BrokerRestarts, ScalarTypes
<1>8. ASSUME NEW d \in Conns, BrokerAccepts(d) PROVE FALSE
  <2>1. wire[d] # <<>> /\ broker[d] = "none"
    BY <1>8 DEF BrokerAccepts, Hears
  <2>2. phase[d] = "open"
    BY <2>1 DEF FullInv, QueueInv, QueueOf
  <2>3. d = c
    BY <1>0, <1>1, <2>2 DEF FullInv, SingleInv, SingleConnection, Live, Phase
  <2> QED BY <1>0, <2>1, <2>3
<1>9. CASE UNCHANGED broker
  BY <1>0, <1>9 DEF Accepted
<1>10. ASSUME NEW d \in Conns, Resolved(d) \/ TcpUp(d) \/ BrokerReads(d) PROVE UNCHANGED broker
  BY <1>10 DEF Resolved, TcpUp, BrokerReads
<1>11. CASE Setup \/ Reconnect
  BY <1>9, <1>11 DEF Setup, Reconnect, StartMqtt, MgConnect, StartMqttFails, peer
<1>12. CASE HandleConn
  BY <1>9, <1>12 DEF HandleConn, Connected, ReadError, ReadWrite, peer
<1>13. CASE \/ KeepGoing \/ ReadKnob \/ ReadButton \/ LeaveLoop \/ Select \/ EndHandle \/ EndSweep
            \/ Exit \/ Signal \/ UNCHANGED vars
  BY <1>9, <1>13 DEF KeepGoing, ReadKnob, ReadButton, Input, LeaveLoop, Select, EndHandle, EndSweep,
                     Exit, Signal, vars, peer
<1> QED
  BY <1>3, <1>4, <1>5, <1>6, <1>7, <1>8, <1>9, <1>10, <1>11, <1>12, <1>13
     DEF Next, Main, Network, Exited

\* With a broker that accepts, the safety that StaysConnected rests on, with any
\* number of connections, faults and commands and without fairness: a session always
\* belongs to the connection in use, and only a fault from outside ends it.
THEOREM SessionIsKept == Init /\ [][Next]_vars => []AcceptedIsUsed /\ KeepsAccepted
<1>1. Init => FullInv /\ HealthyInv
  BY InitFull DEF Init, HealthyInv, HealthyOf
<1>2. FullInv /\ HealthyInv /\ [Next]_vars => FullInv' /\ HealthyInv'
  BY NextFull, HealthyNext
<1>3. FullInv /\ HealthyInv /\ [Next]_vars =>
        [~BrokerRefuses =>
           \A c \in Accepted : c \in Accepted' \/ faults' < faults \/ pc = "closeall"]_vars
  BY AcceptedIsKept
<1> QED BY <1>1, <1>2, <1>3, AcceptedIsOpen, PTL DEF KeepsAccepted

\* What the program is connected by is what it sends on (MQTT.c:82-94, 109-134).
THEOREM SessionIsUsed == Spec => []AcceptedIsUsed
BY SessionIsKept, PTL DEF Spec

\* No retry, sweep or takeover ends an accepted connection (RotaryEncoder.c:207-223,
\* mongoose.c:3928-3934).
THEOREM SessionEndsByFault == Spec => KeepsAccepted
BY SessionIsKept, PTL DEF Spec
=============================================================================
