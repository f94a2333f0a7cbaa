------------------------- MODULE MqttResolverProofs -------------------------
(***************************************************************************)
(* The resolver keeps the safety part of MqttLink, so that everything      *)
(* proved of MqttLink holds with it, and a request never outlives the      *)
(* connection it was made for.                                             *)
(***************************************************************************)
EXTENDS MqttResolver, MqttLinkProofs

\* Every step of the resolver is a step of MqttLink or leaves it alone.
LEMMA StepIsLink == [NextAll]_allvars => [Next]_vars
<1> SUFFICES ASSUME NextAll PROVE [Next]_vars
  BY DEF allvars, vars
<1>1. CASE MainAll
  <2>1. CASE \/ Start \/ SelectAll \/ EndHandleAll \/ EndSweepAll \/ FreeConn \/ Unconcerned
    BY <2>1 DEF Start, SelectAll, EndHandleAll, EndSweepAll, FreeConn, Unconcerned, Next, Main
  <2>2. ASSUME NEW c \in Conns, \/ FirstQuery(c) \/ Wait(c) \/ Address(c)
                                \/ NoAddress(c) \/ Useless(c) \/ SweepDns(c)
        PROVE [Next]_vars
    BY <2>2 DEF FirstQuery, Wait, Address, NoAddress, Useless, SweepDns, Next
  <2> QED BY <1>1, <2>1, <2>2 DEF MainAll
<1>2. ASSUME NEW c \in Conns, \/ Answer(c) \/ BadAnswer(c) \/ TimePasses(c) \/ AnswerDelayed(c)
      PROVE [Next]_vars
  BY <1>2 DEF Answer, BadAnswer, TimePasses, AnswerDelayed, Ages, Around
<1>3. CASE Outside
  BY <1>3 DEF Outside, Next
<1> QED BY <1>1, <1>2, <1>3 DEF NextAll

\* The detailed specification implements the safety part of the abstract one:
\* whatever is lost, late or useless, the program and the network around a
\* lookup take steps of MqttLink only (resolve_cb, mg_resolve_async_eh).
THEOREM LinkStepsOnly == SpecAll => Init /\ [][Next]_vars
<1>1. InitDns => Init
  BY DEF InitDns
<1> QED BY <1>1, StepIsLink, PTL DEF SpecAll

\* So a lookup over UDP leaves the link as safe as one that is a single step.
THEOREM ResolverKeepsLinkSafe == SpecAll => []LinkSafe /\ LostOnlyForAReason
BY LinkStepsOnly, LinkStaysSafe, PTL

\* And no retry, late answer or failure of a lookup costs the program a session.
THEOREM ResolverKeepsSession == SpecAll => []AcceptedIsUsed /\ KeepsAccepted
BY LinkStepsOnly, SessionIsKept, PTL

\* A connection flagged for closing is one that was connected.
FlagMeansOpen == \A c \in Conns : flag[c] # "none" => phase[c] = "open"

LinkPart == IInv /\ FlagMeansOpen

LEMMA NextFlag == ConnTypes /\ FlagMeansOpen /\ [Next]_vars => FlagMeansOpen'
<1> SUFFICES ASSUME ConnTypes, FlagMeansOpen, [Next]_vars PROVE FlagMeansOpen'
  OBVIOUS
<1> USE DEF ConnTypes, FlagMeansOpen
<1>1. CASE Setup \/ Reconnect
  <2>1. CASE UNCHANGED conn
    BY <2>1 DEF conn
  <2>2. ASSUME NEW c \in Conns, MgConnect(c) PROVE FlagMeansOpen'
    BY <2>2 DEF MgConnect, Phase
  <2> QED BY <1>1, <2>1, <2>2 DEF Setup, Reconnect, StartMqtt, StartMqttFails
<1>2. CASE ReadKnob \/ ReadButton
  BY <1>2 DEF ReadKnob, ReadButton, Input, SendMqttMsg, conn
<1>3. CASE HandleConn
  <2>1. ASSUME NEW c, \/ Connected(c) \/ ReadError(c) \/ ReadWrite(c) PROVE FlagMeansOpen'
    BY <2>1 DEF Connected, ReadError, ReadWrite
  <2> QED BY <1>3, <2>1 DEF HandleConn, conn
<1>4. ASSUME NEW c, Close(c) PROVE FlagMeansOpen'
  BY <1>4 DEF Close
<1>5. ASSUME NEW c \in Conns, Resolved(c) PROVE FlagMeansOpen'
  BY <1>5 DEF Resolved
<1>6. CASE UNCHANGED conn
  BY <1>6 DEF conn
<1>7. CASE SweepConn \/ CloseAll
  BY <1>4, <1>7 DEF SweepConn, CloseAll
<1>8. ASSUME NEW c \in Conns, ResolveFailed(c) \/ Network(c) PROVE FlagMeansOpen'
  BY <1>4, <1>6, <1>8 DEF ResolveFailed, Network, TcpUp, TcpError, BrokerAccepts,
                          BrokerRefusesIt, BrokerReads, Env
<1>9. CASE \/ KeepGoing \/ LeaveLoop \/ Select \/ EndHandle \/ EndSweep \/ Exit
           \/ BrokerRestarts \/ Signal \/ Exited \/ UNCHANGED vars
  BY <1>6, <1>9 DEF KeepGoing, LeaveLoop, Select, EndHandle, EndSweep, Exit,
                    BrokerRestarts, Env, Signal, Exited, vars
<1> QED BY <1>1, <1>2, <1>3, <1>5, <1>7, <1>8, <1>9 DEF Next, Main

LEMMA LinkHolds == SpecAll => []LinkPart
<1>1. InitDns => LinkPart
  BY InitType, InitLink DEF InitDns, Init, IInv, StoppedAtFirst, LinkPart, FlagMeansOpen
<1>2. LinkPart /\ [NextAll]_allvars => LinkPart'
  BY StepIsLink, NextType, NextLink, NextFirst, NextFlag DEF LinkPart, IInv, TypeOK
<1> QED BY <1>1, <1>2, PTL DEF SpecAll

-----------------------------------------------------------------------------
(* Types of the resolver, and the targets of its requests. *)

\* Queries sent and in the buffer are counted by retries, which stays small.
Counted(c) ==
  /\ sock[c] = "none" \/ sock[c] = "connecting" => retries[c] = 0 /\ c \notin queued
  /\ asked[c] <= retries[c]
  /\ c \in queued => asked[c] + 1 <= retries[c]

AllCounted == \A c \in Conns : Counted(c)

\* A UDP connection that is not about to be closed has a request, and after
\* the sweep none is about to be.
OpenWaits == \A c \in Conns : sock[c] \in {"connecting", "open"} => c \in requests
Swept == pc \notin {"handle", "sweep", "exited"} => Closing = {}

DnsInv == DnsTypeOK /\ LookupHasTarget /\ AllCounted /\ OpenWaits /\ Swept

\* Sending uses up a query that was counted.
LEMMA SendCounts ==
  ASSUME DnsTypeOK, AllCounted, NEW c \in Conns, Send(c), asked[c] + 1 <= retries'[c],
         c \notin queued' \/ asked[c] + 2 <= retries'[c],
         retries' \in [Conns -> 0 .. MaxRetries + 1],
         retries' = [retries EXCEPT ![c] = retries'[c]],
         queued' \ {c} = queued \ {c}, queued' \subseteq Conns,
         sock' = [sock EXCEPT ![c] = sock'[c]], sock'[c] \in {"open", "closing"}
  PROVE  AllCounted' /\ asked' \in [Conns -> 0 .. MaxRetries + 1] /\ losses' \in 0 .. MaxLosses
BY MqttResolverAssumption DEF DnsTypeOK, AllCounted, Counted, Send, Loss

\* Removing UDP connections with their requests.
LEMMA ForgetKeeps ==
  ASSUME DnsInv, NEW cs, Forget(cs), requests' = Phase("resolving")',
         pc' = pc
  PROVE  DnsInv'
<1> USE DEF DnsInv
<1>1. DnsTypeOK'
  BY MqttResolverAssumption DEF Forget, DnsTypeOK
<1>2. AllCounted'
  BY DEF Forget, AllCounted, Counted, DnsTypeOK
<1>3. LookupHasTarget'
  BY DEF Forget, LookupHasTarget, Sockets, DnsTypeOK
<1>4. OpenWaits' /\ Swept'
  BY DEF Forget, OpenWaits, Swept, Closing, DnsTypeOK
<1> QED BY <1>1, <1>2, <1>3, <1>4 DEF DnsInv

LEMMA ReadKeeps ==
  ASSUME DnsInv, NEW c \in Conns, NEW r, Handled(c), Read(c, r), pc' = pc,
         requests' = requests \/ requests' = requests \ {c},
         requests' = Phase("resolving")'
  PROVE  DnsInv'
<1> USE DEF DnsInv
<1>1. DnsTypeOK'
  BY DEF Handled, Read, DnsTypeOK
<1>2. AllCounted'
  BY DEF Read, AllCounted, Counted, DnsTypeOK
<1>3. LookupHasTarget'
  BY DEF Read, LookupHasTarget, Sockets, DnsTypeOK
<1>4. OpenWaits' /\ Swept'
  BY DEF Handled, Read, OpenWaits, Swept, DnsTypeOK
<1> QED BY <1>1, <1>2, <1>3, <1>4

LEMMA QueryStep ==
  ASSUME DnsInv, NEW c \in Conns, FirstQuery(c) \/ Wait(c)
  PROVE  DnsInv'
<1> USE DEF DnsInv
<1>1. LookupHasTarget'
  BY DEF FirstQuery, Wait, Polled, Query, LookupHasTarget, Sockets, Phase, vars, conn, DnsTypeOK
<1>4. OpenWaits' /\ Swept'
  BY DEF FirstQuery, Wait, Polled, Query, Handled, OpenWaits, Swept, vars, DnsTypeOK
<1>2. CASE FirstQuery(c)
  <2>1. asked[c] + 1 <= retries'[c] /\ c \notin queued'
    BY <1>2 DEF FirstQuery, Query, AllCounted, Counted, DnsTypeOK
  <2>2. retries[c] = 0
    BY <1>2 DEF FirstQuery, AllCounted, Counted
  <2>3. /\ retries' \in [Conns -> 0 .. MaxRetries + 1]
        /\ retries' = [retries EXCEPT ![c] = retries'[c]]
        /\ queued' = queued /\ late' \subseteq Conns
        /\ sock' = [sock EXCEPT ![c] = sock'[c]] /\ sock'[c] = "open"
    BY <1>2, <2>2, MqttResolverAssumption DEF FirstQuery, Query, DnsTypeOK
  <2>4. AllCounted' /\ asked' \in [Conns -> 0 .. MaxRetries + 1] /\ losses' \in 0 .. MaxLosses
    BY <1>2, <2>1, <2>3, SendCounts DEF FirstQuery, DnsTypeOK
  <2>5. DnsTypeOK'
    BY <1>2, <2>3, <2>4 DEF FirstQuery, Handled, DnsTypeOK
  <2> QED BY <1>1, <1>4, <2>4, <2>5
<1>3. CASE Wait(c)
  <2>1. /\ retries' \in [Conns -> 0 .. MaxRetries + 1]
        /\ retries' = [retries EXCEPT ![c] = retries'[c]]
        /\ queued' \ {c} = queued \ {c} /\ queued' \subseteq Conns
        /\ sock' = [sock EXCEPT ![c] = sock'[c]] /\ sock'[c] \in {"open", "closing"}
        /\ late' \subseteq Conns
    BY <1>3, MqttResolverAssumption DEF Wait, Polled, Query, DnsTypeOK
  <2>2. AllCounted' /\ asked' \in [Conns -> 0 .. MaxRetries + 1] /\ losses' \in 0 .. MaxLosses
    <3>1. CASE c \in queued
      <4>1. /\ asked[c] + 1 <= retries'[c]
            /\ c \notin queued' \/ asked[c] + 2 <= retries'[c]
        BY <1>3, <3>1 DEF Wait, Polled, Query, AllCounted, Counted, DnsTypeOK
      <4> QED BY <1>3, <2>1, <3>1, <4>1, SendCounts DEF Wait
    <3>2. CASE c \notin queued
      BY <1>3, <2>1, <3>2 DEF Wait, Polled, Query, AllCounted, Counted, DnsTypeOK
    <3> QED BY <3>1, <3>2
  <2>3. DnsTypeOK'
    <3>1. UNCHANGED <<requests, reply>> /\ dnstodo' = dnstodo \ {c}
      BY <1>3 DEF Wait, Handled
    <3>2. sock' \in [Conns -> {"none", "connecting", "open", "closing"}]
      BY <2>1 DEF DnsTypeOK
    <3> QED BY <2>1, <2>2, <3>1, <3>2 DEF DnsTypeOK
  <2> QED BY <1>1, <1>4, <2>2, <2>3
<1> QED BY <1>2, <1>3

LEMMA NextDns == LinkPart /\ DnsInv /\ [NextAll]_allvars => DnsInv'
<1> SUFFICES ASSUME LinkPart, DnsInv, [NextAll]_allvars PROVE DnsInv'
  OBVIOUS
<1>0. /\ DnsTypeOK /\ AllCounted /\ OpenWaits /\ Swept /\ requests \subseteq Sockets
      /\ requests = Phase("resolving") /\ phase \in [Conns -> Phases]
  BY DEF LinkPart, IInv, TypeOK, ConnTypes, DnsInv, LookupHasTarget
<1>1. CASE /\ UNCHANGED dns /\ Phase("resolving")' = Phase("resolving")
           /\ pc \in {"handle", "sweep", "exited"}
              => pc' \in {"handle", "sweep", "exited"} \/ Closing = {}
  BY <1>0, <1>1 DEF DnsInv, OpenWaits, Swept, Closing, DnsTypeOK, AllCounted, Counted, LookupHasTarget, Sockets,
                    dns, request, server
<1>2. ASSUME NEW c \in Conns, Address(c) \/ NoAddress(c) \/ Useless(c) PROVE DnsInv'
  <2>1. /\ requests' = requests \/ requests' = requests \ {c}
        /\ requests' = Phase("resolving")' /\ pc' = pc
    BY <1>0, <1>2 DEF Address, NoAddress, Useless, Done, Resolved, ResolveFailed, Close,
                      Phase, vars, conn
  <2> QED BY <1>0, <1>2, <2>1, ReadKeeps DEF Address, NoAddress, Useless
<1>3. ASSUME NEW c \in Conns, SweepDns(c) PROVE DnsInv'
  <2>1. requests' = Phase("resolving")' /\ pc' = pc
    BY <1>0, <1>3 DEF SweepDns, Forget, ResolveFailed, Close, Phase, vars, conn
  <2> QED BY <1>0, <1>3, <2>1, ForgetKeeps DEF SweepDns
<1>4. CASE FreeConn
  <2>1. PICK c : Close(c)
    BY <1>4 DEF FreeConn, CloseAll
  <2>2. requests' = Phase("resolving")' /\ pc' = pc
    BY <1>0, <1>4, <2>1 DEF FreeConn, Forget, Close, Phase, Phases
  <2> QED BY <1>0, <1>4, <2>2, ForgetKeeps DEF FreeConn
<1>5. CASE Start
  <2>1. \A c \in Conns : phase'[c] # phase[c] => phase[c] = "free" /\ phase'[c] = "resolving"
    <3>1. ASSUME NEW d \in Conns, MgConnect(d) PROVE phase' = [phase EXCEPT ![d] = "resolving"]
      BY <3>1, MqttResolverAssumption DEF MgConnect
    <3>2. ASSUME NEW d \in Conns, MgConnect(d) PROVE phase[d] = "free"
      BY <3>2 DEF MgConnect, Phase
    <3>3. CASE StartMqttFails
      BY <3>3 DEF StartMqttFails, conn
    <3> QED BY <1>0, <1>5, <3>1, <3>2, <3>3 DEF Start, Setup, Reconnect, StartMqtt
  <2> DEFINE new == {c \in Conns : phase[c] = "free" /\ phase'[c] = "resolving"}
  <2>2. \A c \in new : c \notin requests
    BY <1>0 DEF Phase
  <2>3. requests' = Phase("resolving")' /\ requests' \subseteq Sockets'
    BY <1>0, <1>5, <2>1 DEF Start, Phase, Sockets
  <2>4. DnsTypeOK'
    BY <1>0, <1>5 DEF Start, DnsTypeOK, server
  <2>5. AllCounted'
    <3>1. \A c \in new : sock[c] = "none"
      BY <1>0, <1>5, <2>2 DEF Start, Setup, Reconnect, OpenWaits, Swept, Closing, DnsTypeOK
    <3>2. UNCHANGED <<retries, queued, asked>>
      BY <1>5 DEF Start, server
    <3>3. \A c \in Conns : sock'[c] = IF c \in new THEN "connecting" ELSE sock[c]
      BY <1>5 DEF Start
    <3> QED BY <1>0, <3>1, <3>2, <3>3 DEF AllCounted, Counted
  <2>6. OpenWaits' /\ Swept'
    BY <1>0, <1>5 DEF Start, Setup, Reconnect, OpenWaits, Swept, Closing, DnsTypeOK
  <2> QED BY <2>3, <2>4, <2>5, <2>6 DEF DnsInv, LookupHasTarget
<1>6. CASE SelectAll
  BY <1>0, <1>6 DEF SelectAll, Select, DnsInv, OpenWaits, Swept, Closing, DnsTypeOK, AllCounted, Counted, LookupHasTarget,
                    Sockets, Phase, conn, request, server
<1>7. CASE Unconcerned
  <2>1. ASSUME NEW c, \/ Connected(c) \/ ReadError(c) \/ ReadWrite(c)
        PROVE Phase("resolving")' = Phase("resolving")
    BY <1>0, <2>1 DEF Connected, ReadError, ReadWrite, Phase
  <2>2. CASE HandleConn
    BY <1>1, <1>7, <2>1, <2>2 DEF Unconcerned, HandleConn, conn, Phase
  <2>3. CASE SweepConn
    <3>1. PICK i \in 1 .. Len(active) : MustClose(active[i]) /\ Close(active[i])
      BY <2>3 DEF SweepConn
    <3>2. active[i] \in Conns => phase[active[i]] # "resolving"
      BY <3>1 DEF MustClose, LinkPart, FlagMeansOpen
    <3>3. Phase("resolving")' = Phase("resolving")
      BY <1>0, <3>1, <3>2 DEF Close, Phase
    <3> QED BY <1>1, <1>7, <2>3, <3>1, <3>3 DEF Unconcerned, SweepConn, Close
  <2>4. CASE ~HandleConn /\ ~SweepConn
    BY <1>1, <1>7, <2>4 DEF Unconcerned, KeepGoing, ReadKnob, ReadButton, LeaveLoop, Exit,
                            Input, SendMqttMsg, conn, Phase
  <2> QED BY <2>2, <2>3, <2>4
<1>8. CASE EndHandleAll \/ EndSweepAll \/ Outside \/ UNCHANGED allvars
  BY <1>1, <1>8 DEF EndHandleAll, EndHandle, EndSweepAll, EndSweep, Outside, Network, TcpUp,
                    TcpError, BrokerAccepts, BrokerRefusesIt, BrokerReads, BrokerRestarts,
                    Env, Signal, Exited, allvars, vars, conn, Phase
<1>9. ASSUME NEW c \in Conns, \/ Answer(c) \/ BadAnswer(c) \/ TimePasses(c) \/ AnswerDelayed(c)
      PROVE DnsInv'
  <2>1. LookupHasTarget'
    BY <1>0, <1>9 DEF Answer, BadAnswer, TimePasses, AnswerDelayed, Ages, Around, vars, conn,
                      request, LookupHasTarget, Sockets, Phase
  <2>2. OpenWaits' /\ Swept'
    BY <1>0, <1>9 DEF Answer, BadAnswer, TimePasses, AnswerDelayed, Ages, Around, vars, request,
                      OpenWaits, Swept, Closing
  <2>3. CASE Answer(c) \/ BadAnswer(c)
    <3>1. asked' = [asked EXCEPT ![c] = @ - 1] /\ asked[c] > 0
      BY <2>3 DEF Answer, BadAnswer
    <3>2. AllCounted'
      BY <1>0, <2>3, <3>1 DEF Answer, BadAnswer, Around, request, AllCounted, Counted, DnsTypeOK
    <3>3. reply' \in [Conns -> {"none"} \cup Readings]
      BY <1>0, <2>3 DEF Answer, BadAnswer, Readings, DnsTypeOK
    <3>4. asked' \in [Conns -> 0 .. MaxRetries + 1]
      BY <1>0, <3>1, MqttResolverAssumption DEF DnsTypeOK
    <3>5. DnsTypeOK'
      BY <1>0, <2>3, <3>3, <3>4 DEF Answer, BadAnswer, Around, request, DnsTypeOK
    <3> QED BY <2>1, <2>2, <3>2, <3>5 DEF DnsInv
  <2>4. CASE TimePasses(c) \/ AnswerDelayed(c)
    <3>1. AllCounted'
      BY <1>0, <2>4 DEF TimePasses, AnswerDelayed, Ages, AllCounted, Counted
    <3>2. DnsTypeOK'
      BY <1>0, <2>4, MqttResolverAssumption DEF TimePasses, AnswerDelayed, Ages, Loss, DnsTypeOK
    <3> QED BY <2>1, <2>2, <3>1, <3>2 DEF DnsInv
  <2> QED BY <1>9, <2>3, <2>4
<1> QED
  BY <1>2, <1>3, <1>4, <1>5, <1>6, <1>7, <1>8, <1>9, QueryStep DEF NextAll, MainAll

LEMMA DnsHolds == SpecAll => []DnsInv
<1>1. InitDns => DnsInv
  BY MqttResolverAssumption DEF InitDns, Init, DnsInv, DnsTypeOK, LookupHasTarget, AllCounted,
                                Counted, OpenWaits, Swept, Closing, Sockets, Phase
<1>2. LinkPart /\ DnsInv /\ [NextAll]_allvars => DnsInv'
  BY NextDns
<1> QED BY <1>1, <1>2, LinkHolds, PTL DEF SpecAll

\* Sockets, requests, buffers and counters of the lookups keep their types: no
\* request is repeated more often than its retries allow (mongoose.c:11514).
THEOREM DnsTypeCorrect == SpecAll => []DnsTypeOK
BY DnsHolds, PTL DEF DnsInv

\* resolve_cb is called once for each connection that waits for its lookup,
\* and never for one that is gone (mongoose.c:11529, 11559).
THEOREM RequestHasTarget == SpecAll => []LookupHasTarget
BY DnsHolds, PTL DEF DnsInv
=============================================================================
