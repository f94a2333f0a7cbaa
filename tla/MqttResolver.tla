---------------------------- MODULE MqttResolver ----------------------------
(***************************************************************************)
(* MqttLink with mongoose's asynchronous resolver in the place of its two  *)
(* steps Resolved and ResolveFailed.  A connection to a host name waits    *)
(* for a second connection, over UDP, that sends the query, repeats it     *)
(* every five seconds, and gives up (mg_resolve_async_eh, resolve_cb).     *)
(*                                                                         *)
(* Both kinds of connection sit in mgr->active_connections.  The order of  *)
(* the UDP ones among the others is left open: no handler sees it.         *)
(***************************************************************************)
EXTENDS MqttLink

CONSTANTS
  MaxRetries,    \* max_retries, 2 in the code
  MaxLosses      \* bound: datagrams lost, or answered too late

ASSUME MqttResolverAssumption ==
  MaxRetries \in Nat \ {0} /\ MaxLosses \in Nat /\ HostIsName

VARIABLES
  sock,      \* the UDP connection of each connection that has one
  requests,  \* connections whose request is the user_data of that one
  retries,   \* queries made for a request
  queued,    \* where a query is in send_mbuf
  late,      \* where five seconds have passed since last_time
  dnstodo,   \* UDP connections the first loop of the poll has still to handle
  asked,     \* queries that the name server may still answer
  reply,     \* the answer that recvfrom() will return
  losses     \* datagrams that may still be lost or late

request == <<requests, retries, queued, late>>
server == <<asked, reply, losses>>
dns == <<sock, request, dnstodo, server>>
allvars == <<vars, dns>>

InitDns ==
  /\ Init
  /\ sock = [c \in Conns |-> "none"] /\ retries = [c \in Conns |-> 0]
  /\ requests = {} /\ queued = {} /\ late = {} /\ dnstodo = {}
  /\ asked = [c \in Conns |-> 0] /\ reply = [c \in Conns |-> "none"]
  /\ losses = MaxLosses

Sockets == {c \in Conns : sock[c] # "none"}
Closing == {c \in Conns : sock[c] = "closing"}

\* UDP connections are removed, with their requests and whatever was under way.
Forget(cs) ==
  /\ sock' = [c \in Conns |-> IF c \in cs THEN "none" ELSE sock[c]]
  /\ retries' = [c \in Conns |-> IF c \in cs THEN 0 ELSE retries[c]]
  /\ requests' = requests \ cs /\ queued' = queued \ cs /\ late' = late \ cs
  /\ asked' = [c \in Conns |-> IF c \in cs THEN 0 ELSE asked[c]]
  /\ reply' = [c \in Conns |-> IF c \in cs THEN "none" ELSE reply[c]]
  /\ UNCHANGED <<dnstodo, losses>>

-----------------------------------------------------------------------------
(* The event handler of the UDP connection.                                *)

\* What parsing a datagram comes to: an A record among the answers, other
\* answers only, or none (a malformed message included).
Readings == {"address", "noaddress", "useless"}

\* recvfrom(): one datagram is taken, and its reading is r.  The connection
\* is flagged for closing whatever it says.
Read(c, r) ==
  /\ reply[c] = r
  /\ reply' = [reply EXCEPT ![c] = "none"]
  /\ sock' = [sock EXCEPT ![c] = "closing"]
  /\ UNCHANGED <<asked, losses, retries, queued, late>>

\* Mutant: the request stays in user_data after its callback.
Done_KeepsRequest(c) == UNCHANGED requests

\* The request is freed, and user_data cleared.
Done(c) == requests' = requests \ {c}

\* mg_send_dns_query, and the time and number of the query.
Query(c) == late' = late \ {c} /\ retries' = [retries EXCEPT ![c] = @ + 1]

\* Mutant: a silent server is not asked again.
Polled_NoResend(c) ==
  /\ sock' = IF retries[c] > MaxRetries THEN [sock EXCEPT ![c] = "closing"] ELSE sock
  /\ queued' = queued \ {c}
  /\ UNCHANGED <<retries, late>>

\* Mutant: one query more than the retries allow.
Polled_OneMore(c) ==
  \/ /\ retries[c] > MaxRetries + 1
     /\ sock' = [sock EXCEPT ![c] = "closing"]
     /\ queued' = queued \ {c}
     /\ UNCHANGED <<retries, late>>
  \/ /\ retries[c] <= MaxRetries + 1 /\ c \in late
     /\ Query(c) /\ queued' = queued \cup {c}
     /\ UNCHANGED sock
  \/ /\ retries[c] <= MaxRetries + 1 /\ c \notin late
     /\ queued' = queued \ {c}
     /\ UNCHANGED <<sock, retries, late>>

\* MG_EV_POLL after the write: give up, queue the query again, or wait.
Polled(c) ==
  \/ /\ retries[c] > MaxRetries
     /\ sock' = [sock EXCEPT ![c] = "closing"]
     /\ queued' = queued \ {c}
     /\ UNCHANGED <<retries, late>>
  \/ /\ retries[c] <= MaxRetries /\ c \in late
     /\ Query(c) /\ queued' = queued \cup {c}
     /\ UNCHANGED sock
  \/ /\ retries[c] <= MaxRetries /\ c \notin late
     /\ queued' = queued \ {c}
     /\ UNCHANGED <<sock, retries, late>>

\* A failure may come of it, so one must be left for it.
Loss == losses > 0 /\ faults > 0 /\ losses' = losses - 1

\* sendto(): a query leaves, or is lost at once; MG_EV_SEND empties the buffer
\* and takes back the close that a failed send asked for.
Send(c) ==
  \/ asked' = [asked EXCEPT ![c] = @ + 1] /\ UNCHANGED losses
  \/ Loss /\ UNCHANGED asked

Handled(c) == pc = "handle" /\ c \in dnstodo /\ dnstodo' = dnstodo \ {c}

\* First pass: MG_EV_CONNECT queues the query, which leaves in the same call.
FirstQuery(c) ==
  /\ Handled(c) /\ sock[c] = "connecting"
  /\ sock' = [sock EXCEPT ![c] = "open"]
  /\ Query(c) /\ Send(c)
  /\ UNCHANGED <<vars, requests, queued, reply>>

\* A pass without an answer: what is queued is written, then MG_EV_POLL.
Wait(c) ==
  /\ Handled(c) /\ sock[c] = "open" /\ reply[c] = "none"
  /\ IF c \in queued THEN Send(c) ELSE UNCHANGED <<asked, losses>>
  /\ Polled(c)
  /\ UNCHANGED <<vars, requests, reply>>

\* An answer with an address: resolve_cb starts the TCP connect.
Address(c) == Handled(c) /\ Read(c, "address") /\ Resolved(c) /\ Done(c)

\* Answers, but no address among them: resolve_cb reports the failure.
NoAddress(c) == Handled(c) /\ Read(c, "noaddress") /\ ResolveFailed(c) /\ Done(c)

\* No answers, or not a DNS message: the request is left to MG_EV_CLOSE.
Useless(c) == Handled(c) /\ Read(c, "useless") /\ UNCHANGED <<vars, requests>>

\* mg_close_conn; MG_EV_CLOSE reports the failure of a request not done.
SweepDns(c) ==
  /\ pc = "sweep" /\ c \in Closing
  /\ IF c \in requests THEN ResolveFailed(c) ELSE UNCHANGED vars
  /\ Forget({c})

-----------------------------------------------------------------------------
(* The steps of MqttLink that have to do with lookups.                     *)

\* start_mqtt of a host name starts a lookup.
Start ==
  /\ Setup \/ Reconnect
  /\ LET new == {c \in Conns : phase[c] = "free" /\ phase'[c] = "resolving"}
     IN  /\ sock' = [c \in Conns |-> IF c \in new THEN "connecting" ELSE sock[c]]
         /\ requests' = requests \cup new
  /\ UNCHANGED <<retries, queued, late, dnstodo, server>>

SelectAll == Select /\ dnstodo' = Sockets /\ UNCHANGED <<sock, request, server>>
EndHandleAll == dnstodo = {} /\ EndHandle /\ UNCHANGED dns
EndSweepAll == Closing = {} /\ EndSweep /\ UNCHANGED dns

\* mg_mgr_free closes the UDP connections with the others.
FreeConn == CloseAll /\ Forget({c \in Conns : phase'[c] = "free"})

\* The steps that have nothing to do with them.
Unconcerned ==
  /\ \/ KeepGoing \/ ReadKnob \/ ReadButton \/ LeaveLoop
     \/ HandleConn \/ SweepConn \/ Exit
  /\ UNCHANGED dns

MainAll ==
  \/ Start \/ SelectAll \/ EndHandleAll \/ EndSweepAll \/ FreeConn \/ Unconcerned
  \/ \E c \in Conns : \/ FirstQuery(c) \/ Wait(c)
                      \/ Address(c) \/ NoAddress(c) \/ Useless(c) \/ SweepDns(c)

-----------------------------------------------------------------------------
(* The name server and the clock.                                          *)

Around == UNCHANGED <<vars, sock, request, dnstodo, losses>>

Answer(c) ==
  /\ asked[c] > 0 /\ reply[c] = "none" /\ c \in Sockets \ Closing
  /\ reply' = [reply EXCEPT ![c] = "address"]
  /\ asked' = [asked EXCEPT ![c] = @ - 1]
  /\ Around

BadAnswer(c) ==
  /\ asked[c] > 0 /\ reply[c] = "none" /\ c \in Sockets \ Closing /\ faults > 0
  /\ reply' \in {[reply EXCEPT ![c] = r] : r \in Readings \ {"address"}}
  /\ asked' = [asked EXCEPT ![c] = @ - 1]
  /\ Around

\* The clock of a request that waits in vain.
Ages(c) ==
  /\ sock[c] = "open" /\ c \notin queued \cup late /\ reply[c] = "none"
  /\ late' = late \cup {c}
  /\ UNCHANGED <<vars, sock, requests, retries, queued, dnstodo, asked, reply>>

\* Five seconds since the last query, none of which is under way.
TimePasses(c) == asked[c] = 0 /\ Ages(c) /\ UNCHANGED losses

\* Five seconds although an answer may still come.
AnswerDelayed(c) == asked[c] > 0 /\ Ages(c) /\ Loss

Outside ==
  /\ \/ \E c \in Conns : Network(c)
     \/ BrokerRestarts \/ Signal \/ Exited
  /\ UNCHANGED dns

NextAll ==
  \/ MainAll
  \/ \E c \in Conns : Answer(c) \/ BadAnswer(c) \/ TimePasses(c) \/ AnswerDelayed(c)
  \/ Outside

\* The thread keeps running; the name server, TCP and the broker answer what
\* reaches them; time passes.
FairnessAll ==
  /\ WF_allvars(MainAll)
  /\ \A c \in Conns :
       /\ WF_allvars(Answer(c)) /\ WF_allvars(TimePasses(c))
       /\ WF_allvars(TcpUp(c) /\ UNCHANGED dns)
       /\ WF_allvars(BrokerAccepts(c) /\ UNCHANGED dns)
       /\ WF_allvars(BrokerReads(c) /\ UNCHANGED dns)

SpecAll == InitDns /\ [][NextAll]_allvars /\ FairnessAll

-----------------------------------------------------------------------------
\* Type invariant of the resolver's part.
DnsTypeOK ==
  /\ sock \in [Conns -> {"none", "connecting", "open", "closing"}]
  /\ requests \subseteq Conns /\ queued \subseteq Conns /\ late \subseteq Conns
  /\ dnstodo \subseteq Conns
  /\ retries \in [Conns -> 0 .. MaxRetries + 1]
  /\ asked \in [Conns -> 0 .. MaxRetries + 1]
  /\ reply \in [Conns -> {"none"} \cup Readings]
  /\ losses \in 0 .. MaxLosses

\* resolve_cb writes to the connection that the request points to, without
\* knowing whether it still exists: a request is alive exactly while that
\* connection waits for it, so the callback runs once, on memory not freed
\* (mongoose.c:11529, 11559, 2808).
LookupHasTarget ==
  requests = Phase("resolving") /\ requests \subseteq Sockets

\* The queries, retries and timeouts come to what MqttLink says of a lookup:
\* it ends in one address or one reported failure, whatever is lost or late,
\* and is never left open (fairness of Resolved included).
ImplementsLink == Spec
=============================================================================
