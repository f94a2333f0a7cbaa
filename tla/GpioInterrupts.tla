--------------------------- MODULE GpioInterrupts ---------------------------
(***************************************************************************)
(* Interrupts of GPIO_Pi.c in the build without sysfs: application threads *)
(* that register and unregister pins, the poller thread interruptHandler   *)
(* that walks the list of registrations every 10 ms, and one thread        *)
(* GPIOinterruptHandler per registration that makes its callbacks.         *)
(*                                                                         *)
(* The threads share the list, _ever and the nodes.  _gpioRegisterMutex is *)
(* taken by the callers only; a node's own mutex by nobody but its handler *)
(* (unregister unlocks it without holding it), so it orders nothing and    *)
(* is left out.  cond_signal wakes a handler that waits, and is otherwise  *)
(* lost.  A node is used once: its memory is not given out again.          *)
(***************************************************************************)
EXTENDS Integers, FiniteSets

CONSTANTS
  Callers,      \* application threads
  Nodes,        \* memory for struct GPIOinterupt (bounds the registrations)
  Pollers,      \* names for poller threads
  Pins, Edges,  \* arguments of the calls; Edges is a subset of EdgeModes
  NULL,
  Unregisters,  \* unregisterGPIOinterrupt is called too
  MaxFlips,     \* bound: changes of a pin's level
  MaxShutdowns  \* bound: calls of gpioShutdown (0 or 1)

EdgeModes == {"falling", "rising", "both"}

ASSUME GpioInterruptsAssumption ==
  /\ IsFiniteSet(Nodes) /\ NULL \notin Nodes \cup Callers \cup Pins
  /\ Edges \subseteq EdgeModes /\ Unregisters \in BOOLEAN
  /\ MaxFlips \in Nat /\ MaxShutdowns \in {0, 1}

VARIABLES
  ever,            \* _ever
  level, flips,    \* what the pins read, changes so far
  mutex,           \* _gpioRegisterMutex: the caller that holds it
  at, arg, mine,   \* where each caller is, its pin, its node (interupt, d_ptr)
  head, next,      \* _GPIOinterupts and the next pointers
  pin, edge, last, running, \* fields of the nodes (lastValue)
  memory,          \* "free", "live" or, after the handler's free(), "freed"
  handler,         \* where each node's thread is; "none" while threadId is 0
  poller_id,       \* _interruptHandlerThreadId is not 0
  poller, i_ptr,   \* where each poller is, its i_ptr
  fault            \* "null" or "freed" once such a pointer was used

pins == <<ever, level, flips>>
caller == <<mutex, at, arg, mine>>
list == <<head, next>>
field == <<pin, edge, last, running, memory>>
poll == <<poller_id, poller, i_ptr>>
vars == <<pins, caller, list, field, handler, poll, fault>>

Init ==
  /\ ever = TRUE /\ level = [p \in Pins |-> 1] /\ flips = 0
  /\ mutex = NULL
  /\ at = [c \in Callers |-> "idle"]
  /\ arg = [c \in Callers |-> NULL] /\ mine = [c \in Callers |-> NULL]
  /\ head = NULL /\ next = [n \in Nodes |-> NULL]
  /\ pin = [n \in Nodes |-> NULL] /\ edge = [n \in Nodes |-> NULL]
  /\ last = [n \in Nodes |-> 0] /\ running = [n \in Nodes |-> FALSE]
  /\ memory = [n \in Nodes |-> "free"]
  /\ handler = [n \in Nodes |-> "none"]
  /\ poller_id = FALSE
  /\ poller = [t \in Pollers |-> "none"] /\ i_ptr = [t \in Pollers |-> NULL]
  /\ fault = "none"

-----------------------------------------------------------------------------
DigitalRead(p) == IF ever THEN level[p] ELSE -2

\* The list as a walk from _GPIOinterupts sees it.
Nth[k \in Nat] ==
  IF k = 0 THEN head ELSE IF Nth[k - 1] = NULL THEN NULL ELSE next[Nth[k - 1]]
Positions == {k \in 0 .. Cardinality(Nodes) - 1 : Nth[k] # NULL}
Listed == {Nth[k] : k \in Positions}

\* A walk over the list reads every node on its way.
Walks == fault' = IF \E n \in Listed : memory[n] = "freed" THEN "freed" ELSE fault

\* A step that uses node n.
Uses(n) == fault' = IF n = NULL THEN "null"
                    ELSE IF memory[n] = "freed" THEN "freed" ELSE fault

\* pthread_cond_signal
Signal(n) ==
  handler' = IF handler[n] = "wait" THEN [handler EXCEPT ![n] = "check"] ELSE handler

\* A program that used a bad pointer is not followed further.
Sane == fault = "none"

Goes(c, here, there) == Sane /\ at[c] = here /\ at' = [at EXCEPT ![c] = there]

Unlock(c) == IF mutex = c THEN NULL ELSE mutex

-----------------------------------------------------------------------------
(* registerGPIOinterrupt *)

\* The checks of the pin and of GPIOrunning come before the lock.
Register(c, p) ==
  /\ Goes(c, "idle", "register") /\ ever
  /\ \E n \in Nodes : memory[n] = "free"
  /\ arg' = [arg EXCEPT ![c] = p]
  /\ UNCHANGED <<pins, mutex, mine, list, field, handler, poll, fault>>

\* Mutant: the function is not locked.
Lock_Not(c, here, there) ==
  /\ Goes(c, here, there)
  /\ UNCHANGED <<pins, mutex, arg, mine, list, field, handler, poll, fault>>

Lock(c, here, there) ==
  /\ mutex = NULL /\ Goes(c, here, there)
  /\ mutex' = c
  /\ UNCHANGED <<pins, arg, mine, list, field, handler, poll, fault>>

\* calloc and the fields.
NewNode(c) ==
  /\ Goes(c, "new", "link")
  /\ \E n \in Nodes, e \in Edges :
       /\ memory[n] = "free"
       /\ memory' = [memory EXCEPT ![n] = "live"]
       /\ pin' = [pin EXCEPT ![n] = arg[c]] /\ edge' = [edge EXCEPT ![n] = e]
       /\ last' = [last EXCEPT ![n] = DigitalRead(arg[c])]
       /\ mine' = [mine EXCEPT ![c] = n]
  /\ UNCHANGED <<pins, mutex, arg, list, running, handler, poll, fault>>

\* The walk to the end of the list: its last node, or NULL when it is empty.
Walk(c) ==
  /\ Goes(c, "link", "append")
  /\ Walks
  /\ arg' = [arg EXCEPT ![c] = IF head = NULL THEN NULL
                               ELSE CHOOSE n \in Listed : next[n] = NULL]
  /\ UNCHANGED <<pins, mutex, mine, list, field, handler, poll>>

Attach(c) ==
  /\ Goes(c, "append", "start")
  /\ IF arg[c] = NULL
     THEN head' = mine[c] /\ UNCHANGED next
     ELSE next' = [next EXCEPT ![arg[c]] = mine[c]] /\ UNCHANGED head
  /\ UNCHANGED <<pins, mutex, arg, mine, field, handler, poll, fault>>

\* Mutants: a poller for every registration, or for the first one only.
StartPoller_Always(c) ==
  /\ Goes(c, "start", "unlock")
  /\ \E t \in Pollers : poller[t] = "none" /\ poller' = [poller EXCEPT ![t] = "loop"]
  /\ poller_id' = TRUE
  /\ UNCHANGED <<pins, mutex, arg, mine, list, field, handler, i_ptr, fault>>
StartPoller_Never(c) ==
  /\ Goes(c, "start", "unlock")
  /\ UNCHANGED <<pins, mutex, arg, mine, list, field, handler, poll, fault>>

StartPoller(c) ==
  /\ Goes(c, "start", "unlock")
  /\ IF poller_id
     THEN UNCHANGED <<poller_id, poller>>
     ELSE /\ \E t \in Pollers :
               poller[t] = "none" /\ poller' = [poller EXCEPT ![t] = "loop"]
          /\ poller_id' = TRUE
  /\ UNCHANGED <<pins, mutex, arg, mine, list, field, handler, i_ptr, fault>>

Return(c) ==
  /\ Goes(c, "unlock", "idle")
  /\ mutex' = Unlock(c)
  /\ mine' = [mine EXCEPT ![c] = NULL] /\ arg' = [arg EXCEPT ![c] = NULL]
  /\ UNCHANGED <<pins, list, field, handler, poll, fault>>

-----------------------------------------------------------------------------
(* unregisterGPIOinterrupt *)

Unregister(c, p) ==
  /\ Unregisters /\ Goes(c, "idle", "unregister")
  /\ arg' = [arg EXCEPT ![c] = p]
  /\ UNCHANGED <<pins, mutex, mine, list, field, handler, poll, fault>>

\* Where the search finds the pin.
Found(p) == {k \in Positions : pin[Nth[k]] = p}

Unlink(c) ==
  /\ Goes(c, "find", "stop")
  /\ Walks
  /\ \E k \in Found(arg[c]) :
       /\ \A j \in Found(arg[c]) : k <= j
       /\ mine' = [mine EXCEPT ![c] = Nth[k]]
       /\ IF k = 0
          THEN head' = next[Nth[k]] /\ UNCHANGED next
          ELSE next' = [next EXCEPT ![Nth[k - 1]] = next[Nth[k]]] /\ UNCHANGED head
  /\ UNCHANGED <<pins, mutex, arg, field, handler, poll>>

\* Not found: the function returns with the mutex locked.
NotFound(c) ==
  /\ Goes(c, "find", "idle") /\ Found(arg[c]) = {} /\ head # NULL
  /\ Walks
  /\ arg' = [arg EXCEPT ![c] = NULL]
  /\ UNCHANGED <<pins, mutex, mine, list, field, handler, poll>>

\* Nothing is registered: _GPIOinterupts->pin.
FindInEmptyList(c) ==
  /\ Sane /\ at[c] = "find" /\ head = NULL
  /\ Uses(NULL)
  /\ UNCHANGED <<pins, caller, list, field, handler, poll>>

Stop(c) ==
  /\ Goes(c, "stop", "signal")
  /\ Uses(mine[c])
  /\ running' = [running EXCEPT ![mine[c]] = FALSE]
  /\ UNCHANGED <<pins, mutex, arg, mine, list, pin, edge, last, memory, handler, poll>>

\* pthread_cond_signal and pthread_mutex_unlock on the node.
WakeToStop(c) ==
  /\ Goes(c, "signal", "unlock")
  /\ Uses(mine[c]) /\ Signal(mine[c])
  /\ UNCHANGED <<pins, mutex, arg, mine, list, field, poll>>

GpioShutdown ==
  /\ Sane /\ ever /\ MaxShutdowns > 0
  /\ ever' = FALSE
  /\ UNCHANGED <<level, flips, caller, list, field, handler, poll, fault>>

-----------------------------------------------------------------------------
(* interruptHandler, the poller. *)

PollerGoes(t, here, there) ==
  Sane /\ poller[t] = here /\ poller' = [poller EXCEPT ![t] = there]

\* The head of both of its loops: i_ptr starts at the list.
Loop(t) ==
  /\ PollerGoes(t, "loop", IF ever /\ head # NULL THEN "create" ELSE "wake")
  /\ i_ptr' = [i_ptr EXCEPT ![t] = head]
  /\ UNCHANGED <<pins, caller, list, field, handler, poller_id, fault>>

CreateHandler(t) ==
  /\ PollerGoes(t, "create", "read")
  /\ Uses(i_ptr[t])
  /\ handler' = IF handler[i_ptr[t]] = "none"
                THEN [handler EXCEPT ![i_ptr[t]] = "start"] ELSE handler
  /\ UNCHANGED <<pins, caller, list, field, poller_id, i_ptr>>

\* lastValue follows the pin; a read that fails looks like a change too.
Changed(n) == last[n] # DigitalRead(pin[n])

\* Mutant: counted on instead of toggled.
ReadPin_Increments(t) ==
  /\ PollerGoes(t, "read", IF Changed(i_ptr[t]) THEN "signal" ELSE "advance")
  /\ Uses(i_ptr[t])
  /\ last' = IF Changed(i_ptr[t]) THEN [last EXCEPT ![i_ptr[t]] = @ + 1] ELSE last
  /\ UNCHANGED <<pins, caller, list, pin, edge, running, memory, handler, poller_id, i_ptr>>

ReadPin(t) ==
  /\ PollerGoes(t, "read", IF Changed(i_ptr[t]) THEN "signal" ELSE "advance")
  /\ Uses(i_ptr[t])
  /\ last' = IF Changed(i_ptr[t])
             THEN [last EXCEPT ![i_ptr[t]] = IF @ = 0 THEN 1 ELSE 0] ELSE last
  /\ UNCHANGED <<pins, caller, list, pin, edge, running, memory, handler, poller_id, i_ptr>>

SignalEdge(t) ==
  /\ PollerGoes(t, "signal", "advance")
  /\ Uses(i_ptr[t]) /\ Signal(i_ptr[t])
  /\ UNCHANGED <<pins, caller, list, field, poller_id, i_ptr>>

\* i_ptr = i_ptr->next, in the polling loop and in the last one.
Advance(t) ==
  /\ \/ PollerGoes(t, "advance", IF next[i_ptr[t]] = NULL THEN "loop" ELSE "create")
     \/ PollerGoes(t, "next", "wake")
  /\ Uses(i_ptr[t])
  /\ i_ptr' = [i_ptr EXCEPT ![t] = next[i_ptr[t]]]
  /\ UNCHANGED <<pins, caller, list, field, handler, poller_id>>

\* The loop after the last poll wakes every handler, to let it end.
WakeHandler(t) ==
  /\ i_ptr[t] # NULL
  /\ PollerGoes(t, "wake", "next")
  /\ Uses(i_ptr[t]) /\ Signal(i_ptr[t])
  /\ UNCHANGED <<pins, caller, list, field, poller_id, i_ptr>>

EndPoller(t) ==
  /\ i_ptr[t] = NULL
  /\ PollerGoes(t, "wake", "none")
  /\ poller_id' = FALSE
  /\ UNCHANGED <<pins, caller, list, field, handler, i_ptr, fault>>

-----------------------------------------------------------------------------
(* GPIOinterruptHandler *)

HandlerGoes(n, here, there) ==
  /\ Sane /\ handler[n] = here /\ handler' = [handler EXCEPT ![n] = there]
  /\ UNCHANGED <<pins, caller, list, pin, edge, last, poll, fault>>

MayRun(n) == ever /\ running[n]

\* Mutant: the handler does not say that it runs.
Start_Silent(n) == HandlerGoes(n, "start", "test") /\ UNCHANGED <<running, memory>>

Start(n) ==
  /\ HandlerGoes(n, "start", "test")
  /\ running' = [running EXCEPT ![n] = TRUE]
  /\ UNCHANGED memory

Test(n) ==
  /\ HandlerGoes(n, "test", IF MayRun(n) THEN "enter" ELSE "end")
  /\ UNCHANGED <<running, memory>>

\* pthread_cond_wait: signals count from here on.
Wait(n) == HandlerGoes(n, "enter", "wait") /\ UNCHANGED <<running, memory>>

\* Mutant: INT_EDGE_BOTH is forgotten.
EdgeMatches_NotBoth(n) ==
  \/ edge[n] = "rising" /\ last[n] = 1
  \/ edge[n] = "falling" /\ last[n] = 0

EdgeMatches(n) ==
  \/ edge[n] = "both"
  \/ edge[n] = "rising" /\ last[n] = 1
  \/ edge[n] = "falling" /\ last[n] = 0

Check(n) ==
  /\ HandlerGoes(n, "check", IF MayRun(n) /\ EdgeMatches(n) THEN "callback" ELSE "test")
  /\ UNCHANGED <<running, memory>>

\* function(args) returns.
CallbackReturns(n) == HandlerGoes(n, "callback", "test") /\ UNCHANGED <<running, memory>>

\* free(arg), pthread_exit
End(n) ==
  /\ HandlerGoes(n, "end", "gone")
  /\ memory' = [memory EXCEPT ![n] = "freed"]
  /\ UNCHANGED running

-----------------------------------------------------------------------------
\* The hardware.
Flip(p) ==
  /\ Sane /\ flips < MaxFlips
  /\ level' = [level EXCEPT ![p] = 1 - @] /\ flips' = flips + 1
  /\ UNCHANGED <<ever, caller, list, field, handler, poll, fault>>

CallerStep(c) ==
  \/ Lock(c, "register", "new") \/ NewNode(c) \/ Walk(c) \/ Attach(c)
  \/ StartPoller(c) \/ Return(c)
  \/ Lock(c, "unregister", "find") \/ Unlink(c) \/ NotFound(c)
  \/ FindInEmptyList(c) \/ Stop(c) \/ WakeToStop(c)

PollerStep(t) ==
  \/ Loop(t) \/ CreateHandler(t) \/ ReadPin(t) \/ SignalEdge(t)
  \/ Advance(t) \/ WakeHandler(t) \/ EndPoller(t)

HandlerStep(n) ==
  \/ Start(n) \/ Test(n) \/ Wait(n) \/ Check(n) \/ CallbackReturns(n) \/ End(n)

Next ==
  \/ \E c \in Callers : CallerStep(c)
  \/ \E c \in Callers, p \in Pins : Register(c, p) \/ Unregister(c, p)
  \/ \E t \in Pollers : PollerStep(t)
  \/ \E n \in Nodes : HandlerStep(n)
  \/ \E p \in Pins : Flip(p)
  \/ GpioShutdown

\* Every thread runs; callbacks return.
Fairness ==
  /\ \A c \in Callers : WF_vars(CallerStep(c))
  /\ \A t \in Pollers : WF_vars(PollerStep(t))
  /\ \A n \in Nodes : WF_vars(HandlerStep(n))

Spec == Init /\ [][Next]_vars /\ Fairness
-----------------------------------------------------------------------------
\* Type invariant.
TypeOK ==
  /\ ever \in BOOLEAN /\ level \in [Pins -> {0, 1}] /\ flips \in 0 .. MaxFlips
  /\ mutex \in Callers \cup {NULL}
  /\ at \in [Callers -> {"idle", "register", "new", "link", "append", "start", "unlock",
                         "unregister", "find", "stop", "signal"}]
  /\ arg \in [Callers -> Pins \cup Nodes \cup {NULL}]
  /\ mine \in [Callers -> Nodes \cup {NULL}]
  /\ head \in Nodes \cup {NULL} /\ next \in [Nodes -> Nodes \cup {NULL}]
  /\ pin \in [Nodes -> Pins \cup {NULL}] /\ edge \in [Nodes -> EdgeModes \cup {NULL}]
  /\ last \in [Nodes -> {0, 1, -2}] /\ running \in [Nodes -> BOOLEAN]
  /\ memory \in [Nodes -> {"free", "live", "freed"}]
  /\ handler \in [Nodes -> {"none", "start", "test", "enter", "wait", "check",
                            "callback", "end", "gone"}]
  /\ poller_id \in BOOLEAN
  /\ poller \in [Pollers -> {"none", "loop", "create", "read", "signal", "advance",
                             "wake", "next"}]
  /\ i_ptr \in [Pollers -> Nodes \cup {NULL}]
  /\ fault \in {"none", "null", "freed"}

\* Two pollers would both flip lastValue and swallow edges: there is never more
\* than one, although it ends by itself when the list is empty and is started
\* again by whoever registers next (GPIO_Pi.c:959, 1003-1013).
OnePoller ==
  \A t, u \in Pollers : poller[t] # "none" /\ poller[u] # "none" => t = u

\* A registration leaves the list only by an unregister call that found it,
\* whatever calls run at the same time (GPIO_Pi.c:996-1001, 1028-1042).
NeverLost ==
  [][\A n \in Listed : n \in Listed' \/ \E c \in Callers : at[c] = "find" /\ mine'[c] = n]_vars

\* Poller and handlers use the nodes without a lock.  Only unregister and
\* gpioShutdown can make one of them use a node that is gone: a handler that was
\* not told to stop never frees its node, and nobody walks into an empty list
\* (GPIO_Pi.c:892-895, 915-917, 932-956, 999).
NodesStay == ~Unregisters /\ MaxShutdowns = 0 => fault = "none"

\* While somebody is registered there is a poller that goes on, or the caller that
\* starts one: the poller ends by itself, and clears the id that a registration
\* tests, only when the list is empty (GPIO_Pi.c:929-959, 1003-1013).
AlwaysPolled ==
  ~Unregisters /\ MaxShutdowns = 0 /\ head # NULL =>
    \/ \E t \in Pollers : poller[t] \in {"loop", "create", "read", "signal", "advance"}
    \/ \E c \in Callers : at[c] = "start"

\* Without unregister and shutdown every registration ends up followed: its
\* last value is the pin's and its handler waits for the next edge.
EventuallyFollowed ==
  <>[](\A n \in Nodes : memory[n] = "live" =>
         /\ n \in Listed
         /\ last[n] = level[pin[n]] /\ handler[n] = "wait")

\* An edge that the poller sees while the handler waits gets its callback, if
\* both edges were asked for; an edge seen while it is busy may be lost.
EdgeReported ==
  \A n \in Nodes, t \in Pollers :
    poller[t] = "signal" /\ i_ptr[t] = n /\ handler[n] = "wait" /\ edge[n] = "both"
      ~> handler[n] = "callback"

\* "Lock the function, this isn't thread safe." (GPIO_Pi.c:978, 1025): the lock
\* is for the function; a caller that is back from it does not hold it.
LockedOnlyInside == mutex # NULL => at[mutex] # "idle"

\* "Let's be safe, and let's hope we call this before the thread cleans itself
\* up." (GPIO_Pi.c:1035, 1045): the node is still there when unregister wakes
\* its handler and unlocks its mutex.
CalledBeforeCleanup == \A c \in Callers : at[c] = "signal" => memory[mine[c]] = "live"
=============================================================================
