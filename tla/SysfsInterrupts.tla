-------------------------- MODULE SysfsInterrupts ---------------------------
(***************************************************************************)
(* Interrupts of GPIO_Pi.c in the build with GPIO_SYSFS_INTERRUPT.  Each   *)
(* registration has a thread that opens the value file of its pin and      *)
(* polls it.  The caller hands over the arguments in a variable of its own *)
(* stack and stays in the call until the thread has set stuff.pin to -1.   *)
(* gpioShutdown closes the descriptors that the threads have noted in      *)
(* _sysFds; it may run in a signal handler, on any thread.                 *)
(***************************************************************************)
EXTENDS Integers, FiniteSets

CONSTANTS
  SysCallers, SysPins,
  SysThreads, \* threads of registrations (bounds the registrations)
  Fds,        \* descriptors (bound)
  MaxFds,     \* MAX_FDS
  MaxEdges    \* edges of the pins (bound)

ASSUME SysfsInterruptsAssumption ==
  /\ Fds \subseteq Nat /\ MaxFds \in Nat \ {0} /\ MaxEdges \in Nat
  /\ "closed" \notin SysThreads /\ "nobody" \notin SysCallers
  /\ SysPins \cap {"none", "taken", "gone"} = {}

VARIABLES
  up,        \* _ever
  pin_mutex, \* pinMutex: the caller that holds it, or "nobody"
  call,      \* where each caller is
  wanted,    \* its pin
  stuff,     \* stuff.pin of its call, "taken" for -1, "gone" without a call
  thread,    \* where each thread of a registration is
  by, got,   \* the caller whose stuff it was given, the pin it found there
  fd,        \* its descriptor
  on,        \* the file it polls, by the thread that opened that
  open,      \* the thread whose file each descriptor is, or "closed"
  slot, fds, \* where a thread is about to put its descriptor in _sysFds
  ready,     \* threads whose file poll would report
  edges,     \* edges so far
  closing    \* gpioShutdown: the next i, -1 before and MaxFds afterwards

callers == <<pin_mutex, call, wanted, stuff>>
files == <<fd, on, open, slot, fds>>
sysvars == <<up, callers, thread, by, got, files, ready, edges, closing>>

InitSysfs ==
  /\ up = TRUE /\ pin_mutex = "nobody"
  /\ call = [c \in SysCallers |-> "idle"] /\ wanted = [c \in SysCallers |-> "none"]
  /\ stuff = [c \in SysCallers |-> "gone"]
  /\ thread = [t \in SysThreads |-> "none"] /\ by = [t \in SysThreads |-> "nobody"]
  /\ got = [t \in SysThreads |-> "none"]
  /\ fd = [t \in SysThreads |-> -1] /\ on = [t \in SysThreads |-> "closed"]
  /\ open = [f \in Fds |-> "closed"]
  /\ slot = [t \in SysThreads |-> -1] /\ fds = [i \in 0 .. MaxFds - 1 |-> -1]
  /\ ready = {} /\ edges = 0 /\ closing = -1

-----------------------------------------------------------------------------
(* registerGPIOinterrupt; what it does to the pin is in GpioPins. *)

Calls(c, here, there) == call[c] = here /\ call' = [call EXCEPT ![c] = there]

\* There is a thread of the model left for this call.
ThreadLeft ==
  Cardinality({c \in SysCallers : call[c] \in {"lock", "create"}})
    < Cardinality({t \in SysThreads : thread[t] = "none"})

RegisterSysfs(c, p) ==
  /\ ThreadLeft /\ Calls(c, "idle", "lock")
  /\ wanted' = [wanted EXCEPT ![c] = p]
  /\ stuff' = [stuff EXCEPT ![c] = p]
  /\ UNCHANGED <<up, pin_mutex, thread, by, got, files, ready, edges, closing>>

LockPins(c) ==
  /\ pin_mutex = "nobody" /\ Calls(c, "lock", "create")
  /\ pin_mutex' = c
  /\ UNCHANGED <<up, wanted, stuff, thread, by, got, files, ready, edges, closing>>

\* pthread_create.  It reports an error by a positive number, which the code does
\* not take for one: the caller waits for a thread that does not exist.
CreateThread(c) ==
  /\ \/ \E t \in SysThreads :
          /\ Calls(c, "create", "wait")
          /\ thread[t] = "none" /\ thread' = [thread EXCEPT ![t] = "start"]
          /\ by' = [by EXCEPT ![t] = c]
     \/ Calls(c, "create", "spin") /\ UNCHANGED <<thread, by>>
  /\ UNCHANGED <<up, pin_mutex, wanted, stuff, got, files, ready, edges, closing>>

\* Mutant: the caller does not wait for the thread.
ReturnSysfs_AtOnce(c) ==
  /\ Calls(c, "wait", "idle")
  /\ pin_mutex' = "nobody"
  /\ stuff' = [stuff EXCEPT ![c] = "gone"]
  /\ UNCHANGED <<up, wanted, thread, by, got, files, ready, edges, closing>>

\* while (stuff.pin == pin), unlock, and the stack of the call is gone.
ReturnSysfs(c) ==
  /\ stuff[c] # wanted[c] /\ Calls(c, "wait", "idle")
  /\ pin_mutex' = "nobody"
  /\ stuff' = [stuff EXCEPT ![c] = "gone"]
  /\ UNCHANGED <<up, wanted, thread, by, got, files, ready, edges, closing>>

-----------------------------------------------------------------------------
(* interruptHandler *)

Runs(t, here, there) == thread[t] = here /\ thread' = [thread EXCEPT ![t] = there]

\* The arguments are copied, and the caller is told by stuff->pin = -1.
CopyStuff(t) ==
  /\ Runs(t, "start", "tell")
  /\ got' = [got EXCEPT ![t] = stuff[by[t]]]
  /\ UNCHANGED <<up, callers, by, files, ready, edges, closing>>

\* Mutant: the caller is not told.
Tell_Not(t) ==
  /\ Runs(t, "tell", "open")
  /\ UNCHANGED <<up, callers, by, got, files, ready, edges, closing>>

Tell(t) ==
  /\ Runs(t, "tell", "open")
  /\ stuff' = [stuff EXCEPT ![by[t]] = "taken"]
  /\ UNCHANGED <<up, pin_mutex, call, wanted, by, got, files, ready, edges, closing>>

\* open; when it fails the thread ends, and the caller has returned GPIO_OK.
OpenValue(t) ==
  /\ \/ \E f \in Fds :
          /\ Runs(t, "open", "find") /\ open[f] = "closed"
          /\ \A g \in Fds : open[g] = "closed" => f <= g
          /\ open' = [open EXCEPT ![f] = t] /\ fd' = [fd EXCEPT ![t] = f]
          /\ ready' = ready \cup {t}
     \/ Runs(t, "open", "gone") /\ UNCHANGED <<open, fd, ready>>
  /\ UNCHANGED <<up, callers, by, got, on, slot, fds, edges, closing>>

FreeSlots == {i \in DOMAIN fds : fds[i] = -1}

\* Mutant: the search does not stop at the end of the array.
FindSlot_PastEnd(t) ==
  /\ Runs(t, "find", "push")
  /\ \E i \in FreeSlots \cup {MaxFds} :
       /\ \A j \in FreeSlots : i <= j
       /\ slot' = [slot EXCEPT ![t] = i]
  /\ UNCHANGED <<up, callers, by, got, fd, on, open, fds, ready, edges, closing>>

\* pushSysFds, which nothing locks: the first free slot, none when all are used.
FindSlot(t) ==
  /\ \/ \E i \in FreeSlots :
          /\ Runs(t, "find", "push") /\ (\A j \in FreeSlots : i <= j)
          /\ slot' = [slot EXCEPT ![t] = i]
     \/ Runs(t, "find", "clear") /\ FreeSlots = {} /\ UNCHANGED slot
  /\ UNCHANGED <<up, callers, by, got, fd, on, open, fds, ready, edges, closing>>

PushSysFds(t) ==
  /\ Runs(t, "push", "clear")
  /\ fds' = [fds EXCEPT ![slot[t]] = fd[t]] /\ slot' = [slot EXCEPT ![t] = -1]
  /\ UNCHANGED <<up, callers, by, got, fd, on, open, ready, edges, closing>>

\* What poll would report at once on a file that was never read is cleared.
ClearPending(t) ==
  /\ Runs(t, "clear", "test")
  /\ ready' = ready \ {open[fd[t]]}
  /\ UNCHANGED <<up, callers, by, got, files, edges, closing>>

\* Mutant: what is pending is cleared before each poll.
TestEver_Clears(t) ==
  /\ Runs(t, "test", IF up THEN "poll" ELSE "close")
  /\ ready' = ready \ {open[fd[t]]}
  /\ UNCHANGED <<up, callers, by, got, files, edges, closing>>

TestEver(t) ==
  /\ Runs(t, "test", IF up THEN "poll" ELSE "close")
  /\ UNCHANGED <<up, callers, by, got, files, ready, edges, closing>>

\* waitForInterrupt enters poll: a descriptor that is closed is reported too.
EnterPoll(t) ==
  /\ Runs(t, "poll", IF open[fd[t]] = "closed" THEN "callback" ELSE "polling")
  /\ on' = [on EXCEPT ![t] = open[fd[t]]]
  /\ UNCHANGED <<up, callers, by, got, fd, open, slot, fds, ready, edges, closing>>

\* Mutant: the value is not read, so that poll reports it again.
PollReturns_Unread(t) ==
  /\ Runs(t, "polling", "callback")
  /\ on[t] \in ready
  /\ UNCHANGED <<up, callers, by, got, files, ready, edges, closing>>

\* poll reports the file, which stays one although it may be closed meanwhile;
\* the read clears it.
PollReturns(t) ==
  /\ Runs(t, "polling", "callback")
  /\ on[t] \in ready /\ ready' = ready \ {on[t]}
  /\ UNCHANGED <<up, callers, by, got, files, edges, closing>>

CallbackDone(t) ==
  /\ Runs(t, "callback", "test")
  /\ UNCHANGED <<up, callers, by, got, files, ready, edges, closing>>

\* close(fd), whatever that number is by now.
CloseValue(t) ==
  /\ Runs(t, "close", "gone")
  /\ open' = [open EXCEPT ![fd[t]] = "closed"]
  /\ UNCHANGED <<up, callers, by, got, fd, on, slot, fds, ready, edges, closing>>

-----------------------------------------------------------------------------
\* A signal on some thread, whose poll it ends with an error, calls gpioShutdown.
Shutdown ==
  /\ closing = -1 /\ closing' = 0 /\ up' = FALSE
  /\ \/ UNCHANGED thread
     \/ \E t \in SysThreads : Runs(t, "polling", "test")
  /\ UNCHANGED <<callers, by, got, files, ready, edges>>

CloseSysFd ==
  /\ closing \in DOMAIN fds
  /\ IF fds[closing] = -1
     THEN closing' = MaxFds /\ UNCHANGED <<open, fds>>
     ELSE /\ closing' = closing + 1
          /\ open' = [open EXCEPT ![fds[closing]] = "closed"]
          /\ fds' = [fds EXCEPT ![closing] = -1]
  /\ UNCHANGED <<up, callers, thread, by, got, fd, on, slot, ready, edges>>

\* An edge of pin p is reported on every file that somebody has or polls.
Edge(p) ==
  /\ edges < MaxEdges /\ edges' = edges + 1
  /\ ready' = ready \cup {t \in SysThreads : got[t] = p /\
                           ((\E f \in Fds : open[f] = t) \/ \E u \in SysThreads : thread[u] = "polling" /\ on[u] = t)}
  /\ UNCHANGED <<up, callers, thread, by, got, files, closing>>

SysCaller(c) == LockPins(c) \/ CreateThread(c) \/ ReturnSysfs(c)

SysThread(t) ==
  \/ CopyStuff(t) \/ Tell(t) \/ OpenValue(t) \/ FindSlot(t) \/ PushSysFds(t) \/ ClearPending(t)
  \/ TestEver(t) \/ EnterPoll(t) \/ PollReturns(t) \/ CallbackDone(t) \/ CloseValue(t)

NextSysfs ==
  \/ \E c \in SysCallers : SysCaller(c) \/ \E p \in SysPins : RegisterSysfs(c, p)
  \/ \E t \in SysThreads : SysThread(t)
  \/ Shutdown \/ CloseSysFd
  \/ \E p \in SysPins : Edge(p)

\* Every thread runs, and callbacks return.
FairnessSysfs ==
  /\ \A c \in SysCallers : WF_sysvars(SysCaller(c))
  /\ \A t \in SysThreads : WF_sysvars(SysThread(t))

SpecSysfs == InitSysfs /\ [][NextSysfs]_sysvars /\ FairnessSysfs
-----------------------------------------------------------------------------
\* Type invariant.
SysTypeOK ==
  /\ up \in BOOLEAN /\ pin_mutex \in SysCallers \cup {"nobody"}
  /\ call \in [SysCallers -> {"idle", "lock", "create", "wait", "spin"}]
  /\ wanted \in [SysCallers -> SysPins \cup {"none"}]
  /\ stuff \in [SysCallers -> SysPins \cup {"taken", "gone"}]
  /\ thread \in [SysThreads -> {"none", "start", "tell", "open", "find", "push", "clear", "test",
                                "poll", "polling", "callback", "close", "gone"}]
  /\ by \in [SysThreads -> SysCallers \cup {"nobody"}]
  /\ got \in [SysThreads -> SysPins \cup {"none", "taken", "gone"}]
  /\ fd \in [SysThreads -> Fds \cup {-1}] /\ on \in [SysThreads -> SysThreads \cup {"closed"}]
  /\ open \in [Fds -> SysThreads \cup {"closed"}]
  /\ slot \in [SysThreads -> 0 .. MaxFds - 1 \cup {-1}]
  /\ fds \in [0 .. MaxFds - 1 -> Fds \cup {-1}]
  /\ ready \subseteq SysThreads /\ edges \in 0 .. MaxEdges /\ closing \in -1 .. MaxFds

\* The arguments lie on the caller's stack: no thread reads or writes them after
\* the call has returned, and each gets those of the call that created it, also
\* when several threads register (GPIO_Pi.c:776-779, 843-852).
HandedOver ==
  \A t \in SysThreads :
    /\ thread[t] \in {"start", "tell"} =>
         /\ call[by[t]] = "wait" /\ stuff[by[t]] = wanted[by[t]]
         /\ \A u \in SysThreads : thread[u] \in {"start", "tell"} => u = t
    /\ thread[t] \notin {"none", "start"} => got[t] \in SysPins

\* Every registration returns, also when several threads call at the same time,
\* as long as no thread failed to be created (GPIO_Pi.c:843-852).
CallsReturn ==
  \A c \in SysCallers :
    call[c] = "lock" ~> call[c] = "idle" \/ \E d \in SysCallers : call[d] = "spin"

\* Nobody holds pinMutex in vain: whoever waits inside it has its answer already,
\* or a thread that was given its stuff and has still to answer; only a thread that
\* could not be created leaves the others waiting (GPIO_Pi.c:843-852, 779).
HolderIsAnswered ==
  pin_mutex # "nobody" /\ call[pin_mutex] \notin {"create", "spin"} =>
    /\ call[pin_mutex] = "wait"
    /\ \/ stuff[pin_mutex] # wanted[pin_mutex]
       \/ \E t \in SysThreads : by[t] = pin_mutex /\ thread[t] \in {"start", "tell"}

\* Unlike the poller's edges, one that comes during a callback is not lost: until
\* gpioShutdown what is pending stays so until poll reports it, and then calls
\* back; no other thread takes it (GPIO_Pi.c:762-771, 793-807).
EdgesKept ==
  [][\A t \in SysThreads :
       up /\ t \in ready /\ t \notin ready' => thread[t] = "clear" \/ thread'[t] = "callback"]_sysvars

\* And poll reports it.
EdgeServed ==
  \A t \in SysThreads :
    up /\ t \in ready /\ thread[t] \in {"test", "poll", "polling", "callback"}
      ~> ~up \/ t \notin ready
=============================================================================
