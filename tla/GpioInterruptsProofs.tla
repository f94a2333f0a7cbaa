------------------------- MODULE GpioInterruptsProofs -------------------------
(***************************************************************************)
(* For any number of threads, registrations, pins and descriptors, in      *)
(* whatever order they run: one poller at most, a list that no             *)
(* registration falls out of, and, in a build with sysfs, each thread      *)
(* polling the descriptor of the pin that was handed to it.                *)
(***************************************************************************)
EXTENDS GpioInterruptBuilds, SetInduction, SequenceTheorems, TLAPS

\* A running poller has its id in _interruptHandlerThreadId, which is what a
\* registration looks at.
PollerIsKnown == \A t \in Pollers : poller[t] # "none" => poller_id

PollerInv ==
  /\ DOMAIN poller = Pollers
  /\ PollerIsKnown
  /\ OnePoller

LEMMA PollerUnchanged ==
  ASSUME PollerInv, UNCHANGED <<poller_id, poller>>
  PROVE  PollerInv'
BY DEF PollerInv, PollerIsKnown, OnePoller

\* A step inside the poller.
LEMMA PollerMoves ==
  ASSUME PollerInv, NEW t \in Pollers, NEW there, poller[t] # "none",
         poller' = [poller EXCEPT ![t] = there], UNCHANGED poller_id
  PROVE  PollerInv'
<1>1. DOMAIN poller' = Pollers
  BY DEF PollerInv
<1>2. \A u \in Pollers : poller'[u] # "none" => poller[u] # "none"
  BY DEF PollerInv
<1> QED BY <1>1, <1>2 DEF PollerInv, PollerIsKnown, OnePoller

LEMMA PollerStart ==
  ASSUME PollerInv, NEW c \in Callers, StartPoller(c)
  PROVE  PollerInv'
<1>1. CASE UNCHANGED <<poller_id, poller>>
  BY <1>1, PollerUnchanged
<1>2. CASE ~UNCHANGED <<poller_id, poller>>
  <2>1. ~poller_id /\ poller_id' = TRUE
    BY <1>2 DEF StartPoller
  <2>2. PICK t \in Pollers : poller' = [poller EXCEPT ![t] = "loop"]
    BY <1>2 DEF StartPoller
  <2>3. \A u \in Pollers : poller[u] = "none"
    BY <2>1 DEF PollerInv, PollerIsKnown
  <2>4. DOMAIN poller' = Pollers /\ \A u \in Pollers : poller'[u] # "none" => u = t
    BY <2>2, <2>3 DEF PollerInv
  <2> QED BY <2>1, <2>4 DEF PollerInv, PollerIsKnown, OnePoller
<1> QED BY <1>1, <1>2

LEMMA PollerEnd ==
  ASSUME PollerInv, NEW t \in Pollers, EndPoller(t)
  PROVE  PollerInv'
<1>1. poller[t] # "none" /\ poller' = [poller EXCEPT ![t] = "none"]
  BY DEF EndPoller, PollerGoes
<1>2. \A u \in Pollers : poller[u] # "none" => u = t
  BY <1>1 DEF PollerInv, OnePoller
<1>3. DOMAIN poller' = Pollers /\ \A u \in Pollers : poller'[u] = "none"
  BY <1>1, <1>2 DEF PollerInv
<1> QED BY <1>3 DEF PollerInv, PollerIsKnown, OnePoller

LEMMA PollerStepKeeps ==
  ASSUME PollerInv, NEW t \in Pollers, PollerStep(t)
  PROVE  PollerInv'
<1>1. CASE Loop(t)
  BY <1>1, PollerMoves DEF Loop, PollerGoes
<1>2. CASE CreateHandler(t)
  BY <1>2, PollerMoves DEF CreateHandler, PollerGoes
<1>3. CASE ReadPin(t)
  BY <1>3, PollerMoves DEF ReadPin, PollerGoes
<1>4. CASE SignalEdge(t)
  BY <1>4, PollerMoves DEF SignalEdge, PollerGoes
<1>5. CASE Advance(t)
  <2>1. UNCHANGED poller_id
    BY <1>5 DEF Advance
  <2>2. CASE PollerGoes(t, "advance", IF next[i_ptr[t]] = NULL THEN "loop" ELSE "create")
    BY <2>1, <2>2, PollerMoves DEF PollerGoes
  <2>3. CASE PollerGoes(t, "next", "wake")
    BY <2>1, <2>3, PollerMoves DEF PollerGoes
  <2> QED BY <1>5, <2>2, <2>3 DEF Advance
<1>6. CASE WakeHandler(t)
  BY <1>6, PollerMoves DEF WakeHandler, PollerGoes
<1>7. CASE EndPoller(t)
  BY <1>7, PollerEnd
<1> QED BY <1>1, <1>2, <1>3, <1>4, <1>5, <1>6, <1>7 DEF PollerStep

LEMMA CallerStepKeeps ==
  ASSUME PollerInv, NEW c \in Callers, CallerStep(c)
  PROVE  PollerInv'
<1>1. CASE Lock(c, "register", "new") \/ Lock(c, "unregister", "find")
  BY <1>1, PollerUnchanged DEF Lock, poll
<1>2. CASE NewNode(c) \/ Walk(c) \/ Attach(c) \/ Return(c)
  BY <1>2, PollerUnchanged DEF NewNode, Walk, Attach, Return, poll
<1>3. CASE Unlink(c) \/ NotFound(c) \/ FindInEmptyList(c) \/ Stop(c) \/ WakeToStop(c)
  BY <1>3, PollerUnchanged DEF Unlink, NotFound, FindInEmptyList, Stop, WakeToStop, poll
<1>4. CASE StartPoller(c)
  BY <1>4, PollerStart
<1> QED BY <1>1, <1>2, <1>3, <1>4 DEF CallerStep

LEMMA PollerInit == Init => PollerInv
BY DEF Init, PollerInv, PollerIsKnown, OnePoller

LEMMA PollerNext == PollerInv /\ [Next]_vars => PollerInv'
<1> SUFFICES ASSUME PollerInv, [Next]_vars PROVE PollerInv'
  OBVIOUS
<1>1. CASE \E c \in Callers : CallerStep(c)
  BY <1>1, CallerStepKeeps
<1>2. CASE \E c \in Callers, p \in Pins : Register(c, p) \/ Unregister(c, p)
  BY <1>2, PollerUnchanged DEF Register, Unregister, poll
<1>3. CASE \E t \in Pollers : PollerStep(t)
  BY <1>3, PollerStepKeeps
<1>4. CASE \E n \in Nodes : HandlerStep(n)
  BY <1>4, PollerUnchanged
     DEF HandlerStep, Start, Test, Wait, Check, CallbackReturns, End, HandlerGoes, poll
<1>5. CASE (\E p \in Pins : Flip(p)) \/ GpioShutdown
  BY <1>5, PollerUnchanged DEF Flip, GpioShutdown, poll
<1>6. CASE UNCHANGED vars
  BY <1>6, PollerUnchanged DEF vars, poll
<1> QED BY <1>1, <1>2, <1>3, <1>4, <1>5, <1>6 DEF Next

-----------------------------------------------------------------------------
(* The list                                                                 *)

\* The nodes of s, each once, are those that a walk from h over nx meets.
IsList(s, h, nx) ==
  /\ \A i, j \in 1 .. Len(s) : s[i] = s[j] => i = j
  /\ h = IF Len(s) = 0 THEN NULL ELSE s[1]
  /\ \A i \in 1 .. Len(s) : nx[s[i]] = IF i = Len(s) THEN NULL ELSE s[i + 1]

\* A list is not longer than there are nodes.
LEMMA ListFits ==
  ASSUME NEW s \in Seq(Nodes), NEW h, NEW nx, IsList(s, h, nx)
  PROVE  Len(s) <= Cardinality(Nodes)
<1>1. IsFiniteSet(Nodes) /\ Cardinality(Nodes) \in Nat
  BY GpioInterruptsAssumption, FS_CardinalityType
<1>2. IsFiniteSet(1 .. Len(s)) /\ Cardinality(1 .. Len(s)) = Len(s)
  <2>1. Len(s) \in Nat /\ 1 \in Int
    OBVIOUS
  <2> QED BY <2>1, FS_Interval
<1>3. s \in [1 .. Len(s) -> Nodes]
  OBVIOUS
<1>4. CASE Cardinality(Nodes) < Cardinality(1 .. Len(s))
  <2>1. \E i, j \in 1 .. Len(s) : i # j /\ s[i] = s[j]
    BY ONLY <1>1, <1>2, <1>3, <1>4, FS_PigeonHole, Zenon
  <2> QED BY <2>1 DEF IsList
<1> QED BY <1>1, <1>2, <1>4

\* What the walk of the code sees of it.
LEMMA NthOfList ==
  \A s \in Seq(Nodes) : IsList(s, head, next) =>
    \A k \in Nat : Nth[k] = IF k < Len(s) THEN s[k + 1] ELSE NULL
<1> SUFFICES ASSUME NEW s \in Seq(Nodes), IsList(s, head, next)
             PROVE  \A k \in Nat : Nth[k] = IF k < Len(s) THEN s[k + 1] ELSE NULL
  OBVIOUS
<1> DEFINE w == [k \in Nat |-> IF k < Len(s) THEN s[k + 1] ELSE NULL]
           Step(f, k) == IF k = 0 THEN head
                         ELSE IF f[k - 1] = NULL THEN NULL ELSE next[f[k - 1]]
<1>1. ASSUME NEW k \in Nat PROVE w[k] = Step(w, k)
  <2>1. CASE k = 0
    BY <2>1 DEF IsList
  <2>2. CASE k # 0 /\ k - 1 < Len(s)
    <3>1. w[k - 1] = s[k] /\ s[k] \in Nodes
      BY <2>2
    <3>2. next[s[k]] = IF k = Len(s) THEN NULL ELSE s[k + 1]
      BY <2>2 DEF IsList
    <3> QED BY <2>2, <3>1, <3>2, GpioInterruptsAssumption
  <2>3. CASE k # 0 /\ k - 1 >= Len(s)
    BY <2>3
  <2> QED BY <2>1, <2>2, <2>3
<1>2. w = [k \in Nat |-> Step(w, k)]
  BY <1>1
<1>3. ASSUME NEW k \in Nat PROVE Nth[k] = Step(Nth, k)
  <2>1. Nth = [j \in Nat |-> Step(Nth, j)]
    BY <1>2, Zenon DEF Nth
  <2> QED BY <2>1, Zenon
<1> DEFINE T == {k \in Nat : Nth[k] = w[k]}
<1>4. 0 \in T
  <2>1. Nth[0] = head
    BY <1>3
  <2>2. w[0] = head
    BY <1>1
  <2> QED BY <2>1, <2>2
<1>5. ASSUME NEW n \in Nat, n \in T PROVE n + 1 \in T
  <2>1. Nth[n] = w[n]
    BY <1>5
  <2> HIDE DEF w
  <2>2. Nth[n + 1] = IF Nth[n] = NULL THEN NULL ELSE next[Nth[n]]
    BY <1>3
  <2>3. w[n + 1] = IF w[n] = NULL THEN NULL ELSE next[w[n]]
    BY <1>1
  <2> QED BY <2>1, <2>2, <2>3
<1>6. \A n \in Nat : n \in T
  <2> HIDE DEF T
  <2> QED BY <1>4, <1>5, SetInduction
<1> QED BY <1>6

LEMMA ListedInList ==
  \A s \in Seq(Nodes) : IsList(s, head, next) =>
    /\ Positions = 0 .. Len(s) - 1
    /\ Listed = {s[i] : i \in 1 .. Len(s)}
<1> SUFFICES ASSUME NEW s \in Seq(Nodes), IsList(s, head, next)
             PROVE  /\ Positions = 0 .. Len(s) - 1
                    /\ Listed = {s[i] : i \in 1 .. Len(s)}
  OBVIOUS
<1>1. \A k \in Nat : Nth[k] = IF k < Len(s) THEN s[k + 1] ELSE NULL
  BY NthOfList
<1>2. Len(s) <= Cardinality(Nodes) /\ Cardinality(Nodes) \in Nat
  BY ListFits, GpioInterruptsAssumption, FS_CardinalityType
<1>3. Positions = 0 .. Len(s) - 1
  BY <1>1, <1>2, GpioInterruptsAssumption DEF Positions
<1>4. ASSUME NEW n PROVE n \in Listed <=> n \in {s[i] : i \in 1 .. Len(s)}
  <2>1. ASSUME NEW k \in Positions PROVE k + 1 \in 1 .. Len(s) /\ Nth[k] = s[k + 1]
    BY <1>1, <1>3
  <2>2. ASSUME NEW i \in 1 .. Len(s) PROVE i - 1 \in Positions /\ Nth[i - 1] = s[i]
    BY <1>1, <1>3
  <2> QED BY <2>1, <2>2 DEF Listed
<1> QED BY <1>3, <1>4

-----------------------------------------------------------------------------
(* The types, the lock and the list together                                *)

\* Where a caller holds the lock.
Inside == {"new", "link", "append", "start", "unlock", "find", "stop", "signal"}

\* What the caller c knows of the list s.
CallerOK(c, s) ==
  /\ at[c] \in Inside => mutex = c
  /\ at[c] \in {"register", "new", "unregister", "find"} => arg[c] \in Pins
  /\ at[c] \in {"link", "append"} =>
       /\ mine[c] \in Nodes /\ memory[mine[c]] # "free" /\ next[mine[c]] = NULL
       /\ \A i \in 1 .. Len(s) : s[i] # mine[c]
  /\ at[c] = "append" => arg[c] = IF Len(s) = 0 THEN NULL ELSE s[Len(s)]

ListOK(s) ==
  /\ IsList(s, head, next)
  /\ \A i \in 1 .. Len(s) : memory[s[i]] # "free"
  /\ \A c \in Callers : CallerOK(c, s)

ListInv == \E s \in Seq(Nodes) : ListOK(s)

\* A node that was never used points nowhere.
FreshInv == \A n \in Nodes : memory[n] = "free" => next[n] = NULL

\* A poller that is at a node has one.
AtNode == \A t \in Pollers :
  poller[t] \in {"create", "read", "signal", "advance", "next"} => i_ptr[t] \in Nodes

MemInv == TypeOK /\ ListInv /\ FreshInv /\ AtNode

LEMMA InitMem == Init => MemInv
<1> SUFFICES ASSUME Init PROVE MemInv
  OBVIOUS
<1>1. TypeOK
  <2>1. ever \in BOOLEAN /\ level \in [Pins -> {0, 1}] /\ flips \in 0 .. MaxFlips
    BY GpioInterruptsAssumption DEF Init
  <2>2. /\ mutex \in Callers \cup {NULL}
        /\ at \in [Callers -> {"idle", "register", "new", "link", "append", "start", "unlock",
                               "unregister", "find", "stop", "signal"}]
        /\ arg \in [Callers -> Pins \cup Nodes \cup {NULL}]
        /\ mine \in [Callers -> Nodes \cup {NULL}]
    BY DEF Init
  <2>3. /\ head \in Nodes \cup {NULL} /\ next \in [Nodes -> Nodes \cup {NULL}]
        /\ pin \in [Nodes -> Pins \cup {NULL}] /\ edge \in [Nodes -> EdgeModes \cup {NULL}]
        /\ last \in [Nodes -> {0, 1, -2}] /\ running \in [Nodes -> BOOLEAN]
    BY DEF Init
  <2>4. /\ memory \in [Nodes -> {"free", "live", "freed"}]
        /\ handler \in [Nodes -> {"none", "start", "test", "enter", "wait", "check",
                                  "callback", "end", "gone"}]
        /\ poller_id \in BOOLEAN
        /\ poller \in [Pollers -> {"none", "loop", "create", "read", "signal", "advance",
                                   "wake", "next"}]
        /\ i_ptr \in [Pollers -> Nodes \cup {NULL}]
        /\ fault \in {"none", "null", "freed"}
    BY DEF Init
  <2> QED BY <2>1, <2>2, <2>3, <2>4 DEF TypeOK
<1>2. ListOK(<<>>) /\ <<>> \in Seq(Nodes)
  BY DEF Init, ListOK, IsList, CallerOK, Inside
<1>3. FreshInv /\ AtNode
  BY DEF Init, FreshInv, AtNode
<1> QED BY <1>1, <1>2, <1>3 DEF MemInv, ListInv

-----------------------------------------------------------------------------
(* Types *)

LEMMA PollerTypes ==
  ASSUME TypeOK, AtNode, NEW t \in Pollers, PollerStep(t)
  PROVE  TypeOK' /\ AtNode'
<1> USE DEF pins, caller, list, field, TypeOK, AtNode
<1>1. CASE Loop(t)
  BY <1>1 DEF Loop, PollerGoes
<1>2. CASE CreateHandler(t)
  BY <1>2 DEF CreateHandler, PollerGoes, Uses
<1>3. CASE ReadPin(t)
  BY <1>3 DEF ReadPin, PollerGoes, Uses
<1>4. CASE SignalEdge(t)
  BY <1>4 DEF SignalEdge, PollerGoes, Uses, Signal
<1>5. CASE Advance(t)
  BY <1>5 DEF Advance, PollerGoes, Uses
<1>6. CASE WakeHandler(t)
  BY <1>6 DEF WakeHandler, PollerGoes, Uses, Signal
<1>7. CASE EndPoller(t)
  BY <1>7 DEF EndPoller, PollerGoes
<1> QED BY <1>1, <1>2, <1>3, <1>4, <1>5, <1>6, <1>7 DEF PollerStep

LEMMA HandlerTypes ==
  ASSUME TypeOK, AtNode, NEW n \in Nodes, HandlerStep(n)
  PROVE  TypeOK' /\ AtNode'
<1> USE DEF pins, caller, list, poll, TypeOK, AtNode, HandlerGoes
<1>1. CASE Start(n)
  BY <1>1 DEF Start
<1>2. CASE Test(n) \/ Wait(n)
  BY <1>2 DEF Test, Wait
<1>3. CASE Check(n) \/ CallbackReturns(n)
  BY <1>3 DEF Check, CallbackReturns
<1>4. CASE End(n)
  BY <1>4 DEF End
<1> QED BY <1>1, <1>2, <1>3, <1>4 DEF HandlerStep

LEMMA CallerTypes ==
  ASSUME TypeOK, AtNode, NEW s \in Seq(Nodes), ListOK(s), NEW c \in Callers, CallerStep(c)
  PROVE  TypeOK' /\ AtNode'
<1> USE DEF pins, list, field, poll, TypeOK, AtNode, Goes
<1>0. /\ Positions = 0 .. Len(s) - 1
      /\ Listed = {s[i] : i \in 1 .. Len(s)}
      /\ \A k \in Positions : Nth[k] = s[k + 1] /\ Nth[k] \in Nodes
  <2>1. Positions = 0 .. Len(s) - 1 /\ Listed = {s[i] : i \in 1 .. Len(s)}
    BY ListedInList DEF ListOK
  <2>2. \A k \in Nat : Nth[k] = IF k < Len(s) THEN s[k + 1] ELSE NULL
    BY NthOfList DEF ListOK
  <2> QED BY <2>1, <2>2
<1>1. CASE Lock(c, "register", "new") \/ Lock(c, "unregister", "find")
  BY <1>1 DEF Lock
<1>2. CASE NewNode(c)
  <2>1. arg[c] \in Pins
    BY <1>2 DEF NewNode, ListOK, CallerOK
  <2>2. DigitalRead(arg[c]) \in {0, 1, -2}
    BY <2>1 DEF DigitalRead
  <2> QED BY <1>2, <2>1, <2>2, GpioInterruptsAssumption DEF NewNode
<1>3. CASE Walk(c)
  <2>1. CASE head = NULL
    BY <1>3, <2>1 DEF Walk, Walks
  <2>2. CASE head # NULL
    <3>1. Len(s) # 0 /\ s[Len(s)] \in Listed /\ next[s[Len(s)]] = NULL /\ Listed \subseteq Nodes
      BY <1>0, <2>2 DEF ListOK, IsList
    <3>2. (CHOOSE n \in Listed : next[n] = NULL) \in Nodes
      BY <3>1
    <3> QED BY <1>3, <2>2, <3>2 DEF Walk, Walks
  <2> QED BY <2>1, <2>2
<1>4. CASE Attach(c)
  BY <1>4 DEF Attach
<1>5. CASE StartPoller(c)
  BY <1>5 DEF StartPoller
<1>6. CASE Return(c)
  BY <1>6 DEF Return, Unlock
<1>7. CASE Unlink(c)
  <2>1. PICK k \in Found(arg[c]) :
          /\ mine' = [mine EXCEPT ![c] = Nth[k]]
          /\ IF k = 0
             THEN head' = next[Nth[k]] /\ UNCHANGED next
             ELSE next' = [next EXCEPT ![Nth[k - 1]] = next[Nth[k]]] /\ UNCHANGED head
    BY <1>7 DEF Unlink
  <2>2. Nth[k] \in Nodes
    BY <1>0 DEF Found
  <2> QED BY <1>7, <2>1, <2>2 DEF Unlink, Walks
<1>8. CASE NotFound(c) \/ FindInEmptyList(c)
  BY <1>8 DEF NotFound, FindInEmptyList, Walks, Uses, caller
<1>9. CASE Stop(c)
  BY <1>9 DEF Stop, Uses
<1>10. CASE WakeToStop(c)
  BY <1>10 DEF WakeToStop, Uses, Signal
<1> QED BY <1>1, <1>2, <1>3, <1>4, <1>5, <1>6, <1>7, <1>8, <1>9, <1>10 DEF CallerStep


LEMMA OtherTypes ==
  ASSUME TypeOK, AtNode,
         \/ \E c \in Callers, p \in Pins : Register(c, p) \/ Unregister(c, p)
         \/ \E p \in Pins : Flip(p)
         \/ GpioShutdown
         \/ UNCHANGED vars
  PROVE  TypeOK' /\ AtNode'
<1> USE DEF list, field, poll, TypeOK, AtNode
<1>1. CASE \E c \in Callers, p \in Pins : Register(c, p) \/ Unregister(c, p)
  BY <1>1 DEF Register, Unregister, Goes, pins
<1>2. ASSUME NEW p \in Pins, Flip(p) PROVE TypeOK' /\ AtNode'
  <2>1. level' \in [Pins -> {0, 1}] /\ flips' \in 0 .. MaxFlips
    BY <1>2, GpioInterruptsAssumption DEF Flip
  <2> QED BY <1>2, <2>1 DEF Flip, caller
<1>3. CASE GpioShutdown
  BY <1>3 DEF GpioShutdown, caller
<1>4. CASE UNCHANGED vars
  BY <1>4 DEF vars, pins, caller
<1> QED BY <1>1, <1>2, <1>3, <1>4

-----------------------------------------------------------------------------
(* What each step does to the list                                          *)

\* A step that leaves the list alone, and lets no memory become new again.
LEMMA ListUnchanged ==
  ASSUME TypeOK, FreshInv, NEW s \in Seq(Nodes), ListOK(s),
         UNCHANGED <<mutex, at, arg, mine, head, next>>,
         \A n \in Nodes : memory'[n] = memory[n] \/ memory'[n] = "freed"
  PROVE  FreshInv' /\ ListOK(s)'
<1>1. FreshInv'
  BY DEF FreshInv
<1>2. IsList(s, head, next)'
  BY DEF ListOK, IsList
<1>3. \A i \in 1 .. Len(s) : s[i] \in Nodes /\ memory'[s[i]] # "free"
  BY DEF ListOK
<1>4. ASSUME NEW c \in Callers PROVE CallerOK(c, s)'
  BY DEF ListOK, CallerOK
<1> QED BY <1>1, <1>2, <1>3, <1>4 DEF ListOK

\* A step of caller c that leaves the list alone.
LEMMA CallerMoves ==
  ASSUME TypeOK, FreshInv, NEW s \in Seq(Nodes), ListOK(s), NEW c \in Callers,
         UNCHANGED <<head, next, memory>>,
         \A b \in Callers : b # c => at'[b] = at[b] /\ arg'[b] = arg[b] /\ mine'[b] = mine[b],
         mutex \in {NULL, c} \/ mutex' = mutex,
         CallerOK(c, s)'
  PROVE  FreshInv' /\ ListOK(s)'
<1>1. FreshInv'
  BY DEF FreshInv
<1>2. IsList(s, head, next)' /\ \A i \in 1 .. Len(s) : memory'[s[i]] # "free"
  BY DEF ListOK, IsList
<1>3. ASSUME NEW d \in Callers, d # c PROVE CallerOK(d, s)'
  <2>1. /\ at'[d] = at[d] /\ arg'[d] = arg[d] /\ mine'[d] = mine[d]
        /\ mutex = d => mutex' = d
    BY <1>3, GpioInterruptsAssumption
  <2>2. CallerOK(d, s)
    BY DEF ListOK
  <2> QED BY <2>1, <2>2 DEF CallerOK
<1> QED BY <1>1, <1>2, <1>3 DEF ListOK

\* Only one caller is inside.
LEMMA OneInside ==
  ASSUME NEW s, ListOK(s), NEW c \in Callers, NEW d \in Callers, at[c] \in Inside,
         at[d] \in Inside
  PROVE  c = d
BY DEF ListOK, CallerOK

\* Every node of s is one of t.
Keeps(s, t) == \A i \in 1 .. Len(s) : \E j \in 1 .. Len(t) : t[j] = s[i]

\* The new node becomes the last one.
LEMMA AttachKeeps ==
  ASSUME TypeOK, FreshInv, NEW s \in Seq(Nodes), ListOK(s), NEW c \in Callers, Attach(c)
  PROVE  FreshInv' /\ \E t \in Seq(Nodes) : ListOK(t)' /\ Keeps(s, t)
<1>0. PICK t : t = s \o <<mine[c]>>
  OBVIOUS
<1>1. /\ at[c] = "append" /\ mine[c] \in Nodes /\ memory[mine[c]] # "free"
      /\ next[mine[c]] = NULL /\ \A i \in 1 .. Len(s) : s[i] # mine[c]
      /\ arg[c] = IF Len(s) = 0 THEN NULL ELSE s[Len(s)]
  BY DEF Attach, Goes, ListOK, CallerOK
<1>2. UNCHANGED <<mutex, arg, mine, memory>> /\ at' = [at EXCEPT ![c] = "start"]
  BY DEF Attach, Goes, field
<1>3. /\ t \in Seq(Nodes) /\ Len(t) = Len(s) + 1 /\ t[Len(s) + 1] = mine[c]
      /\ \A i \in 1 .. Len(s) : t[i] = s[i] /\ s[i] \in Nodes
  BY <1>0, <1>1
<1>4. IsList(t, head', next')
  <2>1. \A i, j \in 1 .. Len(t) : t[i] = t[j] => i = j
    BY <1>1, <1>3 DEF ListOK, IsList
  <2>2. CASE Len(s) = 0
    <3>1. head' = mine[c] /\ next' = next
      BY <1>1, <2>2 DEF Attach
    <3> QED BY <1>1, <1>3, <2>1, <2>2, <3>1 DEF IsList
  <2>3. CASE Len(s) # 0
    <3>1. arg[c] = s[Len(s)] /\ s[Len(s)] \in Nodes
      BY <1>1, <1>3, <2>3
    <3>2. head' = head /\ next' = [next EXCEPT ![s[Len(s)]] = mine[c]]
      BY <3>1, GpioInterruptsAssumption DEF Attach
    <3>3. next'[mine[c]] = NULL /\ next'[s[Len(s)]] = mine[c]
      BY <1>1, <2>3, <3>1, <3>2 DEF TypeOK
    <3>4. ASSUME NEW i \in 1 .. Len(s), i # Len(s) PROVE next'[t[i]] = t[i + 1]
      <4>1. s[i] # s[Len(s)] /\ next[s[i]] = s[i + 1] /\ i + 1 \in 1 .. Len(s)
        BY <3>4 DEF ListOK, IsList
      <4> QED BY <1>3, <3>2, <3>4, <4>1 DEF TypeOK
    <3>5. head' = t[1]
      BY <1>3, <2>3, <3>2 DEF ListOK, IsList
    <3> QED BY <1>3, <2>1, <2>3, <3>3, <3>4, <3>5 DEF IsList
  <2> QED BY <2>2, <2>3
<1>5. \A i \in 1 .. Len(t) : memory'[t[i]] # "free"
  BY <1>1, <1>2, <1>3 DEF ListOK
<1>6. ASSUME NEW d \in Callers PROVE CallerOK(d, t)'
  <2>1. CASE d = c
    BY <1>2, <2>1, <1>1 DEF ListOK, CallerOK, Inside, TypeOK
  <2>2. CASE d # c
    <3>1. at'[d] = at[d] /\ at[d] \notin Inside
      BY <1>1, <1>2, <2>2, OneInside DEF Inside, TypeOK
    <3> QED BY <1>2, <3>1 DEF ListOK, CallerOK, Inside
  <2> QED BY <2>1, <2>2
<1>7. FreshInv'
  <2>1. ASSUME NEW n \in Nodes, memory[n] = "free" PROVE next'[n] = next[n]
    <3>1. arg[c] # n
      BY <1>1, <2>1, GpioInterruptsAssumption DEF ListOK
    <3> QED BY <3>1 DEF Attach, TypeOK
  <2> QED BY <1>2, <2>1 DEF FreshInv
<1>8. Keeps(s, t)
  BY <1>3 DEF Keeps
<1> QED BY <1>3, <1>4, <1>5, <1>6, <1>7, <1>8 DEF ListOK

\* What unregister found leaves the list, and nothing else.
LEMMA UnlinkKeeps ==
  ASSUME TypeOK, FreshInv, NEW s \in Seq(Nodes), ListOK(s), NEW c \in Callers, Unlink(c)
  PROVE  /\ FreshInv'
         /\ \E t \in Seq(Nodes) :
              /\ ListOK(t)'
              /\ \A i \in 1 .. Len(s) : (\E j \in 1 .. Len(t) : t[j] = s[i]) \/ mine'[c] = s[i]
<1>1. /\ UNCHANGED <<mutex, arg, memory>> /\ at' = [at EXCEPT ![c] = "stop"] /\ at[c] = "find"
      /\ mutex = c
  BY DEF Unlink, Goes, field, ListOK, CallerOK, Inside
<1>2. PICK k \in Found(arg[c]) :
        /\ mine' = [mine EXCEPT ![c] = Nth[k]]
        /\ IF k = 0
           THEN head' = next[Nth[k]] /\ UNCHANGED next
           ELSE next' = [next EXCEPT ![Nth[k - 1]] = next[Nth[k]]] /\ UNCHANGED head
  BY DEF Unlink
<1>3. PICK q \in 1 .. Len(s) : /\ k \in Nat /\ q = k + 1 /\ Nth[k] = s[q]
                               /\ k # 0 => Nth[k - 1] = s[k]
  <2>1. Positions = 0 .. Len(s) - 1 /\ \A j \in Nat : Nth[j] = IF j < Len(s) THEN s[j + 1] ELSE NULL
    BY ListedInList, NthOfList DEF ListOK
  <2>2. k \in Positions
    BY DEF Found
  <2>3. k \in Nat /\ k < Len(s) /\ k + 1 \in 1 .. Len(s)
    BY <2>1, <2>2
  <2>4. Nth[k] = s[k + 1]
    BY <2>1, <2>3
  <2>5. k # 0 => Nth[k - 1] = s[k]
    BY <2>1, <2>3
  <2> QED BY <2>3, <2>4, <2>5
<1>4. PICK t : t = [i \in 1 .. Len(s) - 1 |-> IF i < q THEN s[i] ELSE s[i + 1]]
  OBVIOUS
<1>5. /\ t \in Seq(Nodes) /\ Len(t) = Len(s) - 1
      /\ \A i \in 1 .. Len(t) : t[i] = IF i < q THEN s[i] ELSE s[i + 1]
      /\ \A i \in 1 .. Len(s) : s[i] \in Nodes
  BY <1>4
<1>6. /\ \A i, j \in 1 .. Len(s) : s[i] = s[j] => i = j
      /\ head = s[1]
      /\ \A i \in 1 .. Len(s) : next[s[i]] = IF i = Len(s) THEN NULL ELSE s[i + 1]
  BY DEF ListOK, IsList
<1>7. IsList(t, head', next')
  <2>1. \A i, j \in 1 .. Len(t) : t[i] = t[j] => i = j
    <3> SUFFICES ASSUME NEW i \in 1 .. Len(t), NEW j \in 1 .. Len(t), t[i] = t[j] PROVE i = j
      OBVIOUS
    <3>1. i \in 1 .. Len(s) /\ i + 1 \in 1 .. Len(s) /\ j \in 1 .. Len(s) /\ j + 1 \in 1 .. Len(s)
      BY <1>5
    <3>2. PICK a \in 1 .. Len(s) : a = (IF i < q THEN i ELSE i + 1) /\ t[i] = s[a]
      BY <1>5, <3>1
    <3>3. PICK b \in 1 .. Len(s) : b = (IF j < q THEN j ELSE j + 1) /\ t[j] = s[b]
      BY <1>5, <3>1
    <3>4. a = b
      BY <1>6, <3>2, <3>3
    <3> QED BY <3>2, <3>3, <3>4
  <2>2. CASE q = 1
    <3>1. head' = next[s[1]] /\ next' = next
      <4>1. k = 0 /\ Nth[k] = s[1]
        BY <1>3, <2>2
      <4> QED BY <1>2, <4>1
    <3>2. head' = IF Len(t) = 0 THEN NULL ELSE t[1]
      BY <1>5, <1>6, <2>2, <3>1
    <3>3. ASSUME NEW i \in 1 .. Len(t)
          PROVE  next'[t[i]] = IF i = Len(t) THEN NULL ELSE t[i + 1]
      <4>1. t[i] = s[i + 1] /\ i + 1 \in 1 .. Len(s)
        BY <1>5, <2>2
      <4>2. next[s[i + 1]] = IF i + 1 = Len(s) THEN NULL ELSE s[i + 1 + 1]
        BY <1>6, <4>1
      <4>3. i # Len(t) => t[i + 1] = s[i + 1 + 1]
        BY <1>5, <2>2
      <4> QED BY <1>5, <3>1, <4>1, <4>2, <4>3
    <3> QED BY <2>1, <3>2, <3>3 DEF IsList
  <2>3. CASE q # 1
    <3>1. /\ q - 1 \in 1 .. Len(s) /\ s[q - 1] \in Nodes /\ head' = head
          /\ next' = [next EXCEPT ![s[q - 1]] = next[s[q]]]
      <4>1. k # 0 /\ k = q - 1 /\ q - 1 \in 1 .. Len(s)
        BY <1>3, <2>3
      <4>2. Nth[k - 1] = s[q - 1] /\ Nth[k] = s[q]
        BY <1>3, <4>1
      <4> QED BY <1>2, <1>5, <4>1, <4>2
    <3>2. head' = IF Len(t) = 0 THEN NULL ELSE t[1]
      BY <1>5, <1>6, <2>3, <3>1
    <3>3. ASSUME NEW i \in 1 .. Len(t)
          PROVE  next'[t[i]] = IF i = Len(t) THEN NULL ELSE t[i + 1]
      <4>1. CASE i = q - 1
        <5>1. t[i] = s[q - 1] /\ next'[s[q - 1]] = next[s[q]]
          BY <1>5, <3>1, <4>1 DEF TypeOK
        <5>2. next[s[q]] = IF q = Len(s) THEN NULL ELSE s[q + 1]
          BY <1>6
        <5>3. i # Len(t) => t[i + 1] = s[q + 1]
          BY <1>5, <4>1
        <5> QED BY <1>5, <4>1, <5>1, <5>2, <5>3
      <4>2. CASE i < q - 1
        <5>1. t[i] = s[i] /\ i \in 1 .. Len(s) /\ s[i] # s[q - 1] /\ i # Len(s)
          BY <1>5, <1>6, <3>1, <4>2
        <5>2. next'[s[i]] = s[i + 1]
          BY <1>5, <1>6, <3>1, <5>1 DEF TypeOK
        <5>3. i # Len(t) /\ t[i + 1] = s[i + 1]
          BY <1>5, <4>2
        <5> QED BY <5>1, <5>2, <5>3
      <4>3. CASE i > q - 1
        <5>1. t[i] = s[i + 1] /\ i + 1 \in 1 .. Len(s) /\ s[i + 1] # s[q - 1]
          BY <1>5, <1>6, <3>1, <4>3
        <5>2. next'[s[i + 1]] = IF i + 1 = Len(s) THEN NULL ELSE s[i + 1 + 1]
          BY <1>5, <1>6, <3>1, <5>1 DEF TypeOK
        <5>3. ASSUME i # Len(t) PROVE t[i + 1] = s[i + 1 + 1]
          <6>1. i + 1 \in 1 .. Len(t) /\ ~ (i + 1 < q)
            BY <1>5, <4>3, <5>3
          <6> QED BY <1>5, <6>1
        <5> QED BY <1>5, <5>1, <5>2, <5>3
      <4> QED BY <1>5, <4>1, <4>2, <4>3
    <3> QED BY <2>1, <3>2, <3>3 DEF IsList
  <2> QED BY <2>2, <2>3
<1>8. \A i \in 1 .. Len(t) : memory'[t[i]] # "free"
  <2> SUFFICES ASSUME NEW i \in 1 .. Len(t) PROVE memory[t[i]] # "free"
    BY <1>1
  <2>1. i \in 1 .. Len(s) /\ i + 1 \in 1 .. Len(s)
    BY <1>5
  <2> QED BY <1>5, <2>1 DEF ListOK
<1>9. ASSUME NEW d \in Callers PROVE CallerOK(d, t)'
  <2>1. CASE d = c
    BY <1>1, <2>1 DEF ListOK, CallerOK, Inside, TypeOK
  <2>2. CASE d # c
    <3>1. at'[d] = at[d] /\ at[d] \notin Inside
      BY <1>1, <2>2, OneInside DEF Inside, TypeOK
    <3> QED BY <1>1, <3>1 DEF ListOK, CallerOK, Inside
  <2> QED BY <2>1, <2>2
<1>10. FreshInv'
  <2>1. ASSUME NEW n \in Nodes, memory[n] = "free" PROVE next'[n] = next[n]
    <3>1. CASE k = 0
      BY <1>2, <3>1
    <3>2. CASE k # 0
      <4>1. k \in 1 .. Len(s) /\ Nth[k - 1] = s[k]
        BY <1>3, <3>2
      <4>2. s[k] # n
        BY <2>1, <4>1 DEF ListOK
      <4>3. next' = [next EXCEPT ![s[k]] = next[Nth[k]]]
        BY <1>2, <3>2, <4>1
      <4> QED BY <4>2, <4>3 DEF TypeOK
    <3> QED BY <3>1, <3>2
  <2> QED BY <1>1, <2>1 DEF FreshInv
<1>11. ASSUME NEW i \in 1 .. Len(s)
       PROVE  (\E j \in 1 .. Len(t) : t[j] = s[i]) \/ mine'[c] = s[i]
  <2>1. CASE i < q
    <3>1. i \in 1 .. Len(t) /\ t[i] = s[i]
      BY <1>5, <2>1
    <3> QED BY <3>1
  <2>2. CASE i > q
    <3>1. i - 1 \in 1 .. Len(t) /\ t[i - 1] = s[i]
      BY <1>5, <2>2
    <3> QED BY <3>1
  <2>3. CASE i = q
    BY <1>2, <1>3, <2>3 DEF TypeOK
  <2> QED BY <2>1, <2>2, <2>3
<1> QED BY <1>5, <1>7, <1>8, <1>9, <1>10, <1>11 DEF ListOK

\* Everything that was listed still is, or a caller has just found it.
Accounted(s, t) ==
  \A i \in 1 .. Len(s) : \/ \E j \in 1 .. Len(t) : t[j] = s[i]
                         \/ \E c \in Callers : at[c] = "find" /\ mine'[c] = s[i]

LEMMA SameAccounted == \A s : Accounted(s, s)
BY DEF Accounted

LEMMA CallerList ==
  ASSUME TypeOK, FreshInv, NEW s \in Seq(Nodes), ListOK(s), NEW c \in Callers, CallerStep(c)
  PROVE  FreshInv' /\ \E t \in Seq(Nodes) : ListOK(t)' /\ Accounted(s, t)
<1> USE DEF pins, list, field, poll
<1>0. ASSUME FreshInv', ListOK(s)' PROVE FreshInv' /\ \E t \in Seq(Nodes) : ListOK(t)' /\ Accounted(s, t)
  BY <1>0, SameAccounted
<1>1. CASE Lock(c, "register", "new") \/ Lock(c, "unregister", "find")
  <2>1. CallerOK(c, s)'
    BY <1>1 DEF Lock, Goes, ListOK, CallerOK, Inside, TypeOK
  <2>2. UNCHANGED <<head, next, memory, arg, mine>> /\ mutex = NULL
    BY <1>1 DEF Lock
  <2>3. \A b \in Callers : b # c => at'[b] = at[b]
    BY <1>1 DEF Lock, Goes, TypeOK
  <2>4. FreshInv' /\ ListOK(s)'
    BY <2>1, <2>2, <2>3, CallerMoves
  <2> QED BY <1>0, <2>4
<1>2. CASE NewNode(c)
  <2>1. PICK n \in Nodes : /\ memory[n] = "free" /\ memory' = [memory EXCEPT ![n] = "live"]
                           /\ mine' = [mine EXCEPT ![c] = n]
    BY <1>2 DEF NewNode
  <2>2. /\ UNCHANGED <<mutex, arg, head, next>> /\ at[c] = "new"
        /\ at' = [at EXCEPT ![c] = "link"]
    BY <1>2 DEF NewNode, Goes
  <2>3. next[n] = NULL /\ \A i \in 1 .. Len(s) : s[i] # n
    BY <2>1 DEF FreshInv, ListOK
  <2>4. \A i \in 1 .. Len(s) : memory'[s[i]] # "free"
    BY <2>1, <2>3 DEF ListOK, TypeOK
  <2>5. ASSUME NEW d \in Callers PROVE CallerOK(d, s)'
    <3>1. CASE d = c
      BY <2>1, <2>2, <2>3, <3>1 DEF ListOK, CallerOK, Inside, TypeOK
    <3>2. CASE d # c
      <4>1. at'[d] = at[d] /\ at[d] \notin Inside
        BY <2>2, <3>2, OneInside DEF Inside, TypeOK
      <4> QED BY <2>2, <4>1 DEF ListOK, CallerOK, Inside
    <3> QED BY <3>1, <3>2
  <2>6. FreshInv'
    BY <2>1, <2>2 DEF FreshInv, TypeOK
  <2>7. IsList(s, head, next)'
    BY <2>2 DEF ListOK, IsList
  <2> QED BY <1>0, <2>4, <2>5, <2>6, <2>7 DEF ListOK
<1>3. CASE Walk(c)
  <2>1. /\ UNCHANGED <<head, next, memory, mine, mutex>> /\ at[c] = "link"
        /\ at' = [at EXCEPT ![c] = "append"]
        /\ arg' = [arg EXCEPT ![c] = IF head = NULL THEN NULL
                                     ELSE CHOOSE n \in Listed : next[n] = NULL]
    BY <1>3 DEF Walk, Goes
  <2>2. Listed = {s[i] : i \in 1 .. Len(s)} /\ IsList(s, head, next)
    BY ListedInList DEF ListOK
  <2>3. arg'[c] = IF Len(s) = 0 THEN NULL ELSE s[Len(s)]
    <3>1. CASE Len(s) = 0
      BY <2>1, <2>2, <3>1 DEF IsList, TypeOK
    <3>2. CASE Len(s) # 0
      <4>1. head # NULL
        BY <2>2, <3>2, GpioInterruptsAssumption DEF IsList
      <4>2. s[Len(s)] \in Listed /\ next[s[Len(s)]] = NULL
        BY <2>2, <3>2 DEF IsList
      <4>3. ASSUME NEW n \in Listed, next[n] = NULL PROVE n = s[Len(s)]
        <5>1. PICK i \in 1 .. Len(s) : n = s[i]
          BY <2>2
        <5>2. i # Len(s) => next[n] = s[i + 1] /\ s[i + 1] \in Nodes
          BY <2>2, <5>1 DEF IsList
        <5> QED BY <4>3, <5>1, <5>2, GpioInterruptsAssumption
      <4>4. (CHOOSE n \in Listed : next[n] = NULL) = s[Len(s)]
        BY <4>2, <4>3
      <4> QED BY <2>1, <3>2, <4>1, <4>4 DEF TypeOK
    <3> QED BY <3>1, <3>2
  <2>4. CallerOK(c, s)'
    BY <2>1, <2>3 DEF ListOK, CallerOK, Inside, TypeOK
  <2>5. \A b \in Callers : b # c => at'[b] = at[b] /\ arg'[b] = arg[b]
    BY <2>1 DEF TypeOK
  <2>6. FreshInv' /\ ListOK(s)'
    BY <2>1, <2>4, <2>5, CallerMoves
  <2> QED BY <1>0, <2>6
<1>4. CASE Attach(c)
  BY <1>4, AttachKeeps DEF Keeps, Accounted
<1>5. CASE StartPoller(c) \/ Stop(c) \/ WakeToStop(c)
  <2>1. UNCHANGED <<head, next, memory, arg, mine, mutex>>
    BY <1>5 DEF StartPoller, Stop, WakeToStop
  <2>2. CallerOK(c, s)'
    BY <1>5 DEF StartPoller, Stop, WakeToStop, Goes, ListOK, CallerOK, Inside, TypeOK
  <2>3. \A b \in Callers : b # c => at'[b] = at[b]
    BY <1>5 DEF StartPoller, Stop, WakeToStop, Goes, TypeOK
  <2>4. FreshInv' /\ ListOK(s)'
    BY <2>1, <2>2, <2>3, CallerMoves
  <2> QED BY <1>0, <2>4
<1>6. CASE Return(c) \/ NotFound(c)
  <2>1. /\ UNCHANGED <<head, next, memory>>
        /\ mutex \in {NULL, c} \/ mutex' = mutex
        /\ at'[c] = "idle"
    BY <1>6 DEF Return, NotFound, Goes, Unlock, TypeOK
  <2>2. CallerOK(c, s)'
    BY <2>1 DEF CallerOK, Inside
  <2>3. \A b \in Callers : b # c => at'[b] = at[b] /\ arg'[b] = arg[b] /\ mine'[b] = mine[b]
    BY <1>6 DEF Return, NotFound, Goes, TypeOK
  <2>4. FreshInv' /\ ListOK(s)'
    BY <2>1, <2>2, <2>3, CallerMoves
  <2> QED BY <1>0, <2>4
<1>7. CASE Unlink(c)
  <2>1. at[c] = "find"
    BY <1>7 DEF Unlink, Goes
  <2> QED BY <1>7, <2>1, UnlinkKeeps DEF Accounted
<1>8. CASE FindInEmptyList(c)
  <2>1. UNCHANGED <<mutex, at, arg, mine, head, next, memory>>
    BY <1>8 DEF FindInEmptyList, caller
  <2> QED BY <1>0, <2>1, ListUnchanged
<1> QED BY <1>1, <1>2, <1>3, <1>4, <1>5, <1>6, <1>7, <1>8 DEF CallerStep

LEMMA OtherList ==
  ASSUME TypeOK, FreshInv, NEW s \in Seq(Nodes), ListOK(s), [Next]_vars,
         ~ \E c \in Callers : CallerStep(c)
  PROVE  FreshInv' /\ ListOK(s)'
<1> USE DEF list, field, poll, caller
<1>1. CASE \E c \in Callers, p \in Pins : Register(c, p) \/ Unregister(c, p)
  <2>1. PICK c \in Callers, p \in Pins : Register(c, p) \/ Unregister(c, p)
    BY <1>1
  <2>2. CallerOK(c, s)'
    BY <2>1 DEF Register, Unregister, Goes, ListOK, CallerOK, Inside, TypeOK
  <2>3. \A b \in Callers : b # c => at'[b] = at[b] /\ arg'[b] = arg[b]
    BY <2>1 DEF Register, Unregister, Goes, TypeOK
  <2>4. UNCHANGED <<head, next, memory, mine, mutex>>
    BY <2>1 DEF Register, Unregister
  <2> QED BY <2>2, <2>3, <2>4, CallerMoves
<1>2. CASE \E t \in Pollers : PollerStep(t)
  <2>1. UNCHANGED <<mutex, at, arg, mine, head, next, memory>>
    BY <1>2 DEF PollerStep, Loop, CreateHandler, ReadPin, SignalEdge, Advance, WakeHandler,
                EndPoller
  <2> QED BY <2>1, ListUnchanged
<1>3. CASE \E n \in Nodes : HandlerStep(n)
  <2>1. PICK n \in Nodes : HandlerStep(n)
    BY <1>3
  <2>2. UNCHANGED <<mutex, at, arg, mine, head, next>>
    BY <2>1 DEF HandlerStep, Start, Test, Wait, Check, CallbackReturns, End, HandlerGoes
  <2>3. memory' = memory \/ memory' = [memory EXCEPT ![n] = "freed"]
    BY <2>1 DEF HandlerStep, Start, Test, Wait, Check, CallbackReturns, End
  <2>4. \A m \in Nodes : memory'[m] = memory[m] \/ memory'[m] = "freed"
    BY <2>3 DEF TypeOK
  <2> QED BY <2>2, <2>4, ListUnchanged
<1>4. CASE (\E p \in Pins : Flip(p)) \/ GpioShutdown \/ UNCHANGED vars
  <2>1. UNCHANGED <<mutex, at, arg, mine, head, next, memory>>
    BY <1>4 DEF Flip, GpioShutdown, vars
  <2> QED BY <2>1, ListUnchanged
<1> QED BY <1>1, <1>2, <1>3, <1>4 DEF Next

\* What the walk will see of a list after the step.
LEMMA ListedInListNext ==
  (\A s \in Seq(Nodes) : IsList(s, head, next) =>
    /\ Positions = 0 .. Len(s) - 1
    /\ Listed = {s[i] : i \in 1 .. Len(s)})'
BY ListedInList, PTL

-----------------------------------------------------------------------------
\* Every step keeps the invariant and accounts for every node of the list.
LEMMA MemNext ==
  ASSUME MemInv, [Next]_vars
  PROVE  /\ MemInv'
         /\ \A n \in Listed : n \in Listed' \/ \E c \in Callers : at[c] = "find" /\ mine'[c] = n
<1>1. PICK s \in Seq(Nodes) : ListOK(s)
  BY DEF MemInv, ListInv
<1>2. TypeOK' /\ AtNode'
  BY <1>1, PollerTypes, HandlerTypes, CallerTypes, OtherTypes DEF MemInv, Next
<1>3. FreshInv' /\ \E t \in Seq(Nodes) : ListOK(t)' /\ Accounted(s, t)
  BY <1>1, CallerList, OtherList, SameAccounted DEF MemInv
<1>4. PICK t \in Seq(Nodes) : ListOK(t)' /\ Accounted(s, t)
  BY <1>3
<1>5. Listed = {s[i] : i \in 1 .. Len(s)}
  BY <1>1, ListedInList DEF ListOK
<1>7. Listed' = {t[i] : i \in 1 .. Len(t)}
  BY <1>4, ListedInListNext DEF ListOK
<1>8. \A n \in Listed : n \in Listed' \/ \E c \in Callers : at[c] = "find" /\ mine'[c] = n
  BY <1>4, <1>5, <1>7 DEF Accounted
<1> QED BY <1>2, <1>3, <1>8 DEF MemInv, ListInv

\* The variables keep their types, for any number of threads, nodes and pins: the
\* poller is never at no node, the walk to the end always finds one, and what
\* unregister finds is a node (GPIO_Pi.c:915-1050).
THEOREM InterruptsTypeCorrect == Spec => []TypeOK
<1>1. MemInv => TypeOK
  BY DEF MemInv
<1> QED BY <1>1, InitMem, MemNext, PTL DEF Spec

\* The pointers under _gpioRegisterMutex always form a list that ends and meets
\* no node twice; linking and unlinking at the same time as pollers, handlers and
\* other callers lose no registration but the one that unregister looked for.
THEOREM KeepsRegistrations == Spec => NeverLost
<1>1. MemInv /\ [Next]_vars =>
        [\A n \in Listed : n \in Listed' \/ \E c \in Callers : at[c] = "find" /\ mine'[c] = n]_vars
  BY MemNext
<1> QED BY <1>1, InitMem, MemNext, PTL DEF Spec, NeverLost

\* The poller that ends by itself clears the id as its last step, and whoever
\* registers starts another only if the id is clear: there are never two.
THEOREM AlwaysOnePoller == Spec => []OnePoller
<1>1. PollerInv => OnePoller
  BY DEF PollerInv
<1> QED BY <1>1, PollerInit, PollerNext, PTL DEF Spec

-----------------------------------------------------------------------------
(* A program that registers only                                            *)

\* Nobody is inside unregister, and no handler has found a reason to end.
Undisturbed ==
  /\ ever /\ Sane
  /\ \A c \in Callers : at[c] \notin {"unregister", "find", "stop", "signal"}
  /\ \A n \in Nodes :
       /\ memory[n] # "freed"
       /\ handler[n] \notin {"end", "gone"}
       /\ handler[n] \in {"test", "enter", "wait", "check", "callback"} => running[n]

UndisturbedInv == ~Unregisters /\ MaxShutdowns = 0 => Undisturbed

LEMMA UndisturbedInit == Init => UndisturbedInv
BY DEF Init, UndisturbedInv, Undisturbed, Sane

\* Whoever uses a node of the list, or one it was given, does no harm.
LEMMA WalkIsSane ==
  ASSUME MemInv, Undisturbed, Walks
  PROVE  fault' = "none"
<1>1. PICK s \in Seq(Nodes) : Listed = {s[i] : i \in 1 .. Len(s)}
  BY ListedInList DEF MemInv, ListInv, ListOK
<1>2. Listed \subseteq Nodes
  BY <1>1, ElementOfSeq
<1> QED BY <1>2 DEF Walks, Undisturbed, Sane

LEMMA UseIsSane ==
  ASSUME Undisturbed, NEW n \in Nodes, Uses(n)
  PROVE  fault' = "none"
BY GpioInterruptsAssumption DEF Uses, Undisturbed, Sane

LEMMA UndisturbedNext == MemInv /\ UndisturbedInv /\ [Next]_vars => UndisturbedInv'
<1> SUFFICES ASSUME MemInv, [Next]_vars, ~Unregisters, MaxShutdowns = 0, Undisturbed
             PROVE  Undisturbed'
  BY DEF UndisturbedInv
<1>0. TypeOK /\ AtNode
  BY DEF MemInv
<1> USE DEF Undisturbed, Sane
<1>1. ASSUME NEW c \in Callers, CallerStep(c) PROVE Undisturbed'
  <2>1. CASE Lock(c, "register", "new") \/ Attach(c) \/ StartPoller(c) \/ Return(c)
    <3>1. UNCHANGED <<ever, fault, memory, running, handler>>
      BY <2>1 DEF Lock, Attach, StartPoller, Return, pins, field
    <3>2. \E there \in {"new", "start", "unlock", "idle"} : at' = [at EXCEPT ![c] = there]
      BY <2>1 DEF Lock, Attach, StartPoller, Return, Goes
    <3> QED BY <1>0, <3>1, <3>2 DEF TypeOK
  <2>2. CASE NewNode(c)
    BY <1>0, <2>2 DEF NewNode, Goes, TypeOK, pins
  <2>3. CASE Walk(c)
    <3>1. fault' = "none"
      BY <2>3, WalkIsSane DEF Walk
    <3> QED BY <1>0, <2>3, <3>1 DEF Walk, Goes, TypeOK, pins, field
  <2>4. ~(Lock(c, "unregister", "find") \/ Unlink(c) \/ NotFound(c)
            \/ FindInEmptyList(c) \/ Stop(c) \/ WakeToStop(c))
    BY DEF Lock, Unlink, NotFound, FindInEmptyList, Stop, WakeToStop, Goes
  <2> QED BY <1>1, <2>1, <2>2, <2>3, <2>4 DEF CallerStep
<1>2. ASSUME NEW c \in Callers, NEW p \in Pins, Register(c, p) \/ Unregister(c, p)
      PROVE  Undisturbed'
  <2>1. Register(c, p)
    BY <1>2 DEF Unregister
  <2>2. UNCHANGED <<ever, fault, memory, running, handler>>
    BY <2>1 DEF Register, pins, field
  <2>3. at' = [at EXCEPT ![c] = "register"]
    BY <2>1 DEF Register, Goes
  <2> QED BY <1>0, <2>2, <2>3 DEF TypeOK
<1>3. ASSUME NEW t \in Pollers, PollerStep(t) PROVE Undisturbed'
  <2>1. CASE Loop(t) \/ EndPoller(t)
    BY <2>1 DEF Loop, EndPoller, pins, caller, field
  <2>2. CASE CreateHandler(t)
    <3>1. i_ptr[t] \in Nodes /\ fault' = "none"
      BY <1>0, <2>2, UseIsSane DEF CreateHandler, PollerGoes, AtNode
    <3> QED BY <1>0, <2>2, <3>1 DEF CreateHandler, TypeOK, pins, caller, field
  <2>3. CASE ReadPin(t)
    <3>1. i_ptr[t] \in Nodes /\ fault' = "none"
      BY <1>0, <2>3, UseIsSane DEF ReadPin, PollerGoes, AtNode
    <3> QED BY <2>3, <3>1 DEF ReadPin, pins, caller
  <2>4. CASE SignalEdge(t) \/ WakeHandler(t)
    <3>1. i_ptr[t] \in Nodes /\ Uses(i_ptr[t]) /\ Signal(i_ptr[t])
      BY <1>0, <2>4 DEF SignalEdge, WakeHandler, PollerGoes, AtNode, TypeOK
    <3>2. fault' = "none"
      BY <3>1, UseIsSane
    <3>3. UNCHANGED <<ever, at, memory, running>>
      BY <2>4 DEF SignalEdge, WakeHandler, pins, caller, field
    <3>4. \A n \in Nodes : handler'[n] = handler[n] \/ (handler[n] = "wait" /\ handler'[n] = "check")
      BY <1>0, <3>1 DEF Signal, TypeOK
    <3> QED BY <3>2, <3>3, <3>4
  <2>5. CASE Advance(t)
    <3>1. i_ptr[t] \in Nodes /\ fault' = "none"
      BY <1>0, <2>5, UseIsSane DEF Advance, PollerGoes, AtNode
    <3> QED BY <2>5, <3>1 DEF Advance, pins, caller, field
  <2> QED BY <1>3, <2>1, <2>2, <2>3, <2>4, <2>5 DEF PollerStep
<1>4. ASSUME NEW n \in Nodes, HandlerStep(n) PROVE Undisturbed'
  <2>1. UNCHANGED <<ever, at, fault>> /\ handler[n] # "end"
    BY <1>4 DEF HandlerStep, Start, Test, Wait, Check, CallbackReturns, End, HandlerGoes,
                pins, caller
  <2>2. CASE Start(n)
    BY <1>0, <2>1, <2>2 DEF Start, HandlerGoes, TypeOK
  <2>3. CASE Test(n) \/ Wait(n) \/ Check(n) \/ CallbackReturns(n)
    <3>1. UNCHANGED <<running, memory>> /\ running[n]
      BY <2>3 DEF Test, Wait, Check, CallbackReturns, HandlerGoes
    <3>2. \E there \in {"test", "enter", "wait", "callback"} :
            handler' = [handler EXCEPT ![n] = there]
      BY <2>3, <3>1 DEF Test, Wait, Check, CallbackReturns, HandlerGoes, MayRun
    <3> QED BY <1>0, <2>1, <3>1, <3>2 DEF TypeOK
  <2> QED BY <1>4, <2>1, <2>2, <2>3 DEF HandlerStep, End, HandlerGoes
<1>5. CASE (\E p \in Pins : Flip(p)) \/ GpioShutdown \/ UNCHANGED vars
  <2>1. ~GpioShutdown
    BY DEF GpioShutdown
  <2>2. UNCHANGED <<ever, fault, at, memory, running, handler>>
    BY <1>5, <2>1 DEF Flip, vars, pins, caller, field
  <2> QED BY <2>2
<1> QED BY <1>1, <1>2, <1>3, <1>4, <1>5 DEF Next

-----------------------------------------------------------------------------
\* With the poller: it never gets to its last loop, there is one as soon as its id
\* is set, and the id or the caller that is about to set it as soon as somebody is
\* registered.
Polled ==
  /\ \A t \in Pollers : poller[t] # "none" => head # NULL /\ poller[t] \notin {"wake", "next"}
  /\ poller_id => \E t \in Pollers : poller[t] # "none"
  /\ head # NULL => poller_id \/ \E c \in Callers : at[c] = "start"
  /\ \A c \in Callers : at[c] = "start" => head # NULL

PolledInv == ~Unregisters /\ MaxShutdowns = 0 => Polled

LEMMA PolledInit == Init => PolledInv
BY DEF Init, PolledInv, Polled

LEMMA PolledImplies == MemInv /\ PolledInv => AlwaysPolled
BY DEF MemInv, TypeOK, PolledInv, Polled, AlwaysPolled

\* A step that leaves the poller and the list, and that nobody starts a poller with.
LEMMA PolledUnchanged ==
  ASSUME Polled, UNCHANGED <<poller_id, poller, head>>,
         \A c \in Callers : at'[c] = "start" <=> at[c] = "start"
  PROVE  Polled'
BY DEF Polled

LEMMA PolledByCaller ==
  ASSUME MemInv, Polled, Undisturbed, NEW c \in Callers, CallerStep(c)
  PROVE  Polled'
<1>0. TypeOK
  BY DEF MemInv
<1>1. CASE Lock(c, "register", "new") \/ NewNode(c) \/ Walk(c) \/ Return(c)
  <2>1. UNCHANGED <<poller_id, poller, head>>
    BY <1>1 DEF Lock, NewNode, Walk, Return, list, poll
  <2>2. \E here \in {"register", "new", "link", "unlock"}, there \in {"new", "link", "append", "idle"} :
          Goes(c, here, there)
    BY <1>1 DEF Lock, NewNode, Walk, Return
  <2>3. \A d \in Callers : at'[d] = "start" <=> at[d] = "start"
    BY <1>0, <2>2 DEF Goes, TypeOK
  <2> QED BY <2>1, <2>3, PolledUnchanged
<1>2. CASE Attach(c)
  <2>1. PICK s \in Seq(Nodes) : ListOK(s)
    BY DEF MemInv, ListInv
  <2>2. at[c] = "append" /\ at' = [at EXCEPT ![c] = "start"] /\ UNCHANGED <<poller_id, poller>>
    BY <1>2 DEF Attach, Goes, poll
  <2>3. mine[c] \in Nodes /\ arg[c] = IF Len(s) = 0 THEN NULL ELSE s[Len(s)]
    BY <2>1, <2>2 DEF ListOK, CallerOK
  <2>4. head' # NULL
    <3>1. CASE arg[c] = NULL
      <4>1. head' = mine[c]
        BY <1>2, <3>1 DEF Attach
      <4> QED BY <2>3, <4>1, GpioInterruptsAssumption
    <3>2. CASE arg[c] # NULL
      <4>1. Len(s) # 0 /\ head' = head
        BY <1>2, <2>3, <3>2 DEF Attach
      <4>2. head = s[1] /\ s[1] \in Nodes
        BY <2>1, <4>1 DEF ListOK, IsList
      <4> QED BY <4>1, <4>2, GpioInterruptsAssumption
    <3> QED BY <3>1, <3>2
  <2>5. at'[c] = "start" /\ \A d \in Callers : at'[d] = "start" => d = c \/ at[d] = "start"
    BY <1>0, <2>2 DEF TypeOK
  <2> QED BY <2>2, <2>4, <2>5 DEF Polled
<1>3. CASE StartPoller(c)
  <2>1. at[c] = "start" /\ at' = [at EXCEPT ![c] = "unlock"] /\ UNCHANGED head
    BY <1>3 DEF StartPoller, Goes, list
  <2>2. head # NULL /\ \A d \in Callers : at'[d] = "start" => at[d] = "start"
    BY <1>0, <2>1 DEF Polled, TypeOK
  <2>3. CASE poller_id
    <3>1. UNCHANGED <<poller_id, poller>>
      BY <1>3, <2>3 DEF StartPoller
    <3> QED BY <2>1, <2>2, <2>3, <3>1 DEF Polled
  <2>4. CASE ~poller_id
    <3>1. PICK t \in Pollers : poller' = [poller EXCEPT ![t] = "loop"]
      BY <1>3, <2>4 DEF StartPoller
    <3>2. poller_id' = TRUE
      BY <1>3, <2>4 DEF StartPoller
    <3>3. poller'[t] = "loop" /\ \A u \in Pollers : poller'[u] = "loop" \/ poller'[u] = poller[u]
      BY <1>0, <3>1 DEF TypeOK
    <3> QED BY <2>1, <2>2, <3>2, <3>3 DEF Polled
  <2> QED BY <2>3, <2>4
<1>4. ~(Lock(c, "unregister", "find") \/ Unlink(c) \/ NotFound(c)
          \/ FindInEmptyList(c) \/ Stop(c) \/ WakeToStop(c))
  BY DEF Lock, Unlink, NotFound, FindInEmptyList, Stop, WakeToStop, Goes, Undisturbed
<1> QED BY <1>1, <1>2, <1>3, <1>4 DEF CallerStep

LEMMA PolledByPoller ==
  ASSUME MemInv, Polled, Undisturbed, NEW t \in Pollers, PollerStep(t)
  PROVE  Polled'
<1>0. TypeOK
  BY DEF MemInv
<1>1. poller[t] # "none"
  BY DEF PollerStep, Loop, CreateHandler, ReadPin, SignalEdge, Advance, WakeHandler, EndPoller,
         PollerGoes
<1>2. head # NULL /\ poller[t] \notin {"wake", "next"}
  BY <1>1 DEF Polled
<1>3. ~EndPoller(t) /\ ~WakeHandler(t)
  BY <1>2 DEF EndPoller, WakeHandler, PollerGoes
<1>4. \E there \in {"create", "read", "signal", "advance", "loop"} :
        poller' = [poller EXCEPT ![t] = there]
  <2>1. CASE Loop(t)
    BY <1>2, <2>1 DEF Loop, PollerGoes, Undisturbed
  <2>2. CASE CreateHandler(t) \/ ReadPin(t) \/ SignalEdge(t)
    BY <2>2 DEF CreateHandler, ReadPin, SignalEdge, PollerGoes
  <2>3. CASE Advance(t)
    BY <1>2, <2>3 DEF Advance, PollerGoes
  <2> QED BY <1>3, <2>1, <2>2, <2>3 DEF PollerStep
<1>5. UNCHANGED <<poller_id, head, at>>
  BY <1>3 DEF PollerStep, Loop, CreateHandler, ReadPin, SignalEdge, Advance, caller, list
<1>6. \A u \in Pollers : IF u = t THEN poller'[u] \in {"create", "read", "signal", "advance", "loop"}
                         ELSE poller'[u] = poller[u]
  BY <1>0, <1>4 DEF TypeOK
<1>7. \A u \in Pollers :
        poller'[u] # "none" => head' # NULL /\ poller'[u] \notin {"wake", "next"}
  BY <1>2, <1>5, <1>6 DEF Polled
<1>8. poller'[t] # "none"
  BY <1>6
<1> QED BY <1>5, <1>7, <1>8 DEF Polled

LEMMA PolledNext == MemInv /\ UndisturbedInv /\ PolledInv /\ [Next]_vars => PolledInv'
<1> SUFFICES ASSUME MemInv, [Next]_vars, ~Unregisters, MaxShutdowns = 0, Undisturbed, Polled
             PROVE  Polled'
  BY DEF UndisturbedInv, PolledInv
<1>0. TypeOK
  BY DEF MemInv
<1>1. CASE \E c \in Callers : CallerStep(c)
  BY <1>1, PolledByCaller
<1>2. ASSUME NEW c \in Callers, NEW p \in Pins, Register(c, p) \/ Unregister(c, p)
      PROVE  Polled'
  <2>1. UNCHANGED <<poller_id, poller, head>>
    BY <1>2 DEF Register, Unregister, list, poll
  <2>2. at[c] = "idle" /\ \E there \in {"register", "unregister"} : at' = [at EXCEPT ![c] = there]
    BY <1>2 DEF Register, Unregister, Goes
  <2>3. \A d \in Callers : at'[d] = "start" <=> at[d] = "start"
    BY <1>0, <2>2 DEF TypeOK
  <2> QED BY <2>1, <2>3, PolledUnchanged
<1>3. CASE \E t \in Pollers : PollerStep(t)
  BY <1>3, PolledByPoller
<1>4. CASE (\E n \in Nodes : HandlerStep(n)) \/ (\E p \in Pins : Flip(p)) \/ GpioShutdown \/ UNCHANGED vars
  <2>1. UNCHANGED <<poller_id, poller, head, at>>
    BY <1>4 DEF HandlerStep, Start, Test, Wait, Check, CallbackReturns, End, HandlerGoes, Flip,
                GpioShutdown, vars, caller, list, poll
  <2> QED BY <2>1, PolledUnchanged
<1> QED BY <1>1, <1>2, <1>3, <1>4 DEF Next

-----------------------------------------------------------------------------
(* The lock of the list                                                     *)

LockedInside == \A c \in Callers : mutex = c => at[c] \in Inside

\* A step of one caller that does not leave the function with the lock.
LEMMA LockedByCaller ==
  ASSUME TypeOK, LockedInside, NEW c \in Callers,
         \A d \in Callers : d # c => at'[d] = at[d] /\ (mutex' = d => mutex = d),
         mutex' = c => at'[c] \in Inside
  PROVE  LockedInside'
BY DEF LockedInside

LEMMA LockedNext ==
  ASSUME TypeOK, LockedInside, [Next /\ \A c \in Callers : ~NotFound(c)]_vars
  PROVE  LockedInside'
<1>1. ASSUME NEW c \in Callers, CallerStep(c), ~NotFound(c) PROVE LockedInside'
  <2>1. CASE Lock(c, "register", "new") \/ Lock(c, "unregister", "find")
    <3>1. mutex' = c /\ \E there \in {"new", "find"} : at' = [at EXCEPT ![c] = there]
      BY <2>1 DEF Lock, Goes
    <3> QED BY <3>1, LockedByCaller DEF TypeOK, Inside
  <2>2. CASE NewNode(c) \/ Walk(c) \/ Attach(c) \/ StartPoller(c) \/ Unlink(c) \/ Stop(c)
               \/ WakeToStop(c)
    <3>1. UNCHANGED mutex
      BY <2>2 DEF NewNode, Walk, Attach, StartPoller, Unlink, Stop, WakeToStop
    <3>2. \E there \in {"link", "append", "start", "unlock", "stop", "signal"} :
            at' = [at EXCEPT ![c] = there]
      BY <2>2 DEF NewNode, Walk, Attach, StartPoller, Unlink, Stop, WakeToStop, Goes
    <3> QED BY <3>1, <3>2, LockedByCaller DEF TypeOK, Inside
  <2>3. CASE Return(c)
    <3>1. at' = [at EXCEPT ![c] = "idle"] /\ mutex' = IF mutex = c THEN NULL ELSE mutex
      BY <2>3 DEF Return, Goes, Unlock
    <3> QED BY <3>1, LockedByCaller, GpioInterruptsAssumption DEF TypeOK
  <2>4. CASE FindInEmptyList(c)
    BY <2>4 DEF FindInEmptyList, caller, LockedInside
  <2> QED BY <1>1, <2>1, <2>2, <2>3, <2>4 DEF CallerStep
<1>2. ASSUME NEW c \in Callers, NEW p \in Pins, Register(c, p) \/ Unregister(c, p)
      PROVE  LockedInside'
  <2>1. UNCHANGED mutex /\ at[c] = "idle"
    BY <1>2 DEF Register, Unregister, Goes
  <2>2. \E there \in {"register", "unregister"} : at' = [at EXCEPT ![c] = there]
    BY <1>2 DEF Register, Unregister, Goes
  <2>3. mutex # c
    BY <2>1 DEF LockedInside, Inside
  <2> QED BY <2>1, <2>2, <2>3, LockedByCaller DEF TypeOK
<1>3. CASE (\E t \in Pollers : PollerStep(t)) \/ (\E n \in Nodes : HandlerStep(n))
             \/ (\E p \in Pins : Flip(p)) \/ GpioShutdown \/ UNCHANGED vars
  <2>1. UNCHANGED caller
    BY <1>3 DEF PollerStep, Loop, CreateHandler, ReadPin, SignalEdge, Advance, WakeHandler,
                EndPoller, HandlerStep, Start, Test, Wait, Check, CallbackReturns, End,
                HandlerGoes, Flip, GpioShutdown, vars
  <2> QED BY <2>1 DEF caller, LockedInside
<1> QED BY <1>1, <1>2, <1>3 DEF Next

\* Only the return for a pin that is not found keeps _gpioRegisterMutex: in a
\* behaviour without it whoever holds the lock is inside one of the two functions,
\* whatever else goes wrong (GPIO_Pi.c:978-1015, 1025-1050).
THEOREM OnlyNotFoundKeepsTheLock ==
  Init /\ [][Next /\ \A c \in Callers : ~NotFound(c)]_vars => []LockedOnlyInside
<1>1. Init => LockedInside
  BY GpioInterruptsAssumption DEF Init, LockedInside
<1>2. MemInv /\ LockedInside /\ [Next /\ \A c \in Callers : ~NotFound(c)]_vars
        => MemInv' /\ LockedInside'
  BY MemNext, LockedNext DEF MemInv
<1>3. MemInv /\ LockedInside => LockedOnlyInside
  BY DEF MemInv, TypeOK, LockedInside, LockedOnlyInside, Inside
<1> QED BY <1>1, <1>2, <1>3, InitMem, PTL

-----------------------------------------------------------------------------
(* The arguments on the stack of a registration, with sysfs                 *)

\* A thread of a registration that has a descriptor.
HasFd == {"find", "push", "clear", "test", "poll", "polling", "callback", "close"}

\* Until the thread is created its pin is in stuff, and from then on the caller has
\* pin_mutex until the thread has answered.
HandingOver ==
  /\ \A c \in SysCallers :
       /\ call[c] # "idle" => wanted[c] \in SysPins
       /\ call[c] \in {"lock", "create"} => stuff[c] = wanted[c]
       /\ call[c] \in {"create", "wait", "spin"} => pin_mutex = c
  /\ \A t \in SysThreads : thread[t] # "none" => by[t] \in SysCallers

Numbers ==
  \A t \in SysThreads : /\ thread[t] \in HasFd => fd[t] \in Fds
                        /\ thread[t] = "push" => slot[t] \in 0 .. MaxFds - 1

SysInv == SysTypeOK /\ HandingOver /\ HandedOver /\ Numbers

LEMMA SysInit == InitSysfs => SysInv
<1> SUFFICES ASSUME InitSysfs PROVE SysInv
  OBVIOUS
<1> USE SysfsInterruptsAssumption DEF InitSysfs
<1>1. SysTypeOK
  <2>1. up \in BOOLEAN /\ pin_mutex \in SysCallers \cup {"nobody"}
    OBVIOUS
  <2>2. /\ call \in [SysCallers -> {"idle", "lock", "create", "wait", "spin"}]
        /\ wanted \in [SysCallers -> SysPins \cup {"none"}]
        /\ stuff \in [SysCallers -> SysPins \cup {"taken", "gone"}]
    OBVIOUS
  <2>3. /\ thread \in [SysThreads -> {"none", "start", "tell", "open", "find", "push", "clear",
                                      "test", "poll", "polling", "callback", "close", "gone"}]
        /\ by \in [SysThreads -> SysCallers \cup {"nobody"}]
        /\ got \in [SysThreads -> SysPins \cup {"none", "taken", "gone"}]
    OBVIOUS
  <2>4. /\ fd \in [SysThreads -> Fds \cup {-1}]
        /\ on \in [SysThreads -> SysThreads \cup {"closed"}]
        /\ open \in [Fds -> SysThreads \cup {"closed"}]
        /\ slot \in [SysThreads -> 0 .. MaxFds - 1 \cup {-1}]
        /\ fds \in [0 .. MaxFds - 1 -> Fds \cup {-1}]
    OBVIOUS
  <2>5. ready \subseteq SysThreads /\ edges \in 0 .. MaxEdges /\ closing \in -1 .. MaxFds
    OBVIOUS
  <2> QED BY <2>1, <2>2, <2>3, <2>4, <2>5 DEF SysTypeOK
<1>2. HandingOver /\ HandedOver
  BY DEF HandingOver, HandedOver
<1>3. Numbers
  BY DEF Numbers, HasFd
<1> QED BY <1>1, <1>2, <1>3 DEF SysInv

LEMMA SysCallerTypes ==
  ASSUME SysInv, NEW c \in SysCallers,
         SysCaller(c) \/ \E p \in SysPins : RegisterSysfs(c, p)
  PROVE  SysTypeOK'
<1> USE DEF SysInv, SysTypeOK, files, Calls
<1>1. CASE \E p \in SysPins : RegisterSysfs(c, p)
  BY <1>1 DEF RegisterSysfs
<1>2. CASE LockPins(c)
  BY <1>2 DEF LockPins
<1>3. CASE CreateThread(c)
  BY <1>3 DEF CreateThread
<1>4. CASE ReturnSysfs(c)
  BY <1>4 DEF ReturnSysfs
<1> QED BY <1>1, <1>2, <1>3, <1>4 DEF SysCaller

LEMMA SysCallerHands ==
  ASSUME SysInv, NEW c \in SysCallers,
         SysCaller(c) \/ \E p \in SysPins : RegisterSysfs(c, p)
  PROVE  HandingOver' /\ HandedOver' /\ Numbers'
<1> USE DEF SysInv, SysTypeOK, files, Calls, HandingOver, HandedOver
<1>1. CASE \E p \in SysPins : RegisterSysfs(c, p)
  BY <1>1 DEF RegisterSysfs, Numbers
<1>2. CASE LockPins(c)
  <2>1. /\ UNCHANGED <<wanted, stuff, thread, by, got>> /\ pin_mutex = "nobody" /\ pin_mutex' = c
        /\ call' = [call EXCEPT ![c] = "create"] /\ call[c] = "lock"
    BY <1>2 DEF LockPins
  <2>2. \A d \in SysCallers : call[d] \notin {"create", "wait", "spin"}
    BY <2>1, SysfsInterruptsAssumption
  <2>3. HandingOver'
    BY <2>1, <2>2
  <2>4. HandedOver'
    BY <2>1, <2>2
  <2>5. UNCHANGED <<thread, fd, slot>>
    BY <1>2 DEF LockPins
  <2> QED BY <2>3, <2>4, <2>5 DEF Numbers
<1>3. CASE CreateThread(c)
  <2>1. call[c] = "create" /\ pin_mutex = c /\ stuff[c] = wanted[c] /\ wanted[c] \in SysPins
    BY <1>3 DEF CreateThread
  <2>2. UNCHANGED <<pin_mutex, wanted, stuff, got, fd, slot>>
    BY <1>3 DEF CreateThread
  <2>3. ASSUME NEW u \in SysThreads PROVE thread[u] \notin {"start", "tell"}
    BY <2>1
  <2>4. CASE UNCHANGED <<thread, by>> /\ call' = [call EXCEPT ![c] = "spin"]
    BY <2>1, <2>2, <2>3, <2>4 DEF Numbers
  <2>5. ASSUME NEW t \in SysThreads, thread[t] = "none", call' = [call EXCEPT ![c] = "wait"],
               thread' = [thread EXCEPT ![t] = "start"], by' = [by EXCEPT ![t] = c]
        PROVE  HandingOver' /\ HandedOver' /\ Numbers'
    <3>1. HandingOver'
      BY <2>1, <2>2, <2>5
    <3>2. HandedOver'
      BY <2>1, <2>2, <2>3, <2>5
    <3>3. Numbers'
      BY <2>2, <2>5 DEF Numbers, HasFd
    <3> QED BY <3>1, <3>2, <3>3
  <2> QED BY <1>3, <2>4, <2>5 DEF CreateThread
<1>4. CASE ReturnSysfs(c)
  BY <1>4 DEF ReturnSysfs, Numbers
<1> QED BY <1>1, <1>2, <1>3, <1>4 DEF SysCaller

LEMMA NumbersOf ==
  ASSUME SysInv, NEW t \in SysThreads
  PROVE  /\ thread[t] \in {"push", "poll"} => fd[t] \in Fds
         /\ thread[t] = "push" => slot[t] \in 0 .. MaxFds - 1
<1>1. Numbers
  BY DEF SysInv
<1>2. thread[t] \in {"push", "poll"} => thread[t] \in HasFd
  BY DEF HasFd
<1>3. /\ thread[t] \in HasFd => fd[t] \in Fds
      /\ thread[t] = "push" => slot[t] \in 0 .. MaxFds - 1
  BY <1>1 DEF Numbers
<1> QED BY <1>2, <1>3

LEMMA SysThreadKeeps ==
  ASSUME SysInv, NEW t \in SysThreads, SysThread(t)
  PROVE  SysInv'
<1> USE DEF SysInv, SysTypeOK, callers, files, Runs
<1>1. CASE CopyStuff(t)
  <2>1. by[t] \in SysCallers /\ stuff[by[t]] \in SysPins
    BY <1>1 DEF CopyStuff, HandingOver, HandedOver
  <2>2. HandingOver' /\ HandedOver'
    BY <1>1, <2>1 DEF CopyStuff, HandingOver, HandedOver
  <2>3. SysTypeOK' /\ Numbers'
    BY <1>1, <2>1 DEF CopyStuff, Numbers, HasFd
  <2> QED BY <2>2, <2>3
<1>2. CASE Tell(t)
  <2>1. by[t] \in SysCallers /\ call[by[t]] = "wait"
    BY <1>2 DEF Tell, HandingOver, HandedOver
  <2>2. \A u \in SysThreads : thread'[u] \notin {"start", "tell"}
    BY <1>2 DEF Tell, HandedOver
  <2>3. HandingOver' /\ HandedOver'
    BY <1>2, <2>1, <2>2 DEF Tell, HandingOver, HandedOver
  <2>4. SysTypeOK' /\ Numbers'
    BY <1>2, <2>1 DEF Tell, Numbers, HasFd
  <2> QED BY <2>3, <2>4
\* The steps that follow are past the handing over.
<1>3. ASSUME NEW here \in HasFd \cup {"open"}, NEW there \in HasFd \cup {"gone"},
             Runs(t, here, there), UNCHANGED <<callers, by, got>>
      PROVE  HandingOver' /\ HandedOver'
  BY <1>3 DEF HandingOver, HandedOver, HasFd
<1>4. CASE OpenValue(t)
  <2>1. HandingOver' /\ HandedOver'
    BY <1>3, <1>4 DEF OpenValue, HasFd
  <2>2. SysTypeOK'
    <3>1. \/ thread' = [thread EXCEPT ![t] = "find"]
          \/ thread' = [thread EXCEPT ![t] = "gone"]
      BY <1>4 DEF OpenValue
    <3>2. /\ open' \in [Fds -> SysThreads \cup {"closed"}] /\ fd' \in [SysThreads -> Fds \cup {-1}]
          /\ ready' \subseteq SysThreads
      BY <1>4 DEF OpenValue
    <3> QED BY <1>4, <3>1, <3>2 DEF OpenValue
  <2>3. Numbers'
    <3>1. ASSUME NEW f \in Fds, thread' = [thread EXCEPT ![t] = "find"], fd' = [fd EXCEPT ![t] = f]
          PROVE  Numbers'
      BY <1>4, <3>1 DEF OpenValue, Numbers, HasFd
    <3>2. ASSUME thread' = [thread EXCEPT ![t] = "gone"], UNCHANGED fd
          PROVE  Numbers'
      BY <1>4, <3>2 DEF OpenValue, Numbers, HasFd
    <3> QED BY <1>4, <3>1, <3>2 DEF OpenValue
  <2> QED BY <2>1, <2>2, <2>3
<1>5. CASE FindSlot(t)
  <2>1. HandingOver' /\ HandedOver'
    BY <1>3, <1>5 DEF FindSlot, HasFd
  <2>2. FreeSlots \subseteq 0 .. MaxFds - 1
    BY DEF FreeSlots
  <2>3. SysTypeOK'
    <3>1. \/ thread' = [thread EXCEPT ![t] = "push"]
          \/ thread' = [thread EXCEPT ![t] = "clear"]
      BY <1>5 DEF FindSlot
    <3>2. slot' \in [SysThreads -> 0 .. MaxFds - 1 \cup {-1}]
      BY <1>5, <2>2 DEF FindSlot
    <3> QED BY <1>5, <3>1, <3>2 DEF FindSlot
  <2>4. Numbers'
    BY <1>5, <2>2 DEF FindSlot, Numbers, HasFd
  <2> QED BY <2>1, <2>3, <2>4
<1>6. CASE PushSysFds(t)
  <2>1. HandingOver' /\ HandedOver'
    BY <1>3, <1>6 DEF PushSysFds, HasFd
  <2>2. fd[t] \in Fds /\ slot[t] \in 0 .. MaxFds - 1
    <3>1. thread[t] = "push"
      BY <1>6 DEF PushSysFds
    <3> QED BY <3>1, NumbersOf
  <2>3. SysTypeOK' /\ Numbers'
    BY <1>6, <2>2 DEF PushSysFds, Numbers, HasFd
  <2> QED BY <2>1, <2>3
<1>7. CASE ClearPending(t)
  <2>1. HandingOver' /\ HandedOver'
    BY <1>3, <1>7 DEF ClearPending, HasFd
  <2>2. SysTypeOK' /\ Numbers'
    BY <1>7 DEF ClearPending, Numbers, HasFd
  <2> QED BY <2>1, <2>2
<1>8. CASE TestEver(t)
  <2>1. HandingOver' /\ HandedOver'
    BY <1>3, <1>8 DEF TestEver, HasFd
  <2>2. SysTypeOK' /\ Numbers'
    BY <1>8 DEF TestEver, Numbers, HasFd
  <2> QED BY <2>1, <2>2
<1>9. CASE EnterPoll(t)
  <2>1. HandingOver' /\ HandedOver'
    BY <1>3, <1>9 DEF EnterPoll, HasFd
  <2>2. fd[t] \in Fds
    <3>1. thread[t] = "poll"
      BY <1>9 DEF EnterPoll
    <3> QED BY <3>1, NumbersOf
  <2>3. SysTypeOK' /\ Numbers'
    BY <1>9, <2>2 DEF EnterPoll, Numbers, HasFd
  <2> QED BY <2>1, <2>3
<1>10. CASE PollReturns(t) \/ CallbackDone(t)
  <2>1. HandingOver' /\ HandedOver'
    BY <1>3, <1>10 DEF PollReturns, CallbackDone, HasFd
  <2>2. SysTypeOK'
    BY <1>10 DEF PollReturns, CallbackDone
  <2>3. Numbers'
    BY <1>10 DEF PollReturns, CallbackDone, Numbers, HasFd
  <2> QED BY <2>1, <2>2, <2>3
<1>11. CASE CloseValue(t)
  <2>1. HandingOver' /\ HandedOver'
    BY <1>3, <1>11 DEF CloseValue, HasFd
  <2>2. SysTypeOK' /\ Numbers'
    BY <1>11 DEF CloseValue, Numbers, HasFd
  <2> QED BY <2>1, <2>2
<1> QED BY <1>1, <1>2, <1>4, <1>5, <1>6, <1>7, <1>8, <1>9, <1>10, <1>11 DEF SysThread

LEMMA SysOtherKeeps ==
  ASSUME SysInv, Shutdown \/ CloseSysFd \/ (\E p \in SysPins : Edge(p)) \/ UNCHANGED sysvars
  PROVE  SysInv'
<1> USE SysfsInterruptsAssumption DEF SysInv, SysTypeOK, callers, files
<1>1. CASE Shutdown
  <2>1. HandingOver' /\ HandedOver'
    BY <1>1 DEF Shutdown, Runs, HandingOver, HandedOver
  <2>2. SysTypeOK'
    <3>1. thread' = thread \/ \E t \in SysThreads : thread' = [thread EXCEPT ![t] = "test"]
      BY <1>1 DEF Shutdown, Runs
    <3>2. closing' = 0 /\ 0 \in -1 .. MaxFds /\ up' = FALSE
      BY <1>1, SMT DEF Shutdown
    <3>3. UNCHANGED <<callers, by, got, files, ready, edges>>
      BY <1>1 DEF Shutdown
    <3>4. thread' \in [SysThreads -> {"none", "start", "tell", "open", "find", "push", "clear",
                                      "test", "poll", "polling", "callback", "close", "gone"}]
      BY <3>1
    <3> QED BY <3>2, <3>3, <3>4
  <2>3. Numbers'
    BY <1>1 DEF Shutdown, Runs, Numbers, HasFd
  <2> QED BY <2>1, <2>2, <2>3
<1>2. CASE CloseSysFd
  <2>1. closing \in 0 .. MaxFds - 1 /\ closing' \in -1 .. MaxFds
    BY <1>2 DEF CloseSysFd
  <2>2. SysTypeOK'
    <3>1. UNCHANGED <<up, callers, thread, by, got, fd, on, slot, ready, edges>>
      BY <1>2 DEF CloseSysFd
    <3>2. /\ fds' \in [0 .. MaxFds - 1 -> Fds \cup {-1}]
          /\ open' \in [Fds -> SysThreads \cup {"closed"}]
      BY <1>2, <2>1 DEF CloseSysFd
    <3> QED BY <2>1, <3>1, <3>2
  <2>3. HandingOver' /\ HandedOver' /\ Numbers'
    BY <1>2 DEF CloseSysFd, HandingOver, HandedOver, Numbers
  <2> QED BY <2>2, <2>3
<1>3. CASE \E p \in SysPins : Edge(p)
  <2>1. HandingOver' /\ HandedOver' /\ Numbers'
    BY <1>3 DEF Edge, HandingOver, HandedOver, Numbers
  <2>2. ready' \subseteq SysThreads /\ edges' \in 0 .. MaxEdges
    BY <1>3 DEF Edge
  <2>3. SysTypeOK'
    BY <1>3, <2>2 DEF Edge
  <2> QED BY <2>1, <2>3
<1>4. CASE UNCHANGED sysvars
  BY <1>4 DEF sysvars, HandingOver, HandedOver, Numbers
<1> QED BY <1>1, <1>2, <1>3, <1>4

LEMMA SysNext == SysInv /\ [NextSysfs]_sysvars => SysInv'
BY SysCallerTypes, SysCallerHands, SysThreadKeeps, SysOtherKeeps DEF NextSysfs, SysInv

-----------------------------------------------------------------------------
\* Who holds pin_mutex is on the way to its answer; who waits has it, or a thread
\* that still owes it.
Answering ==
  \A c \in SysCallers :
    /\ pin_mutex = c => call[c] \in {"create", "wait", "spin"}
    /\ call[c] = "wait" => \/ stuff[c] # wanted[c]
                           \/ \E t \in SysThreads : by[t] = c /\ thread[t] \in {"start", "tell"}

LEMMA AnsweringInit == InitSysfs => Answering
BY SysfsInterruptsAssumption DEF InitSysfs, Answering

LEMMA AnsweringImplies == SysInv /\ Answering => HolderIsAnswered
BY DEF SysInv, SysTypeOK, Answering, HolderIsAnswered

LEMMA AnsweringByCaller ==
  ASSUME SysInv, Answering, NEW c \in SysCallers,
         SysCaller(c) \/ \E p \in SysPins : RegisterSysfs(c, p)
  PROVE  Answering'
<1>0. SysTypeOK
  BY DEF SysInv
<1> USE DEF Calls, files
<1>1. CASE \E p \in SysPins : RegisterSysfs(c, p)
  <2>1. PICK p \in SysPins : RegisterSysfs(c, p)
    BY <1>1
  <2>2. /\ call[c] = "idle" /\ call' = [call EXCEPT ![c] = "lock"]
        /\ wanted' = [wanted EXCEPT ![c] = p] /\ stuff' = [stuff EXCEPT ![c] = p]
        /\ UNCHANGED <<pin_mutex, thread, by>>
    BY <2>1 DEF RegisterSysfs
  <2> QED BY <1>0, <2>2 DEF Answering, SysTypeOK
<1>2. CASE LockPins(c)
  <2>1. /\ call' = [call EXCEPT ![c] = "create"] /\ pin_mutex' = c
        /\ UNCHANGED <<wanted, stuff, thread, by>>
    BY <1>2 DEF LockPins
  <2> QED BY <1>0, <2>1 DEF Answering, SysTypeOK
<1>3. CASE CreateThread(c)
  <2>1. UNCHANGED <<pin_mutex, wanted, stuff>>
    BY <1>3 DEF CreateThread
  <2>2. ASSUME NEW t \in SysThreads, call' = [call EXCEPT ![c] = "wait"], thread[t] = "none",
               thread' = [thread EXCEPT ![t] = "start"], by' = [by EXCEPT ![t] = c]
        PROVE  Answering'
    <3>1. thread'[t] = "start" /\ by'[t] = c
      BY <1>0, <2>2 DEF SysTypeOK
    <3>2. \A u \in SysThreads : thread[u] \in {"start", "tell"} => by'[u] = by[u] /\ thread'[u] = thread[u]
      BY <1>0, <2>2 DEF SysTypeOK
    <3>3. \A d \in SysCallers : IF d = c THEN call'[d] = "wait" ELSE call'[d] = call[d]
      BY <1>0, <2>2 DEF SysTypeOK
    <3> QED BY <2>1, <3>1, <3>2, <3>3 DEF Answering
  <2>3. ASSUME call' = [call EXCEPT ![c] = "spin"], UNCHANGED <<thread, by>>
        PROVE  Answering'
    BY <1>0, <2>1, <2>3 DEF Answering, SysTypeOK
  <2> QED BY <1>3, <2>2, <2>3 DEF CreateThread
<1>4. CASE ReturnSysfs(c)
  <2>1. /\ call' = [call EXCEPT ![c] = "idle"] /\ pin_mutex' = "nobody"
        /\ stuff' = [stuff EXCEPT ![c] = "gone"] /\ UNCHANGED <<wanted, thread, by>>
    BY <1>4 DEF ReturnSysfs
  <2> QED BY <1>0, <2>1, SysfsInterruptsAssumption DEF Answering, SysTypeOK
<1> QED BY <1>1, <1>2, <1>3, <1>4 DEF SysCaller

\* A step of a thread that owes nobody an answer.
LEMMA AnsweringUnchanged ==
  ASSUME Answering, UNCHANGED <<callers, by>>,
         \A t \in SysThreads : thread[t] \in {"start", "tell"} => thread'[t] \in {"start", "tell"}
  PROVE  Answering'
BY DEF Answering, callers

LEMMA AnsweringByThread ==
  ASSUME SysInv, Answering, NEW t \in SysThreads, SysThread(t)
  PROVE  Answering'
<1>0. SysTypeOK
  BY DEF SysInv
<1>1. CASE CopyStuff(t)
  <2>1. UNCHANGED <<callers, by>> /\ thread' = [thread EXCEPT ![t] = "tell"]
    BY <1>1 DEF CopyStuff, Runs
  <2> QED BY <1>0, <2>1, AnsweringUnchanged DEF SysTypeOK
<1>2. CASE Tell(t)
  <2>1. /\ thread[t] = "tell" /\ thread' = [thread EXCEPT ![t] = "open"]
        /\ stuff' = [stuff EXCEPT ![by[t]] = "taken"]
        /\ UNCHANGED <<pin_mutex, call, wanted, by>>
    BY <1>2 DEF Tell, Runs
  <2>2. by[t] \in SysCallers /\ wanted[by[t]] \in SysPins
    BY <2>1 DEF SysInv, HandingOver, HandedOver
  <2>3. stuff'[by[t]] # wanted'[by[t]]
    BY <1>0, <2>1, <2>2, SysfsInterruptsAssumption DEF SysTypeOK
  <2>4. \A u \in SysThreads : u # t => thread'[u] = thread[u]
    BY <1>0, <2>1 DEF SysTypeOK
  <2>5. \A c \in SysCallers : c # by[t] => stuff'[c] = stuff[c]
    BY <1>0, <2>1 DEF SysTypeOK
  <2>6. ASSUME NEW c \in SysCallers, call[c] = "wait", c # by[t]
        PROVE  \/ stuff'[c] # wanted[c]
               \/ \E u \in SysThreads : by[u] = c /\ thread'[u] \in {"start", "tell"}
    <3>1. \/ stuff[c] # wanted[c]
          \/ \E u \in SysThreads : by[u] = c /\ thread[u] \in {"start", "tell"}
      BY <2>6 DEF Answering
    <3> QED BY <2>4, <2>5, <2>6, <3>1
  <2> QED BY <2>1, <2>3, <2>6 DEF Answering
<1>3. CASE ~CopyStuff(t) /\ ~Tell(t)
  <2>1. UNCHANGED <<callers, by>>
    BY <1>3 DEF SysThread, OpenValue, FindSlot, PushSysFds, ClearPending, TestEver, EnterPoll,
                PollReturns, CallbackDone, CloseValue
  <2>2. thread[t] \notin {"start", "tell"} /\ \E there : thread' = [thread EXCEPT ![t] = there]
    BY <1>3 DEF SysThread, OpenValue, FindSlot, PushSysFds, ClearPending, TestEver, EnterPoll,
                PollReturns, CallbackDone, CloseValue, Runs
  <2>3. \A u \in SysThreads : u # t => thread'[u] = thread[u]
    BY <1>0, <2>2 DEF SysTypeOK
  <2> QED BY <2>1, <2>2, <2>3, AnsweringUnchanged
<1> QED BY <1>1, <1>2, <1>3

LEMMA AnsweringNext == SysInv /\ Answering /\ [NextSysfs]_sysvars => Answering'
<1> SUFFICES ASSUME SysInv, Answering, [NextSysfs]_sysvars PROVE Answering'
  OBVIOUS
<1>0. SysTypeOK
  BY DEF SysInv
<1>1. CASE Shutdown
  <2>1. thread' = thread \/ \E t \in SysThreads : thread[t] = "polling" /\ thread' = [thread EXCEPT ![t] = "test"]
    BY <1>1 DEF Shutdown, Runs
  <2>2. \A u \in SysThreads : thread[u] \in {"start", "tell"} => thread'[u] = thread[u]
    BY <1>0, <2>1 DEF SysTypeOK
  <2>3. UNCHANGED <<callers, by>>
    BY <1>1 DEF Shutdown
  <2> QED BY <2>2, <2>3, AnsweringUnchanged
<1>2. CASE CloseSysFd \/ (\E p \in SysPins : Edge(p)) \/ UNCHANGED sysvars
  <2>1. UNCHANGED <<callers, by, thread>>
    BY <1>2 DEF CloseSysFd, Edge, sysvars
  <2> QED BY <2>1, AnsweringUnchanged
<1> QED BY <1>1, <1>2, AnsweringByCaller, AnsweringByThread DEF NextSysfs

-----------------------------------------------------------------------------
(* Whose file a thread polls                                                *)

\* Until gpioShutdown a thread that has a descriptor has its own file there, and
\* polls that: nobody closes it, and nobody else is given its number.
OwnFile ==
  up => /\ closing = -1
        /\ \A t \in SysThreads :
             /\ thread[t] \in HasFd => thread[t] # "close" /\ open[fd[t]] = t
             /\ thread[t] = "polling" => on[t] = t

LEMMA OwnFileInit == InitSysfs => OwnFile
BY DEF InitSysfs, OwnFile, HasFd

\* A step that leaves the files, or a thread without one.
LEMMA OwnFileUnchanged ==
  ASSUME OwnFile, up' => up /\ closing' = closing, UNCHANGED <<fd, on, open>>,
         \A t \in SysThreads : thread'[t] = thread[t] \/ thread'[t] \notin HasFd
  PROVE  OwnFile'
BY DEF OwnFile, HasFd

\* A step of a thread among those with a descriptor.
LEMMA OwnFileMoves ==
  ASSUME SysTypeOK, OwnFile, NEW t \in SysThreads, NEW there, UNCHANGED <<up, closing, fd, open>>,
         up => thread[t] \in HasFd /\ there \in HasFd \ {"close"},
         thread' = [thread EXCEPT ![t] = there],
         UNCHANGED on \/ on' = [on EXCEPT ![t] = open[fd[t]]],
         there = "polling" => on' = [on EXCEPT ![t] = open[fd[t]]]
  PROVE  OwnFile'
<1> SUFFICES ASSUME up PROVE closing' = -1 /\ \A u \in SysThreads :
                 /\ thread'[u] \in HasFd => thread'[u] # "close" /\ open'[fd'[u]] = u
                 /\ thread'[u] = "polling" => on'[u] = u
  BY DEF OwnFile
<1>1. closing' = -1
  BY DEF OwnFile
<1>2. open[fd[t]] = t
  BY DEF OwnFile
<1>3. ASSUME NEW u \in SysThreads, u # t
      PROVE  thread'[u] = thread[u] /\ on'[u] = on[u]
  BY <1>3 DEF SysTypeOK
<1>4. thread'[t] = there /\ (there = "polling" => on'[t] = t)
  BY <1>2 DEF SysTypeOK
<1>5. ASSUME NEW u \in SysThreads
      PROVE  /\ thread'[u] \in HasFd => thread'[u] # "close" /\ open'[fd'[u]] = u
             /\ thread'[u] = "polling" => on'[u] = u
  <2>1. CASE u = t
    BY <1>2, <1>4, <2>1
  <2>2. CASE u # t
    BY <1>3, <2>2 DEF OwnFile
  <2> QED BY <2>1, <2>2
<1> QED BY <1>1, <1>5

LEMMA OwnFileByThread ==
  ASSUME SysInv, OwnFile, NEW t \in SysThreads, SysThread(t)
  PROVE  OwnFile'
<1>0. SysTypeOK
  BY DEF SysInv
<1> USE DEF Runs, files
<1>1. CASE CopyStuff(t) \/ Tell(t)
  <2>1. \E there \in {"tell", "open"} : thread' = [thread EXCEPT ![t] = there]
    BY <1>1 DEF CopyStuff, Tell
  <2>2. \A u \in SysThreads : thread'[u] = thread[u] \/ thread'[u] \notin HasFd
    BY <1>0, <2>1 DEF SysTypeOK, HasFd
  <2>3. UNCHANGED <<up, closing, fd, on, open>>
    BY <1>1 DEF CopyStuff, Tell
  <2> QED BY <2>2, <2>3, OwnFileUnchanged
<1>2. CASE OpenValue(t)
  <2>1. UNCHANGED <<up, closing, on>> /\ thread[t] = "open"
    BY <1>2 DEF OpenValue
  <2>2. ASSUME thread' = [thread EXCEPT ![t] = "gone"], UNCHANGED <<open, fd>> PROVE OwnFile'
    <3>1. \A u \in SysThreads : thread'[u] = thread[u] \/ thread'[u] \notin HasFd
      BY <1>0, <2>2 DEF SysTypeOK, HasFd
    <3> QED BY <2>1, <2>2, <3>1, OwnFileUnchanged
  <2>3. ASSUME NEW f \in Fds, open[f] = "closed", thread' = [thread EXCEPT ![t] = "find"],
               open' = [open EXCEPT ![f] = t], fd' = [fd EXCEPT ![t] = f]
        PROVE  OwnFile'
    <3> SUFFICES ASSUME up, NEW u \in SysThreads
                 PROVE  /\ closing = -1
                        /\ thread'[u] \in HasFd => thread'[u] # "close" /\ open'[fd'[u]] = u
                        /\ thread'[u] = "polling" => on'[u] = u
      BY <2>1 DEF OwnFile
    <3>1. closing = -1
      BY DEF OwnFile
    <3>2. CASE u = t
      BY <1>0, <2>3, <3>1, <3>2 DEF SysTypeOK
    <3>3. CASE u # t
      <4>1. thread'[u] = thread[u] /\ fd'[u] = fd[u]
        BY <1>0, <2>3, <3>3 DEF SysTypeOK
      <4>2. thread[u] \in HasFd => open[fd[u]] = u /\ fd[u] # f /\ fd[u] \in Fds
        BY <2>3, SysfsInterruptsAssumption DEF OwnFile, SysInv, Numbers
      <4>3. thread[u] \in HasFd => open'[fd[u]] = u
        BY <1>0, <2>3, <4>2 DEF SysTypeOK
      <4> QED BY <2>1, <3>1, <4>1, <4>3 DEF OwnFile
    <3> QED BY <3>2, <3>3
  <2> QED BY <1>2, <2>2, <2>3 DEF OpenValue
<1>3. CASE FindSlot(t) \/ PushSysFds(t) \/ ClearPending(t) \/ PollReturns(t) \/ CallbackDone(t)
  <2>1. /\ thread[t] \in HasFd /\ UNCHANGED <<up, closing, fd, on, open>>
        /\ \E there \in {"push", "clear", "test", "callback"} : thread' = [thread EXCEPT ![t] = there]
    BY <1>3 DEF FindSlot, PushSysFds, ClearPending, PollReturns, CallbackDone, HasFd
  <2>2. PICK there \in {"push", "clear", "test", "callback"} : thread' = [thread EXCEPT ![t] = there]
    BY <2>1
  <2>3. there \in HasFd \ {"close"} /\ there # "polling"
    BY DEF HasFd
  <2> QED BY <1>0, <2>1, <2>2, <2>3, OwnFileMoves
<1>4. CASE TestEver(t)
  <2>1. /\ thread[t] \in HasFd /\ UNCHANGED <<up, closing, fd, on, open>>
        /\ thread' = [thread EXCEPT ![t] = IF up THEN "poll" ELSE "close"]
    BY <1>4 DEF TestEver, HasFd
  <2>2. (IF up THEN "poll" ELSE "close") # "polling"
    OBVIOUS
  <2>3. up => (IF up THEN "poll" ELSE "close") \in HasFd \ {"close"}
    BY DEF HasFd
  <2> QED BY <1>0, <2>1, <2>2, <2>3, OwnFileMoves
<1>5. CASE EnterPoll(t)
  <2>1. /\ thread[t] \in HasFd /\ UNCHANGED <<up, closing, fd, open>>
        /\ on' = [on EXCEPT ![t] = open[fd[t]]]
        /\ \E there \in {"callback", "polling"} : thread' = [thread EXCEPT ![t] = there]
    BY <1>5 DEF EnterPoll, HasFd
  <2>2. PICK there \in {"callback", "polling"} : thread' = [thread EXCEPT ![t] = there]
    BY <2>1
  <2>3. there \in HasFd \ {"close"}
    BY DEF HasFd
  <2> QED BY <1>0, <2>1, <2>2, <2>3, OwnFileMoves
<1>6. CASE CloseValue(t)
  <2>1. ~up /\ UNCHANGED up
    BY <1>6 DEF CloseValue, OwnFile, HasFd
  <2> QED BY <2>1 DEF OwnFile
<1> QED BY <1>1, <1>2, <1>3, <1>4, <1>5, <1>6 DEF SysThread

LEMMA OwnFileNext == SysInv /\ OwnFile /\ [NextSysfs]_sysvars => OwnFile'
<1> SUFFICES ASSUME SysInv, OwnFile, [NextSysfs]_sysvars PROVE OwnFile'
  OBVIOUS
<1>0. SysTypeOK
  BY DEF SysInv
<1>1. CASE \E c \in SysCallers : SysCaller(c) \/ \E p \in SysPins : RegisterSysfs(c, p)
  <2>1. UNCHANGED <<up, closing, fd, on, open>>
    BY <1>1 DEF SysCaller, LockPins, CreateThread, ReturnSysfs, RegisterSysfs, files
  <2>2. thread' = thread \/ \E t \in SysThreads : thread' = [thread EXCEPT ![t] = "start"]
    BY <1>1 DEF SysCaller, LockPins, CreateThread, ReturnSysfs, RegisterSysfs
  <2>3. \A t \in SysThreads : thread'[t] = thread[t] \/ thread'[t] \notin HasFd
    BY <1>0, <2>2 DEF SysTypeOK, HasFd
  <2> QED BY <2>1, <2>3, OwnFileUnchanged
<1>2. CASE \E t \in SysThreads : SysThread(t)
  BY <1>2, OwnFileByThread
<1>3. CASE Shutdown
  BY <1>3 DEF Shutdown, OwnFile
<1>4. CASE CloseSysFd
  <2>1. closing \in 0 .. MaxFds - 1 /\ UNCHANGED up
    BY <1>0, <1>4 DEF CloseSysFd, SysTypeOK
  <2>2. ~up
    BY <2>1, SysfsInterruptsAssumption DEF OwnFile
  <2> QED BY <2>1, <2>2 DEF OwnFile
<1>5. CASE (\E p \in SysPins : Edge(p)) \/ UNCHANGED sysvars
  <2>1. UNCHANGED <<up, closing, fd, on, open, thread>>
    BY <1>5 DEF Edge, sysvars, files
  <2> QED BY <2>1, OwnFileUnchanged
<1> QED BY <1>1, <1>2, <1>3, <1>4, <1>5 DEF NextSysfs

\* What a step takes out of ready it calls back for, or it is the first read.
LEMMA EdgeKept ==
  ASSUME SysInv, OwnFile, [NextSysfs]_sysvars, up, NEW t \in SysThreads, t \in ready, t \notin ready'
  PROVE  thread[t] = "clear" \/ thread'[t] = "callback"
<1>0. SysTypeOK
  BY DEF SysInv
<1>1. ASSUME NEW u \in SysThreads, ClearPending(u) PROVE thread[t] = "clear"
  <2>1. thread[u] = "clear" /\ ready' = ready \ {open[fd[u]]}
    BY <1>1 DEF ClearPending, Runs
  <2>2. open[fd[u]] = u
    BY <2>1 DEF OwnFile, HasFd
  <2> QED BY <2>1, <2>2
<1>2. ASSUME NEW u \in SysThreads, PollReturns(u) PROVE thread'[t] = "callback"
  <2>1. thread[u] = "polling" /\ thread' = [thread EXCEPT ![u] = "callback"] /\ ready' = ready \ {on[u]}
    BY <1>2 DEF PollReturns, Runs
  <2>2. on[u] = u
    BY <2>1 DEF OwnFile
  <2> QED BY <1>0, <2>1, <2>2 DEF SysTypeOK
<1>3. ASSUME NEW u \in SysThreads, SysThread(u), ~ClearPending(u), ~PollReturns(u)
      PROVE  ready \subseteq ready'
  BY <1>3 DEF SysThread, CopyStuff, Tell, OpenValue, FindSlot, PushSysFds, TestEver, EnterPoll,
              CallbackDone, CloseValue
<1>4. ASSUME NEW c \in SysCallers, SysCaller(c) \/ \E p \in SysPins : RegisterSysfs(c, p)
      PROVE  ready \subseteq ready'
  BY <1>4 DEF SysCaller, LockPins, CreateThread, ReturnSysfs, RegisterSysfs
<1>5. CASE Shutdown \/ CloseSysFd \/ (\E p \in SysPins : Edge(p)) \/ UNCHANGED sysvars
  <2>1. ready \subseteq ready'
    BY <1>5 DEF Shutdown, CloseSysFd, Edge, sysvars
  <2> QED BY <2>1
<1> QED BY <1>1, <1>2, <1>3, <1>4, <1>5 DEF NextSysfs

-----------------------------------------------------------------------------
(* What holds of a program that is built either way, which is what the runs *)
(* look at.                                                                 *)

LEMMA BuildsInit == InitBuilds => MemInv /\ SysInv /\ PollerInv
BY InitMem, SysInit, PollerInit DEF InitBuilds

LEMMA BuildsNext == [NextBuilds]_<<vars, sysvars, build>> => [Next]_vars /\ [NextSysfs]_sysvars
BY DEF NextBuilds, InMemory, InSysfs

\* The types of both parts (GPIO_Pi.c:731-1050).
THEOREM TypesInBuilds == SpecBuilds => []BuildsTypeOK
<1>1. MemInv /\ SysInv => BuildsTypeOK
  BY DEF MemInv, SysInv, BuildsTypeOK
<1>2. MemInv /\ [Next]_vars => MemInv'
  BY MemNext
<1> QED BY <1>1, <1>2, BuildsInit, BuildsNext, SysNext, PTL DEF SpecBuilds

\* No call loses a registration that it did not look for.
THEOREM KeepsRegistrationsInBuilds == SpecBuilds => NeverLost
<1>1. MemInv /\ [Next]_vars =>
        /\ MemInv'
        /\ [\A n \in Listed : n \in Listed' \/ \E c \in Callers : at[c] = "find" /\ mine'[c] = n]_vars
  BY MemNext
<1> QED BY <1>1, BuildsInit, BuildsNext, PTL DEF SpecBuilds, NeverLost

\* The arguments are read and answered while the call that lent them waits: the
\* lock lets one thread at a time be handed something (GPIO_Pi.c:776-779, 843-852).
THEOREM HandedOverInBuilds == SpecBuilds => []HandedOver
<1>1. SysInv => HandedOver
  BY DEF SysInv
<1> QED BY <1>1, BuildsInit, BuildsNext, SysNext, PTL DEF SpecBuilds

\* There is one poller at most, started and ended in whatever order.
THEOREM OnePollerInBuilds == SpecBuilds => []OnePoller
<1>1. InitBuilds => PollerInv
  BY PollerInit DEF InitBuilds
<1>2. [NextBuilds]_<<vars, sysvars, build>> => [Next]_vars
  BY DEF NextBuilds, InMemory, InSysfs
<1>3. PollerInv => OnePoller
  BY DEF PollerInv
<1> QED BY <1>1, <1>2, <1>3, PollerNext, PTL DEF SpecBuilds

\* While nobody unregisters and the library is not shut down no thread uses a node
\* that is gone, for any number of threads and registrations.
THEOREM NodesStayInBuilds == SpecBuilds => []NodesStay
<1>1. InitBuilds => UndisturbedInv
  BY UndisturbedInit DEF InitBuilds
<1>2. MemInv /\ UndisturbedInv /\ [Next]_vars => MemInv' /\ UndisturbedInv'
  BY MemNext, UndisturbedNext
<1>3. UndisturbedInv => NodesStay
  BY DEF UndisturbedInv, Undisturbed, Sane, NodesStay
<1> QED BY <1>1, <1>2, <1>3, BuildsInit, BuildsNext, PTL DEF SpecBuilds

\* However many threads register at the same time, whoever waits inside pinMutex has
\* its answer or a thread that owes it: nobody waits for nothing, unless the thread
\* could not be created (GPIO_Pi.c:843-852, 779).
THEOREM HolderIsAnsweredInBuilds == SpecBuilds => []HolderIsAnswered
<1>1. InitBuilds => SysInv /\ Answering
  BY SysInit, AnsweringInit DEF InitBuilds
<1>2. SysInv /\ Answering /\ [NextSysfs]_sysvars => SysInv' /\ Answering'
  BY SysNext, AnsweringNext
<1> QED BY <1>1, <1>2, AnsweringImplies, BuildsNext, PTL DEF SpecBuilds

\* For any number of pins, descriptors and edges: until gpioShutdown every thread
\* polls its own file, so that an edge that came stays pending until it is called
\* back for (GPIO_Pi.c:762-771, 793-807).
THEOREM EdgesKeptInBuilds == SpecBuilds => EdgesKept
<1>1. InitBuilds => SysInv /\ OwnFile
  BY SysInit, OwnFileInit DEF InitBuilds
<1>2. SysInv /\ OwnFile /\ [NextSysfs]_sysvars =>
        /\ SysInv' /\ OwnFile'
        /\ [\A t \in SysThreads :
              up /\ t \in ready /\ t \notin ready' => thread[t] = "clear" \/ thread'[t] = "callback"]_sysvars
  BY SysNext, OwnFileNext, EdgeKept
<1> QED BY <1>1, <1>2, BuildsNext, PTL DEF SpecBuilds, EdgesKept

\* While nobody unregisters and the library is not shut down, a registration is
\* never without a poller, or the caller that is about to start it: the poller can
\* not take its way out, and clears the id nowhere else (GPIO_Pi.c:929-959,
\* 1003-1013).
THEOREM AlwaysPolledInBuilds == SpecBuilds => []AlwaysPolled
<1>1. InitBuilds => UndisturbedInv /\ PolledInv
  BY UndisturbedInit, PolledInit DEF InitBuilds
<1>2. MemInv /\ UndisturbedInv /\ PolledInv /\ [Next]_vars => MemInv' /\ UndisturbedInv' /\ PolledInv'
  BY MemNext, UndisturbedNext, PolledNext
<1> QED BY <1>1, <1>2, PolledImplies, BuildsInit, BuildsNext, PTL DEF SpecBuilds
=============================================================================
