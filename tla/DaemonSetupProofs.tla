------------------------- MODULE DaemonSetupProofs --------------------------
(***************************************************************************)
(* Where the text of the daemon goes, for any number of descriptors, lines *)
(* in the buffer, connections and syslog restarts; the modes and resistors *)
(* of the pins, for any number of pins, tools and commands, however their  *)
(* accesses interleave; and the start of the daemon, which does both.      *)
(***************************************************************************)
EXTENDS DaemonSetup, SequenceTheorems, TLAPS

-----------------------------------------------------------------------------
(* Descriptors and text                                                     *)

\* The kernel's choice of a descriptor keeps the table a table.
LEMMA OpenedType ==
  ASSUME NEW t \in [Fds -> Uses], NEW use \in Uses, NEW u \in Opened(t, use)
  PROVE  u \in [Fds -> Uses]
BY DEF Opened, IsLowest

LEMMA AfterSyslogType ==
  ASSUME NEW t \in [Fds -> Uses], NEW u \in AfterSyslog(t)
  PROVE  u \in [Fds -> Uses]
<1>1. "syslog" \in Uses /\ "closed" \in Uses
  BY DEF Uses
<1>2. CASE ~syslog_up
  BY <1>1, <1>2 DEF AfterSyslog, WithoutSyslog
<1>3. CASE syslog_up /\ \E f \in Fds : t[f] = "syslog"
  BY <1>3 DEF AfterSyslog
<1>4. CASE syslog_up /\ ~\E f \in Fds : t[f] = "syslog"
  BY <1>1, <1>4, OpenedType DEF AfterSyslog
<1>5. QED BY <1>2, <1>3, <1>4

\* Neither touches the socket of mac.
LEMMA OpenedKeeps ==
  ASSUME NEW t \in [Fds -> Uses], NEW use \in Uses, NEW u \in Opened(t, use), t[1] = "mac"
  PROVE  u[1] = "mac"
<1>1. 1 \in Fds
  BY DaemonStdioAssumption
<1>2. QED BY <1>1 DEF Opened, IsLowest

LEMMA AfterSyslogKeeps ==
  ASSUME NEW t \in [Fds -> Uses], NEW u \in AfterSyslog(t), t[1] = "mac"
  PROVE  u[1] = "mac"
<1>1. 1 \in Fds /\ "syslog" \in Uses
  BY DaemonStdioAssumption DEF Uses
<1>2. CASE ~syslog_up
  BY <1>1, <1>2 DEF AfterSyslog, WithoutSyslog
<1>3. CASE syslog_up /\ \E f \in Fds : t[f] = "syslog"
  BY <1>3 DEF AfterSyslog
<1>4. CASE syslog_up /\ ~\E f \in Fds : t[f] = "syslog"
  BY <1>1, <1>4, OpenedKeeps DEF AfterSyslog
<1>5. QED BY <1>2, <1>3, <1>4

\* What the buffer holds after a step that prints.
LEMMA LogType ==
  ASSUME TypeOK, Log
  PROVE  buffered' \in 0 .. BufLines /\ printed_to' \subseteq Uses
<1>1. BufLines \in Nat \ {0} /\ 1 \in Fds
  BY DaemonStdioAssumption
<1>2. QED BY <1>1 DEF TypeOK, Log

\* A step leaves every variable in its type.
LEMMA TypeStep == TypeOK /\ [Next]_vars => TypeOK'
<1> SUFFICES ASSUME TypeOK, [Next]_vars PROVE TypeOK'
  OBVIOUS
<1>u. {"closed", "syslog", "mac", "dns", "resolved", "mqtt"} \subseteq Uses
  BY DEF Uses
<1>n. 1 \in Fds /\ BufLines \in Nat \ {0}
  BY DaemonStdioAssumption
<1>1. CASE Notice
  BY <1>1, AfterSyslogType DEF Notice, TypeOK
<1>2. CASE GpioSetup
  BY <1>2, <1>u DEF GpioSetup, WithoutSyslog, TypeOK
<1>3. CASE GenerateMqttId
  BY <1>3, <1>u, OpenedType, LogType DEF GenerateMqttId, TypeOK
<1>4. CASE Connect
  BY <1>4, <1>u, OpenedType, LogType DEF Connect, TypeOK
<1>5. CASE LogError
  BY <1>5, AfterSyslogType DEF LogError, TypeOK
<1>6. CASE Refused
  BY <1>6, LogType DEF Refused, TypeOK
<1>7. CASE Prints
  BY <1>7, LogType DEF Prints, TypeOK
<1>8. CASE SyslogChanges
  BY <1>8 DEF SyslogChanges, TypeOK
<1>9. CASE Interrupt
  BY <1>9, AfterSyslogType DEF Interrupt, TypeOK
<1>10. CASE Exit
  <2>1. fd' \in [Fds -> Uses]
    BY <1>10, <1>u DEF Exit, TypeOK
  <2>2. QED BY <1>10, <1>n, <2>1 DEF Exit, TypeOK
<1>11. ASSUME NEW f \in Fds, Resolved(f) PROVE TypeOK'
  <2>1. [fd EXCEPT ![f] = "resolved"] \in [Fds -> Uses]
    BY <1>u DEF TypeOK
  <2>2. QED BY <1>11, <1>u, <2>1, OpenedType DEF Resolved, TypeOK
<1>12. ASSUME NEW f \in Fds, LookupClosed(f) PROVE TypeOK'
  BY <1>12, <1>u DEF LookupClosed, TypeOK
<1>13. ASSUME NEW f \in Fds, Failed(f) PROVE TypeOK'
  <2>1. [fd EXCEPT ![f] = "closed"] \in [Fds -> Uses]
    BY <1>u DEF TypeOK
  <2>2. QED BY <1>13, <2>1, AfterSyslogType DEF Failed, TypeOK
<1>14. CASE UNCHANGED vars
  BY <1>14 DEF vars, TypeOK
<1>15. CASE PinsSet
  BY <1>15 DEF PinsSet, TypeOK
<1>16. CASE PinsNotSet
  BY <1>16, AfterSyslogType DEF PinsNotSet, TypeOK
<1>17. CASE Terminated
  BY <1>17 DEF Terminated, TypeOK
<1>18. CASE PullLogs
  BY <1>18, <1>u DEF PullLogs, WithoutSyslog, TypeOK
<1>19. QED
  BY <1>1, <1>2, <1>3, <1>4, <1>5, <1>6, <1>7, <1>8, <1>9, <1>10, <1>11, <1>12,
     <1>13, <1>14, <1>15, <1>16, <1>17, <1>18 DEF Next

\* Type invariant of DaemonStdio.
THEOREM StdioTypeCorrect == Spec => []TypeOK
<1>1. Init => TypeOK
  <2>1. SyslogAtStart \in BOOLEAN
    BY DaemonStdioAssumption, Zenon
  <2>2. Init => syslog_up \in BOOLEAN
    BY <2>1, Zenon DEF Init
  <2>3. Init => fd \in [Fds -> Uses] /\ buffered \in 0 .. BufLines
    BY DaemonStdioAssumption DEF Init, Uses
  <2>4. Init => stopped \in BOOLEAN
    BY DEF Init
  <2>5. QED BY <2>2, <2>3, <2>4, Zenon DEF Init, TypeOK
<1>2. QED BY <1>1, TypeStep, PTL DEF Spec

-----------------------------------------------------------------------------
\* The start of main_loop: syslog has taken descriptor 0 when mac asks for a
\* socket, which therefore gets 1 and keeps it.
Start ==
  /\ pc \in {"notice", "setup", "pins", "id"} => syslog_up /\ printed_to = {} /\ buffered = 0
  /\ pc = "notice" => fd = [f \in Fds |-> IF f = 3 THEN "pid_file" ELSE "closed"]
  /\ pc \in {"setup", "pins", "id"} => fd[0] = "syslog" /\ fd[1] = "closed"

Later ==
  /\ pc \in {"connect", "loop"} => fd[1] = "mac"
  /\ printed_to \subseteq {"closed", "mac"}

Home == build = "registers" => Start /\ Later

\* Printing reaches what descriptor 1 is.
LEMMA LogGoesTo1 ==
  ASSUME TypeOK, Log, fd[1] \in {"closed", "mac"}, printed_to \subseteq {"closed", "mac"}
  PROVE  printed_to' \subseteq {"closed", "mac"}
BY DEF Log

LEMMA LaterStep ==
  ASSUME KnownBoard, build = "registers", TypeOK, Start, Later, [Next]_vars
  PROVE  Start' /\ Later'
<1>u. {"closed", "syslog", "mac", "dns", "resolved", "mqtt"} \subseteq Uses
  BY DEF Uses
<1>n. Fds \subseteq Nat /\ 0 \in Fds /\ 1 \in Fds /\ 3 \in Fds /\ BufLines \in Nat \ {0}
  BY DaemonStdioAssumption
<1>1. CASE Notice
  <2>1. AfterSyslog(fd) = Opened(fd, "syslog")
    BY <1>1, <1>n DEF Notice, Start, AfterSyslog
  <2>2. PICK f \in Fds : IsLowest(fd, f) /\ fd' = [fd EXCEPT ![f] = "syslog"]
    BY <1>1, <2>1 DEF Notice, Opened
  <2>3. f = 0
    <3>1. fd[0] = "closed"
      BY <1>1, <1>n DEF Notice, Start
    <3>2. QED BY <2>2, <3>1, <1>n DEF IsLowest
  <2>4. fd'[0] = "syslog" /\ fd'[1] = "closed"
    BY <1>1, <1>n, <2>2, <2>3 DEF Notice, Start
  <2>5. QED BY <1>1, <2>4 DEF Notice, Start, Later
<1>2. CASE GpioSetup
  BY <1>2 DEF GpioSetup, Start, Later
<1>3. CASE GenerateMqttId
  <2>1. PICK f \in Fds : IsLowest(fd, f) /\ fd' = [fd EXCEPT ![f] = "mac"]
    BY <1>3 DEF GenerateMqttId, Opened
  <2>2. f = 1
    <3>1. fd[0] = "syslog" /\ fd[1] = "closed"
      BY <1>3 DEF GenerateMqttId, Start
    <3>2. QED BY <2>1, <3>1, <1>n DEF IsLowest
  <2>3. fd'[1] = "mac"
    BY <1>n, <2>1, <2>2 DEF TypeOK
  <2>4. printed_to' \subseteq {"closed", "mac"}
    BY <1>3, LogGoesTo1 DEF GenerateMqttId, Start, Later
  <2>5. QED BY <1>3, <2>3, <2>4 DEF GenerateMqttId, Start, Later
<1>4. CASE Connect
  <2>1. fd[1] = "mac"
    BY <1>4 DEF Connect, Later
  <2>2. fd'[1] = "mac"
    BY <1>4, <1>u, <2>1, OpenedKeeps DEF Connect, TypeOK
  <2>3. printed_to' \subseteq {"closed", "mac"}
    BY <1>4, <2>1, LogGoesTo1 DEF Connect, Later
  <2>4. QED BY <1>4, <2>2, <2>3 DEF Connect, Start, Later
<1>5. CASE LogError
  BY <1>5, AfterSyslogKeeps DEF LogError, Start, Later, TypeOK
<1>6. CASE Refused
  BY <1>6, LogGoesTo1 DEF Refused, Start, Later
<1>7. CASE Prints
  BY <1>7, LogGoesTo1 DEF Prints, Start, Later
<1>8. CASE SyslogChanges
  BY <1>8 DEF SyslogChanges, Start, Later
<1>9. CASE Interrupt
  <2>1. CASE pc = "id"
    <3>1. AfterSyslog(fd) = {fd}
      BY <1>n, <2>1 DEF Start, AfterSyslog
    <3>2. QED BY <1>9, <2>1, <3>1 DEF Interrupt, Start, Later
  <2>2. CASE pc \in {"connect", "loop"}
    BY <1>9, <2>2, AfterSyslogKeeps DEF Interrupt, Start, Later, TypeOK
  <2>3. QED BY <1>9, <2>1, <2>2 DEF Interrupt
<1>10. CASE Exit
  <2>1. fd'[1] = "mac"
    BY <1>10, <1>n DEF Exit, Later, TypeOK
  <2>2. QED BY <1>10, <2>1 DEF Exit, Start, Later
<1>11. ASSUME NEW f \in Fds, Resolved(f) PROVE Start' /\ Later'
  <2>1. [fd EXCEPT ![f] = "resolved"] \in [Fds -> Uses]
    BY <1>u DEF TypeOK
  <2>2. [fd EXCEPT ![f] = "resolved"][1] = "mac"
    BY <1>11, <1>n DEF Resolved, Later, TypeOK
  <2>3. fd'[1] = "mac"
    BY <1>11, <1>u, <2>1, <2>2, OpenedKeeps DEF Resolved
  <2>4. QED BY <1>11, <2>3 DEF Resolved, Start, Later
<1>12. ASSUME NEW f \in Fds, LookupClosed(f) PROVE Start' /\ Later'
  BY <1>12, <1>n DEF LookupClosed, Start, Later, TypeOK
<1>13. ASSUME NEW f \in Fds, Failed(f) PROVE Start' /\ Later'
  <2>1. [fd EXCEPT ![f] = "closed"] \in [Fds -> Uses]
    BY <1>u DEF TypeOK
  <2>2. [fd EXCEPT ![f] = "closed"][1] = "mac"
    BY <1>13, <1>n DEF Failed, Later, TypeOK
  <2>3. fd'[1] = "mac"
    BY <1>13, <2>1, <2>2, AfterSyslogKeeps DEF Failed
  <2>4. QED BY <1>13, <2>3 DEF Failed, Start, Later
<1>14. CASE UNCHANGED vars
  BY <1>14 DEF vars, Start, Later
<1>15. CASE PinsSet
  BY <1>15 DEF PinsSet, Start, Later
<1>16. CASE PinsNotSet
  BY <1>16 DEF PinsNotSet, Start, Later
<1>17. CASE Terminated
  BY <1>17 DEF Terminated, Start, Later
<1>18. CASE PullLogs
  BY <1>18 DEF PullLogs
<1>19. QED
  BY <1>1, <1>2, <1>3, <1>4, <1>5, <1>6, <1>7, <1>8, <1>9, <1>10, <1>11, <1>12,
     <1>13, <1>14, <1>15, <1>16, <1>17, <1>18 DEF Next

\* The program is built once.
LEMMA BuildStays == [Next]_vars => build' = build
BY DEF Next, vars, Notice, GpioSetup, PullLogs, PinsSet, PinsNotSet, Terminated, GenerateMqttId,
       Connect, LogError, Refused, Prints, SyslogChanges, Interrupt, Exit, Resolved, LookupClosed,
       Failed

LEMMA Mac1 ==
  ASSUME SyslogAtStart, KnownBoard
  PROVE  Spec => []TextReachesNobody
<1>1. Init => Home
  BY DEF Init, Home, Start, Later
<1>2. TypeOK /\ Home /\ [Next]_vars => Home'
  BY LaterStep, BuildStays DEF Home
<1>3. Home => TextReachesNobody
  BY DEF Home, Later, TextReachesNobody, Sockets
<1>4. QED BY <1>1, <1>2, <1>3, StdioTypeCorrect, PTL DEF Spec

\* What the daemon prints never reaches a socket, if it is built with registers,
\* syslog answers at the start and the board is known (RotaryEncoder.c:334-337,
\* MQTT.c:26).
THEOREM TextStaysHome == Spec => []TextReachesNobody
<1>1. CASE SyslogAtStart /\ KnownBoard
  BY <1>1, Mac1
<1>2. CASE ~(SyslogAtStart /\ KnownBoard)
  <2>1. TextReachesNobody
    BY <1>2 DEF TextReachesNobody
  <2>2. QED BY <2>1, PTL
<1>3. QED BY <1>1, <1>2

-----------------------------------------------------------------------------
(* Pins                                                                     *)

\* What an access may still do, given what was asked for (A) on board B.
Fits(o, A, B) ==
  /\ o.work = "mode" => <<"mode", o.pin, o.val>> \in A
  /\ o.work = "pull" => <<"pull", o.pin, o.val>> \in A
  /\ o.work = "edge" => <<"mode", o.pin, INPUT>> \in A /\ <<"mode", o.pin, OUTPUT>> \in A
  /\ o.work = "unexport" => <<"mode", o.pin, INPUT>> \in A
  /\ o.work = "restore" /\ o.val # Unread => <<"mode", o.pin, o.val>> \in A
  /\ o.work \in {"clk", "pud", "unclk"} => B = "pud"

Fitting(A, B) == {o \in Ops : Fits(o, A, B)}

ChipOK ==
  /\ board \in {"pud", "pi4", "sysfs"}
  /\ fsel \in [Pins -> Modes] /\ pull \in [Pins -> Modes] /\ gppud \in Modes
  /\ high \subseteq Pins /\ clock \subseteq Pins /\ exported \subseteq Pins

NotesOK ==
  /\ setup \in {"before", "inside", "done", "failed", "killed"}
  /\ commands \in 0 .. MaxCommands
  /\ asked \subseteq {"mode", "pull"} \X Pins \X Modes
  /\ alone \in Procs \cup {Nobody}

TodoOK ==
  /\ todo \in [Procs -> Seq(Fitting(asked, board))]
  /\ setup = "before" => todo[Daemon] = <<>>

\* What process a has read from the register was asked for.
Read(a) ==
  /\ todo[a] # <<>>
  /\ \/ /\ Head(todo[a]).work = "mode" /\ board # "sysfs"
        /\ \A q \in Pins : SameSelect(Pin(a), q) => <<"mode", q, seen[a][q]>> \in asked
     \/ /\ Head(todo[a]).work = "pull" /\ board = "pi4"
        /\ \A q \in Pins : SamePull(Pin(a), q) => <<"pull", q, seen[a][q]>> \in asked

LoadedOK ==
  /\ loaded \subseteq Procs /\ seen \in [Procs -> [Pins -> Modes]]
  /\ \A a \in loaded : Read(a)

PinsInv == ChipOK /\ NotesOK /\ killed \in BOOLEAN /\ TodoOK /\ LoadedOK /\ WasAsked

-----------------------------------------------------------------------------
LEMMA DaemonIsProc == Daemon \in Procs /\ Daemon \notin Tools /\ Tools \subseteq Procs
BY GpioPinsAssumption DEF Procs

LEMMA KnobIsPins == Clk \in Pins /\ Dt \in Pins /\ Sw \in Pins
BY GpioPinsAssumption

LEMMA FittingGrows ==
  ASSUME NEW A, NEW A2, A \subseteq A2, NEW B
  PROVE  Fitting(A, B) \subseteq Fitting(A2, B)
BY DEF Fitting, Fits

\* A process that does one thing and puts s before the rest keeps to what fits.
LEMMA ThenFits ==
  ASSUME NEW G, todo \in [Procs -> Seq(G)], NEW a \in Procs, todo[a] # <<>>,
         NEW s \in Seq(G), Then(a, s)
  PROVE  todo' \in [Procs -> Seq(G)] /\ Head(todo[a]) \in G
<1>1. Head(todo[a]) \in G /\ Tail(todo[a]) \in Seq(G)
  BY HeadTailProperties
<1>2. s \o Tail(todo[a]) \in Seq(G)
  BY <1>1, ConcatProperties
<1>3. QED BY <1>1, <1>2 DEF Then

LEMMA DoneFits ==
  ASSUME NEW G, todo \in [Procs -> Seq(G)], NEW a \in Procs, todo[a] # <<>>, Done(a)
  PROVE  todo' \in [Procs -> Seq(G)] /\ Head(todo[a]) \in G
<1>1. <<>> \in Seq(G)
  BY EmptySeq
<1>2. QED BY <1>1, ThenFits DEF Done

\* A step of process a does not concern what the others have read.
LEMMA OthersRead ==
  ASSUME LoadedOK, NEW a \in Procs, loaded' \subseteq loaded \ {a},
         \A b \in Procs \ {a} : todo'[b] = todo[b] /\ seen'[b] = seen[b],
         asked \subseteq asked', board' = board,
         seen' \in [Procs -> [Pins -> Modes]]
  PROVE  LoadedOK'
<1>1. ASSUME NEW b \in loaded' PROVE Read(b)'
  <2>1. b \in loaded /\ b \in Procs \ {a}
    BY DEF LoadedOK
  <2>2. Read(b) /\ todo'[b] = todo[b] /\ seen'[b] = seen[b]
    BY <2>1 DEF LoadedOK
  <2>3. QED BY <2>2 DEF Read, Pin
<1>2. QED BY <1>1 DEF LoadedOK

\* A process that is not between a read and a write stays out of the registers.
LEMMA NotLoaded ==
  ASSUME LoadedOK, NEW a \in Procs,
         \/ todo[a] = <<>>
         \/ Head(todo[a]).work \notin {"mode", "pull"}
         \/ board = "sysfs"
         \/ Head(todo[a]).work = "pull" /\ board = "pud"
  PROVE  a \notin loaded
BY DEF LoadedOK, Read

\* An access that ends with s to do leaves what is to do, and what was read, fit.
LEMMA AccessFits ==
  ASSUME PinsInv, NEW a \in Procs, todo[a] # <<>>,
         NEW s \in Seq(Fitting(asked, board)), Then(a, s), loaded' \subseteq loaded \ {a},
         seen' = seen \/ seen' = [seen EXCEPT ![a] = Nothing], UNCHANGED <<board, setup, asked>>
  PROVE  TodoOK' /\ LoadedOK'
<1>1. todo' \in [Procs -> Seq(Fitting(asked, board))]
  BY ThenFits DEF PinsInv, TodoOK
<1>2. \A b \in Procs \ {a} : todo'[b] = todo[b]
  BY DEF Then, PinsInv, TodoOK
<1>3. setup = "before" => todo'[Daemon] = <<>>
  BY <1>2, DaemonIsProc DEF PinsInv, TodoOK
<1>4. Nothing \in [Pins -> Modes]
  BY DEF Nothing, Modes
<1>5. seen' \in [Procs -> [Pins -> Modes]] /\ \A b \in Procs \ {a} : seen'[b] = seen[b]
  BY <1>4 DEF PinsInv, LoadedOK
<1>6. LoadedOK'
  BY <1>2, <1>5, OthersRead DEF PinsInv
<1>7. QED BY <1>1, <1>3, <1>6 DEF TodoOK

LEMMA DoneAccessFits ==
  ASSUME PinsInv, NEW a \in Procs, todo[a] # <<>>, Done(a), loaded' \subseteq loaded \ {a},
         seen' = seen \/ seen' = [seen EXCEPT ![a] = Nothing], UNCHANGED <<board, setup, asked>>
  PROVE  TodoOK' /\ LoadedOK'
<1>1. <<>> \in Seq(Fitting(asked, board))
  BY EmptySeq
<1>2. QED BY <1>1, AccessFits DEF Done

\* What an access does fits.
LEMMA HeadFits ==
  ASSUME PinsInv, NEW a \in Procs, todo[a] # <<>>
  PROVE  /\ Fits(Head(todo[a]), asked, board)
         /\ Head(todo[a]) \in Ops /\ Pin(a) \in Pins /\ Val(a) \in Modes \cup {Unread}
<1>1. Head(todo[a]) \in Fitting(asked, board)
  BY HeadTailProperties DEF PinsInv, TodoOK
<1>2. QED BY <1>1 DEF Fitting, Ops, Pin, Val

\* Both kinds of value that are asked for are modes or pulls of pins.
LEMMA AskedIsMode ==
  ASSUME PinsInv, NEW k, NEW p, NEW v, <<k, p, v>> \in asked
  PROVE  v \in Modes
BY DEF PinsInv, NotesOK

\* Reading a register.
LEMMA LoadStep ==
  ASSUME PinsInv, NEW a \in Procs, ReadSelect(a) \/ ReadPull(a)
  PROVE  PinsInv'
<1>t. todo[a] # <<>>
  BY DEF ReadSelect, ReadPull, Does
<1>1. /\ UNCHANGED <<board, chip, todo, notes>> /\ a \notin loaded /\ loaded' = loaded \cup {a}
  BY DEF ReadSelect, ReadPull, Load
<1>2. ChipOK' /\ NotesOK' /\ TodoOK' /\ WasAsked'
  BY <1>1 DEF PinsInv, ChipOK, NotesOK, TodoOK, WasAsked, chip, notes
<1>3. (killed \in BOOLEAN)'
  BY <1>1, Zenon DEF PinsInv, notes
<1>4. \A b \in Procs \ {a} : seen'[b] = seen[b]
  BY DEF ReadSelect, ReadPull, Load, PinsInv, LoadedOK
<1>5. seen' \in [Procs -> [Pins -> Modes]]
  <2>1. \A q \in Pins : fsel[q] \in Modes /\ pull[q] \in Modes /\ 0 \in Modes
    BY DEF PinsInv, ChipOK, Modes
  <2>2. CASE ReadSelect(a)
    BY <2>1, <2>2 DEF ReadSelect, Load, PinsInv, LoadedOK
  <2>3. CASE ReadPull(a)
    BY <2>1, <2>3 DEF ReadPull, Load, PinsInv, LoadedOK
  <2>4. QED BY <2>2, <2>3
<1>6. Read(a)'
  <2>1. CASE ReadSelect(a)
    <3>1. \A q \in Pins : SameSelect(Pin(a), q) => seen'[a][q] = fsel[q]
      BY <2>1 DEF ReadSelect, Load, PinsInv, LoadedOK
    <3>2. Head(todo[a]).work = "mode" /\ board # "sysfs"
      BY <2>1 DEF ReadSelect, Does
    <3>3. QED BY <1>t, <1>1, <3>1, <3>2 DEF Read, Pin, PinsInv, WasAsked, notes
  <2>2. CASE ReadPull(a)
    <3>1. \A q \in Pins : SamePull(Pin(a), q) => seen'[a][q] = pull[q]
      BY <2>2 DEF ReadPull, Load, PinsInv, LoadedOK
    <3>2. Head(todo[a]).work = "pull" /\ board = "pi4"
      BY <2>2 DEF ReadPull, Does
    <3>3. QED BY <1>t, <1>1, <3>1, <3>2 DEF Read, Pin, PinsInv, WasAsked, notes
  <2>3. QED BY <2>1, <2>2
<1>7. ASSUME NEW b \in loaded, b # a PROVE Read(b)'
  <2>1. Read(b) /\ seen'[b] = seen[b]
    BY <1>4, <1>7 DEF PinsInv, LoadedOK
  <2>2. QED BY <2>1, <1>1 DEF Read, Pin, notes
<1>8. LoadedOK'
  BY <1>1, <1>5, <1>6, <1>7 DEF PinsInv, LoadedOK
<1>9. QED BY <1>2, <1>3, <1>8, Zenon DEF PinsInv

\* The write of pinMode puts in what was asked for and what was read.
LEMMA WriteSelectStep ==
  ASSUME PinsInv, NEW a \in Procs, WriteSelect(a)
  PROVE  PinsInv'
<1>t. todo[a] # <<>> /\ Head(todo[a]).work = "mode" /\ a \in loaded
  BY DEF WriteSelect, Does
<1>1. TodoOK' /\ LoadedOK'
  BY <1>t, DoneAccessFits DEF WriteSelect, notes
<1>2. \A q \in Pins : SameSelect(Pin(a), q) => <<"mode", q, seen[a][q]>> \in asked
  BY <1>t DEF PinsInv, LoadedOK, Read
<1>3. <<"mode", Pin(a), Val(a)>> \in asked
  BY <1>t, HeadFits DEF Fits, Pin, Val
<1>4. \A q \in Pins : <<"mode", q, fsel'[q]>> \in asked
  BY <1>2, <1>3 DEF WriteSelect, Merged, Insert, PinsInv, WasAsked
<1>5. fsel' \in [Pins -> Modes]
  <2>1. \A q \in Pins : fsel'[q] \in Modes
    BY <1>4, AskedIsMode
  <2>2. QED BY <2>1 DEF WriteSelect, Merged
<1>6. ChipOK' /\ NotesOK' /\ WasAsked'
  BY <1>4, <1>5 DEF WriteSelect, PinsInv, ChipOK, NotesOK, WasAsked, notes
<1>7. (killed \in BOOLEAN)'
  BY Zenon DEF PinsInv, notes, WriteSelect
<1>8. QED BY <1>1, <1>6, <1>7, Zenon DEF PinsInv

LEMMA WritePullStep ==
  ASSUME PinsInv, NEW a \in Procs, WritePull(a)
  PROVE  PinsInv'
<1>t. todo[a] # <<>> /\ Head(todo[a]).work = "pull" /\ a \in loaded
  BY DEF WritePull, Does
<1>1. TodoOK' /\ LoadedOK'
  BY <1>t, DoneAccessFits DEF WritePull, notes
<1>2. \A q \in Pins : SamePull(Pin(a), q) => <<"pull", q, seen[a][q]>> \in asked
  BY <1>t DEF PinsInv, LoadedOK, Read
<1>3. <<"pull", Pin(a), Val(a)>> \in asked
  BY <1>t, HeadFits DEF Fits, Pin, Val
<1>4. \A q \in Pins : <<"pull", q, pull'[q]>> \in asked
  BY <1>2, <1>3 DEF WritePull, Merged, Insert, PinsInv, WasAsked
<1>5. pull' \in [Pins -> Modes]
  <2>1. \A q \in Pins : pull'[q] \in Modes
    BY <1>4, AskedIsMode
  <2>2. QED BY <2>1 DEF WritePull, Merged
<1>6. ChipOK' /\ NotesOK' /\ WasAsked'
  BY <1>4, <1>5 DEF WritePull, PinsInv, ChipOK, NotesOK, WasAsked, notes
<1>7. (killed \in BOOLEAN)'
  BY Zenon DEF PinsInv, notes, WritePull
<1>8. QED BY <1>1, <1>6, <1>7, Zenon DEF PinsInv

\* The accesses that leave modes and pulls alone, the file of the direction, and
\* the clock of a pull.
LEMMA DirectionStep ==
  ASSUME PinsInv, NEW a \in Procs, Direction(a)
  PROVE  PinsInv'
<1>t. todo[a] # <<>> /\ Head(todo[a]).work = "mode" /\ board = "sysfs" /\ a \notin loaded
  BY NotLoaded DEF Direction, Does, PinsInv
<1>1. TodoOK' /\ LoadedOK'
  BY <1>t, DoneAccessFits DEF Direction, notes
<1>2. <<"mode", Pin(a), Val(a)>> \in asked /\ Pin(a) \in Pins
  BY <1>t, HeadFits DEF Fits, Pin, Val
<1>3. Val(a) \in Modes
  BY <1>2, AskedIsMode
<1>4. ChipOK' /\ NotesOK' /\ WasAsked'
  BY <1>2, <1>3, <1>t DEF Direction, PinsInv, ChipOK, NotesOK, WasAsked, notes
<1>5. (killed \in BOOLEAN)'
  BY Zenon DEF PinsInv, notes, Direction
<1>6. QED BY <1>1, <1>4, <1>5, Zenon DEF PinsInv

LEMMA DirectionFailsStep ==
  ASSUME PinsInv, NEW a \in Procs, DirectionFails(a)
  PROVE  PinsInv'
<1>t. todo[a] # <<>> /\ board = "sysfs" /\ a \notin loaded
  BY NotLoaded DEF DirectionFails, Does, PinsInv
<1>1. CASE a # Daemon
  <2>1. Done(a) /\ UNCHANGED <<board, chip, loaded, seen, notes>>
    BY <1>1 DEF DirectionFails, notes
  <2>2. TodoOK' /\ LoadedOK'
    BY <1>t, <2>1, DoneAccessFits DEF notes
  <2>3. ChipOK' /\ NotesOK' /\ WasAsked'
    BY <2>1 DEF PinsInv, ChipOK, NotesOK, WasAsked, notes, chip
  <2>4. (killed \in BOOLEAN)'
    BY <2>1, Zenon DEF PinsInv, notes
  <2>5. QED BY <2>2, <2>3, <2>4, Zenon DEF PinsInv
<1>2. CASE a = Daemon
  <2>1. /\ todo' = [todo EXCEPT ![a] = <<>>] /\ setup' = "failed" /\ alone' = Nobody
        /\ UNCHANGED <<board, chip, loaded, seen, commands, killed, asked, want>>
    BY <1>2 DEF DirectionFails
  <2>2. TodoOK'
    <3>1. <<>> \in Seq(Fitting(asked, board))
      BY EmptySeq
    <3>2. QED BY <2>1, <3>1 DEF PinsInv, TodoOK
  <2>3. LoadedOK'
    BY <1>t, <2>1, OthersRead DEF PinsInv, TodoOK, LoadedOK
  <2>4. ChipOK' /\ NotesOK' /\ WasAsked'
    BY <2>1 DEF PinsInv, ChipOK, NotesOK, WasAsked, chip
  <2>5. (killed \in BOOLEAN)'
    BY <2>1, Zenon DEF PinsInv
  <2>6. QED BY <2>2, <2>3, <2>4, <2>5, Zenon DEF PinsInv
<1>3. QED BY <1>1, <1>2

LEMMA GetPinModeStep ==
  ASSUME PinsInv, NEW a \in Procs, GetPinMode(a)
  PROVE  PinsInv'
<1>t. todo[a] # <<>> /\ Head(todo[a]).work = "getmode" /\ a \notin loaded
  BY NotLoaded DEF GetPinMode, Does, PinsInv
<1>u. UNCHANGED <<board, chip, loaded, seen, notes>>
  BY DEF GetPinMode
<1>p. Pin(a) \in Pins
  BY <1>t, HeadFits
<1>1. PICK mode \in Modes \cup {Unread} :
        /\ Returns(a, mode)
        /\ mode # Unread => <<"mode", Pin(a), mode>> \in asked
  <2>1. fsel[Pin(a)] \in Modes /\ <<"mode", Pin(a), fsel[Pin(a)]>> \in asked
    BY <1>p DEF PinsInv, ChipOK, WasAsked
  <2>2. CASE board = "sysfs" /\ Pin(a) \notin exported
    BY <2>2 DEF GetPinMode
  <2>3. CASE ~(board = "sysfs" /\ Pin(a) \notin exported)
    BY <2>1, <2>3 DEF GetPinMode
  <2>4. QED BY <2>2, <2>3
<1> DEFINE G == Fitting(asked, board)
           t == Tail(todo[a])
           r == [i \in DOMAIN t |-> IF t[i].work \in {"restore", "edge"} /\ t[i].pin = Pin(a)
                                    THEN Op(t[i].work, Pin(a), mode) ELSE t[i]]
<1>2. ASSUME NEW o \in G, o.work \in {"restore", "edge"}, o.pin = Pin(a)
      PROVE  Op(o.work, Pin(a), mode) \in G
  <2>1. Op(o.work, Pin(a), mode) \in Ops
    BY <1>1, <1>2, <1>p DEF Fitting, Op, Ops
  <2>2. Fits(Op(o.work, Pin(a), mode), asked, board)
    BY <1>1, <1>2 DEF Fitting, Fits, Op
  <2>3. QED BY <2>1, <2>2 DEF Fitting
<1>3. t \in Seq(G)
  BY <1>t, HeadTailProperties DEF PinsInv, TodoOK
<1>4. r \in Seq(G)
  <2>1. DOMAIN t = 1 .. Len(t) /\ Len(t) \in Nat /\ \A i \in 1 .. Len(t) : t[i] \in G
    BY <1>3, ElementOfSeq, LenProperties
  <2>2. \A i \in 1 .. Len(t) : r[i] \in G
    BY <2>1, <1>2
  <2>3. r \in [1 .. Len(t) -> G]
    BY <2>1, <2>2
  <2>4. QED BY <2>1, <2>3, SeqDef
<1>5. todo' = [todo EXCEPT ![a] = r]
  BY <1>1 DEF Returns
<1>6. todo' \in [Procs -> Seq(G)] /\ \A b \in Procs \ {a} : todo'[b] = todo[b]
  BY <1>4, <1>5 DEF PinsInv, TodoOK
<1>7. TodoOK'
  BY <1>6, <1>t, <1>u, DaemonIsProc DEF PinsInv, TodoOK, notes
<1>8. LoadedOK'
  BY <1>6, <1>t, <1>u, OthersRead DEF PinsInv, LoadedOK, notes
<1>9. ChipOK' /\ NotesOK' /\ WasAsked'
  BY <1>u DEF PinsInv, ChipOK, NotesOK, WasAsked, notes, chip
<1>10. (killed \in BOOLEAN)'
  BY <1>u, Zenon DEF PinsInv, notes
<1>11. QED BY <1>7, <1>8, <1>9, <1>10, Zenon DEF PinsInv

\* digitalWrite, the ends of a pull, export, and errors of sysfs.
LEMMA PlainStep ==
  ASSUME PinsInv, NEW a \in Procs,
         \/ DigitalWrite(a) \/ PullOff(a) \/ ClockOff(a) \/ PinExport(a) \/ PullFails(a)
  PROVE  PinsInv'
<1>t. todo[a] # <<>> /\ a \notin loaded
  BY NotLoaded DEF DigitalWrite, PullOff, ClockOff, PinExport, PullFails, Does, PinsInv
<1>p. Pin(a) \in Pins
  BY <1>t, HeadFits
<1>1. Done(a) /\ UNCHANGED <<board, fsel, pull, loaded, seen, notes>>
  BY DEF DigitalWrite, PullOff, ClockOff, PinExport, PullFails, chip
<1>2. TodoOK' /\ LoadedOK'
  BY <1>t, <1>1, DoneAccessFits DEF notes
<1>3. gppud' \in Modes /\ high' \subseteq Pins /\ clock' \subseteq Pins /\ exported' \subseteq Pins
  BY <1>p DEF DigitalWrite, PullOff, ClockOff, PinExport, PullFails, chip, PinsInv, ChipOK, PUD_OFF, Modes
<1>4. ChipOK' /\ NotesOK' /\ WasAsked'
  BY <1>1, <1>3 DEF PinsInv, ChipOK, NotesOK, WasAsked, notes
<1>5. (killed \in BOOLEAN)'
  BY <1>1, Zenon DEF PinsInv, notes
<1>6. QED BY <1>2, <1>4, <1>5, Zenon DEF PinsInv

\* A step that is one of the three a call goes on with.
LEMMA Expands ==
  ASSUME NEW A, NEW B, NEW p \in Pins, NEW m \in Modes
  PROVE  /\ <<"mode", p, m>> \in A => <<Op("mode", p, m)>> \in Seq(Fitting(A, B))
         /\ <<"mode", p, INPUT>> \in A /\ <<"mode", p, OUTPUT>> \in A =>
              <<Op("mode", p, INPUT), Op("mode", p, OUTPUT)>> \in Seq(Fitting(A, B))
         /\ B = "pud" =>
              <<Op("clk", p, 0), Op("pud", p, 0), Op("unclk", p, 0)>> \in Seq(Fitting(A, B))
<1>1. Op("mode", p, m) \in Ops /\ Op("mode", p, INPUT) \in Ops /\ Op("mode", p, OUTPUT) \in Ops
  BY DEF Op, Ops, Works, Modes, INPUT, OUTPUT
<1>2. Op("clk", p, 0) \in Ops /\ Op("pud", p, 0) \in Ops /\ Op("unclk", p, 0) \in Ops
  BY DEF Op, Ops, Works, Modes
<1>3. <<"mode", p, m>> \in A => Op("mode", p, m) \in Fitting(A, B)
  BY <1>1 DEF Fitting, Fits, Op
<1>4. <<"mode", p, INPUT>> \in A => Op("mode", p, INPUT) \in Fitting(A, B)
  BY <1>1 DEF Fitting, Fits, Op
<1>5. <<"mode", p, OUTPUT>> \in A => Op("mode", p, OUTPUT) \in Fitting(A, B)
  BY <1>1 DEF Fitting, Fits, Op
<1>6. B = "pud" => /\ Op("clk", p, 0) \in Fitting(A, B) /\ Op("pud", p, 0) \in Fitting(A, B)
                   /\ Op("unclk", p, 0) \in Fitting(A, B)
  BY <1>2 DEF Fitting, Fits, Op
<1>7. QED BY <1>3, <1>4, <1>5, <1>6

LEMMA ExpandStep ==
  ASSUME PinsInv, NEW a \in Procs, Restore(a) \/ SetPull(a) \/ EdgeSetup(a)
  PROVE  PinsInv'
<1>t. todo[a] # <<>> /\ a \notin loaded
  BY NotLoaded DEF Restore, SetPull, EdgeSetup, Does, PinsInv
<1>f. Fits(Head(todo[a]), asked, board) /\ Pin(a) \in Pins /\ Val(a) \in Modes \cup {Unread}
  BY <1>t, HeadFits
<1>1. UNCHANGED <<board, fsel, pull, high, clock, exported, loaded, seen, notes>>
  BY DEF Restore, SetPull, EdgeSetup, chip
<1>2. \E s \in Seq(Fitting(asked, board)) : Then(a, s)
  <2>0. <<>> \in Seq(Fitting(asked, board)) /\ (Done(a) => Then(a, <<>>))
    BY EmptySeq DEF Done
  <2>1. CASE Restore(a)
    <3>1. CASE Val(a) \in {OUTPUT, Unread}
      BY <2>0, <2>1, <3>1 DEF Restore
    <3>2. CASE Val(a) \notin {OUTPUT, Unread}
      <4>1. <<"mode", Pin(a), Val(a)>> \in asked /\ Val(a) \in Modes
        BY <1>f, <2>1, <3>2 DEF Restore, Does, Fits, Pin, Val
      <4>2. <<Op("mode", Pin(a), Val(a))>> \in Seq(Fitting(asked, board))
        BY <4>1, <1>f, Expands
      <4>3. QED BY <2>1, <3>2, <4>2 DEF Restore
    <3>3. QED BY <3>1, <3>2
  <2>2. CASE SetPull(a)
    <3>1. board = "pud" /\ 0 \in Modes
      BY <2>2 DEF SetPull, Modes
    <3>2. <<Op("clk", Pin(a), 0), Op("pud", Pin(a), 0), Op("unclk", Pin(a), 0)>>
            \in Seq(Fitting(asked, board))
      BY <3>1, <1>f, Expands
    <3>3. QED BY <2>2, <3>2 DEF SetPull
  <2>3. CASE EdgeSetup(a)
    <3>1. <<"mode", Pin(a), INPUT>> \in asked /\ <<"mode", Pin(a), OUTPUT>> \in asked /\ 0 \in Modes
      BY <1>f, <2>3 DEF EdgeSetup, Does, Fits, Pin, Modes
    <3>2. <<Op("mode", Pin(a), INPUT), Op("mode", Pin(a), OUTPUT)>> \in Seq(Fitting(asked, board))
      BY <3>1, <1>f, Expands
    <3>3. QED BY <2>0, <2>3, <3>2 DEF EdgeSetup
  <2>4. QED BY <2>1, <2>2, <2>3
<1>3. TodoOK' /\ LoadedOK'
  BY <1>t, <1>1, <1>2, AccessFits DEF notes
<1>4. gppud' \in Modes
  <2>1. CASE SetPull(a)
    <3>1. <<"pull", Pin(a), Val(a)>> \in asked
      BY <1>f, <2>1 DEF SetPull, Does, Fits, Pin, Val
    <3>2. Val(a) \in Modes
      BY <3>1, AskedIsMode
    <3>3. QED BY <2>1, <3>2 DEF SetPull
  <2>2. CASE Restore(a) \/ EdgeSetup(a)
    BY <2>2 DEF Restore, EdgeSetup, chip, PinsInv, ChipOK
  <2>3. QED BY <2>1, <2>2
<1>5. ChipOK' /\ NotesOK' /\ WasAsked'
  BY <1>1, <1>4 DEF PinsInv, ChipOK, NotesOK, WasAsked, notes
<1>6. (killed \in BOOLEAN)'
  BY <1>1, Zenon DEF PinsInv, notes
<1>7. QED BY <1>3, <1>5, <1>6, Zenon DEF PinsInv

LEMMA ClockStep ==
  ASSUME PinsInv, NEW a \in Procs, Clock(a)
  PROVE  PinsInv'
<1>t. todo[a] # <<>> /\ a \notin loaded
  BY NotLoaded DEF Clock, Does, PinsInv
<1>f. board = "pud" /\ Pin(a) \in Pins
  BY <1>t, HeadFits DEF Clock, Does, Fits
<1>1. TodoOK' /\ LoadedOK'
  BY <1>t, DoneAccessFits DEF Clock, notes
<1>2. ChipOK' /\ NotesOK' /\ WasAsked'
  BY <1>f DEF Clock, PinsInv, ChipOK, NotesOK, WasAsked, notes
<1>3. (killed \in BOOLEAN)'
  BY Zenon DEF PinsInv, notes, Clock
<1>4. QED BY <1>1, <1>2, <1>3, Zenon DEF PinsInv

LEMMA UnexportStep ==
  ASSUME PinsInv, NEW a \in Procs, PinUnexport(a)
  PROVE  PinsInv'
<1>t. todo[a] # <<>> /\ a \notin loaded
  BY NotLoaded DEF PinUnexport, Does, PinsInv
<1>f. <<"mode", Pin(a), INPUT>> \in asked /\ Pin(a) \in Pins /\ INPUT \in Modes
  <2>1. Head(todo[a]).work = "unexport"
    BY DEF PinUnexport, Does
  <2>2. Fits(Head(todo[a]), asked, board) /\ Pin(a) \in Pins
    BY <1>t, HeadFits
  <2>3. <<"mode", Pin(a), INPUT>> \in asked
    BY <2>1, <2>2 DEF Fits, Pin
  <2>4. INPUT \in Modes
    BY DEF INPUT, Modes
  <2>5. QED BY <2>2, <2>3, <2>4
<1>1. TodoOK' /\ LoadedOK'
  BY <1>t, DoneAccessFits DEF PinUnexport, notes
<1>2. ChipOK' /\ NotesOK' /\ WasAsked'
  BY <1>f DEF PinUnexport, PinsInv, ChipOK, NotesOK, WasAsked, notes
<1>3. (killed \in BOOLEAN)'
  BY Zenon DEF PinsInv, notes, PinUnexport
<1>4. QED BY <1>1, <1>2, <1>3, Zenon DEF PinsInv

LEMMA AccessStep ==
  ASSUME PinsInv, NEW a \in Procs, Access(a)
  PROVE  PinsInv'
BY LoadStep, WriteSelectStep, WritePullStep, DirectionStep, DirectionFailsStep, GetPinModeStep,
   PlainStep, ExpandStep, ClockStep, UnexportStep DEF Access

-----------------------------------------------------------------------------
\* A process that starts with a call that fits what it asks.
LEMMA BeginStep ==
  ASSUME PinsInv, NEW a \in Procs, todo[a] = <<>>, NEW s, NEW news, NEW w, Begin(a, s, news, w),
         news \subseteq {"mode", "pull"} \X Pins \X Modes,
         s \in Seq(Fitting(asked \cup news, board)),
         commands' \in 0 .. MaxCommands,
         \/ a = Daemon /\ setup' = "inside"
         \/ a \in Tools /\ setup' = setup
  PROVE  PinsInv'
<1>1. /\ todo' = [todo EXCEPT ![a] = s] /\ asked' = asked \cup news
      /\ UNCHANGED <<board, chip, loaded, seen>>
  BY DEF Begin
<1>2. TodoOK'
  <2>1. ASSUME NEW b \in Procs PROVE todo'[b] \in Seq(Fitting(asked', board))
    <3>1. CASE b = a
      BY <3>1, <1>1 DEF PinsInv, TodoOK
    <3>2. CASE b # a
      <4>1. todo'[b] = todo[b] /\ todo[b] \in Seq(Fitting(asked, board))
        BY <3>2, <1>1 DEF PinsInv, TodoOK
      <4>2. Fitting(asked, board) \subseteq Fitting(asked', board)
        BY <1>1, FittingGrows
      <4>3. QED BY <4>1, <4>2, SeqMonotonic
    <3>3. QED BY <3>1, <3>2
  <2>2. todo' \in [Procs -> Seq(Fitting(asked', board))]
    BY <1>1, <2>1 DEF PinsInv, TodoOK
  <2>3. setup' = "before" => todo'[Daemon] = <<>>
    BY <1>1, DaemonIsProc DEF PinsInv, TodoOK
  <2>4. QED BY <1>1, <2>2, <2>3 DEF TodoOK
<1>3. LoadedOK'
  <2>1. a \notin loaded
    BY NotLoaded DEF PinsInv
  <2>2. QED BY <1>1, <2>1, OthersRead DEF PinsInv, TodoOK, LoadedOK
<1>4. NotesOK'
  <2>1. alone' \in Procs \cup {Nobody}
    BY DEF Begin
  <2>2. setup' \in {"before", "inside", "done", "failed", "killed"}
    BY DEF PinsInv, NotesOK
  <2>3. QED BY <1>1, <2>1, <2>2 DEF PinsInv, NotesOK
<1>5. ChipOK' /\ WasAsked'
  BY <1>1 DEF PinsInv, ChipOK, WasAsked, chip
<1>6. (killed \in BOOLEAN)'
  BY Zenon DEF PinsInv, Begin
<1>7. QED BY <1>2, <1>3, <1>4, <1>5, <1>6, Zenon DEF PinsInv

\* One access fits if what it asks for is asked for.
LEMMA OpFits ==
  ASSUME NEW A, NEW B, NEW p \in Pins, NEW work \in Works, NEW v \in Modes \cup {Unread},
         work \in {"mode", "pull"} => <<work, p, v>> \in A,
         work = "edge" => <<"mode", p, INPUT>> \in A /\ <<"mode", p, OUTPUT>> \in A,
         work = "unexport" => <<"mode", p, INPUT>> \in A,
         work = "restore" => v = Unread,
         work \notin {"clk", "pud", "unclk"}
  PROVE  Op(work, p, v) \in Fitting(A, B)
<1>1. Op(work, p, v) \in Ops
  BY DEF Op, Ops
<1>2. Fits(Op(work, p, v), A, B)
  BY DEF Op, Fits
<1>3. QED BY <1>1, <1>2 DEF Fitting

LEMMA ModeValues ==
  /\ 0 \in Modes /\ 1 \in Modes /\ INPUT \in Modes /\ OUTPUT \in Modes /\ PUD_UP \in Modes
  /\ ModesGiven \subseteq Modes /\ PudsGiven \subseteq Modes /\ LevelsGiven \subseteq Modes
  /\ PinsGiven \subseteq Pins
BY GpioPinsAssumption DEF Modes, INPUT, OUTPUT, PUD_UP

LEMMA WorkValues == {"mode", "getmode", "set", "restore", "pull", "export", "unexport", "edge"} \subseteq Works
BY DEF Works

LEMMA SetUpStep == PinsInv /\ SetUpPins => PinsInv'
<1> SUFFICES ASSUME PinsInv, SetUpPins PROVE PinsInv'
  OBVIOUS
<1> DEFINE K == {Clk, Dt, Sw}
           news == {<<"mode", p, INPUT>> : p \in K} \cup {<<"pull", p, PUD_UP>> : p \in K}
           G == Fitting(asked \cup news, board)
           s == <<Op("mode", Clk, INPUT), Op("mode", Dt, INPUT), Op("mode", Sw, INPUT),
                  Op("pull", Clk, PUD_UP), Op("pull", Dt, PUD_UP), Op("pull", Sw, PUD_UP)>>
<1>1. \A p \in K : Op("mode", p, INPUT) \in G /\ Op("pull", p, PUD_UP) \in G
  BY OpFits, KnobIsPins, ModeValues, WorkValues
<1>2. s \in Seq(G)
  BY <1>1
<1>3. news \subseteq {"mode", "pull"} \X Pins \X Modes
  BY KnobIsPins, ModeValues
<1>4. todo[Daemon] = <<>> /\ setup' = "inside" /\ commands' \in 0 .. MaxCommands
  BY DEF SetUpPins, PinsInv, TodoOK, NotesOK
<1>5. \E w : Begin(Daemon, s, news, w)
  BY DEF SetUpPins
<1> HIDE DEF s, news
<1>6. QED BY <1>2, <1>3, <1>4, <1>5, BeginStep, DaemonIsProc

LEMMA CommandStep ==
  ASSUME PinsInv, NEW t \in Tools, NEW s, NEW news, NEW w, Command(t, s, news, w),
         news \subseteq {"mode", "pull"} \X Pins \X Modes,
         s \in Seq(Fitting(asked \cup news, board))
  PROVE  PinsInv'
<1>1. commands' \in 0 .. MaxCommands
  BY GpioPinsAssumption DEF Command, PinsInv, NotesOK
<1>2. QED BY <1>1, BeginStep, DaemonIsProc DEF Command

LEMMA ToolStep ==
  ASSUME PinsInv, NEW t \in Tools, NEW p \in PinsGiven, Tool(t, p)
  PROVE  PinsInv'
<1>p. p \in Pins /\ Unread \in Modes \cup {Unread}
  BY ModeValues
<1>1. ASSUME NEW m \in ModesGiven, ModeCommand(t, p, m) PROVE PinsInv'
  <2>1. Op("mode", p, m) \in Fitting(asked \cup {<<"mode", p, m>>}, board)
    BY <1>p, OpFits, ModeValues, WorkValues
  <2>2. {<<"mode", p, m>>} \subseteq {"mode", "pull"} \X Pins \X Modes
    BY <1>p, ModeValues
  <2>3. <<Op("mode", p, m)>> \in Seq(Fitting(asked \cup {<<"mode", p, m>>}, board))
    BY <2>1
  <2>4. QED BY <1>1, <2>2, <2>3, CommandStep DEF ModeCommand
<1>2. ASSUME NEW v \in PudsGiven, PullCommand(t, p, v) PROVE PinsInv'
  <2>1. Op("pull", p, v) \in Fitting(asked \cup {<<"pull", p, v>>}, board)
    BY <1>p, OpFits, ModeValues, WorkValues
  <2>2. {<<"pull", p, v>>} \subseteq {"mode", "pull"} \X Pins \X Modes
    BY <1>p, ModeValues
  <2>3. <<Op("pull", p, v)>> \in Seq(Fitting(asked \cup {<<"pull", p, v>>}, board))
    BY <2>1
  <2>4. QED BY <1>2, <2>2, <2>3, CommandStep DEF PullCommand
<1>3. ASSUME NEW v \in LevelsGiven, WriteCommand(t, p, v) PROVE PinsInv'
  <2> DEFINE G == Fitting(asked \cup {<<"mode", p, OUTPUT>>}, board)
  <2>1. /\ Op("getmode", p, 0) \in G /\ Op("mode", p, OUTPUT) \in G
        /\ Op("set", p, v) \in G /\ Op("restore", p, Unread) \in G
    BY <1>p, OpFits, ModeValues, WorkValues
  <2>2. {<<"mode", p, OUTPUT>>} \subseteq {"mode", "pull"} \X Pins \X Modes
    BY <1>p, ModeValues
  <2>3. <<Op("getmode", p, 0), Op("mode", p, OUTPUT), Op("set", p, v), Op("restore", p, Unread)>> \in Seq(G)
    BY <2>1
  <2>4. QED BY <1>3, <2>2, <2>3, CommandStep DEF WriteCommand
<1>4. CASE ExportCommand(t, p)
  <2> DEFINE s == <<Op("export", p, 0)>>
             G == Fitting(asked \cup {}, board)
  <2>1. Op("export", p, 0) \in G
    BY <1>p, OpFits, ModeValues, WorkValues
  <2>2. s \in Seq(G)
    BY <2>1
  <2>3. Command(t, s, {}, <<fsel, pull, high, exported \cup {p}>>)
    BY <1>4 DEF ExportCommand
  <2> HIDE DEF s
  <2>4. QED BY <2>2, <2>3, CommandStep
<1>5. CASE UnexportCommand(t, p)
  <2>1. Op("unexport", p, 0) \in Fitting(asked \cup {<<"mode", p, INPUT>>}, board)
    BY <1>p, OpFits, ModeValues, WorkValues
  <2>2. {<<"mode", p, INPUT>>} \subseteq {"mode", "pull"} \X Pins \X Modes
    BY <1>p, ModeValues
  <2>3. <<Op("unexport", p, 0)>> \in Seq(Fitting(asked \cup {<<"mode", p, INPUT>>}, board))
    BY <2>1
  <2>4. QED BY <1>5, <2>2, <2>3, CommandStep DEF UnexportCommand
<1>6. CASE MonitorCommand(t, p)
  <2> DEFINE news == {<<"mode", p, INPUT>>, <<"mode", p, OUTPUT>>}
             G == Fitting(asked \cup news, board)
  <2>1. Op("export", p, 0) \in G /\ Op("getmode", p, 0) \in G /\ Op("edge", p, Unread) \in G
    BY <1>p, OpFits, ModeValues, WorkValues
  <2>2. news \subseteq {"mode", "pull"} \X Pins \X Modes
    BY <1>p, ModeValues
  <2>3. <<Op("export", p, 0), Op("getmode", p, 0), Op("edge", p, Unread)>> \in Seq(G)
    BY <2>1
  <2>4. QED BY <1>6, <2>2, <2>3, CommandStep DEF MonitorCommand
<1>7. QED BY <1>1, <1>2, <1>3, <1>4, <1>5, <1>6 DEF Tool

LEMMA ReadAllStep ==
  ASSUME PinsInv, NEW t \in Tools, ReadAllCommand(t)
  PROVE  PinsInv'
<1> DEFINE G == Fitting(asked \cup {}, board)
           s == [i \in DOMAIN Header |-> Op("export", Header[i], 0)]
<1>1. Header \in Seq(2 .. 27)
  BY GpioPinsAssumption
<1>2. DOMAIN Header = 1 .. Len(Header) /\ Len(Header) \in Nat
  BY <1>1, LenProperties
<1>3. \A p \in Pins : Op("export", p, 0) \in G
  BY OpFits, ModeValues, WorkValues
<1>4. \A i \in DOMAIN Header : Header[i] \in Pins
  BY DEF Pins
<1>5. s \in [1 .. Len(Header) -> G]
  BY <1>2, <1>3, <1>4
<1>6. s \in Seq(G)
  BY <1>2, <1>5, SeqDef
<1>7. Command(t, s, {}, <<fsel, pull, high, Pins>>)
  BY DEF ReadAllCommand
<1> HIDE DEF s
<1>8. QED BY <1>6, <1>7, CommandStep

LEMMA KillStep ==
  ASSUME PinsInv, NEW a \in Procs, Kill(a)
  PROVE  PinsInv'
<1>1. /\ todo' = [todo EXCEPT ![a] = <<>>] /\ loaded' = loaded \ {a}
      /\ seen' = [seen EXCEPT ![a] = Nothing]
      /\ UNCHANGED <<board, chip, commands, asked, want>>
      /\ alone' = Nobody
  BY DEF Kill
<1>2. Nothing \in [Pins -> Modes] /\ <<>> \in Seq(Fitting(asked, board))
  BY EmptySeq DEF Nothing, Modes
<1>3. setup' \in {setup, "killed"}
  BY DEF Kill
<1>4. TodoOK'
  BY <1>1, <1>2, <1>3, DaemonIsProc DEF PinsInv, TodoOK
<1>5. LoadedOK'
  BY <1>1, <1>2, OthersRead DEF PinsInv, TodoOK, LoadedOK
<1>6. ChipOK' /\ NotesOK' /\ WasAsked'
  BY <1>1, <1>3 DEF PinsInv, ChipOK, NotesOK, WasAsked, chip
<1>7. (killed \in BOOLEAN)'
  BY Zenon DEF Kill
<1>8. QED BY <1>4, <1>5, <1>6, <1>7, Zenon DEF PinsInv

\* Steps that only note how far main_loop is.
LEMMA NoteStep ==
  ASSUME PinsInv, NotSetUp \/ PinsSetUp \/ UNCHANGED pinvars
  PROVE  PinsInv'
<1>1. /\ UNCHANGED <<board, chip, todo, loaded, seen, commands, killed, asked, alone, want>>
      /\ setup' \in {setup, "failed", "done"}
  BY DEF NotSetUp, PinsSetUp, pinvars, chip
<1>2. ChipOK' /\ NotesOK' /\ TodoOK' /\ WasAsked'
  BY <1>1 DEF PinsInv, ChipOK, NotesOK, TodoOK, WasAsked, chip
<1>3. LoadedOK'
  BY <1>1 DEF PinsInv, LoadedOK, Read, Pin
<1>4. (killed \in BOOLEAN)'
  BY <1>1, Zenon DEF PinsInv
<1>5. QED BY <1>2, <1>3, <1>4, Zenon DEF PinsInv

LEMMA PinsInvInit == InitPins => PinsInv
<1> SUFFICES ASSUME InitPins PROVE PinsInv
  OBVIOUS
<1>1. fsel \in [Pins -> Modes] /\ pull \in [Pins -> Modes] /\ gppud \in Modes
  BY DEF InitPins, Modes, INPUT, OUTPUT, IO_ALT0, PUD_DOWN, PUD_OFF
<1>2. ChipOK
  BY <1>1 DEF InitPins, ChipOK
<1>3. asked \subseteq {"mode", "pull"} \X Pins \X Modes
  BY <1>1 DEF InitPins
<1>4. NotesOK
  BY <1>3, GpioPinsAssumption DEF InitPins, NotesOK
<1>5. TodoOK
  BY EmptySeq, DaemonIsProc DEF InitPins, TodoOK
<1>6. LoadedOK
  BY DEF InitPins, LoadedOK, Nothing, Modes
<1>7. WasAsked
  BY DEF InitPins, WasAsked
<1>8. killed \in BOOLEAN
  BY Zenon DEF InitPins
<1>9. QED BY <1>2, <1>4, <1>5, <1>6, <1>7, <1>8, Zenon DEF PinsInv

LEMMA PinsInvStep == PinsInv /\ [NextPins]_pinvars => PinsInv'
<1> SUFFICES ASSUME PinsInv, [NextPins]_pinvars PROVE PinsInv'
  OBVIOUS
<1>1. CASE SetUpPins
  BY <1>1, SetUpStep
<1>2. CASE NotSetUp \/ PinsSetUp \/ UNCHANGED pinvars
  BY <1>2, NoteStep
<1>3. ASSUME NEW a \in Procs, Kill(a) \/ Access(a) PROVE PinsInv'
  BY <1>3, KillStep, AccessStep
<1>4. ASSUME NEW t \in Tools, ReadAllCommand(t) PROVE PinsInv'
  BY <1>4, ReadAllStep
<1>5. ASSUME NEW t \in Tools, NEW p \in PinsGiven, Tool(t, p) PROVE PinsInv'
  BY <1>5, ToolStep
<1>6. QED BY <1>1, <1>2, <1>3, <1>4, <1>5 DEF NextPins

LEMMA PinsInvAlways == SpecPins => []PinsInv
BY PinsInvInit, PinsInvStep, PTL DEF SpecPins

\* Type invariant of the pins.
THEOREM PinsTypeCorrect == SpecPins => []PinsTypeOK
<1>1. PinsInv => PinsTypeOK
  <2> SUFFICES ASSUME PinsInv PROVE PinsTypeOK
    OBVIOUS
  <2>1. Fitting(asked, board) \subseteq Ops
    BY DEF Fitting
  <2>2. todo \in [Procs -> Seq(Ops)]
    <3>1. \A a \in Procs : todo[a] \in Seq(Ops)
      BY <2>1, SeqMonotonic DEF PinsInv, TodoOK
    <3>2. QED BY <3>1 DEF PinsInv, TodoOK
  <2>3. killed \in BOOLEAN
    BY Zenon DEF PinsInv
  <2>4. ChipOK /\ NotesOK /\ LoadedOK
    BY DEF PinsInv
  <2>5. QED BY <2>2, <2>3, <2>4, Zenon DEF PinsTypeOK, ChipOK, NotesOK, LoadedOK
<1>2. QED BY <1>1, PinsInvAlways, PTL

\* However calls interleave, on a register that several pins share, no pin gets a
\* mode that nobody asked for it, and on a Pi 4 no resistor (GPIO_Pi.c:308, 392).
THEOREM ModesWereAsked == SpecPins => []WasAsked
<1>1. PinsInv => WasAsked
  BY DEF PinsInv
<1>2. QED BY <1>1, PinsInvAlways, PTL

-----------------------------------------------------------------------------
(* GPPUD and the clock                                                      *)

\* The sequence q has work to do.
Has(q, work) == \E i \in 1 .. Len(q) : q[i].work = work

\* A clock that comes on goes off later.
ClockPairs(q) ==
  \A i \in 1 .. Len(q) : q[i].work = "clk" => \E j \in 1 .. Len(q) : j > i /\ q[j].work = "unclk"

\* GPPUD and the clock are on only while somebody is about to turn them off.
QuietInv ==
  \/ killed
  \/ /\ \A a \in Procs : ClockPairs(todo[a])
     /\ gppud # PUD_OFF => \E a \in Procs : Has(todo[a], "pud")
     /\ clock # {} => \E a \in Procs : Has(todo[a], "unclk")

\* The rest of a sequence has what its head is not.
LEMMA TailQuiet ==
  ASSUME NEW q \in Seq(Ops), q # <<>>
  PROVE  /\ ClockPairs(q) => ClockPairs(Tail(q))
         /\ \A work : Has(q, work) /\ Head(q).work # work => Has(Tail(q), work)
         /\ ClockPairs(q) /\ Head(q).work = "clk" => Has(Tail(q), "unclk")
<1>1. /\ Len(Tail(q)) = Len(q) - 1 /\ Len(q) \in Nat \ {0} /\ Head(q) = q[1]
      /\ \A i \in 1 .. Len(q) - 1 : Tail(q)[i] = q[i + 1]
  BY HeadTailProperties, LenProperties, EmptySeq
<1>2. \A j \in 1 .. Len(q) : j > 1 => j - 1 \in 1 .. Len(Tail(q)) /\ Tail(q)[j - 1] = q[j]
  BY <1>1
<1>3. ASSUME ClockPairs(q) PROVE ClockPairs(Tail(q))
  <2> SUFFICES ASSUME NEW i \in 1 .. Len(Tail(q)), Tail(q)[i].work = "clk"
               PROVE  \E j \in 1 .. Len(Tail(q)) : j > i /\ Tail(q)[j].work = "unclk"
    BY DEF ClockPairs
  <2>1. i + 1 \in 1 .. Len(q) /\ q[i + 1].work = "clk"
    BY <1>1
  <2>2. PICK j \in 1 .. Len(q) : j > i + 1 /\ q[j].work = "unclk"
    BY <1>3, <2>1 DEF ClockPairs
  <2>3. j - 1 \in 1 .. Len(Tail(q)) /\ j - 1 > i /\ Tail(q)[j - 1].work = "unclk"
    BY <1>1, <1>2, <2>2
  <2> QED BY <2>3
<1>4. ASSUME NEW work, Has(q, work), Head(q).work # work PROVE Has(Tail(q), work)
  <2>1. PICK j \in 1 .. Len(q) : q[j].work = work
    BY <1>4 DEF Has
  <2>2. j > 1
    BY <1>1, <1>4, <2>1
  <2>3. j - 1 \in 1 .. Len(Tail(q)) /\ Tail(q)[j - 1].work = work
    BY <1>2, <2>1, <2>2
  <2> QED BY <2>3 DEF Has
<1>5. ASSUME ClockPairs(q), Head(q).work = "clk" PROVE Has(Tail(q), "unclk")
  <2>1. PICK j \in 1 .. Len(q) : j > 1 /\ q[j].work = "unclk"
    BY <1>1, <1>5 DEF ClockPairs
  <2>2. j - 1 \in 1 .. Len(Tail(q)) /\ Tail(q)[j - 1].work = "unclk"
    BY <1>2, <2>1
  <2> QED BY <2>2 DEF Has
<1> QED BY <1>3, <1>4, <1>5

\* What is put before a sequence keeps what it has.
LEMMA BeforeQuiet ==
  ASSUME NEW s \in Seq(Ops), NEW q \in Seq(Ops)
  PROVE  /\ ClockPairs(s) /\ ClockPairs(q) => ClockPairs(s \o q)
         /\ \A work : Has(s, work) \/ Has(q, work) => Has(s \o q, work)
<1>1. /\ Len(s \o q) = Len(s) + Len(q) /\ Len(s) \in Nat /\ Len(q) \in Nat
      /\ \A i \in 1 .. Len(s) : (s \o q)[i] = s[i]
      /\ \A i \in 1 .. Len(q) : (s \o q)[Len(s) + i] = q[i]
  BY ConcatProperties, LenProperties
<1>2. ASSUME ClockPairs(s), ClockPairs(q) PROVE ClockPairs(s \o q)
  <2> SUFFICES ASSUME NEW i \in 1 .. Len(s \o q), (s \o q)[i].work = "clk"
               PROVE  \E j \in 1 .. Len(s \o q) : j > i /\ (s \o q)[j].work = "unclk"
    BY DEF ClockPairs
  <2>1. CASE i <= Len(s)
    <3>1. i \in 1 .. Len(s) /\ s[i].work = "clk"
      BY <1>1, <2>1
    <3>2. PICK j \in 1 .. Len(s) : j > i /\ s[j].work = "unclk"
      BY <1>2, <3>1 DEF ClockPairs
    <3> QED BY <1>1, <3>2
  <2>2. CASE i > Len(s)
    <3>1. PICK k \in 1 .. Len(q) : k = i - Len(s)
      BY <1>1, <2>2
    <3>2. q[k].work = "clk"
      BY <1>1, <3>1
    <3>3. PICK j \in 1 .. Len(q) : j > k /\ q[j].work = "unclk"
      BY <1>2, <3>2 DEF ClockPairs
    <3>4. Len(s) + j \in 1 .. Len(s \o q) /\ Len(s) + j > i /\ (s \o q)[Len(s) + j].work = "unclk"
      BY <1>1, <3>1, <3>3
    <3> QED BY <3>4
  <2> QED BY <1>1, <2>1, <2>2
<1>3. ASSUME NEW work, Has(s, work) PROVE Has(s \o q, work)
  BY <1>1, <1>3 DEF Has
<1>4. ASSUME NEW work, Has(q, work) PROVE Has(s \o q, work)
  <2>1. PICK i \in 1 .. Len(q) : q[i].work = work
    BY <1>4 DEF Has
  <2>2. Len(s) + i \in 1 .. Len(s \o q) /\ (s \o q)[Len(s) + i].work = work
    BY <1>1, <2>1
  <2> QED BY <2>2 DEF Has
<1> QED BY <1>2, <1>3, <1>4

LEMMA TodoIsOps == PinsInv => \A a \in Procs : todo[a] \in Seq(Ops)
BY SeqMonotonic DEF PinsInv, TodoOK, Fitting

\* Process a goes on with a sequence that has what the one before had.
LEMMA QuietGoesOn ==
  ASSUME PinsInv, QuietInv, ~killed, NEW a \in Procs, NEW q, todo' = [todo EXCEPT ![a] = q],
         ClockPairs(q), UNCHANGED <<gppud, clock>>,
         \A work \in {"pud", "unclk"} : Has(todo[a], work) => Has(q, work)
  PROVE  QuietInv'
<1>1. \A b \in Procs : todo'[b] = IF b = a THEN q ELSE todo[b]
  BY DEF PinsInv, TodoOK
<1>2. \A b \in Procs : ClockPairs(todo'[b])
  BY <1>1 DEF QuietInv
<1>3. \A work \in {"pud", "unclk"} :
        (\E b \in Procs : Has(todo[b], work)) => \E b \in Procs : Has(todo'[b], work)
  BY <1>1
<1> QED BY <1>2, <1>3 DEF QuietInv

\* Accesses that have nothing to do with GPPUD and its clock.
LEMMA QuietOther ==
  ASSUME PinsInv, QuietInv, ~killed, NEW a \in Procs, todo[a] # <<>>,
         NEW s \in Seq(Ops), Then(a, s), \A i \in 1 .. Len(s) : s[i].work = "mode",
         Head(todo[a]).work \notin {"clk", "pud", "unclk"}, UNCHANGED <<gppud, clock>>
  PROVE  QuietInv'
<1>1. todo[a] \in Seq(Ops) /\ Tail(todo[a]) \in Seq(Ops)
  BY TodoIsOps, HeadTailProperties
<1>2. ClockPairs(s) /\ ClockPairs(todo[a])
  BY DEF ClockPairs, QuietInv
<1>3. ClockPairs(Tail(todo[a]))
  BY <1>1, <1>2, TailQuiet
<1>4. ClockPairs(s \o Tail(todo[a]))
  BY <1>1, <1>2, <1>3, BeforeQuiet
<1>5. \A work \in {"pud", "unclk"} : Has(todo[a], work) => Has(s \o Tail(todo[a]), work)
  <2>1. \A work \in {"pud", "unclk"} : Has(todo[a], work) => Has(Tail(todo[a]), work)
    BY <1>1, TailQuiet
  <2> QED BY <1>1, <2>1, BeforeQuiet
<1> QED BY <1>4, <1>5, QuietGoesOn DEF Then

LEMMA QuietDone ==
  ASSUME PinsInv, QuietInv, ~killed, NEW a \in Procs, todo[a] # <<>>, Done(a),
         Head(todo[a]).work \notin {"clk", "pud", "unclk"}, UNCHANGED <<gppud, clock>>
  PROVE  QuietInv'
<1>1. <<>> \in Seq(Ops) /\ \A i \in 1 .. Len(<<>>) : <<>>[i].work = "mode"
  BY EmptySeq
<1> QED BY <1>1, QuietOther DEF Done

LEMMA QuietAccess ==
  ASSUME PinsInv, QuietInv, ~killed, NEW a \in Procs, Access(a)
  PROVE  QuietInv'
<1>q. todo[a] \in Seq(Ops) /\ ClockPairs(todo[a])
  BY TodoIsOps DEF QuietInv
<1>1. CASE ReadSelect(a) \/ ReadPull(a)
  BY <1>1 DEF ReadSelect, ReadPull, Load, chip, notes, QuietInv
<1>2. CASE \/ WriteSelect(a) \/ Direction(a) \/ DigitalWrite(a) \/ WritePull(a) \/ PullFails(a)
           \/ PinExport(a) \/ PinUnexport(a)
  <2>1. /\ todo[a] # <<>> /\ Done(a) /\ Head(todo[a]).work \notin {"clk", "pud", "unclk"}
        /\ UNCHANGED <<gppud, clock>>
    BY <1>2 DEF WriteSelect, Direction, DigitalWrite, WritePull, PullFails, PinExport,
                PinUnexport, Does, chip
  <2> QED BY <2>1, QuietDone
<1>3. CASE DirectionFails(a)
  <2>1. CASE a = Daemon
    <3>1. /\ todo' = [todo EXCEPT ![a] = <<>>] /\ UNCHANGED <<gppud, clock>> /\ board = "sysfs"
      BY <1>3, <2>1 DEF DirectionFails, chip
    <3>2. \A work \in {"pud", "unclk"} : ~ Has(todo[a], work)
      <4>1. todo[a] \in Seq(Fitting(asked, board))
        BY DEF PinsInv, TodoOK
      <4>2. \A i \in 1 .. Len(todo[a]) : todo[a][i] \in Fitting(asked, board)
        BY <4>1, ElementOfSeq, LenProperties
      <4> QED BY <3>1, <4>2 DEF Fitting, Fits, Has
    <3>3. ClockPairs(<<>>)
      BY DEF ClockPairs
    <3> QED BY <3>1, <3>2, <3>3, QuietGoesOn
  <2>2. CASE a # Daemon
    <3>1. /\ todo[a] # <<>> /\ Done(a) /\ Head(todo[a]).work \notin {"clk", "pud", "unclk"}
          /\ UNCHANGED <<gppud, clock>>
      BY <1>3, <2>2 DEF DirectionFails, Does, chip
    <3> QED BY <3>1, QuietDone
  <2> QED BY <2>1, <2>2
<1>4. CASE GetPinMode(a)
  <2>1. PICK mode : Returns(a, mode)
    BY <1>4 DEF GetPinMode
  <2>2. todo[a] # <<>> /\ Head(todo[a]).work = "getmode" /\ UNCHANGED <<gppud, clock>>
    BY <1>4 DEF GetPinMode, Does, chip
  <2> DEFINE t == Tail(todo[a])
             r == [i \in DOMAIN t |-> IF t[i].work \in {"restore", "edge"} /\ t[i].pin = Pin(a)
                                      THEN Op(t[i].work, Pin(a), mode) ELSE t[i]]
  <2>3. t \in Seq(Ops) /\ DOMAIN t = 1 .. Len(t) /\ Len(t) \in Nat
    BY <1>q, <2>2, HeadTailProperties, LenProperties
  <2>4. Len(r) = Len(t) /\ \A i \in 1 .. Len(t) : r[i].work = t[i].work
    BY <2>3 DEF Op
  <2>5. ClockPairs(t) /\ \A work \in {"pud", "unclk"} : Has(todo[a], work) => Has(t, work)
    BY <1>q, <2>2, TailQuiet
  <2> HIDE DEF t
  <2>6. todo' = [todo EXCEPT ![a] = r]
    BY <2>1 DEF Returns, t
  <2> HIDE DEF r
  <2>7. ClockPairs(r) /\ \A work \in {"pud", "unclk"} : Has(t, work) => Has(r, work)
    BY <2>4, <2>5 DEF ClockPairs, Has
  <2> QED BY <2>2, <2>5, <2>6, <2>7, QuietGoesOn
<1>5. CASE Restore(a) \/ EdgeSetup(a)
  <2>1. todo[a] # <<>> /\ Head(todo[a]).work \notin {"clk", "pud", "unclk"} /\ UNCHANGED <<gppud, clock>>
    BY <1>5 DEF Restore, EdgeSetup, Does, chip
  <2>2. Pin(a) \in Pins /\ Val(a) \in Modes \cup {Unread}
    BY <2>1, HeadFits
  <2>3. \A v \in Modes \cup {Unread} : Op("mode", Pin(a), v) \in Ops /\ Op("mode", Pin(a), v).work = "mode"
    BY <2>2 DEF Op, Ops, Works
  <2>4. INPUT \in Modes /\ OUTPUT \in Modes
    BY ModeValues
  <2>5. CASE Done(a)
    BY <2>1, <2>5, QuietDone
  <2>6. CASE Then(a, <<Op("mode", Pin(a), Val(a))>>)
    <3>0. <<Op("mode", Pin(a), Val(a))>> \in Seq(Ops)
      BY <2>2, <2>3
    <3>1. PICK s \in Seq(Ops) : s = <<Op("mode", Pin(a), Val(a))>>
      BY <3>0, Zenon
    <3>2. \A i \in 1 .. Len(s) : s[i].work = "mode"
      BY <3>1, <2>2, <2>3
    <3> QED BY <2>1, <2>6, <3>1, <3>2, QuietOther
  <2>7. CASE Then(a, <<Op("mode", Pin(a), INPUT), Op("mode", Pin(a), OUTPUT)>>)
    <3>0. <<Op("mode", Pin(a), INPUT), Op("mode", Pin(a), OUTPUT)>> \in Seq(Ops)
      BY <2>3, <2>4
    <3>1. PICK s \in Seq(Ops) : s = <<Op("mode", Pin(a), INPUT), Op("mode", Pin(a), OUTPUT)>>
      BY <3>0, Zenon
    <3>2. \A i \in 1 .. Len(s) : s[i].work = "mode"
      BY <3>1, <2>3, <2>4
    <3> QED BY <2>1, <2>7, <3>1, <3>2, QuietOther
  <2> QED BY <1>5, <2>5, <2>6, <2>7 DEF Restore, EdgeSetup
<1>6. CASE SetPull(a)
  <2>1. todo[a] # <<>> /\ Pin(a) \in Pins /\ UNCHANGED clock
    BY <1>6, HeadFits DEF SetPull, Does
  <2>2. Tail(todo[a]) \in Seq(Ops) /\ ClockPairs(Tail(todo[a]))
    BY <1>q, <2>1, HeadTailProperties, TailQuiet
  <2>0. <<Op("clk", Pin(a), 0), Op("pud", Pin(a), 0), Op("unclk", Pin(a), 0)>> \in Seq(Ops)
    BY <2>1 DEF Op, Ops, Works, Modes
  <2>3. PICK s \in Seq(Ops) : s = <<Op("clk", Pin(a), 0), Op("pud", Pin(a), 0), Op("unclk", Pin(a), 0)>>
    BY <2>0, Zenon
  <2>4. Len(s) = 3 /\ s[1].work = "clk" /\ s[2].work = "pud" /\ s[3].work = "unclk"
    BY <2>3 DEF Op
  <2>5. ClockPairs(s) /\ Has(s, "pud") /\ Has(s, "unclk")
    BY <2>4 DEF ClockPairs, Has
  <2>6. PICK q : q = s \o Tail(todo[a])
    OBVIOUS
  <2>7. ClockPairs(q) /\ Has(q, "pud") /\ Has(q, "unclk")
    BY <2>2, <2>5, <2>6, BeforeQuiet
  <2>8. \A b \in Procs : todo'[b] = IF b = a THEN q ELSE todo[b]
    BY <1>6, <2>3, <2>6 DEF SetPull, Then, PinsInv, TodoOK
  <2> QED BY <2>7, <2>8 DEF QuietInv
<1>7. CASE Clock(a) \/ PullOff(a) \/ ClockOff(a)
  <2>1. todo[a] # <<>> /\ Done(a)
    BY <1>7 DEF Clock, PullOff, ClockOff, Does
  <2>2. PICK q : q = Tail(todo[a])
    OBVIOUS
  <2>3. q \in Seq(Ops) /\ ClockPairs(q)
    BY <1>q, <2>1, <2>2, HeadTailProperties, TailQuiet
  <2>4. todo' = [todo EXCEPT ![a] = q]
    BY <2>1, <2>2, <2>3, ConcatEmptySeq DEF Done, Then
  <2>5. \A b \in Procs : todo'[b] = IF b = a THEN q ELSE todo[b]
    BY <2>4 DEF PinsInv, TodoOK
  <2>6. \A b \in Procs : ClockPairs(todo'[b])
    BY <2>3, <2>5 DEF QuietInv
  <2>7. \A work : work # Head(todo[a]).work /\ (\E b \in Procs : Has(todo[b], work))
                    => \E b \in Procs : Has(todo'[b], work)
    BY <1>q, <2>1, <2>2, <2>5, TailQuiet
  <2>8. CASE Clock(a)
    <3>1. Head(todo[a]).work = "clk" /\ UNCHANGED gppud
      BY <2>8 DEF Clock, Does
    <3>2. Has(todo'[a], "unclk")
      BY <1>q, <2>1, <2>2, <2>5, <3>1, TailQuiet
    <3> QED BY <2>6, <2>7, <3>1, <3>2 DEF QuietInv
  <2>9. CASE PullOff(a)
    <3>1. Head(todo[a]).work = "pud" /\ gppud' = PUD_OFF /\ UNCHANGED clock
      BY <2>9 DEF PullOff, Does
    <3> QED BY <2>6, <2>7, <3>1 DEF QuietInv
  <2>10. CASE ClockOff(a)
    <3>1. Head(todo[a]).work = "unclk" /\ UNCHANGED gppud /\ clock' = {}
      BY <2>10 DEF ClockOff, Does
    <3> QED BY <2>6, <2>7, <3>1 DEF QuietInv
  <2> QED BY <1>7, <2>8, <2>9, <2>10
<1> QED BY <1>1, <1>2, <1>3, <1>4, <1>5, <1>6, <1>7 DEF Access

\* A process that had nothing to do begins with something but a clock.
LEMMA QuietBegins ==
  ASSUME PinsInv, QuietInv, ~killed, NEW a \in Procs, todo[a] = <<>>, NEW s,
         todo' = [todo EXCEPT ![a] = s], UNCHANGED <<gppud, clock>>,
         \A i \in 1 .. Len(s) : s[i].work # "clk"
  PROVE  QuietInv'
<1>1. ClockPairs(s)
  BY DEF ClockPairs
<1>2. \A work : ~ Has(todo[a], work)
  BY DEF Has
<1> QED BY <1>1, <1>2, QuietGoesOn

LEMMA QuietCommand ==
  ASSUME PinsInv, QuietInv, ~killed,
         \/ SetUpPins
         \/ \E t \in Tools : ReadAllCommand(t) \/ \E p \in PinsGiven : Tool(t, p)
  PROVE  QuietInv'
<1>1. CASE SetUpPins
  <2>1. PICK s : /\ s = <<Op("mode", Clk, INPUT), Op("mode", Dt, INPUT), Op("mode", Sw, INPUT),
                          Op("pull", Clk, PUD_UP), Op("pull", Dt, PUD_UP), Op("pull", Sw, PUD_UP)>>
                 /\ todo' = [todo EXCEPT ![Daemon] = s] /\ UNCHANGED <<gppud, clock>>
    BY <1>1 DEF SetUpPins, Begin, chip
  <2>2. \A i \in 1 .. Len(s) : s[i].work # "clk"
    BY <2>1 DEF Op
  <2>3. todo[Daemon] = <<>> /\ Daemon \in Procs
    BY <1>1, DaemonIsProc DEF SetUpPins, PinsInv, TodoOK
  <2> QED BY <2>1, <2>2, <2>3, QuietBegins
<1>2. ASSUME NEW t \in Tools, NEW s, NEW news, NEW w, Command(t, s, news, w),
             \A i \in 1 .. Len(s) : s[i].work # "clk"
      PROVE  QuietInv'
  <2>1. todo[t] = <<>> /\ todo' = [todo EXCEPT ![t] = s] /\ UNCHANGED <<gppud, clock>>
    BY <1>2 DEF Command, Begin, chip
  <2> QED BY <1>2, <2>1, QuietBegins, DaemonIsProc
<1>3. ASSUME NEW t \in Tools, ReadAllCommand(t) PROVE QuietInv'
  <2>1. PICK s : s = [i \in DOMAIN Header |-> Op("export", Header[i], 0)]
    OBVIOUS
  <2>2. DOMAIN Header = 1 .. Len(Header) /\ Len(Header) \in Nat
    BY GpioPinsAssumption, LenProperties
  <2>3. Len(s) = Len(Header) /\ \A i \in 1 .. Len(s) : s[i].work # "clk"
    BY <2>1, <2>2 DEF Op
  <2>4. Command(t, s, {}, <<fsel, pull, high, Pins>>)
    BY <1>3, <2>1 DEF ReadAllCommand
  <2> QED BY <1>2, <2>3, <2>4
<1>4. ASSUME NEW t \in Tools, NEW p \in PinsGiven, Tool(t, p) PROVE QuietInv'
  <2> DEFINE Plain(s) == \A i \in 1 .. Len(s) : s[i].work # "clk"
  <2>1. \A m : /\ Plain(<<Op("mode", p, m)>>) /\ Plain(<<Op("pull", p, m)>>)
               /\ Plain(<<Op("export", p, 0)>>) /\ Plain(<<Op("unexport", p, 0)>>)
    BY DEF Op
  <2>2. \A v : Plain(<<Op("getmode", p, 0), Op("mode", p, OUTPUT), Op("set", p, v), Op("restore", p, Unread)>>)
    BY DEF Op
  <2>3. Plain(<<Op("export", p, 0), Op("getmode", p, 0), Op("edge", p, Unread)>>)
    BY DEF Op
  <2> HIDE DEF Plain
  <2>4. ASSUME NEW s, NEW news, NEW w, Command(t, s, news, w), Plain(s) PROVE QuietInv'
    BY <1>2, <2>4 DEF Plain
  <2> QED BY <1>4, <2>1, <2>2, <2>3, <2>4
          DEF Tool, ModeCommand, PullCommand, WriteCommand, ExportCommand, UnexportCommand,
              MonitorCommand
<1> QED BY <1>1, <1>3, <1>4

LEMMA KilledAccess ==
  ASSUME NEW a \in Procs, Access(a)
  PROVE  UNCHANGED killed
BY DEF Access, ReadSelect, WriteSelect, Direction, DirectionFails, GetPinMode, DigitalWrite,
       Restore, SetPull, Clock, PullOff, ClockOff, ReadPull, WritePull, PullFails, PinExport,
       PinUnexport, EdgeSetup, Load, notes

LEMMA QuietNext == PinsInv /\ QuietInv /\ [NextPins]_pinvars => QuietInv'
<1> SUFFICES ASSUME PinsInv, QuietInv, [NextPins]_pinvars PROVE QuietInv'
  OBVIOUS
<1>1. CASE killed
  <2>1. ASSUME NEW a \in Procs, Access(a) PROVE killed' = killed
    BY <2>1, KilledAccess
  <2>2. ASSUME NEW t \in Tools, ReadAllCommand(t) \/ \E p \in PinsGiven : Tool(t, p)
        PROVE  killed' = killed
    BY <2>2 DEF Tool, ReadAllCommand, ModeCommand, PullCommand, WriteCommand, ExportCommand,
       UnexportCommand, MonitorCommand, Command, Begin
  <2>3. SetUpPins => killed' = killed
    BY DEF SetUpPins, Begin
  <2>4. NotSetUp \/ PinsSetUp => killed' = killed
    BY DEF NotSetUp, PinsSetUp
  <2>5. UNCHANGED pinvars => killed' = killed
    BY DEF pinvars
  <2>6. ASSUME NEW a \in Procs PROVE ~ Kill(a)
    BY <1>1 DEF Kill
  <2> QED BY <1>1, <2>1, <2>2, <2>3, <2>4, <2>5, <2>6 DEF QuietInv, NextPins
<1>2. CASE ~killed
  <2>1. ASSUME NEW a \in Procs, Kill(a) PROVE QuietInv'
    BY <2>1 DEF Kill, QuietInv
  <2>2. ASSUME NEW a \in Procs, Access(a) PROVE QuietInv'
    BY <1>2, <2>2, QuietAccess
  <2>3. CASE NotSetUp \/ PinsSetUp \/ UNCHANGED pinvars
    BY <2>3 DEF NotSetUp, PinsSetUp, pinvars, chip, QuietInv
  <2>4. CASE \/ SetUpPins
             \/ \E t \in Tools : ReadAllCommand(t) \/ \E p \in PinsGiven : Tool(t, p)
    BY <1>2, <2>4, QuietCommand
  <2> QED BY <2>1, <2>2, <2>3, <2>4 DEF NextPins
<1> QED BY <1>1, <1>2

\* However the sequences of several processes overlap in GPPUD and its clock, both
\* are off again when the last one is through (GPIO_Pi.c:400-429).
THEOREM PullsEndQuiet == SpecPins => []PullQuiet
<1>1. InitPins => QuietInv
  <2> SUFFICES ASSUME InitPins PROVE QuietInv
    OBVIOUS
  <2>1. gppud = PUD_OFF /\ clock = {} /\ \A a \in Procs : todo[a] = <<>>
    BY DEF InitPins
  <2> QED BY <2>1 DEF QuietInv, ClockPairs
<1>2. PinsInv /\ QuietInv => PullQuiet
  <2> SUFFICES ASSUME PinsInv, QuietInv PROVE PullQuiet
    OBVIOUS
  <2>1. \A a \in Procs : DOMAIN todo[a] = 1 .. Len(todo[a])
    BY TodoIsOps, LenProperties
  <2> QED BY <2>1 DEF QuietInv, Has, PullQuiet
<1> QED BY <1>1, <1>2, PinsInvAlways, QuietNext, PTL DEF SpecPins

-----------------------------------------------------------------------------
(* A call that meets no other                                               *)

State(f, r, h, e, g, c) ==
  [fsel |-> f, pull |-> r, high |-> h, exported |-> e, gppud |-> g, clock |-> c]

Now == State(fsel, pull, high, exported, gppud, clock)

\* What the caller sees of a state.
Visible(x) == <<x.fsel, x.pull, x.high, x.exported>>

\* Process a gives pin p the mode v, on board B in state x.  (When the daemon
\* cannot, it gives up.)
Moded(B, a, p, v, x) ==
  IF B # "sysfs"
  THEN State([x.fsel EXCEPT ![p] = v], x.pull, x.high, x.exported, x.gppud, x.clock)
  ELSE IF a # Daemon /\ (p \notin x.exported \/ v \notin {INPUT, OUTPUT}) THEN x
  ELSE State([x.fsel EXCEPT ![p] = v], x.pull, IF v = OUTPUT THEN x.high \ {p} ELSE x.high,
             x.exported, x.gppud, x.clock)

Pulled(B, p, v, x) ==
  IF B = "sysfs" THEN x
  ELSE IF B = "pi4"
  THEN State(x.fsel, [x.pull EXCEPT ![p] = v], x.high, x.exported, x.gppud, x.clock)
  ELSE State(x.fsel, IF p \in x.clock THEN x.pull ELSE [x.pull EXCEPT ![p] = v],
             x.high, x.exported, PUD_OFF, {})

\* The state after one piece of work, with all that it leads to.
After(B, a, o, x) ==
  IF o.work = "mode" THEN Moded(B, a, o.pin, o.val, x)
  ELSE IF o.work = "restore"
  THEN IF o.val \in {OUTPUT, Unread} THEN x ELSE Moded(B, a, o.pin, o.val, x)
  ELSE IF o.work = "edge"
  THEN IF o.val = OUTPUT THEN Moded(B, a, o.pin, OUTPUT, Moded(B, a, o.pin, INPUT, x)) ELSE x
  ELSE IF o.work = "set"
  THEN State(x.fsel, x.pull,
             IF B = "sysfs" /\ (o.pin \notin x.exported \/ x.fsel[o.pin] # OUTPUT) THEN x.high
             ELSE IF o.val = 0 THEN x.high \ {o.pin} ELSE x.high \cup {o.pin},
             x.exported, x.gppud, x.clock)
  ELSE IF o.work = "pull" THEN Pulled(B, o.pin, o.val, x)
  ELSE IF o.work = "clk"
  THEN State(x.fsel, IF o.pin \in x.clock THEN x.pull ELSE [x.pull EXCEPT ![o.pin] = x.gppud],
             x.high, x.exported, x.gppud, {o.pin})
  ELSE IF o.work = "pud" THEN State(x.fsel, x.pull, x.high, x.exported, PUD_OFF, x.clock)
  ELSE IF o.work = "unclk" THEN State(x.fsel, x.pull, x.high, x.exported, x.gppud, {})
  ELSE IF o.work = "export"
  THEN State(x.fsel, x.pull, x.high, x.exported \cup {o.pin}, x.gppud, x.clock)
  ELSE IF o.work = "unexport"
  THEN State(IF o.pin \in x.exported THEN [x.fsel EXCEPT ![o.pin] = INPUT] ELSE x.fsel,
             x.pull, x.high, x.exported \ {o.pin}, x.gppud, x.clock)
  ELSE x

\* Work that does not change what is to be done later.
Plain == {o \in Ops : o.work # "getmode"}

\* The sequence q leads from state x to state y.
Leads(B, a, q, x, y) ==
  \E m : /\ m[1] = x /\ m[Len(q) + 1] = y
         /\ \A i \in 1 .. Len(q) : m[i + 1] = After(B, a, q[i], m[i])

LEMMA LeadsNowhere == \A B, a, x, y : Leads(B, a, <<>>, x, y) <=> x = y
<1> SUFFICES ASSUME NEW B, NEW a, NEW x, NEW y PROVE Leads(B, a, <<>>, x, y) <=> x = y
  OBVIOUS
<1>1. Len(<<>>) = 0
  OBVIOUS
<1>2. ASSUME x = y PROVE Leads(B, a, <<>>, x, y)
  <2>1. PICK m : m = [i \in {1} |-> x]
    OBVIOUS
  <2>2. m[1] = x
    BY <2>1
  <2> QED BY <1>1, <1>2, <2>2 DEF Leads
<1> QED BY <1>1, <1>2 DEF Leads

LEMMA LeadsOn ==
  ASSUME NEW B, NEW a, NEW q \in Seq(Plain), q # <<>>, NEW x, NEW y, Leads(B, a, q, x, y)
  PROVE  Leads(B, a, Tail(q), After(B, a, Head(q), x), y)
<1>1. PICK m : /\ m[1] = x /\ m[Len(q) + 1] = y
               /\ \A i \in 1 .. Len(q) : m[i + 1] = After(B, a, q[i], m[i])
  BY DEF Leads
<1>2. /\ Len(Tail(q)) = Len(q) - 1 /\ Len(q) \in Nat \ {0} /\ Head(q) = q[1]
      /\ \A i \in 1 .. Len(q) - 1 : Tail(q)[i] = q[i + 1]
  BY HeadTailProperties, LenProperties, EmptySeq
<1>3. PICK n : n = [i \in 1 .. Len(q) |-> m[i + 1]]
  OBVIOUS
<1>4. n[1] = After(B, a, Head(q), x) /\ n[Len(Tail(q)) + 1] = y
  BY <1>1, <1>2, <1>3
<1>5. ASSUME NEW i \in 1 .. Len(Tail(q)) PROVE n[i + 1] = After(B, a, Tail(q)[i], n[i])
  <2>1. i + 1 \in 1 .. Len(q) /\ i \in 1 .. Len(q) /\ Tail(q)[i] = q[i + 1]
    BY <1>2
  <2>2. n[i + 1] = m[(i + 1) + 1] /\ n[i] = m[i + 1]
    BY <1>3, <2>1
  <2> QED BY <1>1, <2>1, <2>2
<1> QED BY <1>4, <1>5 DEF Leads

LEMMA LeadsFirst ==
  ASSUME NEW B, NEW a, NEW q \in Seq(Plain), NEW o \in Plain, NEW x, NEW y,
         Leads(B, a, q, After(B, a, o, x), y)
  PROVE  Leads(B, a, <<o>> \o q, x, y) /\ <<o>> \o q \in Seq(Plain)
<1>1. PICK m : /\ m[1] = After(B, a, o, x) /\ m[Len(q) + 1] = y
               /\ \A i \in 1 .. Len(q) : m[i + 1] = After(B, a, q[i], m[i])
  BY DEF Leads
<1>2. PICK r : r = <<o>> \o q
  OBVIOUS
<1>3. /\ Len(r) = Len(q) + 1 /\ Len(q) \in Nat /\ r[1] = o /\ r \in Seq(Plain)
      /\ \A i \in 2 .. Len(r) : r[i] = q[i - 1]
  BY <1>2
<1>4. PICK n : n = [i \in 1 .. Len(q) + 2 |-> IF i = 1 THEN x ELSE m[i - 1]]
  OBVIOUS
<1>5. n[1] = x /\ n[Len(r) + 1] = y
  BY <1>1, <1>3, <1>4
<1>6. ASSUME NEW i \in 1 .. Len(r) PROVE n[i + 1] = After(B, a, r[i], n[i])
  <2>1. n[i + 1] = m[i]
    BY <1>3, <1>4
  <2>2. CASE i = 1
    BY <1>1, <1>3, <1>5, <2>1, <2>2
  <2>3. CASE i # 1
    <3>1. i - 1 \in 1 .. Len(q) /\ r[i] = q[i - 1] /\ n[i] = m[i - 1]
      BY <1>3, <1>4, <2>3
    <3>2. m[(i - 1) + 1] = After(B, a, q[i - 1], m[i - 1])
      BY <1>1, <3>1
    <3> QED BY <2>1, <3>1, <3>2
  <2> QED BY <2>2, <2>3
<1> QED BY <1>2, <1>3, <1>5, <1>6 DEF Leads

\* On the two calls whose later work depends on what they read.
WriteWork(p, v) ==
  <<Op("getmode", p, 0), Op("mode", p, OUTPUT), Op("set", p, v), Op("restore", p, Unread)>>
WriteWant(p, v) ==
  <<fsel, pull, IF p \notin Settable THEN high
                ELSE IF v = 0 THEN high \ {p} ELSE high \cup {p}, exported>>
MonitorWork(p) == <<Op("export", p, 0), Op("getmode", p, 0), Op("edge", p, Unread)>>
MonitorRest(p) == <<Op("getmode", p, 0), Op("edge", p, Unread)>>
MonitorWant(p) ==
  <<fsel, pull, IF fsel[p] = OUTPUT THEN high \ {p} ELSE high, exported \cup {p}>>

\* The work q of process a leads from here to w.
Reaches(a, q, w) ==
  \/ q \in Seq(Plain) /\ \E y : Leads(board, a, q, Now, y) /\ Visible(y) = w
  \/ a # Daemon /\ \E p \in Pins, v \in 0 .. 1 : q = WriteWork(p, v) /\ w = WriteWant(p, v)
  \/ board = "sysfs" /\ a # Daemon /\ \E p \in Pins : q = MonitorWork(p) /\ w = MonitorWant(p)
  \/ /\ board = "sysfs" /\ a # Daemon
     /\ \E p \in exported : q = MonitorRest(p) /\ w = MonitorWant(p)

\* What process a has yet to do leads to what it should leave.
OnItsWay(a) == Reaches(a, todo[a], want)

\* What it has read of a register is still there.
SeenFresh(a) ==
  /\ Head(todo[a]).work = "mode" => \A q \in Pins : SameSelect(Pin(a), q) => seen[a][q] = fsel[q]
  /\ Head(todo[a]).work = "pull" => \A q \in Pins : SamePull(Pin(a), q) => seen[a][q] = pull[q]

AloneInv ==
  alone # Nobody =>
    /\ alone \in Procs /\ \A b \in Procs : b # alone => todo[b] = <<>>
    /\ alone \in loaded => SeenFresh(alone)
    /\ OnItsWay(alone)

\* sysfs knows two modes.
SysfsModes ==
  board = "sysfs" => \A p, v : <<"mode", p, v>> \in asked => v \in {INPUT, OUTPUT}

\* The work that process a has just done is what led from its state to the next.
LEMMA DoneLeads ==
  ASSUME NEW a \in Procs, todo \in [Procs -> Seq(Ops)], todo[a] # <<>>, todo[a] \in Seq(Plain),
         NEW y, Leads(board, a, todo[a], Now, y), Visible(y) = want,
         Done(a), UNCHANGED <<board, want>>, Now' = After(board, a, Head(todo[a]), Now)
  PROVE  OnItsWay(a)'
<1>1. PICK q : q = Tail(todo[a])
  OBVIOUS
<1>2. q \in Seq(Plain) /\ Leads(board, a, q, Now', y)
  BY <1>1, LeadsOn, HeadTailProperties
<1>3. todo'[a] = q
  BY <1>1, <1>2, ConcatEmptySeq DEF Done, Then
<1> QED BY <1>2, <1>3 DEF OnItsWay, Reaches

\* Accesses that do one thing.
LEMMA WorkDone ==
  ASSUME PinsInv, NEW a \in Procs, a \in loaded => SeenFresh(a),
         \/ WriteSelect(a) \/ Direction(a) \/ DigitalWrite(a) \/ Clock(a) \/ PullOff(a)
         \/ ClockOff(a) \/ WritePull(a) \/ PullFails(a) \/ PinExport(a) \/ PinUnexport(a)
         \/ DirectionFails(a) /\ a # Daemon
  PROVE  /\ todo[a] # <<>> /\ Done(a) /\ UNCHANGED <<board, want, alone>>
         /\ Now' = After(board, a, Head(todo[a]), Now)
<1>1. todo[a] # <<>> /\ Done(a) /\ UNCHANGED <<board, want, alone>>
  BY DEF WriteSelect, Direction, DigitalWrite, Clock, PullOff, ClockOff, WritePull, PullFails,
         PinExport, PinUnexport, DirectionFails, Does, notes
<1>c. /\ fsel \in [Pins -> Modes] /\ pull \in [Pins -> Modes]
      /\ Pin(a) \in Pins
  BY <1>1, HeadFits DEF PinsInv, ChipOK
<1> USE DEF After, Now, State, Does, Pin, Val
<1>2. CASE WriteSelect(a)
  <2>1. a \in loaded /\ Head(todo[a]).work = "mode" /\ board # "sysfs"
        /\ UNCHANGED <<pull, high, gppud, clock, exported>> /\ fsel' = Merged(a, fsel, SameSelect)
    BY <1>2 DEF WriteSelect
  <2>2. \A q \in Pins : SameSelect(Pin(a), q) => seen[a][q] = fsel[q]
    BY <2>1 DEF SeenFresh
  <2>3. fsel' = [fsel EXCEPT ![Pin(a)] = Val(a)]
    BY <1>c, <2>1, <2>2 DEF Merged, Insert
  <2> QED BY <2>1, <2>3, <1>1 DEF Moded
<1>3. CASE WritePull(a)
  <2>1. a \in loaded /\ Head(todo[a]).work = "pull" /\ board = "pi4"
        /\ UNCHANGED <<fsel, high, gppud, clock, exported>> /\ pull' = Merged(a, pull, SamePull)
    BY <1>3 DEF WritePull
  <2>2. \A q \in Pins : SamePull(Pin(a), q) => seen[a][q] = pull[q]
    BY <2>1 DEF SeenFresh
  <2>3. pull' = [pull EXCEPT ![Pin(a)] = Val(a)]
    BY <1>c, <2>1, <2>2 DEF Merged, Insert
  <2> QED BY <2>1, <2>3, <1>1 DEF Pulled
<1>4. CASE Direction(a)
  BY <1>1, <1>4 DEF Direction, Moded
<1>5. CASE DirectionFails(a) /\ a # Daemon
  BY <1>1, <1>5 DEF DirectionFails, Moded, chip
<1>6. CASE DigitalWrite(a)
  BY <1>1, <1>6 DEF DigitalWrite
<1>7. CASE Clock(a)
  BY <1>1, <1>7 DEF Clock
<1>8. CASE PullOff(a) \/ ClockOff(a)
  BY <1>1, <1>8 DEF PullOff, ClockOff
<1>9. CASE PullFails(a)
  BY <1>1, <1>9 DEF PullFails, Pulled, chip
<1>10. CASE PinExport(a)
  BY <1>1, <1>10 DEF PinExport
<1>11. CASE PinUnexport(a)
  BY <1>1, <1>11 DEF PinUnexport
<1> QED BY <1>1, <1>2, <1>3, <1>4, <1>5, <1>6, <1>7, <1>8, <1>9, <1>10, <1>11

\* Accesses that go on with more work.
LEMMA MoreWork ==
  ASSUME PinsInv, NEW a \in Procs, todo[a] \in Seq(Plain),
         NEW y, Leads(board, a, todo[a], Now, y), Visible(y) = want,
         Restore(a) \/ SetPull(a) \/ EdgeSetup(a)
  PROVE  OnItsWay(a)'
<1>1. /\ todo[a] # <<>> /\ UNCHANGED <<board, want, fsel, pull, high, exported, clock>>
  BY DEF Restore, SetPull, EdgeSetup, Does, notes, chip
<1>2. /\ Pin(a) \in Pins /\ Val(a) \in Modes \cup {Unread} /\ todo \in [Procs -> Seq(Ops)]
      /\ todo[a] \in Seq(Ops)
  BY <1>1, HeadFits, TodoIsOps DEF PinsInv, TodoOK
<1>3. PICK q : q = Tail(todo[a])
  OBVIOUS
<1>4. PICK o : o = Head(todo[a])
  OBVIOUS
<1>5. q \in Seq(Plain) /\ Leads(board, a, q, After(board, a, o, Now), y)
  BY <1>1, <1>3, <1>4, LeadsOn, HeadTailProperties
<1>6. \A work \in Works \ {"getmode"}, v \in Modes \cup {Unread} : Op(work, Pin(a), v) \in Plain
  BY <1>2 DEF Plain, Op, Ops
<1>7. ASSUME UNCHANGED gppud, After(board, a, o, Now) = Now, Done(a) PROVE OnItsWay(a)'
  <2>1. Now' = After(board, a, Head(todo[a]), Now)
    BY <1>1, <1>4, <1>7 DEF Now
  <2>2. todo[a] \in Seq(Plain)
    OBVIOUS
  <2> QED BY <1>1, <1>2, <1>7, <2>1, <2>2, DoneLeads, TodoIsOps DEF PinsInv
<1>8. CASE Restore(a)
  <2>1. UNCHANGED gppud /\ o.work = "restore"
    BY <1>4, <1>8 DEF Restore, Does, chip
  <2>2. CASE Val(a) \in {OUTPUT, Unread}
    <3>1. After(board, a, o, Now) = Now /\ Done(a)
      BY <1>4, <1>8, <2>1, <2>2 DEF Restore, After, Val
    <3> QED BY <1>7, <2>1, <3>1
  <2>3. CASE Val(a) \notin {OUTPUT, Unread}
    <3>1. PICK n \in Plain : n = Op("mode", Pin(a), Val(a))
      BY <1>2, <1>6 DEF Works
    <3>2. After(board, a, o, Now) = After(board, a, n, Now)
      BY <1>4, <2>1, <2>3, <3>1 DEF After, Op, Pin, Val
    <3>3. Leads(board, a, <<n>> \o q, Now, y) /\ <<n>> \o q \in Seq(Plain)
      BY <1>5, <3>2, LeadsFirst
    <3>4. todo'[a] = <<n>> \o q
      BY <1>2, <1>3, <1>8, <2>3, <3>1 DEF Restore, Then
    <3>5. Now' = Now
      BY <1>1, <2>1 DEF Now
    <3> QED BY <1>1, <3>3, <3>4, <3>5 DEF OnItsWay, Reaches
  <2> QED BY <2>2, <2>3
<1>9. CASE EdgeSetup(a)
  <2>1. UNCHANGED gppud /\ o.work = "edge"
    BY <1>4, <1>9 DEF EdgeSetup, Does, chip
  <2>2. CASE Val(a) # OUTPUT
    <3>1. After(board, a, o, Now) = Now /\ Done(a)
      BY <1>4, <1>9, <2>1, <2>2 DEF EdgeSetup, After, Val
    <3> QED BY <1>7, <2>1, <3>1
  <2>3. CASE Val(a) = OUTPUT
    <3>1. PICK n \in Plain : n = Op("mode", Pin(a), INPUT)
      BY <1>6, ModeValues DEF Works
    <3>2. PICK n2 \in Plain : n2 = Op("mode", Pin(a), OUTPUT)
      BY <1>6, ModeValues DEF Works
    <3>3. After(board, a, o, Now) = After(board, a, n2, After(board, a, n, Now))
      BY <1>4, <2>1, <2>3, <3>1, <3>2 DEF After, Op, Pin, Val
    <3>4. Leads(board, a, <<n2>> \o q, After(board, a, n, Now), y) /\ <<n2>> \o q \in Seq(Plain)
      BY <1>5, <3>3, LeadsFirst
    <3>5. Leads(board, a, <<n>> \o (<<n2>> \o q), Now, y) /\ <<n>> \o (<<n2>> \o q) \in Seq(Plain)
      BY <3>4, LeadsFirst
    <3>6. <<n>> \o (<<n2>> \o q) = <<n, n2>> \o q
      BY <1>5
    <3>7. todo'[a] = <<n, n2>> \o q
      BY <1>2, <1>3, <1>9, <2>3, <3>1, <3>2 DEF EdgeSetup, Then
    <3>8. Now' = Now
      BY <1>1, <2>1 DEF Now
    <3> QED BY <1>1, <3>5, <3>6, <3>7, <3>8 DEF OnItsWay, Reaches
  <2> QED BY <2>2, <2>3
<1>10. CASE SetPull(a)
  <2>1. gppud' = Val(a) /\ o.work = "pull" /\ board = "pud"
    BY <1>4, <1>10 DEF SetPull, Does
  <2>2. PICK n \in Plain : n = Op("clk", Pin(a), 0)
    BY <1>6 DEF Works, Modes
  <2>3. PICK n2 \in Plain : n2 = Op("pud", Pin(a), 0)
    BY <1>6 DEF Works, Modes
  <2>4. PICK n3 \in Plain : n3 = Op("unclk", Pin(a), 0)
    BY <1>6 DEF Works, Modes
  <2>5. PICK x : x = Now'
    OBVIOUS
  <2>6. x = State(fsel, pull, high, exported, Val(a), clock)
    BY <1>1, <2>1, <2>5 DEF Now
  <2>7. After(board, a, o, Now) =
          After(board, a, n3, After(board, a, n2, After(board, a, n, x)))
    <3>1. PICK r : r = IF Pin(a) \in clock THEN pull ELSE [pull EXCEPT ![Pin(a)] = Val(a)]
      OBVIOUS
    <3>2. After(board, a, n, x) = State(fsel, r, high, exported, Val(a), {Pin(a)})
      BY <2>2, <2>6, <3>1 DEF After, Op, State
    <3>3. After(board, a, n2, State(fsel, r, high, exported, Val(a), {Pin(a)}))
            = State(fsel, r, high, exported, PUD_OFF, {Pin(a)})
      BY <2>3 DEF After, Op, State
    <3>4. After(board, a, n3, State(fsel, r, high, exported, PUD_OFF, {Pin(a)}))
            = State(fsel, r, high, exported, PUD_OFF, {})
      BY <2>4 DEF After, Op, State
    <3>5. After(board, a, o, Now) = State(fsel, r, high, exported, PUD_OFF, {})
      BY <1>4, <2>1, <3>1 DEF After, Pulled, Pin, Val, Now, State
    <3> QED BY <3>2, <3>3, <3>4, <3>5
  <2>8. /\ Leads(board, a, <<n3>> \o q, After(board, a, n2, After(board, a, n, x)), y)
        /\ <<n3>> \o q \in Seq(Plain)
    BY <1>5, <2>7, LeadsFirst
  <2>9. /\ Leads(board, a, <<n2>> \o (<<n3>> \o q), After(board, a, n, x), y)
        /\ <<n2>> \o (<<n3>> \o q) \in Seq(Plain)
    BY <2>8, LeadsFirst
  <2>10. /\ Leads(board, a, <<n>> \o (<<n2>> \o (<<n3>> \o q)), x, y)
         /\ <<n>> \o (<<n2>> \o (<<n3>> \o q)) \in Seq(Plain)
    BY <2>9, LeadsFirst
  <2>11. <<n>> \o (<<n2>> \o (<<n3>> \o q)) = <<n, n2, n3>> \o q
    BY <1>5
  <2>12. todo'[a] = <<n, n2, n3>> \o q
    BY <1>2, <1>3, <1>10, <2>2, <2>3, <2>4 DEF SetPull, Then
  <2> QED BY <1>1, <2>5, <2>10, <2>11, <2>12 DEF OnItsWay, Reaches
<1> QED BY <1>8, <1>9, <1>10

\* gpio write has read the mode of its pin.
LEMMA WriteReads ==
  ASSUME PinsInv, SysfsModes, NEW a \in Procs, a # Daemon, NEW p \in Pins, NEW v \in 0 .. 1,
         todo[a] = WriteWork(p, v), want = WriteWant(p, v), GetPinMode(a)
  PROVE  OnItsWay(a)'
<1>1. UNCHANGED <<board, fsel, pull, high, gppud, clock, exported, want>>
  BY DEF GetPinMode, chip, notes
<1>2. PICK m : m = IF board = "sysfs" /\ p \notin exported THEN Unread ELSE fsel[p]
  OBVIOUS
<1>3. Pin(a) = p
  BY DEF WriteWork, Pin, Op
<1>4. fsel \in [Pins -> Modes] /\ m \in Modes \cup {Unread}
  BY <1>2 DEF PinsInv, ChipOK
<1>5. board = "sysfs" /\ p \in exported => fsel[p] \in {INPUT, OUTPUT}
  BY DEF SysfsModes, PinsInv, WasAsked
<1>6. PICK o1 \in Plain : o1 = Op("mode", p, OUTPUT)
  BY ModeValues DEF Plain, Op, Ops, Works
<1>7. PICK o2 \in Plain : o2 = Op("set", p, v)
  <2>1. v \in Modes
    BY DEF Modes
  <2> QED BY <2>1 DEF Plain, Op, Ops, Works
<1>8. PICK o3 \in Plain : o3 = Op("restore", p, m)
  BY <1>4 DEF Plain, Op, Ops, Works
<1>9. todo'[a] = <<o1, o2, o3>>
  <2>1. PICK t : t = <<o1, o2, Op("restore", p, Unread)>>
    OBVIOUS
  <2>2. Tail(todo[a]) = t
    BY <1>6, <1>7, <2>1 DEF WriteWork
  <2>3. DOMAIN t = 1 .. 3 /\ t[1] = o1 /\ t[2] = o2 /\ t[3] = Op("restore", p, Unread)
    BY <2>1
  <2>4. PICK r : r = [i \in DOMAIN t |-> IF t[i].work \in {"restore", "edge"} /\ t[i].pin = p
                                        THEN Op(t[i].work, p, m) ELSE t[i]]
    OBVIOUS
  <2>5. todo' = [todo EXCEPT ![a] = r]
    BY <1>2, <1>3, <2>2, <2>4 DEF GetPinMode, Returns
  <2>6. DOMAIN r = 1 .. 3 /\ r[1] = o1 /\ r[2] = o2 /\ r[3] = o3
    BY <1>6, <1>7, <1>8, <2>3, <2>4 DEF Op
  <2>7. r = [i \in 1 .. 3 |-> r[i]]
    BY <2>4, <2>6
  <2>8. r = <<o1, o2, o3>>
    BY <2>6, <2>7
  <2>9. todo'[a] = r
    BY <2>5 DEF PinsInv, TodoOK
  <2> QED BY <2>8, <2>9
<1>10. PICK x1 : x1 = After(board, a, o1, Now)
  OBVIOUS
<1>11. PICK x2 : x2 = After(board, a, o2, x1)
  OBVIOUS
<1>12. PICK y : y = After(board, a, o3, x2)
  OBVIOUS
<1>13. Visible(y) = want
  <2>1. CASE board = "sysfs" /\ p \notin exported
    <3>1. x1 = Now
      BY <1>6, <1>10, <2>1 DEF After, Moded, Op, Now, State
    <3>2. x2 = State(fsel, pull, high, exported, gppud, clock)
      BY <1>7, <1>11, <2>1, <3>1 DEF After, Op, Now, State
    <3>3. y = x2
      BY <1>2, <1>8, <1>12, <2>1 DEF After, Op
    <3> QED BY <2>1, <3>2, <3>3 DEF Visible, WriteWant, Settable, State
  <2>2. CASE ~ (board = "sysfs" /\ p \notin exported)
    <3> DEFINE up == [fsel EXCEPT ![p] = OUTPUT]
               h1 == IF board = "sysfs" THEN high \ {p} ELSE high
               h2 == IF v = 0 THEN high \ {p} ELSE high \cup {p}
    <3>1. x1 = State(up, pull, h1, exported, gppud, clock)
      BY <1>6, <1>10, <2>2 DEF After, Moded, Op, Now, State
    <3>2. up[p] = OUTPUT
      BY <1>4
    <3>3. (IF v = 0 THEN h1 \ {p} ELSE h1 \cup {p}) = h2
      OBVIOUS
    <3> HIDE DEF up, h1, h2
    <3>4. x2 = State(up, pull, IF v = 0 THEN h1 \ {p} ELSE h1 \cup {p}, exported, gppud, clock)
      BY <1>7, <1>11, <2>2, <3>1, <3>2 DEF After, Op, State
    <3>5. m = fsel[p] /\ m # Unread
      BY <1>2, <1>4, <2>2 DEF Modes, Unread
    <3>6. CASE m = OUTPUT
      <4>1. y = x2
        BY <1>8, <1>12, <3>6 DEF After, Op
      <4>2. up = fsel
        BY <1>4, <3>5, <3>6 DEF up
      <4> QED BY <2>2, <3>3, <3>4, <4>1, <4>2 DEF Visible, State, WriteWant, Settable, h2
    <3>7. CASE m # OUTPUT
      <4>1. board = "sysfs" => m = INPUT /\ p \in exported
        BY <1>5, <2>2, <3>5, <3>7
      <4>2. y = Moded(board, a, p, m, x2)
        BY <1>8, <1>12, <3>5, <3>7 DEF After, Op
      <4>3. y = State([up EXCEPT ![p] = m], pull, h2, exported, gppud, clock)
        BY <3>3, <3>4, <3>7, <4>1, <4>2 DEF Moded, State
      <4>4. [up EXCEPT ![p] = m] = fsel
        BY <1>4, <3>5 DEF up
      <4> QED BY <2>2, <4>3, <4>4 DEF Visible, State, WriteWant, Settable, h2
    <3> QED BY <3>6, <3>7
  <2> QED BY <2>1, <2>2
<1>14. Leads(board, a, <<o1, o2, o3>>, Now, y) /\ <<o1, o2, o3>> \in Seq(Plain)
  <2>1. PICK z : z = <<>>
    OBVIOUS
  <2>2. z \in Seq(Plain) /\ Leads(board, a, z, y, y)
    BY <2>1, LeadsNowhere
  <2>3. Leads(board, a, <<o3>> \o z, x2, y) /\ <<o3>> \o z \in Seq(Plain)
    BY <1>12, <2>2, LeadsFirst
  <2>4. Leads(board, a, <<o2>> \o (<<o3>> \o z), x1, y) /\ <<o2>> \o (<<o3>> \o z) \in Seq(Plain)
    BY <1>11, <2>3, LeadsFirst
  <2>5. /\ Leads(board, a, <<o1>> \o (<<o2>> \o (<<o3>> \o z)), Now, y)
        /\ <<o1>> \o (<<o2>> \o (<<o3>> \o z)) \in Seq(Plain)
    BY <1>10, <2>4, LeadsFirst
  <2>6. <<o1>> \o (<<o2>> \o (<<o3>> \o z)) = <<o1, o2, o3>> \o z
    BY <2>2
  <2>7. <<o1, o2, o3>> \o z = <<o1, o2, o3>>
    BY <2>1
  <2> QED BY <2>5, <2>6, <2>7
<1>15. Now' = Now
  BY <1>1 DEF Now
<1> QED BY <1>1, <1>9, <1>13, <1>14, <1>15 DEF OnItsWay, Reaches

\* gpio_monitor has read the mode of its pin.
LEMMA MonitorReads ==
  ASSUME PinsInv, SysfsModes, NEW a \in Procs, a # Daemon, NEW p \in exported, board = "sysfs",
         todo[a] = MonitorRest(p), want = MonitorWant(p), GetPinMode(a)
  PROVE  OnItsWay(a)'
<1>1. UNCHANGED <<board, fsel, pull, high, gppud, clock, exported, want>>
  BY DEF GetPinMode, chip, notes
<1>2. PICK m : m = fsel[p]
  OBVIOUS
<1>3. Pin(a) = p
  BY DEF MonitorRest, Pin, Op
<1>4. fsel \in [Pins -> Modes] /\ p \in Pins /\ m \in Modes
  BY <1>2 DEF PinsInv, ChipOK
<1>5. PICK o \in Plain : o = Op("edge", p, m)
  BY <1>4 DEF Plain, Op, Ops, Works
<1>6. todo'[a] = <<o>>
  <2>1. PICK t : t = <<Op("edge", p, Unread)>>
    OBVIOUS
  <2>2. Tail(todo[a]) = t
    BY <2>1 DEF MonitorRest
  <2>3. DOMAIN t = 1 .. 1 /\ t[1] = Op("edge", p, Unread)
    BY <2>1
  <2>4. PICK r : r = [i \in DOMAIN t |-> IF t[i].work \in {"restore", "edge"} /\ t[i].pin = p
                                        THEN Op(t[i].work, p, m) ELSE t[i]]
    OBVIOUS
  <2>5. todo' = [todo EXCEPT ![a] = r]
    BY <1>2, <1>3, <2>2, <2>4 DEF GetPinMode, Returns
  <2>6. DOMAIN r = 1 .. 1 /\ r[1] = o
    BY <1>5, <2>3, <2>4 DEF Op
  <2>7. r = [i \in 1 .. 1 |-> r[i]]
    BY <2>4, <2>6
  <2>8. r = <<o>>
    BY <2>6, <2>7
  <2>9. todo'[a] = r
    BY <2>5 DEF PinsInv, TodoOK
  <2> QED BY <2>8, <2>9
<1>7. PICK y : y = After(board, a, o, Now)
  OBVIOUS
<1>8. Visible(y) = want
  <2>1. CASE m # OUTPUT
    <3>1. y = Now
      BY <1>5, <1>7, <2>1 DEF After, Op
    <3> QED BY <1>2, <2>1, <3>1 DEF Visible, Now, State, MonitorWant
  <2>2. CASE m = OUTPUT
    <3>1. y = Moded(board, a, p, OUTPUT, Moded(board, a, p, INPUT, Now))
      BY <1>5, <1>7, <2>2 DEF After, Op
    <3>2. Moded(board, a, p, INPUT, Now)
            = State([fsel EXCEPT ![p] = INPUT], pull, high, exported, gppud, clock)
      BY DEF Moded, Now, State, INPUT, OUTPUT
    <3>3. y = State([[fsel EXCEPT ![p] = INPUT] EXCEPT ![p] = OUTPUT], pull, high \ {p}, exported,
                    gppud, clock)
      BY <3>1, <3>2 DEF Moded, State
    <3>4. [[fsel EXCEPT ![p] = INPUT] EXCEPT ![p] = OUTPUT] = fsel
      BY <1>2, <1>4, <2>2
    <3> QED BY <1>2, <2>2, <3>3, <3>4 DEF Visible, State, MonitorWant
  <2> QED BY <2>1, <2>2
<1>9. Leads(board, a, <<o>>, Now, y) /\ <<o>> \in Seq(Plain)
  <2>1. PICK z : z = <<>>
    OBVIOUS
  <2>2. z \in Seq(Plain) /\ Leads(board, a, z, y, y)
    BY <2>1, LeadsNowhere
  <2>3. Leads(board, a, <<o>> \o z, Now, y) /\ <<o>> \o z \in Seq(Plain)
    BY <1>7, <2>2, LeadsFirst
  <2>4. <<o>> \o z = <<o>>
    BY <2>1
  <2> QED BY <2>3, <2>4
<1>10. Now' = Now
  BY <1>1 DEF Now
<1> QED BY <1>1, <1>6, <1>8, <1>9, <1>10 DEF OnItsWay, Reaches

\* Each step of a process that is alone is on the way to what it should leave.
LEMMA AloneWorks ==
  ASSUME PinsInv, SysfsModes, NEW a \in Procs, OnItsWay(a), a \in loaded => SeenFresh(a),
         Access(a), ~ (ReadSelect(a) \/ ReadPull(a)), ~ (DirectionFails(a) /\ a = Daemon)
  PROVE  OnItsWay(a)'
<1>0. todo[a] # <<>>
  BY DEF Access, ReadSelect, WriteSelect, Direction, DirectionFails, GetPinMode, DigitalWrite,
     Restore, SetPull, Clock, PullOff, ClockOff, ReadPull, WritePull, PullFails, PinExport,
     PinUnexport, EdgeSetup, Does
<1>1. ASSUME NEW y, todo[a] \in Seq(Plain), Leads(board, a, todo[a], Now, y), Visible(y) = want
      PROVE  OnItsWay(a)'
  <2>1. Head(todo[a]) \in Plain
    BY <1>0, <1>1, HeadTailProperties
  <2>2. ~ GetPinMode(a)
    BY <2>1 DEF Plain, GetPinMode, Does
  <2>3. CASE Restore(a) \/ SetPull(a) \/ EdgeSetup(a)
    BY <1>1, <2>3, MoreWork
  <2>4. CASE ~ (Restore(a) \/ SetPull(a) \/ EdgeSetup(a))
    <3>1. \/ WriteSelect(a) \/ Direction(a) \/ DigitalWrite(a) \/ Clock(a) \/ PullOff(a)
          \/ ClockOff(a) \/ WritePull(a) \/ PullFails(a) \/ PinExport(a) \/ PinUnexport(a)
          \/ DirectionFails(a) /\ a # Daemon
      BY <2>2, <2>4 DEF Access
    <3>2. /\ todo[a] # <<>> /\ Done(a) /\ UNCHANGED <<board, want>>
          /\ Now' = After(board, a, Head(todo[a]), Now)
      BY <3>1, WorkDone
    <3>3. todo \in [Procs -> Seq(Ops)]
      BY TodoIsOps DEF PinsInv, TodoOK
    <3> QED BY <1>1, <3>2, <3>3, DoneLeads
  <2> QED BY <2>3, <2>4
<1>2. ASSUME a # Daemon, NEW p \in Pins, NEW v \in 0 .. 1, todo[a] = WriteWork(p, v),
             want = WriteWant(p, v)
      PROVE  OnItsWay(a)'
  <2>1. Head(todo[a]).work = "getmode"
    BY <1>2 DEF WriteWork, Op
  <2>2. GetPinMode(a)
    BY <2>1 DEF Access, ReadSelect, WriteSelect, Direction, DirectionFails, DigitalWrite,
       Restore, SetPull, Clock, PullOff, ClockOff, ReadPull, WritePull, PullFails, PinExport,
       PinUnexport, EdgeSetup, Does
  <2> QED BY <1>2, <2>2, WriteReads
<1>3. ASSUME a # Daemon, board = "sysfs", NEW p \in Pins, todo[a] = MonitorWork(p),
             want = MonitorWant(p)
      PROVE  OnItsWay(a)'
  <2>1. Head(todo[a]).work = "export" /\ Pin(a) = p /\ Tail(todo[a]) = MonitorRest(p)
    BY <1>3 DEF MonitorWork, MonitorRest, Op, Pin
  <2>2. PinExport(a)
    BY <2>1 DEF Access, ReadSelect, WriteSelect, Direction, DirectionFails, DigitalWrite,
       Restore, SetPull, Clock, PullOff, ClockOff, ReadPull, WritePull, PullFails, GetPinMode,
       PinUnexport, EdgeSetup, Does
  <2>3. /\ UNCHANGED <<board, fsel, pull, high, want>> /\ exported' = exported \cup {p} /\ Done(a)
    BY <2>1, <2>2 DEF PinExport, notes
  <2>4. Tail(todo[a]) \in Seq(Ops)
    BY <1>0, TodoIsOps, HeadTailProperties
  <2>5. todo'[a] = MonitorRest(p)
    BY <2>1, <2>3, <2>4, ConcatEmptySeq DEF Done, Then, PinsInv, TodoOK
  <2>6. p \in exported' /\ want' = MonitorWant(p)'
    BY <1>3, <2>3 DEF MonitorWant
  <2>7. MonitorRest(p)' = MonitorRest(p)
    BY DEF MonitorRest, Op
  <2> QED BY <1>3, <2>3, <2>5, <2>6, <2>7 DEF OnItsWay, Reaches
<1>4. ASSUME a # Daemon, board = "sysfs", NEW p \in exported, todo[a] = MonitorRest(p),
             want = MonitorWant(p)
      PROVE  OnItsWay(a)'
  <2>1. Head(todo[a]).work = "getmode"
    BY <1>4 DEF MonitorRest, Op
  <2>2. GetPinMode(a)
    BY <2>1 DEF Access, ReadSelect, WriteSelect, Direction, DirectionFails, DigitalWrite,
       Restore, SetPull, Clock, PullOff, ClockOff, ReadPull, WritePull, PullFails, PinExport,
       PinUnexport, EdgeSetup, Does
  <2> QED BY <1>4, <2>2, MonitorReads
<1> QED BY <1>1, <1>2, <1>3, <1>4 DEF OnItsWay, Reaches

LEMMA AloneAccess ==
  ASSUME PinsInv, SysfsModes, AloneInv, NEW a \in Procs, Access(a)
  PROVE  AloneInv'
<1>0. todo[a] # <<>> /\ alone' \in {alone, Nobody}
  BY DEF Access, ReadSelect, WriteSelect, Direction, DirectionFails, GetPinMode, DigitalWrite,
     Restore, SetPull, Clock, PullOff, ClockOff, ReadPull, WritePull, PullFails, PinExport,
     PinUnexport, EdgeSetup, Load, Does, notes
<1>1. CASE alone' = Nobody
  BY <1>1 DEF AloneInv
<1>2. CASE alone' # Nobody
  <2>1. alone' = a /\ alone = a /\ \A b \in Procs : b # a => todo[b] = <<>>
    BY <1>0, <1>2 DEF AloneInv
  <2>2. OnItsWay(a) /\ (a \in loaded => SeenFresh(a))
    BY <2>1, <1>2 DEF AloneInv
  <2>3. ~ (DirectionFails(a) /\ a = Daemon)
    BY <1>2 DEF DirectionFails
  <2>4. CASE ReadSelect(a) \/ ReadPull(a)
    <3>1. UNCHANGED <<board, chip, todo, want>> /\ loaded' = loaded \cup {a}
      BY <2>4 DEF ReadSelect, ReadPull, Load, notes
    <3>2. SeenFresh(a)'
      <4>1. CASE ReadSelect(a)
        <5>1. \A q \in Pins : SameSelect(Pin(a), q) => seen'[a][q] = fsel[q]
          BY <4>1 DEF ReadSelect, Load, PinsInv, LoadedOK
        <5>2. Head(todo[a]).work = "mode"
          BY <4>1 DEF ReadSelect, Does
        <5> QED BY <3>1, <5>1, <5>2 DEF SeenFresh, Pin, chip
      <4>2. CASE ReadPull(a)
        <5>1. \A q \in Pins : SamePull(Pin(a), q) => seen'[a][q] = pull[q]
          BY <4>2 DEF ReadPull, Load, PinsInv, LoadedOK
        <5>2. Head(todo[a]).work = "pull"
          BY <4>2 DEF ReadPull, Does
        <5> QED BY <3>1, <5>1, <5>2 DEF SeenFresh, Pin, chip
      <4> QED BY <2>4, <4>1, <4>2
    <3>3. Now' = Now
      BY <3>1 DEF Now, chip
    <3>4. OnItsWay(a)'
      BY <2>2, <3>1, <3>3
         DEF OnItsWay, Reaches, chip, WriteWork, WriteWant, Settable, MonitorWork, MonitorRest,
             MonitorWant
    <3> QED BY <2>1, <3>1, <3>2, <3>4 DEF AloneInv
  <2>5. CASE ~ (ReadSelect(a) \/ ReadPull(a))
    <3>1. OnItsWay(a)'
      BY <2>2, <2>3, <2>5, AloneWorks
    <3>2. a \notin loaded'
      <4>1. CASE WriteSelect(a) \/ WritePull(a)
        BY <4>1 DEF WriteSelect, WritePull
      <4>2. CASE ~ (WriteSelect(a) \/ WritePull(a))
        <5>1. loaded' = loaded
          BY <2>5, <4>2 DEF Access, Direction, DirectionFails, GetPinMode, DigitalWrite,
             Restore, SetPull, Clock, PullOff, ClockOff, PullFails, PinExport, PinUnexport, EdgeSetup
        <5>2. \/ Head(todo[a]).work \notin {"mode", "pull"} \/ board = "sysfs"
              \/ Head(todo[a]).work = "pull" /\ board = "pud"
          BY <2>5, <4>2 DEF Access, Direction, DirectionFails, GetPinMode, DigitalWrite,
             Restore, SetPull, Clock, PullOff, ClockOff, PullFails, PinExport, PinUnexport,
             EdgeSetup, Does
        <5> QED BY <5>1, <5>2, NotLoaded DEF PinsInv
      <4> QED BY <4>1, <4>2
    <3>3. \E q : todo' = [todo EXCEPT ![a] = q]
      BY <2>3, <2>5 DEF Access, WriteSelect, Direction, DirectionFails, GetPinMode, DigitalWrite,
         Restore, SetPull, Clock, PullOff, ClockOff, WritePull, PullFails, PinExport,
         PinUnexport, EdgeSetup, Done, Then, Returns
    <3>4. \A b \in Procs : b # a => todo'[b] = <<>>
      BY <2>1, <3>3 DEF PinsInv, TodoOK
    <3> QED BY <2>1, <3>1, <3>2, <3>4 DEF AloneInv
  <2> QED BY <2>4, <2>5
<1> QED BY <1>1, <1>2

-----------------------------------------------------------------------------
\* A call begins alone, or not.
LEMMA AloneBegins ==
  ASSUME PinsInv, NEW a \in Procs, todo[a] = <<>>, NEW s, NEW news, NEW w, Begin(a, s, news, w),
         clock = {} => Reaches(a, s, w)
  PROVE  AloneInv'
<1>1. CASE alone' = Nobody
  BY <1>1 DEF AloneInv
<1>2. CASE alone' # Nobody
  <2>1. /\ alone' = a /\ want' = w /\ clock = {} /\ \A b \in Procs : todo[b] = <<>>
        /\ todo' = [todo EXCEPT ![a] = s] /\ UNCHANGED <<board, chip, loaded>>
    BY <1>2 DEF Begin
  <2>2. a \notin loaded'
    BY <2>1, NotLoaded DEF PinsInv
  <2>3. todo'[a] = s /\ \A b \in Procs : b # a => todo'[b] = <<>>
    BY <2>1 DEF PinsInv, TodoOK
  <2>4. Now' = Now
    BY <2>1 DEF Now, chip
  <2>5. OnItsWay(a)'
    BY <2>1, <2>3, <2>4
       DEF OnItsWay, Reaches, chip, WriteWork, WriteWant, Settable, MonitorWork, MonitorRest,
           MonitorWant
  <2> QED BY <2>1, <2>2, <2>3, <2>5 DEF AloneInv
<1> QED BY <1>1, <1>2

LEMMA OneWork ==
  ASSUME NEW a, NEW o \in Plain
  PROVE  \A w : Visible(After(board, a, o, Now)) = w => Reaches(a, <<o>>, w)
<1>1. PICK y : y = After(board, a, o, Now)
  OBVIOUS
<1>2. PICK z : z = <<>>
  OBVIOUS
<1>3. z \in Seq(Plain) /\ Leads(board, a, z, y, y)
  BY <1>2, LeadsNowhere
<1>4. Leads(board, a, <<o>> \o z, Now, y) /\ <<o>> \o z \in Seq(Plain)
  BY <1>1, <1>3, LeadsFirst
<1>5. <<o>> \o z = <<o>>
  BY <1>2
<1> QED BY <1>1, <1>4, <1>5 DEF Reaches

LEMMA AloneTool ==
  ASSUME PinsInv, NEW t \in Tools, NEW p \in PinsGiven, Tool(t, p)
  PROVE  AloneInv'
<1>0. /\ t \in Procs /\ t # Daemon /\ p \in Pins
      /\ fsel \in [Pins -> Modes] /\ pull \in [Pins -> Modes]
  BY DaemonIsProc, ModeValues DEF PinsInv, ChipOK
<1>1. ASSUME NEW s, NEW news, NEW w, Command(t, s, news, w), clock = {} => Reaches(t, s, w)
      PROVE  AloneInv'
  BY <1>0, <1>1, AloneBegins DEF Command
<1>o. \A work \in Works \ {"getmode"}, v \in Modes : Op(work, p, v) \in Plain
  BY <1>0 DEF Plain, Op, Ops
<1>2. ASSUME NEW m \in ModesGiven, ModeCommand(t, p, m) PROVE AloneInv'
  <2>1. PICK o \in Plain : o = Op("mode", p, m)
    BY <1>o, ModeValues DEF Works
  <2>2. PICK w : w = <<[q \in Pins |-> IF q = p /\ p \in Settable THEN m ELSE fsel[q]], pull,
                      IF board = "sysfs" /\ p \in exported /\ m = OUTPUT THEN high \ {p} ELSE high,
                      exported>>
    OBVIOUS
  <2>3. Visible(After(board, t, o, Now)) = w
    <3>1. After(board, t, o, Now) = Moded(board, t, p, m, Now)
      BY <2>1 DEF After, Op
    <3>2. CASE p \in Settable
      <4>1. [q \in Pins |-> IF q = p /\ p \in Settable THEN m ELSE fsel[q]] = [fsel EXCEPT ![p] = m]
        BY <1>0, <3>2
      <4>2. CASE board = "sysfs"
        <5>1. p \in exported /\ m \in {INPUT, OUTPUT}
          BY <1>2, <3>2, <4>2 DEF Settable, ModeCommand
        <5>2. After(board, t, o, Now)
                = State([fsel EXCEPT ![p] = m], pull, IF m = OUTPUT THEN high \ {p} ELSE high,
                        exported, gppud, clock)
          BY <3>1, <4>2, <5>1 DEF Moded, Now, State
        <5>3. (IF board = "sysfs" /\ p \in exported /\ m = OUTPUT THEN high \ {p} ELSE high)
                = IF m = OUTPUT THEN high \ {p} ELSE high
          BY <4>2, <5>1
        <5>4. Visible(After(board, t, o, Now))
                = <<[fsel EXCEPT ![p] = m], pull, IF m = OUTPUT THEN high \ {p} ELSE high, exported>>
          BY <5>2 DEF Visible, State
        <5> QED BY <2>2, <4>1, <5>3, <5>4, Zenon
      <4>3. CASE board # "sysfs"
        <5>1. After(board, t, o, Now)
                = State([fsel EXCEPT ![p] = m], pull, high, exported, gppud, clock)
          BY <3>1, <4>3 DEF Moded, Now, State
        <5> QED BY <2>2, <4>1, <4>3, <5>1 DEF Visible, State
      <4> QED BY <4>2, <4>3
    <3>3. CASE p \notin Settable
      <4>1. [q \in Pins |-> IF q = p /\ p \in Settable THEN m ELSE fsel[q]] = fsel
        BY <1>0, <3>3
      <4>2. board = "sysfs" /\ p \notin exported
        BY <1>0, <3>3 DEF Settable
      <4> QED BY <1>0, <2>2, <3>1, <4>1, <4>2 DEF Moded, Visible, Now, State
    <3> QED BY <3>2, <3>3
  <2>4. Command(t, <<o>>, {<<"mode", p, m>>}, w)
    BY <1>2, <2>1, <2>2 DEF ModeCommand
  <2> QED BY <1>1, <2>3, <2>4, OneWork
<1>3. ASSUME NEW v \in PudsGiven, PullCommand(t, p, v) PROVE AloneInv'
  <2>1. PICK o \in Plain : o = Op("pull", p, v)
    BY <1>o, ModeValues DEF Works
  <2>2. PICK w : w = <<fsel, [pull EXCEPT ![p] = v], high, exported>>
    OBVIOUS
  <2>3. clock = {} => Visible(After(board, t, o, Now)) = w
    BY <1>3, <2>1, <2>2 DEF After, Pulled, Op, Visible, Now, State, PullCommand
  <2>4. Command(t, <<o>>, {<<"pull", p, v>>}, w)
    BY <1>3, <2>1, <2>2 DEF PullCommand
  <2> QED BY <1>1, <2>3, <2>4, OneWork
<1>4. ASSUME NEW v \in LevelsGiven, WriteCommand(t, p, v) PROVE AloneInv'
  <2>1. PICK s : s = WriteWork(p, v)
    OBVIOUS
  <2>2. PICK w : w = WriteWant(p, v)
    OBVIOUS
  <2>3. Command(t, s, {<<"mode", p, OUTPUT>>}, w)
    BY <1>4, <2>1, <2>2 DEF WriteCommand, WriteWork, WriteWant
  <2>4. Reaches(t, s, w)
    BY <1>0, <2>1, <2>2, GpioPinsAssumption DEF Reaches
  <2> QED BY <1>1, <2>3, <2>4
<1>5. CASE ExportCommand(t, p)
  <2>1. PICK o \in Plain : o = Op("export", p, 0)
    BY <1>o, ModeValues DEF Works
  <2>2. PICK w : w = <<fsel, pull, high, exported \cup {p}>>
    OBVIOUS
  <2>3. Visible(After(board, t, o, Now)) = w
    BY <2>1, <2>2 DEF After, Op, Visible, Now, State
  <2>4. Command(t, <<o>>, {}, w)
    BY <1>5, <2>1, <2>2 DEF ExportCommand
  <2> QED BY <1>1, <2>3, <2>4, OneWork
<1>6. CASE UnexportCommand(t, p)
  <2>1. PICK o \in Plain : o = Op("unexport", p, 0)
    BY <1>o, ModeValues DEF Works
  <2>2. PICK w : w = <<[q \in Pins |-> IF q = p /\ p \in exported THEN INPUT ELSE fsel[q]], pull,
                      high, exported \ {p}>>
    OBVIOUS
  <2>3. Visible(After(board, t, o, Now)) = w
    <3>1. (IF p \in exported THEN [fsel EXCEPT ![p] = INPUT] ELSE fsel)
            = [q \in Pins |-> IF q = p /\ p \in exported THEN INPUT ELSE fsel[q]]
      BY <1>0
    <3> QED BY <2>1, <2>2, <3>1 DEF After, Op, Visible, Now, State
  <2>4. Command(t, <<o>>, {<<"mode", p, INPUT>>}, w)
    BY <1>6, <2>1, <2>2 DEF UnexportCommand
  <2> QED BY <1>1, <2>3, <2>4, OneWork
<1>7. CASE MonitorCommand(t, p)
  <2>1. PICK s : s = MonitorWork(p)
    OBVIOUS
  <2>2. PICK w : w = MonitorWant(p)
    OBVIOUS
  <2>3. Command(t, s, {<<"mode", p, INPUT>>, <<"mode", p, OUTPUT>>}, w) /\ board = "sysfs"
    BY <1>7, <2>1, <2>2 DEF MonitorCommand, MonitorWork, MonitorWant
  <2>4. Reaches(t, s, w)
    BY <1>0, <2>1, <2>2, <2>3 DEF Reaches
  <2> QED BY <1>1, <2>3, <2>4
<1> QED BY <1>2, <1>3, <1>4, <1>5, <1>6, <1>7 DEF Tool

\* gpio readall exports one pin of the header after the other.
LEMMA AloneReadAll ==
  ASSUME PinsInv, NEW t \in Tools, ReadAllCommand(t)
  PROVE  AloneInv'
<1>1. PICK s : s = [i \in DOMAIN Header |-> Op("export", Header[i], 0)]
  OBVIOUS
<1>2. DOMAIN Header = 1 .. Len(Header) /\ Len(Header) \in Nat /\ \A i \in DOMAIN Header : Header[i] \in Pins
  BY GpioPinsAssumption, LenProperties DEF Pins
<1>3. /\ s \in Seq(Plain) /\ Len(s) = Len(Header)
      /\ \A i \in 1 .. Len(s) : s[i] = Op("export", Header[i], 0)
  <2>1. \A p \in Pins : Op("export", p, 0) \in Plain
    BY ModeValues DEF Plain, Op, Ops, Works
  <2>2. s \in [1 .. Len(Header) -> Plain]
    BY <1>1, <1>2, <2>1
  <2>3. s \in Seq(Plain)
    BY <1>2, <2>2, SeqDef
  <2> QED BY <1>1, <1>2, <2>3
<1>4. PICK m : m = [i \in 1 .. Len(Header) + 1 |->
                     State(fsel, pull, high, exported \cup {Header[j] : j \in 1 .. i - 1}, gppud, clock)]
  OBVIOUS
<1>5. m[1] = Now
  <2>1. exported \cup {Header[j] : j \in 1 .. 1 - 1} = exported
    OBVIOUS
  <2> QED BY <1>2, <1>4, <2>1 DEF Now
<1>6. Visible(m[Len(s) + 1]) = <<fsel, pull, high, Pins>>
  <2>1. exported \cup {Header[j] : j \in 1 .. (Len(Header) + 1) - 1} = Pins
    BY <1>2 DEF Pins, PinsInv, ChipOK
  <2>2. Len(s) + 1 \in 1 .. Len(Header) + 1 /\ Len(s) + 1 = Len(Header) + 1
    BY <1>2, <1>3
  <2>3. m[Len(s) + 1] = State(fsel, pull, high, Pins, gppud, clock)
    BY <1>4, <2>1, <2>2
  <2> QED BY <2>3 DEF Visible, State
<1>7. ASSUME NEW i \in 1 .. Len(s) PROVE m[i + 1] = After(board, t, s[i], m[i])
  <2>1. i \in 1 .. Len(Header) + 1 /\ i + 1 \in 1 .. Len(Header) + 1
    BY <1>2, <1>3
  <2>2. PICK e : e = exported \cup {Header[j] : j \in 1 .. i - 1}
    OBVIOUS
  <2>3. m[i] = State(fsel, pull, high, e, gppud, clock)
    BY <1>4, <2>1, <2>2
  <2>4. exported \cup {Header[j] : j \in 1 .. (i + 1) - 1} = e \cup {Header[i]}
    <3>1. \A j : j \in 1 .. (i + 1) - 1 <=> j \in 1 .. i - 1 \/ j = i
      BY <1>2, <1>3
    <3> QED BY <2>2, <3>1
  <2>5. m[i + 1] = State(fsel, pull, high, e \cup {Header[i]}, gppud, clock)
    BY <1>4, <2>1, <2>4
  <2>6. After(board, t, Op("export", Header[i], 0), m[i])
          = State(m[i].fsel, m[i].pull, m[i].high, m[i].exported \cup {Header[i]}, m[i].gppud, m[i].clock)
    BY DEF After, Op
  <2>7. m[i].fsel = fsel /\ m[i].pull = pull /\ m[i].high = high /\ m[i].exported = e
        /\ m[i].gppud = gppud /\ m[i].clock = clock
    BY <2>3 DEF State
  <2>8. s[i] = Op("export", Header[i], 0)
    BY <1>3
  <2> QED BY <2>5, <2>6, <2>7, <2>8
<1>8. PICK w : w = <<fsel, pull, high, Pins>>
  OBVIOUS
<1>9. Reaches(t, s, w)
  BY <1>3, <1>5, <1>6, <1>7, <1>8 DEF Reaches, Leads
<1>10. Command(t, s, {}, w)
  BY <1>1, <1>8 DEF ReadAllCommand
<1> QED BY <1>9, <1>10, AloneBegins, DaemonIsProc DEF Command

\* main_loop's three pins.
LEMMA AloneSetUp == PinsInv /\ SetUpPins => AloneInv'
<1> SUFFICES ASSUME PinsInv, SetUpPins PROVE AloneInv'
  OBVIOUS
<1>0. /\ Clk \in Pins /\ Dt \in Pins /\ Sw \in Pins
      /\ fsel \in [Pins -> Modes] /\ pull \in [Pins -> Modes]
      /\ todo[Daemon] = <<>> /\ Daemon \in Procs
  BY KnobIsPins, DaemonIsProc DEF PinsInv, ChipOK, TodoOK, SetUpPins
<1>1. PICK o1 \in Plain : o1 = Op("mode", Clk, INPUT)
  BY <1>0, ModeValues DEF Plain, Op, Ops, Works
<1>2. PICK o2 \in Plain : o2 = Op("mode", Dt, INPUT)
  BY <1>0, ModeValues DEF Plain, Op, Ops, Works
<1>3. PICK o3 \in Plain : o3 = Op("mode", Sw, INPUT)
  BY <1>0, ModeValues DEF Plain, Op, Ops, Works
<1>4. PICK o4 \in Plain : o4 = Op("pull", Clk, PUD_UP)
  BY <1>0, ModeValues DEF Plain, Op, Ops, Works
<1>5. PICK o5 \in Plain : o5 = Op("pull", Dt, PUD_UP)
  BY <1>0, ModeValues DEF Plain, Op, Ops, Works
<1>6. PICK o6 \in Plain : o6 = Op("pull", Sw, PUD_UP)
  BY <1>0, ModeValues DEF Plain, Op, Ops, Works
<1>7. PICK s : s = <<o1, o2, o3, o4, o5, o6>>
  OBVIOUS
<1>8. PICK w : w = <<[p \in Pins |-> IF p \in {Clk, Dt, Sw} THEN INPUT ELSE fsel[p]],
                    [p \in Pins |-> IF board # "sysfs" /\ p \in {Clk, Dt, Sw} THEN PUD_UP ELSE pull[p]],
                    high, exported>>
  OBVIOUS
<1>9. \E news : Begin(Daemon, s, news, w)
  BY <1>1, <1>2, <1>3, <1>4, <1>5, <1>6, <1>7, <1>8 DEF SetUpPins
<1>10. ASSUME clock = {} PROVE Reaches(Daemon, s, w)
  <2> DEFINE A(o, x) == After(board, Daemon, o, x)
  <2>1. \A f, r, g, c, p : Moded(board, Daemon, p, INPUT, State(f, r, high, exported, g, c))
                            = State([f EXCEPT ![p] = INPUT], r, high, exported, g, c)
    BY DEF Moded, State, INPUT, OUTPUT
  <2>16. PICK f1 : f1 = [fsel EXCEPT ![Clk] = INPUT]
    OBVIOUS
  <2>17. PICK f2 : f2 = [f1 EXCEPT ![Dt] = INPUT]
    OBVIOUS
  <2>2. PICK f : f = [[[fsel EXCEPT ![Clk] = INPUT] EXCEPT ![Dt] = INPUT] EXCEPT ![Sw] = INPUT]
    OBVIOUS
  <2>3. PICK x1 : x1 = A(o1, Now)
    OBVIOUS
  <2>4. PICK x2 : x2 = A(o2, x1)
    OBVIOUS
  <2>5. PICK x3 : x3 = A(o3, x2)
    OBVIOUS
  <2>6. PICK x4 : x4 = A(o4, x3)
    OBVIOUS
  <2>7. PICK x5 : x5 = A(o5, x4)
    OBVIOUS
  <2>8. PICK y : y = A(o6, x5)
    OBVIOUS
  <2>9. x1 = State(f1, pull, high, exported, gppud, clock)
    <3>1. x1 = Moded(board, Daemon, Clk, INPUT, State(fsel, pull, high, exported, gppud, clock))
      BY <1>1, <2>3 DEF After, Op, Now
    <3>2. Moded(board, Daemon, Clk, INPUT, State(fsel, pull, high, exported, gppud, clock))
            = State([fsel EXCEPT ![Clk] = INPUT], pull, high, exported, gppud, clock)
      BY <2>1
    <3> QED BY <2>16, <3>1, <3>2, Zenon
  <2>10. x2 = State(f2, pull, high, exported, gppud, clock)
    <3>1. x2 = Moded(board, Daemon, Dt, INPUT, x1)
      BY <1>2, <2>4 DEF After, Op
    <3>2. Moded(board, Daemon, Dt, INPUT, State(f1, pull, high, exported, gppud, clock))
            = State([f1 EXCEPT ![Dt] = INPUT], pull, high, exported, gppud, clock)
      BY <2>1
    <3> QED BY <2>9, <2>17, <3>1, <3>2, Zenon
  <2>11. x3 = State(f, pull, high, exported, gppud, clock)
    <3>1. x3 = Moded(board, Daemon, Sw, INPUT, x2)
      BY <1>3, <2>5 DEF After, Op
    <3>2. Moded(board, Daemon, Sw, INPUT, State(f2, pull, high, exported, gppud, clock))
            = State([f2 EXCEPT ![Sw] = INPUT], pull, high, exported, gppud, clock)
      BY <2>1
    <3>3. f = [f2 EXCEPT ![Sw] = INPUT]
      BY <2>2, <2>16, <2>17
    <3> QED BY <2>10, <3>1, <3>2, <3>3, Zenon
  <2>12. f = [p \in Pins |-> IF p \in {Clk, Dt, Sw} THEN INPUT ELSE fsel[p]]
    BY <1>0, <2>2
  <2>13. Visible(y) = w
    <3>1. CASE board = "sysfs"
      <4>1. x4 = x3 /\ x5 = x4 /\ y = x5
        BY <1>4, <1>5, <1>6, <2>6, <2>7, <2>8, <3>1 DEF After, Op, Pulled
      <4>2. [p \in Pins |-> IF board # "sysfs" /\ p \in {Clk, Dt, Sw} THEN PUD_UP ELSE pull[p]] = pull
        BY <1>0, <3>1
      <4> QED BY <1>8, <2>11, <2>12, <4>1, <4>2 DEF Visible, State
    <3>2. CASE board # "sysfs"
      <4>1. \A r, g, p : \E g2 :
              Pulled(board, p, PUD_UP, State(f, r, high, exported, g, {}))
                = State(f, [r EXCEPT ![p] = PUD_UP], high, exported, g2, {})
        <5> SUFFICES ASSUME NEW r, NEW g, NEW p
                     PROVE  \E g2 :
                              Pulled(board, p, PUD_UP, State(f, r, high, exported, g, {}))
                                = State(f, [r EXCEPT ![p] = PUD_UP], high, exported, g2, {})
          OBVIOUS
        <5>1. CASE board = "pi4"
          <6>1. Pulled(board, p, PUD_UP, State(f, r, high, exported, g, {}))
                  = State(f, [r EXCEPT ![p] = PUD_UP], high, exported, g, {})
            BY <3>2, <5>1 DEF Pulled, State
          <6> QED BY <6>1
        <5>2. CASE board # "pi4"
          <6>1. Pulled(board, p, PUD_UP, State(f, r, high, exported, g, {}))
                  = State(f, [r EXCEPT ![p] = PUD_UP], high, exported, PUD_OFF, {})
            BY <3>2, <5>2 DEF Pulled, State
          <6> QED BY <6>1
        <5> QED BY <5>1, <5>2
      <4>2. PICK g4 : x4 = State(f, [pull EXCEPT ![Clk] = PUD_UP], high, exported, g4, {})
        <5>1. x4 = Pulled(board, Clk, PUD_UP, x3)
          BY <1>4, <2>6 DEF After, Op
        <5> QED BY <1>10, <2>11, <4>1, <5>1
      <4>3. PICK g5 : x5 = State(f, [[pull EXCEPT ![Clk] = PUD_UP] EXCEPT ![Dt] = PUD_UP], high,
                                exported, g5, {})
        <5>1. x5 = Pulled(board, Dt, PUD_UP, x4)
          BY <1>5, <2>7 DEF After, Op
        <5> QED BY <4>1, <4>2, <5>1
      <4>4. PICK r : r = [[[pull EXCEPT ![Clk] = PUD_UP] EXCEPT ![Dt] = PUD_UP] EXCEPT ![Sw] = PUD_UP]
        OBVIOUS
      <4>5. PICK g6 : y = State(f, r, high, exported, g6, {})
        <5>1. y = Pulled(board, Sw, PUD_UP, x5)
          BY <1>6, <2>8 DEF After, Op
        <5> QED BY <4>1, <4>3, <4>4, <5>1
      <4>6. r = [p \in Pins |-> IF board # "sysfs" /\ p \in {Clk, Dt, Sw} THEN PUD_UP ELSE pull[p]]
        BY <1>0, <3>2, <4>4
      <4> QED BY <1>8, <2>12, <4>5, <4>6 DEF Visible, State
    <3> QED BY <3>1, <3>2
  <2>14. s \in Seq(Plain) /\ Len(s) = 6
    BY <1>7
  <2>15. Leads(board, Daemon, s, Now, y)
    <3>1. PICK m : m = <<Now, x1, x2, x3, x4, x5, y>>
      OBVIOUS
    <3>2. m[1] = Now /\ m[Len(s) + 1] = y
      BY <2>14, <3>1
    <3>3. ASSUME NEW i \in 1 .. Len(s) PROVE m[i + 1] = A(s[i], m[i])
      <4>1. i \in {1, 2, 3, 4, 5, 6}
        BY <2>14
      <4> HIDE DEF A
      <4> QED BY <1>7, <2>3, <2>4, <2>5, <2>6, <2>7, <2>8, <3>1, <4>1
    <3> QED BY <3>2, <3>3 DEF Leads
  <2> QED BY <2>13, <2>14, <2>15 DEF Reaches
<1> QED BY <1>0, <1>9, <1>10, AloneBegins

LEMMA SysfsModesNext == PinsInv /\ SysfsModes /\ [NextPins]_pinvars => SysfsModes'
<1> SUFFICES ASSUME PinsInv, SysfsModes, [NextPins]_pinvars PROVE SysfsModes'
  OBVIOUS
<1>1. ASSUME NEW a \in Procs, Access(a) \/ Kill(a) PROVE SysfsModes'
  <2>1. UNCHANGED <<board, asked>>
    BY <1>1 DEF Access, ReadSelect, WriteSelect, Direction, DirectionFails, GetPinMode, DigitalWrite,
       Restore, SetPull, Clock, PullOff, ClockOff, ReadPull, WritePull, PullFails, PinExport,
       PinUnexport, EdgeSetup, Load, Kill, notes
  <2> QED BY <2>1 DEF SysfsModes
<1>2. CASE NotSetUp \/ PinsSetUp \/ UNCHANGED pinvars
  BY <1>2 DEF NotSetUp, PinsSetUp, pinvars, SysfsModes
<1>3. ASSUME NEW a, NEW s, NEW news, NEW w, Begin(a, s, news, w),
             board = "sysfs" => \A p, v : <<"mode", p, v>> \in news => v \in {INPUT, OUTPUT}
      PROVE  SysfsModes'
  BY <1>3 DEF Begin, SysfsModes
<1>4. CASE SetUpPins
  <2>1. PICK news : /\ news = {<<"mode", p, INPUT>> : p \in {Clk, Dt, Sw}}
                               \cup {<<"pull", p, PUD_UP>> : p \in {Clk, Dt, Sw}}
                    /\ \E s, w : Begin(Daemon, s, news, w)
    BY <1>4 DEF SetUpPins
  <2>2. \A p, v : <<"mode", p, v>> \in news => v = INPUT
    BY <2>1
  <2> QED BY <1>3, <2>1, <2>2
<1>5. ASSUME NEW t \in Tools, ReadAllCommand(t) PROVE SysfsModes'
  <2>1. \E s, w : Begin(t, s, {}, w)
    BY <1>5 DEF ReadAllCommand, Command
  <2> QED BY <1>3, <2>1
<1>6. ASSUME NEW t \in Tools, NEW p \in PinsGiven, Tool(t, p) PROVE SysfsModes'
  <2>1. ASSUME NEW m \in ModesGiven, ModeCommand(t, p, m) PROVE SysfsModes'
    <3>1. PICK news : news = {<<"mode", p, m>>} /\ \E s, w : Begin(t, s, news, w)
      BY <2>1 DEF ModeCommand, Command
    <3>2. board = "sysfs" => m \in {INPUT, OUTPUT}
      BY <2>1 DEF ModeCommand
    <3>3. \A q, v : <<"mode", q, v>> \in news => v = m
      BY <3>1
    <3> QED BY <1>3, <3>1, <3>2, <3>3
  <2>2. ASSUME NEW v \in PudsGiven, PullCommand(t, p, v) PROVE SysfsModes'
    <3>1. board # "sysfs" /\ \E s, news, w : Begin(t, s, news, w)
      BY <2>2 DEF PullCommand, Command
    <3> QED BY <1>3, <3>1
  <2>3. ASSUME NEW v \in LevelsGiven, WriteCommand(t, p, v) PROVE SysfsModes'
    <3>1. PICK news : news = {<<"mode", p, OUTPUT>>} /\ \E s, w : Begin(t, s, news, w)
      BY <2>3 DEF WriteCommand, Command
    <3> QED BY <1>3, <3>1
  <2>4. CASE ExportCommand(t, p)
    <3>1. \E s, w : Begin(t, s, {}, w)
      BY <2>4 DEF ExportCommand, Command
    <3> QED BY <1>3, <3>1
  <2>5. CASE UnexportCommand(t, p)
    <3>1. PICK news : news = {<<"mode", p, INPUT>>} /\ \E s, w : Begin(t, s, news, w)
      BY <2>5 DEF UnexportCommand, Command
    <3> QED BY <1>3, <3>1
  <2>6. CASE MonitorCommand(t, p)
    <3>1. PICK news : /\ news = {<<"mode", p, INPUT>>, <<"mode", p, OUTPUT>>}
                      /\ \E s, w : Begin(t, s, news, w)
      BY <2>6 DEF MonitorCommand, Command
    <3> QED BY <1>3, <3>1
  <2> QED BY <1>6, <2>1, <2>2, <2>3, <2>4, <2>5, <2>6 DEF Tool
<1> QED BY <1>1, <1>2, <1>4, <1>5, <1>6 DEF NextPins

LEMMA AloneNext == PinsInv /\ SysfsModes /\ AloneInv /\ [NextPins]_pinvars => AloneInv'
<1> SUFFICES ASSUME PinsInv, SysfsModes, AloneInv, [NextPins]_pinvars PROVE AloneInv'
  OBVIOUS
<1>1. ASSUME NEW a \in Procs, Access(a) PROVE AloneInv'
  BY <1>1, AloneAccess
<1>2. ASSUME NEW a \in Procs, Kill(a) PROVE AloneInv'
  BY <1>2 DEF Kill, AloneInv
<1>3. CASE NotSetUp \/ PinsSetUp \/ UNCHANGED pinvars
  <2>1. UNCHANGED <<board, chip, todo, loaded, seen, alone, want>>
    BY <1>3 DEF NotSetUp, PinsSetUp, pinvars, chip
  <2>2. Now' = Now
    BY <2>1 DEF Now, chip
  <2>3. OnItsWay(alone) => OnItsWay(alone)'
    BY <2>1, <2>2
       DEF OnItsWay, Reaches, chip, WriteWork, WriteWant, Settable, MonitorWork, MonitorRest,
           MonitorWant
  <2>4. SeenFresh(alone) => SeenFresh(alone)'
    BY <2>1 DEF SeenFresh, Pin, chip
  <2> QED BY <2>1, <2>3, <2>4 DEF AloneInv
<1> QED BY <1>1, <1>2, <1>3, AloneSetUp, AloneReadAll, AloneTool DEF NextPins

\* A call that no other disturbed leaves what it was called for and nothing else,
\* for every layout of the header, on every kind of board (RotaryEncoder.c:356-364,
\* GPIO_Pi.c:293-429).
THEOREM UndisturbedCallsDoAsAsked == SpecPins => []DoneAsAsked
<1>1. InitPins => SysfsModes /\ AloneInv
  <2> SUFFICES ASSUME InitPins PROVE SysfsModes /\ AloneInv
    OBVIOUS
  <2>1. alone = Nobody
    BY DEF InitPins
  <2>2. ASSUME board = "sysfs", NEW p, NEW v, <<"mode", p, v>> \in asked PROVE v \in {INPUT, OUTPUT}
    <3>1. PICK q \in Pins : v = fsel[q]
      BY <2>2 DEF InitPins
    <3> QED BY <2>2, <3>1 DEF InitPins
  <2> QED BY <2>1, <2>2 DEF AloneInv, SysfsModes
<1>2. AloneInv => DoneAsAsked
  <2> SUFFICES ASSUME AloneInv, alone # Nobody, todo[alone] = <<>>
               PROVE  <<fsel, pull, high, exported>> = want
    BY DEF DoneAsAsked
  <2>1. Reaches(alone, <<>>, want)
    BY DEF AloneInv, OnItsWay
  <2>2. ASSUME NEW y, Leads(board, alone, <<>>, Now, y), Visible(y) = want
        PROVE  <<fsel, pull, high, exported>> = want
    <3>1. y = Now
      BY <2>2, LeadsNowhere
    <3> QED BY <2>2, <3>1 DEF Visible, Now, State
  <2>3. \A p, v : <<>> # WriteWork(p, v) /\ <<>> # MonitorWork(p) /\ <<>> # MonitorRest(p)
    BY DEF WriteWork, MonitorWork, MonitorRest
  <2> QED BY <2>1, <2>2, <2>3 DEF Reaches
<1> QED BY <1>1, <1>2, PinsInvAlways, SysfsModesNext, AloneNext, PTL DEF SpecPins

-----------------------------------------------------------------------------
\* A step of the daemon's start is a step, or none, of its descriptors and of the pins.
LEMMA SetupStep == [NextSetup]_setupvars => [Next]_vars /\ [NextPins]_pinvars
<1> SUFFICES ASSUME [NextSetup]_setupvars PROVE [Next]_vars /\ [NextPins]_pinvars
  OBVIOUS
<1>1. CASE Starts
  BY <1>1 DEF Starts, Next
<1>2. CASE MapsRegisters
  BY <1>2 DEF MapsRegisters, Next, NextPins
<1>3. CASE DaemonAccess
  <2>1. CASE board = "sysfs" /\ Does(Daemon, "pull")
    BY <1>3, <2>1, DaemonIsProc DEF DaemonAccess, Access, Next, NextPins
  <2>2. CASE ~(board = "sysfs" /\ Does(Daemon, "pull"))
    BY <1>3, <2>2, DaemonIsProc DEF DaemonAccess, NextPins
  <2>3. QED BY <2>1, <2>2
<1>4. CASE GoesOn
  BY <1>4 DEF GoesOn, Next, NextPins
<1>5. CASE GivesUp
  BY <1>5 DEF GivesUp, Next
<1>6. CASE IsTerminated
  BY <1>6, DaemonIsProc DEF IsTerminated, Next, NextPins
<1>7. CASE ToolRuns
  BY <1>7, DaemonIsProc DEF ToolRuns, NextPins
<1>8. CASE LoopRuns
  BY <1>8 DEF LoopRuns
<1>9. CASE UNCHANGED setupvars
  BY <1>9 DEF setupvars
<1>10. QED BY <1>1, <1>2, <1>3, <1>4, <1>5, <1>6, <1>7, <1>8, <1>9 DEF NextSetup

\* Started beside any number of tools, the daemon leaves the registers of the pulls
\* off, and if it met no tool it has its three inputs, and no other pin is touched.
THEOREM SetupLeavesPinsRight == SpecSetup => [](PullQuiet /\ DoneAsAsked)
<1>1. InitSetup => InitPins
  BY DEF InitSetup
<1>2. SpecSetup => SpecPins
  BY <1>1, SetupStep, PTL DEF SpecSetup, SpecPins
<1>3. QED BY <1>2, PullsEndQuiet, UndisturbedCallsDoAsAsked, PTL

\* The daemon, started beside any number of tools, keeps what each part promises:
\* the pins are what was asked for, and in the build with registers its text
\* reaches nobody.
THEOREM SetupKeepsBoth == SpecSetup => [](WasAsked /\ TextReachesNobody)
<1>1. InitSetup => Init /\ InitPins
  BY DEF InitSetup
<1>2. SpecSetup => Spec /\ SpecPins
  BY <1>1, SetupStep, PTL DEF SpecSetup, Spec, SpecPins
<1>3. QED BY <1>2, TextStaysHome, ModesWereAsked, PTL

\* The types of both parts.
THEOREM SetupTypeCorrect == SpecSetup => []SetupTypeOK
<1>1. InitSetup => Init /\ InitPins
  BY DEF InitSetup
<1>2. SpecSetup => Spec /\ SpecPins
  BY <1>1, SetupStep, PTL DEF SpecSetup, Spec, SpecPins
<1>3. QED BY <1>2, StdioTypeCorrect, PinsTypeCorrect, PTL DEF SetupTypeOK
=============================================================================
