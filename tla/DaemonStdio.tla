---------------------------- MODULE DaemonStdio -----------------------------
(***************************************************************************)
(* The descriptors of the daemon.  daemonise (RotaryEncoder.c) closes 0, 1 *)
(* and 2 and opens nothing in their place, so the next files and sockets   *)
(* get these numbers; log_message (log.c), which LOG stands for in the     *)
(* build of the Makefile, goes on printing to stdout.  What stdio has      *)
(* buffered is written to descriptor 1, whatever that is by then.  Log is  *)
(* the text of a step, taken as one line.                                  *)
(***************************************************************************)
EXTENDS Integers

CONSTANTS
  Fds,           \* descriptors 0 .. n (bound on what is open at once)
  BufLines,      \* lines of log text that stdio buffers (8192 bytes in glibc)
  SyslogAtStart, \* /dev/log can be reached until the loop is entered
  KnownBoard     \* piBoardId knows the board, so that GPIO_Pi.c logs nothing

ASSUME DaemonStdioAssumption ==
  /\ Fds \subseteq Nat /\ 0 .. 4 \subseteq Fds
  /\ BufLines \in Nat \ {0} /\ {SyslogAtStart, KnownBoard} \subseteq BOOLEAN

VARIABLES
  build,      \* of GPIO_Pi.c: "registers" or "sysfs"
  pc,         \* "notice", "setup", "pins", "id", "connect", "loop" of main_loop, "end"
  host,       \* the server is given by "name" or "number"
  fd,         \* what each descriptor is, "closed" if nothing
  syslog_up,  \* /dev/log can be reached
  stopped,    \* _mqtt_status_ is mqttstopped
  buffered,   \* lines in the buffer of stdout
  printed_to  \* history: what descriptor 1 was when the buffer was written

vars == <<build, pc, host, fd, syslog_up, stopped, buffered, printed_to>>

Uses == {"closed", "pid_file", "syslog", "mac", "dns", "resolved", "mqtt"}
Sockets == {"syslog", "dns", "resolved", "mqtt"}

\* The daemon after daemonise: the lock of the pid file is all it has open.
Init ==
  /\ build \in {"registers", "sysfs"}
  /\ pc = "notice" /\ host \in {"name", "number"}
  /\ fd = [f \in Fds |-> IF f = 3 THEN "pid_file" ELSE "closed"]
  /\ syslog_up = SyslogAtStart
  /\ stopped = FALSE
  /\ buffered = 0 /\ printed_to = {}

-----------------------------------------------------------------------------
\* The kernel gives the lowest descriptor of table t that is free.
IsLowest(t, f) == t[f] = "closed" /\ \A g \in Fds : t[g] = "closed" => f <= g

Opened(t, use) == {[t EXCEPT ![f] = use] : f \in {g \in Fds : IsLowest(t, g)}}

\* closelog
WithoutSyslog(t) == [f \in Fds |-> IF t[f] = "syslog" THEN "closed" ELSE t[f]]

\* syslog(3): connects when it has no descriptor, drops one that fails.
AfterSyslog(t) ==
  IF ~syslog_up THEN {WithoutSyslog(t)}
  ELSE IF \E f \in Fds : t[f] = "syslog" THEN {t}
  ELSE Opened(t, "syslog")

\* Mutant: a full buffer is kept, and grows.
Log_NeverFlushed == buffered' = buffered + 1 /\ UNCHANGED printed_to

\* LOG: vfprintf(stdout), which writes a full buffer before it adds the line.
Log ==
  IF buffered < BufLines
  THEN buffered' = buffered + 1 /\ UNCHANGED printed_to
  ELSE buffered' = 1 /\ printed_to' = printed_to \cup {fd[1]}

-----------------------------------------------------------------------------
\* main_loop announces itself.
Notice ==
  /\ pc = "notice" /\ pc' = "setup"
  /\ fd' \in AfterSyslog(fd)
  /\ UNCHANGED <<build, host, syslog_up, stopped, buffered, printed_to>>

\* gpioSetup closes what it opens.  For an unknown board it logs an error, and
\* gpio_log_message ends with closelog.  With sysfs there is no board to look up.
GpioSetup ==
  /\ pc = "setup" /\ pc' = "pins"
  /\ fd' = IF KnownBoard \/ build = "sysfs" THEN fd ELSE WithoutSyslog(fd)
  /\ UNCHANGED <<build, host, syslog_up, stopped, buffered, printed_to>>

\* setPullUpDown of sysfs, for each pin: LOG_ERROR, whose gpio_log_message opens
\* syslog, if it is not open, and closes it.
PullLogs ==
  /\ pc = "pins" /\ build = "sysfs"
  /\ fd' = WithoutSyslog(fd)
  /\ UNCHANGED <<build, pc, host, syslog_up, stopped, buffered, printed_to>>

\* main_loop has set its pins, with sysfs after PullLogs; what happens to them is
\* in GpioPins.
PinsSet ==
  /\ pc = "pins" /\ pc' = "id"
  /\ build = "sysfs" => \A f \in Fds : fd[f] # "syslog"
  /\ UNCHANGED <<build, host, fd, syslog_up, stopped, buffered, printed_to>>

\* pinMode has returned an error: log_error, and main_loop returns.
PinsNotSet ==
  /\ pc = "pins" /\ pc' = "end"
  /\ fd' \in AfterSyslog(fd)
  /\ UNCHANGED <<build, host, syslog_up, stopped, buffered, printed_to>>

\* A signal before intHandler is installed.
Terminated ==
  /\ pc \in {"notice", "setup", "pins"} /\ pc' = "end"
  /\ UNCHANGED <<build, host, fd, syslog_up, stopped, buffered, printed_to>>

\* Mutant: mac closes its socket.
GenerateMqttId_Closes ==
  /\ pc = "id" /\ pc' = "connect"
  /\ Log
  /\ UNCHANGED <<build, host, fd, syslog_up, stopped>>

\* start_mqtt, its first call: LOG, and mac, which keeps the socket it asks the
\* address with.
GenerateMqttId ==
  /\ pc = "id" /\ pc' = "connect"
  /\ Log
  /\ fd' \in Opened(fd, "mac")
  /\ UNCHANGED <<build, host, syslog_up, stopped>>

\* start_mqtt: LOG and mg_connect, at first and whenever MQTT has stopped.
Connect ==
  /\ \/ pc = "connect"
     \/ pc = "loop" /\ stopped
  /\ pc' = "loop" /\ stopped' = FALSE
  /\ Log
  /\ fd' \in Opened(fd, IF host = "name" THEN "dns" ELSE "mqtt")
  /\ UNCHANGED <<build, host, syslog_up>>

\* resolve_cb opens the connection while the socket of the lookup is open.
Resolved(f) ==
  /\ pc = "loop" /\ fd[f] = "dns"
  /\ fd' \in Opened([fd EXCEPT ![f] = "resolved"], "mqtt")
  /\ UNCHANGED <<build, pc, host, syslog_up, stopped, buffered, printed_to>>

LookupClosed(f) ==
  /\ pc = "loop" /\ fd[f] = "resolved"
  /\ fd' = [fd EXCEPT ![f] = "closed"]
  /\ UNCHANGED <<build, pc, host, syslog_up, stopped, buffered, printed_to>>

\* The connection, or the lookup for it, has failed: the socket is closed, and
\* MG_EV_CLOSE logs an error.
Failed(f) ==
  /\ pc = "loop" /\ fd[f] \in {"dns", "mqtt"}
  /\ fd' \in AfterSyslog([fd EXCEPT ![f] = "closed"])
  /\ stopped' = TRUE
  /\ UNCHANGED <<build, pc, host, syslog_up, buffered, printed_to>>

\* log_error of a command without a connection.
LogError ==
  /\ pc = "loop" /\ stopped
  /\ fd' \in AfterSyslog(fd)
  /\ UNCHANGED <<build, pc, host, syslog_up, stopped, buffered, printed_to>>

\* A CONNECT that is refused leaves its connection open.
Refused ==
  /\ pc = "loop" /\ \E f \in Fds : fd[f] = "mqtt"
  /\ ~stopped /\ stopped' = TRUE
  /\ Log
  /\ UNCHANGED <<build, pc, host, fd, syslog_up>>

\* An edge of a contact, a command published, the handshake.
Prints ==
  /\ pc = "loop"
  /\ Log
  /\ UNCHANGED <<build, pc, host, fd, syslog_up, stopped>>

\* The syslog daemon stops or starts.
SyslogChanges ==
  /\ pc = "loop"
  /\ syslog_up' = ~syslog_up
  /\ UNCHANGED <<build, pc, host, fd, stopped, buffered, printed_to>>

\* intHandler, once it is installed.
Interrupt ==
  /\ pc \in {"id", "connect", "loop"}
  /\ fd' \in AfterSyslog(fd)
  /\ UNCHANGED <<build, pc, host, syslog_up, stopped, buffered, printed_to>>

\* exit writes what is buffered: after mg_mgr_free when the loop has ended, at
\* once in start_mqtt and at the fourth signal.
Exit ==
  /\ pc \in {"connect", "loop"} /\ pc' = "end"
  /\ \/ UNCHANGED fd
     \/ fd' = [f \in Fds |-> IF fd[f] \in {"dns", "resolved", "mqtt"} THEN "closed" ELSE fd[f]]
  /\ buffered' = 0
  /\ printed_to' = IF buffered = 0 THEN printed_to ELSE printed_to \cup {fd'[1]}
  /\ UNCHANGED <<build, host, syslog_up, stopped>>

Next ==
  \/ Notice \/ GpioSetup \/ PullLogs \/ PinsSet \/ PinsNotSet \/ Terminated
  \/ GenerateMqttId \/ Connect \/ LogError \/ Refused \/ Prints \/ SyslogChanges \/ Interrupt \/ Exit
  \/ \E f \in Fds : Resolved(f) \/ LookupClosed(f) \/ Failed(f)

Spec == Init /\ [][Next]_vars

-----------------------------------------------------------------------------
\* Type invariant.
TypeOK ==
  /\ build \in {"registers", "sysfs"}
  /\ pc \in {"notice", "setup", "pins", "id", "connect", "loop", "end"}
  /\ host \in {"name", "number"}
  /\ fd \in [Fds -> Uses]
  /\ syslog_up \in BOOLEAN /\ stopped \in BOOLEAN
  /\ buffered \in 0 .. BufLines
  /\ printed_to \subseteq Uses

\* "Close stdin. stdout and stderr" (RotaryEncoder.c:334): what the daemon
\* still prints never reaches the broker, the name server or syslog.  It depends
\* on syslog keeping descriptor 0 and on the socket that mac never closes, so it is
\* a property of the build with registers: with sysfs the errors of setPullUpDown
\* close the descriptor of syslog, mac takes 0 and the first socket 1.
TextReachesNobody ==
  SyslogAtStart /\ KnownBoard /\ build = "registers" => printed_to \cap Sockets = {}
=============================================================================
