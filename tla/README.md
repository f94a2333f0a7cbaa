# Verification of RotaryEncoder

This directory holds TLA+ models of the RotaryEncoder daemon, the TLC runs that
check them on small instances, and TLAPS proofs of what matters most for every
size. Line numbers are those of the repository (`src/`).

The program (a Raspberry Pi daemon in C) samples a rotary encoder with a push
button and publishes `volumeup`, `volumedown` and `mutetoggle` over MQTT, for a
player such as shairport-sync. It is one process with one thread. Its GPIO
library is also compiled into two tools, `gpio` and `gpio_monitor`; only the
latter uses the library's interrupts, and with them several threads.

## Inventory

| Component | Source | State it keeps | Operations |
|---|---|---|---|
| Sampling loop | `RotaryEncoder.c` `main_loop` | `clk`, `dt`, `sw`, `cnt`; `FOREVER` | a pass: reconnect if needed, poll the network, read the pins, sleep |
| MQTT link | `MQTT.c`, `main_loop:207-227` | `_mqtt_status_`, `_mqtt_connection`, `msg_id`, `bad_mqtt` | `start_mqtt`, `ev_handler`, `send_mqtt_msg` |
| mongoose (vendored) | `mongoose.c`: manager, sockets, buffers, `mqtt.c`, `resolv.c` | list of connections, their flags and buffers, DNS requests | `mg_connect`, `mg_mgr_poll`, `mg_mgr_free`, `mg_resolve_async`, `parse_mqtt`, `mg_mqtt_prepend_header` |
| Becoming a daemon | `RotaryEncoder.c` `main`, `daemonise` | pid file, its `flock`, two processes | open, lock, fork, write the pid, setsid, close 0, 1, 2 |
| Logging | `log.c`, `log.h` | the buffer of `stdout`, syslog's socket | `log_message`, `log_error` |
| GPIO registers | `GPIO_Pi.c:142-431` | memory-mapped registers shared by all processes, `_ever` | `gpioSetup`, `pinMode`, `getPinMode`, `digitalRead`, `digitalWrite`, `setPullUpDown`, `gpioShutdown` |
| GPIO through sysfs | `GPIO_Pi.c:433-720`, other build | exported pins, direction, edge and value files | the same operations, `pinExport`, `pinUnexport`, `edgeSetup` |
| GPIO interrupts | `GPIO_Pi.c:858-1065` | list of registrations, one poller, a thread per registration | register, unregister, poll, call back |
| GPIO interrupts with sysfs | `GPIO_Pi.c:721-857`, other build | `_sysFds`, the arguments on the caller's stack | register, a thread per registration, `gpioShutdown` |
| Tools | `GPIO_Pi.c:1068-1473`, binaries in `gpio_tools/` | none | `gpio` (mode, pull, write, export, readall), `gpio_monitor`, `GPIO_RW` |
| Client id | `MQTT.c:20-66` | none (but a socket that stays open) | `mac`, `generate_mqtt_id` |
| Signals | `RotaryEncoder.c:60-74` | `called` | `intHandler`: `gpioShutdown`, stop the loop, give up at the fourth |
| Command line | `RotaryEncoder.c:95-130` | the pins and the servers | options |
| forked-daapd client | `RotaryEncoder.c`, `WITH_DAAPD` | none | one blocking transfer a command |
| Install files | `release/`, documentation | none | a service file |

How they interact. `main_loop` is the only caller of everything in the daemon.
It hands commands to the link by a call (`send_player_msg`), the link answers by
a return code nobody looks at, and mongoose reports by a callback inside
`mg_mgr_poll` that writes the two globals `main_loop` reads in its next pass. A
host name is looked up by a second connection, over UDP, in the same poll; it
calls back with a pointer to the first. The signal handler runs on the same
thread, between any two steps, and shares `_ever` with the reads of the pins and
`FOREVER` with the loop. Logging and sockets meet in the table of file
descriptors, which `daemonise` has emptied below 3. The daemon and the tools
share the registers of the chip without a lock. The threads of the interrupt
parts share the list, `_ever`, the nodes and the descriptors.

### What is hard here, and what correct means

* **Sampling**: nothing notifies the program. It looks at the contacts every 5 ms,
  and every 0.5 ms for 500 passes after an edge; the knob moves between any two
  reads. Correct: one command a detent, in its direction, one mutetoggle a push,
  nothing else, also in the pass a signal interrupts.
* **The link**: the pointer to a connection is used in a pass after the poll that
  may have freed it; events of an old connection arrive after a new one has
  started; the status says "running" before the broker has accepted. Correct:
  never a dangling pointer, the two globals agree, never a wait for an event that
  cannot come, commands in order behind the handshake, none lost that could
  still have been written, reconnected after faults, stopped by a signal.
* **Lookups**: the request outlives the pass that made it, answers are lost, late
  or useless, and the callback writes to a connection it was given a pointer to.
  Correct: each lookup ends once, on memory that is not freed.
* **Bytes**: a header is put in front of its body behind whatever waits unsent, the
  socket cuts packets anywhere, reads join and split them, and the interval of
  the keep-alive is compared with a clock that may be set. Correct: whole
  packets in order, and a connection the broker never finds quiet for too long.
* **Several launches**: the lock is taken by a process that exits, and kept by its
  child. Correct: one daemon, and a pid file that names it.
* **Descriptors**: the daemon prints to a descriptor that is closed, or is
  something else by now. Correct: no text in a socket (which the build with sysfs
  does not achieve, see below).
* **Registers**: ten pins share a register that is read, changed and written; the
  pull-ups of all pins are set through one pair of registers. Correct: a pin only
  ever has a mode somebody asked for, and a command alone does just its work.
* **Interrupt threads**: list, poller and handlers with almost no locking; with
  sysfs, arguments on a stack and descriptors closed by number. Correct: no
  registration lost, one poller, every pin followed, edges reported, calls return.

`PROJECT.json` lists the hazards one by one, at their lines, with the properties
that are about them or the reason why none is.

## Modules

| Module | Models | Kind |
|---|---|---|
| `MqttLink` | reconnect logic, `MQTT.c`, the part of mongoose it runs on, TCP, the broker; a lookup is one step | system |
| `MqttResolver` | mongoose's resolver: queries over UDP, retries, answers | system, EXTENDS and implements `MqttLink` |
| `PacketPipe` | what one direction of a connection promises | abstract specification |
| `MqttFraming` | `struct mbuf`, `mg_mqtt_prepend_header`, `parse_mqtt`, and the standard's reading of a stream | pure |
| `MqttStream` | one connection byte by byte, its keep-alive and clock | system, implements `PacketPipe` in both directions |
| `MqttSession` | `MqttLink` with `MqttStream` | composition |
| `KnobContract` | what the user of the knob is promised | abstract specification |
| `RotaryDecode` | the sampling loop, its sleeps, `digitalRead`, `gpioShutdown`, the encoder | system, implements `KnobContract` |
| `RotaryOptions` | the pin options, as a function of the arguments | pure |
| `Daemonise` | the launches, the lock, the pid file | system |
| `DaemonStdio` | descriptors, syslog, the buffer of stdout | system |
| `GpioPins` | registers and sysfs files of the pins, the `gpio` tool, access by access | system |
| `DaemonSetup` | the start of `main_loop`: `DaemonStdio` with `GpioPins` | composition |
| `GpioInterrupts` | callers, poller and handler threads | system |
| `SysfsInterrupts` | the interrupts of the sysfs build | system |
| `GpioInterruptBuilds` | a program compiled either way | composition |
| `MqttLinkProofs`, `MqttResolverProofs`, `MqttStreamProofs`, `RotaryDecodeProofs`, `DaemoniseProofs`, `DaemonSetupProofs`, `GpioInterruptsProofs` | | proofs; `DaemonSetupProofs` is about `DaemonStdio`, `GpioPins` and `DaemonSetup`, `GpioInterruptsProofs` about both interrupt modules and `GpioInterruptBuilds` |
| `SetInduction` | | lemma: induction over the natural numbers for a set |
| `MC*` | symmetry sets, bodies of packets, the example command line, for TLC | instances |

How state and actions correspond to the code (`PROJECT.json` "map" has every
definition with its lines):

* `MqttLink`: `pc` is the call of `main_loop` the thread is in: `loop` is the test
  of `while` and the reconnect (`Reconnect`, `KeepGoing`, `LeaveLoop`), `select`,
  `handle` and `sweep` are the three parts of `mg_mgr_poll`, `knob` and `button`
  the two commands a pass can give, `closeall` the end of `mg_mgr_free`.
  `phase`, `flag` and `out` are fields of `struct mg_connection`, `net`, `inbox`,
  `wire` and `broker` the other end. A socket has room for `SendBuffer` packets the
  broker has not read; `Select` reports any with a full one as not writable, and may
  do so with others that hold something (`Slow`), `Write` takes what fits, and
  `stalled` is what this poll found or left without room. A structure that is freed
  becomes `free` and may be used again, as with `malloc`. `EvClose` is one handler for all
  connections, as in the code; this is what one of the findings is about. The
  events CONNECT and CLOSE are steps of mongoose, with the handler's whole effect.
* `MqttResolver`: `sock` is the UDP connection that belongs to a connection being
  looked up, `requests` its `user_data`, `retries`, `queued` and `late` the fields
  of the request and its buffer. Each of its steps that ends a lookup (`Address`,
  `NoAddress`, `SweepDns`) contains the step of `MqttLink` it stands for.
* `MqttStream`: `send_mbuf` and `recv_mbuf` are mongoose's buffers, `to_broker` and
  `to_daemon` what TCP carries; `WriteToSocket(n)` and `TcpRead(n)` move any
  number of bytes. `idle` is the difference of clock and `last_control_time`, so
  `SetClock` moves it; `quiet`, which the properties use, is true time. `Base` is
  0x80 in the code.
* `MqttSession` has no state of its own but `view`. `MqttLink` has
  every connection and whole packets, `MqttStream` one connection and its bytes:
  the composition says that a behaviour may be looked at either way. `view` is
  chosen at the start, because in the product TLC would interleave steps that have
  no variable in common. `focus` of `DaemonSetup` and `build` of
  `GpioInterruptBuilds` are of the same kind: the descriptors and the pins share
  nothing once `main_loop` has set the pins up (before, a failure of one ends the
  other, and both are followed; when the pins are looked at the host is a number,
  so that the descriptors add nothing), and a program is compiled in one way.
* `RotaryDecode`: the pass is `Test`, `ReadClk`, `ReadDt`, `ReadSw`, `Sleep`,
  `Wake`; each read is a step of its own, so the knob moves and signals arrive
  between them. `Turn` and `Push` are the user, `Tick` is 500 us. `due` and
  `released` are history variables: what the user is owed.
* `Daemonise`: a launch is a parent and at most one child. `Descriptors` is the
  kernel's rule that a lock goes with the last descriptor of its description.
* `DaemonStdio`: `fd` is the descriptor table. `Opened` takes the lowest free
  number. A step that logs writes one line into the buffer; a full one goes to
  descriptor 1, whatever it is, which `printed_to` remembers. An error is logged
  through syslog by `openlog`, `vsyslog` and `closelog`, and the last frees syslog's
  descriptor (`WithoutSyslog`): once in `gpioSetup` for an unknown board, and with
  sysfs (`build`) in each `setPullUpDown` (`PullLogs`).
* `GpioPins`: a process is the sequence `todo` of the accesses its call has still to
  make, `ReadSelect` and `WriteSelect` the two halves of `pinMode`, `SetPull`,
  `Clock`, `PullOff`, `ClockOff` the four writes of `setPullUpDown`. `board` chooses
  between the old pull-up registers, those of the Pi 4, and the sysfs build.
  The commands of the tool are the `...Command` actions. `asked`, `alone` and
  `want` are history. Of the hardware and the driver it assumes: a pin takes the
  pull that is in `GPPUD` when its clock comes on; writing "out" into
  `direction` drives the pin low; a pin that is unexported becomes an input.
* `GpioInterrupts`: `at` is where each caller is inside register or unregister,
  `poller` and `handler` are where the threads are; every access to shared
  memory is a step. The use of a null pointer or of a freed node sets `fault`,
  and the behaviour is not followed further (what the code does then is
  undefined). A node's own mutex is locked only by its handler, and unlocked by
  `unregister` without being held: it orders nothing and is left out.
* `SysfsInterrupts`: `call` is where a caller of `registerGPIOinterrupt` is (`spin` is
  the wait for a thread that could not be created), `thread` where the thread
  of a registration is. `open` maps a descriptor to the file behind it, `on` is the
  file a poll looks at: a number closed and given out again is a case the model has.

## Runs

Each passing property has a mutant in its module, a definition changed as a
plausible bug would, that breaks it.

| Run | Shows |
|---|---|
| `mqtt_safety` | With a broker that may refuse, resets, restarts and a signal at any moment: pointer, status, mongoose's list and the order of packets stay right at every step, and no command is dropped that could still be written, though sockets fill and writes are short (`LostOnlyForAReason`). Byte by byte on a connection: every packet arrives whole, once and in order in both directions (`BrokerHears`, `EventsArrive` are refinements of `PacketPipe`), and the connection is kept alive unless the clock is set back. |
| `mqtt_reconnect` | With a name looked up over UDP, answers lost, late, useless or without an address, and a broker that accepts: one connection at a time, each lookup ends once and on a live connection, the resolver implements `MqttLink`, fairness included; a session at the broker belongs to the connection in use and ends only by a fault or with the program; connected for good once the faults end, and a signal ends the program. |
| `mqtt_stale_close` | (violation) A refused CONNECT leaves a connection whose late CLOSE discards the pointer to its successor. |
| `decode_contract` | The sampling loop implements the contract, its liveness included: nothing owed is forgotten. |
| `decode_example` | (violation) The documented example gives volume commands for pushes. |
| `daemonise` | Three launches, any call failing, any process killed: one daemon, named by the pid file. |
| `daemonise_no_stdin` | (violation) Started with one of descriptors 0-2 closed, the daemon closes its own lock. |
| `interrupts_safety` | Two threads register and unregister while everything runs: nothing lost from the list, one poller. In both builds the types hold, with the bound of the array of descriptors. |
| `interrupts_liveness` | Registrations only, as `gpio_monitor` makes them, in both builds. Without sysfs: no thread uses a node that is gone, somebody polls as soon as anybody is registered, every pin ends up followed, an edge seen while the handler waits is reported. With it: arguments reach the right thread while they exist, whoever waits under the lock has an answer coming, every call returns if its thread could be created, and an edge stays pending until it is called back for, before `gpioShutdown`. |
| `interrupts_not_found` | (violation) An error return keeps the lock. |
| `interrupts_cleanup` | (violation) `unregister` uses a node its handler has freed. |
| `stdio` | The pins, with two commands of the tool beside the daemon: a pin has only modes (on a Pi 4 also pulls) somebody asked for; after the last pull-up sequence the shared registers are off; a command that met no other left what it was called for and nothing else. The descriptors: in the build with registers, with syslog at the start and a known board, printed text reaches no socket. |

### Bounds, and why they are enough

* `MqttLink`: three connections in the safety run (a refused one that drains, the
  current one, one more: enough for `exit()` in `start_mqtt` to happen and for
  the list to lose a middle element), two for reconnecting, where a second one
  would already violate `SingleConnection`. Two faults, one signal and two
  commands let a refusal, a reset and a command meet in one poll. `GiveUp` (3 and
  4) stands for `INT_MAX`, `MsgIdMax` (1 and 2) for 65535, so that the wrap and
  the end happen. The safety run looks a name up; a numeric address is in
  `mqtt_stale_close` and the proofs. A socket holds one packet in the safety run, so
  that with a handshake and two commands it fills and writes are short; two in
  the others, so that `select` may also find one with some room not writable. `MqttLink`
  counts packets: one the kernel has taken a part of stays in `out` until its last byte
  is gone, and its bytes are in `MqttStream`. The theorems need none of these bounds.
* `MqttResolver`: two retries as in the code; four lost or late datagrams use up a
  whole lookup (three queries) and disturb the next; three faults.
* `MqttStream`: `Base` 4 instead of 128, so that a body of four bytes has a length of
  two digits; a CONNECT of one byte, two bodies, one command, a keep-alive of
  two ticks, one tick a pass, one step of the clock by more than the interval. A
  header is put behind unsent bytes, every cut of a packet happens, and
  packets of all kinds meet in a buffer. The proofs hold for every `Base` from 3 to 128,
  so for the runs' number and the code's.
* `RotaryDecode`: a tick is 500 us; the long sleep is 3 ticks instead of 10, the
  fast polling 7 passes instead of 500, `CntMax` 9 for `INT_MAX`. The phases
  (2 to 3 ticks) are as short as the assumptions below allow. The proof covers
  the real numbers.
* `Daemonise`: three launches: one that ends, one that runs, one that is refused.
* `DaemonStdio`: descriptors 0 to 5: syslog, `mac`, the pid file, and three
  sockets at once; a buffer of 3 lines for 8192 bytes.
* `GpioPins`: four pins, in pairs that share a register of modes, three of them one of
  pulls; two tools and two commands beside the daemon, so that two
  read-change-write sequences and two pull-up sequences overlap in every way; one kill.
* `GpioInterrupts`: two callers, two nodes, two pins, two poller names (the second
  is there so that a second poller can be seen), one shutdown; for liveness one
  caller, two nodes, one pin and two changes of level. A node is used once, so a
  run has two registrations.
* `SysfsInterrupts`: two callers, two threads, one pin, two descriptors and room for
  one in `_sysFds`, so that the array is full; one edge, one shutdown.

Things that are interchangeable are declared so (`SYMMETRY`) in runs without
liveness: connections in `mqtt_safety`, launches, the two tools, and the
threads, nodes and pins of `interrupts_safety`. `BrokerHears`, `EventsArrive` and
`LostOnlyForAReason` are temporal formulas but safety properties.

Deadlock is checked in the runs of the link, whose `Exited` steps stand for an ended
program. It is not checked where the system may stop: the launches end, the daemon ends
(`RotaryDecode`, `DaemonStdio`), the tools have given their commands, and the
threads of the interrupt parts have nothing to do once levels, edges and
registrations are used up or a bad pointer was used.

### Fairness

* `MqttLink`: weak fairness of the thread, whose calls all return (`mg_mgr_poll`
  with timeout 0, sockets that do not block; the sleeps of the back-off end);
  of TCP connects and the broker, which answer when there is no fault; strong
  fairness of DNS answers, which can be read only in the middle of a poll.
* `MqttResolver` replaces that last assumption by weaker ones: a name server answers a
  query that reaches it, and time passes (`Answer`, `TimePasses`, weakly fair), while
  only a bounded number of datagrams is lost or late. `ImplementsLink` shows that
  the strong fairness of `MqttLink` follows.
* Faults are bounded and need not happen. Signals are not fair.
* `RotaryDecode`: the thread runs, time passes, and a knob between two detents
  springs on. The user is under no fairness.
* `GpioInterrupts`, `SysfsInterrupts`: every thread is scheduled, and callbacks return.
  In `GpioInterruptBuilds` the part that was not compiled has no thread, so its
  fairness asks nothing. Edges and shutdowns are under no fairness.
* `MqttStream`, `GpioPins`, `Daemonise`, `DaemonStdio`: none, they have safety properties only.

### Findings

1. `MQTT.c:132`: the CLOSE of any connection clears the globals of the current
   one. After one refusal by the broker (handled at 122-127, without closing the
   connection) commands are refused while an accepted connection is open. The
   two connections share a client id, so this can go on for ever, and as each
   short success resets `bad_mqtt`, the back-off never begins.
2. `RotaryEncoder.c:336`: the descriptor that holds the lock is closed with the
   standard ones if it got one of their numbers; a second daemon then starts.
3. `GPIO_Pi.c:1049`: unregistering an unknown pin returns with
   `_gpioRegisterMutex` locked.
4. `GPIO_Pi.c:1044`: unregistering uses the node after the handler may have freed
   it; the code's own comment hopes otherwise.
5. `README.md:27` and the help give `-rc` twice; the second replaces the clock by
   the button's pin.

Not findings, as no text of the repository says otherwise, but worth knowing:

* Descriptors 0, 1 and 2 of the daemon are free. Syslog's socket takes 0, and the
  socket that `mac` never closes takes 1; that leak alone keeps the text of `LOG`
  out of the MQTT stream. Repairing the leak alone would send it there, and so
  does a start without `/dev/log` or on a board `piBoardId` does not know. In the build
  with sysfs it happens always: `setPullUpDown` logs an error (`GPIO_Pi.c:442-445`),
  `closelog` (119) frees 0, `mac` takes 0 and the first socket of mongoose 1. The
  whole repair is to open `/dev/null` as 0, 1 and 2, and to close the socket.
* A command is lost without any failure if `mg_mgr_free` closes its connection while its
  socket is full (the one poll inside writes what the socket takes, and closes), or if
  the program ends by `exit()`: at the fourth signal, giving up, or without memory.
* A pass that stalls (the sleeps of the back-off at 217-222, libcurl) breaks the
  contract of the knob while it lasts.
* A registration that comes between the last look of a poller at an empty list
  and its end is never polled; a handler whose wake-up comes between its test and
  its wait never ends.
* Two processes in `pinMode` at once can undo each other, though neither invents a mode;
  two in `setPullUpDown` of an older board can give a pin the pull of the other's.
* `pthread_create` reports an error by a positive number; the sysfs
  registration takes only negative ones for errors (`GPIO_Pi.c:844`), then waits for a
  thread that does not exist, with the lock held.
* The result of `mmap` is not checked (`GPIO_Pi.c:276`), and a revision in the old
  style falls into the branch for Pi 2 and 3 (203-255).

## Proofs

Seven modules extend what they prove about, and one (`SetInduction`) serves them.
All obligations are discharged by Z3, Zenon and LS4. Every safety property that a
passing run checks is stated by a theorem, for the composition that the run
looks at or for each of its parts.

**`MqttLinkProofs`** (for any set of connections, messages and faults, names or
numbers, brokers that accept or refuse, from `MqttLinkAssumption` only). Every
safety property that the runs check of `MqttLink`. The argument has two parts.

* `TypeCorrect`, `NeverDangles`, `GlobalsAgree` and `NeverStuckStarting`. The three
  invariants are not inductive apart: that the pointer dangles is excluded because
  whoever frees a connection also clears the pointer, that "running" comes with a
  pointer because CONNECT sets both, and that "starting" has an attempt because
  only a connection that is being looked up or connected can leave that state,
  with an event. `IInv` joins them to the types and to the status before the
  first attempt (`StoppedAtFirst`), which `start_mqtt` overwrites.
* Each step is then put into one of seven kinds by the variables it touches (`StepKinds`),
  and the invariants that follow are shown kind by kind. `ListStaysExact`: only
  `MgConnect` and a resolved address add to mongoose's list, only a
  close removes from it. `StaysSingle`: against a broker that accepts, the status
  is "stopped" only when no connection is left (`SingleInv`). `AlwaysInOrder` and
  `HandshakeFirst`, together `AlwaysHeardInOrder`: for each connection what is queued
  is younger than what is written (one stream in order, `StreamIncreases`), all of it is older than the next command, and until the broker has read
  anything the stream begins with the handshake (`QueueOf`); that needs
  `ReadyInv`, that a connection `select` found ready is still there when its turn
  comes. `LossNeedsAReason`: a write splits a queue in two and keeps the rest (`Splits`),
  while the loop runs the sweep takes nothing with a queue that has not failed, and in the poll of
  `mg_mgr_free` every connection with packets left has its turn to come, has failed,
  or was found or left without room (`DrainInv`). `FullInv` is the conjunction,
  and is inductive.
* `LinkStaysSafe` is all of this from `Init` and the steps alone, without fairness, and
  is what the resolver and the session inherit.
* `NoRefusalNoGap` is about finding 1: with a broker that never refuses, what the run
  violates holds, because "stopped" then means that no connection is left, and
  "starting" that the only one is not open yet. So the refusal is what it takes;
  resets, restarts and signals do not do it.
* `SessionIsUsed` and `SessionEndsByFault` are the safety that `StaysConnected` rests on,
  for a broker that accepts (both are `SessionIsKept`, which needs no fairness). A
  connection that is not open has neither a flag nor anything to read, and one whose
  socket is up and whose broker has not closed it is unflagged and has at most answers to
  its CONNECT to read (`HealthyOf`); so the sweep never takes a connection the broker has
  accepted, unless a fault came first. That the open connection is the one `_mqtt_connection`
  points to (`OpenIsUsed`) follows from `FullInv`: it is the only connection, so the
  status is neither "stopped" nor "starting", and "running" needs a pointer to an open one.

**`MqttResolverProofs`**. `LinkStepsOnly`: every step of the resolver is a step of
`MqttLink` or a stutter, so all of the above holds with it (`ResolverKeepsLinkSafe`). `DnsTypeCorrect`, for
any number of retries and losses: a query is counted before it can be answered
(`AllCounted`). `RequestHasTarget`: a UDP connection not about to be closed has a
request (`OpenWaits`), closing ones are gone after the sweep (`Swept`), and a
connection leaves the lookup only in the step that frees its request. `ResolverKeepsSession`:
no lost, late or useless answer costs the program a session.

**`MqttStreamProofs`**. All of it for every `Base` from 3 to 128 (the code's
is 0x80). `PacketRoundTrip`, for every length of at most four digits: the digits of `VarLength` are where the loop of
`parse_mqtt` stops (`LoopStops`) and their sum is the length (`LengthRoundTrip`),
so the receiver finds command, body and end, whatever follows. The digits are remainders
of quotients; what makes their sum the length is that dividing twice is dividing by the
product (`QuotientOfQuotient`), proved from division with remainder (`Division`). `AlwaysKeepsAlive`,
for every interval of at least two passes: the true time since the last packet is at
most what the clock shows, and at most the interval and the current pass.
`BytesWellTyped`. `BrokerHearsEverything` and `EventsArriveInOrder`: both directions
implement `PacketPipe` under the mapping `Frames`, for any bodies and however the
socket cuts the bytes. The argument:

* `Frames` is a recursive function. `Reads` is one step of it; a function that takes
  that step everywhere exists (`ReadingExists`) and is unique (`ReadingIsUnique`), by
  induction on what is left of the stream. So `Frames` unfolds: the first packet, and
  the frames of what is behind it (`FramesStep`).
* A stream is `Whole` if what follows it is read as if it stood alone. The bytes of one
  packet are whole (`OneIsWhole`, from the round trip), whole streams in a row
  are whole, and what is behind the first packet of a whole stream is (`WholeOn`,
  `WholeBehind`). That all bytes between the two ends are whole is the invariant
  of the outgoing direction (`OutWhole`): a `Queue` appends a packet to `Frames`, the
  broker takes the first, the socket moves bytes inside the concatenation.
* Incoming, the code's `parse_mqtt` is the reader, not the standard. They agree on
  lengths of at most four digits (`ParseIsFirst`); that a length has one digit, which is
  all that a CONNACK or PINGRESP needs, is a second part of the invariant (`Short`).

`SessionSteps`: the composition is a behaviour of both its parts. `SessionCarries` and
`SessionKeepsLinkSafe` are the properties of both, of the composition, and
`SessionTypeCorrect` its types.

**`RotaryDecodeProofs`**. `DecodeTypeCorrect` needs no more than the assumption
about the constants. `KeepsContract` and `OnlyIfTurned` are about every choice of
the constants that satisfies

* `Wired`: the program was told the three different pins that are wired;
* `Timing`: a contact stays as it is for longer than the short sleep (`MinPhase >
  1`), two contact changes take longer than the long sleep, 500 fast passes
  outlast the two phases in which the clock is closed, and the button stays for
  longer than the long sleep. With the code's numbers: phases of more than
  0.5 ms, two of them more than 5 ms, none longer than 125 ms, and pushes of
  more than 5 ms.

`KeepsContract` says that each step of the loop, of the knob and of time is a step
of `KnobContract` or leaves it alone, under the refinement mapping of
`RotaryDecode` (a stopped program owes no volume, and owes a mutetoggle only in
the pass that saw the button down). The inductive invariant relates the program's
copies `clk` and `sw` to the contacts through ages: an unseen closing of the clock is
at most a long sleep old (`ClosedUnseen`); while it is closed and seen, the number of
passes since is at most the ticks since, so the polling is still fast
(`ClosedSeen`); an unseen opening is at most one tick old, so the data contact is as
it was (`OpenUnseen`), up to the second read of the pass (`OpenSeen`); an unseen
move of the button is younger than a press (`ButtonInv`). `PhaseInv` bounds
the age of the first edge by that of the second. `OnlyIfTurned` is the property
that the documented example violates.

**`DaemoniseProofs`**. `DaemoniseTypeCorrect`; `OneDaemon` and `PidFileIsRight`, for
any set of launches, failures and kills, from: whoever is between the lock and its
end holds the lock and has a descriptor that keeps it (`HolderInv`), and the file
names the child from `fclose` until the child ends (`FileInv`). Both are proved
from `NoStdin = {}`; finding 2 shows that this is needed.

**`DaemonSetupProofs`**. Of the descriptors: `StdioTypeCorrect`; `TextStaysHome`, for
any number of descriptors and connections, from: once the id is made, descriptor 1 is
the socket of `mac` and stays so, and before, only syslog has taken one. It is proved
for the build with registers, from `SyslogAtStart` and `KnownBoard`, the conditions of
the property; without any of the three the model reaches a socket.
Of the pins, for any pins, tools and commands:

* `PinsTypeCorrect` and `ModesWereAsked`: what a process still has to write was asked for
  (`TodoOK`), and so was every field it read and is about to write back
  (`LoadedOK`), though it may be stale.
* `PullsEndQuiet`: a process that has a write which turns the control register or a clock
  on still has, behind it, the one that turns it off (`ClockPairs`), and who turned one on
  and lives has the other still to do (`QuietInv`).
* `UndisturbedCallsDoAsAsked`: as long as a call is alone, what it has still to do leads
  from the pins as they are to the pins as it wants them (`Leads`), whatever the
  board. For the half of `pinMode` that writes back, the fields it read are those of the
  register, because nobody else has written since.
* `SetupKeepsBoth`, `SetupLeavesPinsRight` and `SetupTypeCorrect` carry all of it to
  `DaemonSetup`.

**`GpioInterruptsProofs`**, for any callers, threads, nodes, pins and descriptors (a
finite number of nodes, as memory is), of the composition of the two builds.

* `OnePollerInBuilds`: a poller that is anywhere but at its end has set
  `_interruptHandlerThreadId` (`PollerIsKnown`), which is what a registration tests.
* `KeepsRegistrationsInBuilds`, with the types of both builds in `TypesInBuilds`: there is a sequence of
  distinct nodes that `head` and `next` spell out (`IsList`), only the caller inside the
  lock changes it, and between its walk and its write the node it found is still the last
  (`CallerOK`). `Nth`, a recursive function, is that sequence (`NthOfList`).
* `NodesStayInBuilds`: without unregister and `gpioShutdown` each thread that started has
  `running` set, so none ends and frees a node (`Undisturbed`).
* `HandedOverInBuilds`: a caller's pin is in its `stuff` until it creates the thread, and
  from there until the thread has answered it has `pinMutex` (`HandingOver`).
* `AlwaysPolledInBuilds`: without unregister and `gpioShutdown` the list never becomes
  empty again, so a poller never reaches the end where it would clear the id; the id
  means that one runs, and a list that is not empty means the id, or the caller that has
  seen it clear and is inside the lock (`Polled`).
* `HolderIsAnsweredInBuilds`: a call that waits has been answered, or a thread that got its
  arguments still has to (`Answering`). `EdgesKeptInBuilds`: until `gpioShutdown` nobody
  closes a descriptor of a thread, so its number is not given out again and it polls its
  own file (`OwnFile`). With `HandedOver` these are what `CallsReturn` and `EdgeServed` rest
  on.
* `OnlyNotFoundKeepsTheLock` is about finding 3: in a behaviour without that return,
  whoever has the lock is inside one of the two functions (`LockedInside`).

**`SetInduction`**. The library's theorems of induction take an operator as a parameter,
which no installed prover can instantiate. The same for a set follows from the pigeonhole
principle of finite sets, and is all that the recursive functions here need.

### Only model-checked

* Liveness: `StaysConnected`, `SignalStops`, `EventuallyFollowed`, `EdgeReported`,
  `CallsReturn`, `EdgeServed`, and the fairness in `ImplementsLink` and
  `ImplementsContract`. It is out of the prover's reach. The safety that most of them
  rest on is proved: `AcceptedIsUsed` and `KeepsAccepted` (no session is lost by the
  program itself), `AlwaysPolled`, `HolderIsAnswered`, `EdgesKept`, and the steps of both
  refinements.
* `RotaryOptions`, a fold over the arguments: the run of the documented example evaluates
  it.

## Not modelled, and why

* **Stalls** of a pass in `RotaryDecode`: the back-off sleeps for one or ten seconds,
  longer than any move of the knob, so the contract does not hold with them.
* **The text of the client id**: it is cut at 20 characters, and after
  "rotaryencoder_" that leaves three bytes of the address, the vendor's, so two
  such machines can share an id. What that does is decided in the broker;
  the model has one daemon for a broker, where nothing reads the text.
* **MQTT as a whole**: lengths have at most four digits, the standard's limit; the
  broker sends CONNACK and PINGRESP, all it has reason to send a client that
  subscribes to nothing and publishes with a QoS of 0.
* **forked-daapd**: one blocking call; what it does to the loop is a stall.
* **The rest of mongoose**: of the 22,499 lines of `mongoose.c` and `.h` about 3,500 are
  compiled with the Makefile's flags and reached from this program; HTTP,
  WebSocket, CoAP, TLS, SNTP, the file system and the embedded targets are switched off. With
  `RotaryEncoderURL.c`, which is not built either, that is most of the
  repository's lines, and there is no behaviour of this program in them.
* Printing, usage texts and the argument parsing of the tools; the Makefile's install
  files. `GPIO_RW` does not compile as it stands (`logMessage`, `_log_level`), and
  what it would do is `gpio write` without the reset, which `GpioPins` has.
* Failing `calloc` (other than in `mg_connect`), `pthread_create` failing in the build
  without sysfs, an option without its argument, a foreground instance beside a
  daemon: the code promises nothing about them.
* `RotaryEncoder.c.good`: not built.

## Plan

Done, by importance: the link, the sampling loop with its contract, the launches,
the interrupt threads, the descriptors; then the resolver, the bytes of a
connection, the registers with the tools, the sysfs build, and the proofs of
all safety properties. What could still be added:

1. A composition of `RotaryDecode` and `MqttLink` through `send_player_msg`, with a
   weaker contract in which stalls of the back-off may lose turns of the knob.
2. Two daemons on one broker with the text of the id, where a shared id makes the
   broker end one connection for the other.

To repeat the checks: `tlc -config X.cfg M` for the pairs listed in `PROJECT.json`
"runs", and `tlapm M.tla` for the eight modules of proofs.
