------------------------------ MODULE GpioPins ------------------------------
(***************************************************************************)
(* The pins of the board, which GPIO_Pi.c gives to every process that maps *)
(* the registers: main_loop (RotaryEncoder.c) sets up its three pins while *)
(* the gpio tool (GPIO_TOOL in GPIO_Pi.c) runs beside it.  No lock is held *)
(* over a register; a step here is one access of a register or one file of *)
(* sysfs.  A process is the sequence of what it still has to do.           *)
(***************************************************************************)
EXTENDS Integers, Sequences

CONSTANTS
  Header,        \* the pins, in the order of _pinDetails
  Clk, Dt, Sw,   \* _p_clk, _p_dt, _p_sw
  Used,          \* pins that are no inputs when the system has started
  Tools,         \* processes of the gpio tool
  MaxCommands,   \* commands given to the tools (bound)
  PinsGiven, ModesGiven, PudsGiven, LevelsGiven   \* what they are given (bound)

Pins == {Header[i] : i \in DOMAIN Header}
Daemon == "daemon"
Nobody == "nobody"
Procs == Tools \cup {Daemon}

ASSUME GpioPinsAssumption ==
  /\ Header \in Seq(2 .. 27) /\ {Clk, Dt, Sw} \subseteq Pins /\ Used \subseteq Pins
  /\ Daemon \notin Tools /\ Nobody \notin Tools
  /\ MaxCommands \in Nat
  /\ PinsGiven \subseteq Pins /\ ModesGiven \subseteq 0 .. 7 /\ PudsGiven \subseteq 0 .. 2 /\ LevelsGiven \subseteq 0 .. 1

VARIABLES
  board,     \* pulls by the "pud" registers, the "pi4" ones, or the "sysfs" build
  fsel,      \* the mode of each pin (GPFSEL0 .. 2)
  pull,      \* its resistor
  high,      \* pins whose output is set
  gppud,     \* GPPUD
  clock,     \* pins whose bit is set in GPPUDCLK0
  exported,  \* pins that have a directory in /sys/class/gpio
  todo,      \* what each process has to do before its call returns
  loaded,    \* processes between the read and the write of a register
  seen,      \* what they read
  setup,     \* main_loop: "before", "inside", "done", "failed", "killed"
  commands,  \* commands that may still be given
  killed,    \* some process was killed on its way (once)
  asked,     \* history: what the pins were at first, and what any call wanted
  alone,     \* history: the last process to start, if nobody was inside then
             \* and nobody killed had left the clock of a pin on
  want       \* history: what that process should leave

pinvars == <<board, fsel, pull, high, gppud, clock, exported, todo, loaded, seen, setup,
             commands, killed, asked, alone, want>>
chip == <<fsel, pull, high, gppud, clock, exported>>
notes == <<setup, commands, killed, asked, alone, want>>

INPUT == 0
OUTPUT == 1
IO_ALT0 == 4
Modes == 0 .. 7
Unread == 8   \* getPinMode returned an error
PUD_OFF == 0
PUD_DOWN == 1
PUD_UP == 2

Works == {"mode", "getmode", "set", "restore", "pull", "clk", "pud", "unclk", "export", "unexport", "edge"}
Nothing == [p \in Pins |-> 0]   \* before a register is read
Op(work, p, v) == [work |-> work, pin |-> p, val |-> v]
Ops == [work : Works, pin : Pins, val : Modes \cup {Unread}]

InitPins ==
  /\ board \in {"pud", "pi4", "sysfs"}
  /\ fsel = [p \in Pins |-> IF p \notin Used THEN INPUT
                            ELSE IF board = "sysfs" THEN OUTPUT ELSE IO_ALT0]
  /\ pull = [p \in Pins |-> PUD_DOWN]
  /\ high = {} /\ gppud = PUD_OFF /\ clock = {}
  /\ exported \in IF board = "sysfs" THEN {{}, Pins} ELSE {{}}
  /\ todo = [a \in Procs |-> <<>>] /\ loaded = {}
  /\ seen = [a \in Procs |-> Nothing]
  /\ setup = "before" /\ commands = MaxCommands /\ killed = FALSE
  /\ asked = {<<"mode", p, fsel[p]>> : p \in Pins} \cup {<<"pull", p, pull[p]>> : p \in Pins}
  /\ alone = Nobody /\ want = <<fsel, pull, high, exported>>

-----------------------------------------------------------------------------
\* The next thing process a does is work, on pin Pin(a) with value Val(a).
Does(a, work) == todo[a] # <<>> /\ Head(todo[a]).work = work
Pin(a) == Head(todo[a]).pin
Val(a) == Head(todo[a]).val

\* It is done, and s comes before the rest.
Then(a, s) == todo' = [todo EXCEPT ![a] = s \o Tail(todo[a])]
Done(a) == Then(a, <<>>)

\* Mutant: the bits of the pin are not cleared before the mode is put in.
Insert_NoMask(v, read) == IF read = v THEN v ELSE read + v

\* Mutant: the mode is shifted by one bit too many.
Insert_ShiftOff(v, read) == 2 * v

\* (reg & ~(7 << shift)) | (mode << shift), for the field of the pin.
Insert(v, read) == v

\* Pins whose modes are in one register, and pulls in one of a Pi 4.
SameSelect(p, q) == p \div 10 = q \div 10
SamePull(p, q) == p \div 16 = q \div 16

\* What a register holds after the write of a process that read it before.
Merged(a, reg, Same(_, _)) ==
  [q \in Pins |-> IF q = Pin(a) THEN Insert(Val(a), seen[a][q])
                  ELSE IF Same(Pin(a), q) THEN seen[a][q] ELSE reg[q]]

Load(a, reg, Same(_, _)) ==
  /\ a \notin loaded /\ loaded' = loaded \cup {a}
  /\ seen' = [seen EXCEPT ![a] = [q \in Pins |-> IF Same(Pin(a), q) THEN reg[q] ELSE 0]]
  /\ UNCHANGED <<board, chip, todo, notes>>

\* pinMode: _gpioReg[reg] is read, and written.
ReadSelect(a) ==
  /\ board # "sysfs" /\ Does(a, "mode")
  /\ Load(a, fsel, SameSelect)

WriteSelect(a) ==
  /\ board # "sysfs" /\ Does(a, "mode")
  /\ a \in loaded /\ loaded' = loaded \ {a}
  /\ fsel' = Merged(a, fsel, SameSelect) /\ seen' = [seen EXCEPT ![a] = Nothing]
  /\ Done(a)
  /\ UNCHANGED <<board, pull, high, gppud, clock, exported, notes>>

\* pinMode of sysfs.  To write "out" makes the pin an output that is low.
Direction(a) ==
  /\ board = "sysfs" /\ Does(a, "mode")
  /\ Pin(a) \in exported /\ Val(a) \in {INPUT, OUTPUT}
  /\ fsel' = [fsel EXCEPT ![Pin(a)] = Val(a)]
  /\ high' = IF Val(a) = OUTPUT THEN high \ {Pin(a)} ELSE high
  /\ Done(a)
  /\ UNCHANGED <<board, pull, gppud, clock, exported, loaded, seen, notes>>

\* It returns an error when the pin is not exported: main_loop gives up.
DirectionFails(a) ==
  /\ board = "sysfs" /\ Does(a, "mode")
  /\ Pin(a) \notin exported \/ Val(a) \notin {INPUT, OUTPUT}
  /\ IF a = Daemon
     THEN /\ todo' = [todo EXCEPT ![a] = <<>>]
          /\ setup' = "failed" /\ alone' = Nobody
     ELSE Done(a) /\ UNCHANGED <<setup, alone>>
  /\ UNCHANGED <<board, chip, loaded, seen, commands, killed, asked, want>>

\* getPinMode: what it returns is kept for the rest of the call.
Returns(a, mode) ==
  todo' = [todo EXCEPT ![a] =
    [i \in DOMAIN Tail(todo[a]) |->
       IF Tail(todo[a])[i].work \in {"restore", "edge"} /\ Tail(todo[a])[i].pin = Pin(a)
       THEN Op(Tail(todo[a])[i].work, Pin(a), mode)
       ELSE Tail(todo[a])[i]]]

GetPinMode(a) ==
  /\ Does(a, "getmode")
  /\ Returns(a, IF board = "sysfs" /\ Pin(a) \notin exported THEN Unread ELSE fsel[Pin(a)])
  /\ UNCHANGED <<board, chip, loaded, seen, notes>>

\* digitalWrite: GPSET and GPCLR take one bit each; sysfs asks for an output.
DigitalWrite(a) ==
  /\ Does(a, "set")
  /\ high' = IF board = "sysfs" /\ (Pin(a) \notin exported \/ fsel[Pin(a)] # OUTPUT) THEN high
             ELSE IF Val(a) = 0 THEN high \ {Pin(a)} ELSE high \cup {Pin(a)}
  /\ Done(a)
  /\ UNCHANGED <<board, fsel, pull, gppud, clock, exported, loaded, seen, notes>>

\* Mutant: the pin always becomes an input again.
Restore_Input(a) ==
  /\ Does(a, "restore")
  /\ Then(a, <<Op("mode", Pin(a), INPUT)>>)
  /\ UNCHANGED <<board, chip, loaded, seen, notes>>

\* gpio write puts back the mode it found, if that was another.
Restore(a) ==
  /\ Does(a, "restore")
  /\ IF Val(a) \in {OUTPUT, Unread} THEN Done(a) ELSE Then(a, <<Op("mode", Pin(a), Val(a))>>)
  /\ UNCHANGED <<board, chip, loaded, seen, notes>>
-----------------------------------------------------------------------------
\* setPullUpDown: GPPUD, the clock of the pin, and both back to nothing.
SetPull(a) ==
  /\ board = "pud" /\ Does(a, "pull")
  /\ gppud' = Val(a)
  /\ Then(a, <<Op("clk", Pin(a), 0), Op("pud", Pin(a), 0), Op("unclk", Pin(a), 0)>>)
  /\ UNCHANGED <<board, fsel, pull, high, clock, exported, loaded, seen, notes>>

\* A pin takes GPPUD when its clock comes on.
Clock(a) ==
  /\ Does(a, "clk")
  /\ clock' = {Pin(a)}
  /\ pull' = IF Pin(a) \in clock THEN pull ELSE [pull EXCEPT ![Pin(a)] = gppud]
  /\ Done(a)
  /\ UNCHANGED <<board, fsel, high, gppud, exported, loaded, seen, notes>>

PullOff(a) ==
  /\ Does(a, "pud")
  /\ gppud' = PUD_OFF
  /\ Done(a)
  /\ UNCHANGED <<board, fsel, pull, high, clock, exported, loaded, seen, notes>>

\* Mutant: the clock register is not written back.
ClockOff_Never(a) ==
  /\ Does(a, "unclk")
  /\ Done(a)
  /\ UNCHANGED <<board, chip, loaded, seen, notes>>

ClockOff(a) ==
  /\ Does(a, "unclk")
  /\ clock' = {}
  /\ Done(a)
  /\ UNCHANGED <<board, fsel, pull, high, gppud, exported, loaded, seen, notes>>

\* setPullUpDown_Pi4: read and write of a register of sixteen pins.
ReadPull(a) ==
  /\ board = "pi4" /\ Does(a, "pull")
  /\ Load(a, pull, SamePull)

WritePull(a) ==
  /\ board = "pi4" /\ Does(a, "pull")
  /\ a \in loaded /\ loaded' = loaded \ {a}
  /\ pull' = Merged(a, pull, SamePull) /\ seen' = [seen EXCEPT ![a] = Nothing]
  /\ Done(a)
  /\ UNCHANGED <<board, fsel, high, gppud, clock, exported, notes>>

\* setPullUpDown of sysfs: an error, which nobody looks at.  That it is logged
\* matters to the daemon's descriptors only: PullLogs of DaemonStdio.
PullFails(a) ==
  /\ board = "sysfs" /\ Does(a, "pull")
  /\ Done(a)
  /\ UNCHANGED <<board, chip, loaded, seen, notes>>
-----------------------------------------------------------------------------
\* pinExport; a pin that is exported already stays so.
PinExport(a) ==
  /\ Does(a, "export")
  /\ exported' = exported \cup {Pin(a)}
  /\ Done(a)
  /\ UNCHANGED <<board, fsel, pull, high, gppud, clock, loaded, seen, notes>>

\* pinUnexport.  The driver makes a pin that is given back an input.
PinUnexport(a) ==
  /\ Does(a, "unexport")
  /\ exported' = exported \ {Pin(a)}
  /\ fsel' = IF Pin(a) \in exported THEN [fsel EXCEPT ![Pin(a)] = INPUT] ELSE fsel
  /\ Done(a)
  /\ UNCHANGED <<board, pull, high, gppud, clock, loaded, seen, notes>>

\* registerGPIOinterrupt of sysfs: an output is an input while the edge is set.
EdgeSetup(a) ==
  /\ Does(a, "edge")
  /\ IF Val(a) = OUTPUT
     THEN Then(a, <<Op("mode", Pin(a), INPUT), Op("mode", Pin(a), OUTPUT)>>)
     ELSE Done(a)
  /\ UNCHANGED <<board, chip, loaded, seen, notes>>
-----------------------------------------------------------------------------
\* Process a calls: s is what it does, news what that asks of the pins, w what
\* it leaves if nobody disturbs it.
Begin(a, s, news, w) ==
  /\ todo' = [todo EXCEPT ![a] = s]
  /\ asked' = asked \cup news
  /\ IF clock = {} /\ \A b \in Procs : todo[b] = <<>>
     THEN alone' = a /\ want' = w
     ELSE alone' = Nobody /\ want' = <<fsel, pull, high, exported>>
  /\ UNCHANGED <<board, chip, loaded, seen, killed>>

\* main_loop: pinMode of the three pins, then setPullUpDown.
SetUpPins ==
  /\ setup = "before" /\ setup' = "inside"
  /\ Begin(Daemon,
           <<Op("mode", Clk, INPUT), Op("mode", Dt, INPUT), Op("mode", Sw, INPUT),
             Op("pull", Clk, PUD_UP), Op("pull", Dt, PUD_UP), Op("pull", Sw, PUD_UP)>>,
           {<<"mode", p, INPUT>> : p \in {Clk, Dt, Sw}} \cup {<<"pull", p, PUD_UP>> : p \in {Clk, Dt, Sw}},
           <<[p \in Pins |-> IF p \in {Clk, Dt, Sw} THEN INPUT ELSE fsel[p]],
             [p \in Pins |-> IF board # "sysfs" /\ p \in {Clk, Dt, Sw} THEN PUD_UP ELSE pull[p]],
             high, exported>>)
  /\ UNCHANGED commands

\* The registers cannot be mapped: every pinMode fails.
NotSetUp ==
  /\ board # "sysfs" /\ setup = "before" /\ setup' = "failed"
  /\ UNCHANGED <<board, chip, todo, loaded, seen, commands, killed, asked, alone, want>>

PinsSetUp ==
  /\ setup = "inside" /\ todo[Daemon] = <<>>
  /\ setup' = "done"
  /\ UNCHANGED <<board, chip, todo, loaded, seen, commands, killed, asked, alone, want>>

Command(t, s, news, w) ==
  /\ todo[t] = <<>> /\ commands > 0 /\ commands' = commands - 1
  /\ Begin(t, s, news, w)
  /\ UNCHANGED setup

\* Pins whose mode a process may set.
Settable == IF board = "sysfs" THEN exported ELSE Pins

\* gpio input, output, mode.
ModeCommand(t, p, m) ==
  /\ board = "sysfs" => m \in {INPUT, OUTPUT}
  /\ Command(t, <<Op("mode", p, m)>>, {<<"mode", p, m>>},
       <<[q \in Pins |-> IF q = p /\ p \in Settable THEN m ELSE fsel[q]], pull,
         IF board = "sysfs" /\ p \in exported /\ m = OUTPUT THEN high \ {p} ELSE high, exported>>)

\* gpio pud_off, pud_up, pud_down.
PullCommand(t, p, v) ==
  /\ board # "sysfs"
  /\ Command(t, <<Op("pull", p, v)>>, {<<"pull", p, v>>},
       <<fsel, [pull EXCEPT ![p] = v], high, exported>>)

\* gpio write.
WriteCommand(t, p, v) ==
  Command(t, <<Op("getmode", p, 0), Op("mode", p, OUTPUT), Op("set", p, v), Op("restore", p, Unread)>>,
    {<<"mode", p, OUTPUT>>},
    <<fsel, pull, IF p \notin Settable THEN high
                  ELSE IF v = 0 THEN high \ {p} ELSE high \cup {p}, exported>>)

\* gpio export, unexport, readall, and gpio_monitor, in the build for sysfs.
ExportCommand(t, p) ==
  /\ board = "sysfs"
  /\ Command(t, <<Op("export", p, 0)>>, {}, <<fsel, pull, high, exported \cup {p}>>)

UnexportCommand(t, p) ==
  /\ board = "sysfs"
  /\ Command(t, <<Op("unexport", p, 0)>>, {<<"mode", p, INPUT>>},
       <<[q \in Pins |-> IF q = p /\ p \in exported THEN INPUT ELSE fsel[q]], pull, high, exported \ {p}>>)

ReadAllCommand(t) ==
  /\ board = "sysfs"
  /\ Command(t, [i \in DOMAIN Header |-> Op("export", Header[i], 0)], {},
       <<fsel, pull, high, Pins>>)

MonitorCommand(t, p) ==
  /\ board = "sysfs"
  /\ Command(t, <<Op("export", p, 0), Op("getmode", p, 0), Op("edge", p, Unread)>>,
       {<<"mode", p, INPUT>>, <<"mode", p, OUTPUT>>},
       <<fsel, pull, IF fsel[p] = OUTPUT THEN high \ {p} ELSE high, exported \cup {p}>>)

\* A signal ends a tool at any moment, and the daemon until main_loop has
\* installed its handler.
Kill(a) ==
  /\ ~killed /\ killed' = TRUE
  /\ IF a = Daemon THEN setup = "inside" /\ setup' = "killed"
                   ELSE todo[a] # <<>> /\ UNCHANGED setup
  /\ todo' = [todo EXCEPT ![a] = <<>>]
  /\ loaded' = loaded \ {a}
  /\ alone' = Nobody
  /\ seen' = [seen EXCEPT ![a] = Nothing]
  /\ UNCHANGED <<board, chip, commands, asked, want>>
-----------------------------------------------------------------------------
Access(a) ==
  \/ ReadSelect(a) \/ WriteSelect(a) \/ Direction(a) \/ DirectionFails(a)
  \/ GetPinMode(a) \/ DigitalWrite(a) \/ Restore(a)
  \/ SetPull(a) \/ Clock(a) \/ PullOff(a) \/ ClockOff(a)
  \/ ReadPull(a) \/ WritePull(a) \/ PullFails(a)
  \/ PinExport(a) \/ PinUnexport(a) \/ EdgeSetup(a)

Tool(t, p) ==
  \/ \E m \in ModesGiven : ModeCommand(t, p, m)
  \/ \E v \in PudsGiven : PullCommand(t, p, v)
  \/ \E v \in LevelsGiven : WriteCommand(t, p, v)
  \/ ExportCommand(t, p) \/ UnexportCommand(t, p) \/ MonitorCommand(t, p)

NextPins ==
  \/ SetUpPins \/ NotSetUp \/ PinsSetUp
  \/ \E a \in Procs : Kill(a) \/ Access(a)
  \/ \E t \in Tools : ReadAllCommand(t) \/ \E p \in PinsGiven : Tool(t, p)

SpecPins == InitPins /\ [][NextPins]_pinvars

-----------------------------------------------------------------------------
\* Type invariant.
PinsTypeOK ==
  /\ board \in {"pud", "pi4", "sysfs"}
  /\ fsel \in [Pins -> Modes] /\ pull \in [Pins -> Modes]
  /\ gppud \in Modes /\ high \subseteq Pins /\ clock \subseteq Pins /\ exported \subseteq Pins
  /\ todo \in [Procs -> Seq(Ops)] /\ loaded \subseteq Procs
  /\ seen \in [Procs -> [Pins -> Modes]]
  /\ setup \in {"before", "inside", "done", "failed", "killed"}
  /\ commands \in 0 .. MaxCommands /\ killed \in BOOLEAN
  /\ asked \subseteq {"mode", "pull"} \X Pins \X Modes
  /\ alone \in Procs \cup {Nobody}

\* However the calls of several processes interleave, and whoever is killed, a
\* pin never gets a mode that nobody ever asked for that pin; on a Pi 4 the same
\* holds of its resistor.  (On the others it does not: two sequences share GPPUD.)
WasAsked ==
  \A p \in Pins :
    /\ <<"mode", p, fsel[p]>> \in asked
    /\ board = "pi4" => <<"pull", p, pull[p]>> \in asked

\* When nobody is inside setPullUpDown, and nobody was killed there, GPPUD and the
\* clocks are off, however the sequences overlapped: no later write reaches a pin.
PullQuiet ==
  \/ killed
  \/ \E a \in Procs : \E i \in DOMAIN todo[a] : todo[a][i].work \in {"clk", "pud", "unclk"}
  \/ gppud = PUD_OFF /\ clock = {}

\* A command that met no other leaves what it was called for and nothing else:
\* gpio write gives the pin its mode back, main_loop has three inputs with
\* pull-ups, and no pin that shares a register is touched.
DoneAsAsked ==
  alone # Nobody /\ todo[alone] = <<>> => <<fsel, pull, high, exported>> = want
=============================================================================
