---------------------------- MODULE DaemonSetup -----------------------------
(***************************************************************************)
(* The start of main_loop, with both things it touches: its descriptors    *)
(* (DaemonStdio) and the pins (GpioPins).  Once the pins are set the two   *)
(* have nothing in common, so a behaviour goes on with one of them only.   *)
(***************************************************************************)
EXTENDS DaemonStdio, GpioPins

VARIABLE focus   \* "descriptors" or "pins": what goes on, chosen at the start

setupvars == <<vars, pinvars, focus>>

InitSetup ==
  /\ Init /\ InitPins
  /\ (build = "sysfs") <=> (board = "sysfs")
  /\ focus \in {"descriptors", "pins"} /\ (focus = "pins" => host = "number")

Starts == Notice /\ UNCHANGED <<pinvars, focus>>

\* gpioSetup, which finds the registers or does not.
MapsRegisters == GpioSetup /\ (SetUpPins \/ NotSetUp) /\ UNCHANGED focus

\* One access of a register by the daemon.  A pull of sysfs fails, and logs it.
DaemonAccess ==
  /\ pc = "pins"
  /\ IF board = "sysfs" /\ Does(Daemon, "pull")
     THEN PullFails(Daemon) /\ PullLogs
     ELSE Access(Daemon) /\ UNCHANGED vars
  /\ UNCHANGED focus

GoesOn == PinsSet /\ PinsSetUp /\ UNCHANGED focus

GivesUp == PinsNotSet /\ setup = "failed" /\ UNCHANGED <<pinvars, focus>>

\* A signal in between ends the process with its pins half set.
IsTerminated ==
  /\ Terminated /\ UNCHANGED focus
  /\ \/ setup = "before" /\ UNCHANGED pinvars
     \/ Kill(Daemon)

\* gpio, started by anyone, at any moment.
ToolRuns ==
  /\ focus = "pins"
  /\ \E t \in Tools : \/ Access(t) \/ Kill(t) \/ ReadAllCommand(t)
                      \/ \E p \in PinsGiven : Tool(t, p)
  /\ UNCHANGED <<vars, focus>>

LoopRuns ==
  /\ focus = "descriptors" /\ setup = "done" /\ Next
  /\ UNCHANGED <<pinvars, focus>>

NextSetup ==
  \/ Starts \/ MapsRegisters \/ DaemonAccess \/ GoesOn \/ GivesUp \/ IsTerminated
  \/ ToolRuns \/ LoopRuns

SpecSetup == InitSetup /\ [][NextSetup]_setupvars

\* Type invariant of both: descriptors keep their bound, registers hold a code for
\* each pin.
SetupTypeOK == TypeOK /\ PinsTypeOK
=============================================================================
