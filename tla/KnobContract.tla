---------------------------- MODULE KnobContract ----------------------------
(***************************************************************************)
(* What the program promises the user of the knob (README.md of the        *)
(* repository: "Volume up, Volume Down by rotating encoder and Mute by     *)
(* pressing encoder"): every detent turned gives exactly one command of    *)
(* its direction, every push of the button one mutetoggle, and nothing     *)
(* else gives a command.  Once it is told to stop it gives no volume       *)
(* command, and at most one mutetoggle for a button it saw pushed.         *)
(***************************************************************************)
CONSTANT Volume                 \* the commands that a detent turned can give

VARIABLES
  due,       \* the volume command owed for the detent turned last, or "none"
  released,  \* a push of the button is not reported yet
  stopped,   \* the program was told to stop
  cmd        \* the command given by the last step, or "none"

vars == <<due, released, stopped, cmd>>

Init == due = "none" /\ released = FALSE /\ stopped = FALSE /\ cmd = "none"

Turn(v) ==
  /\ ~stopped /\ due = "none"
  /\ due' = v /\ cmd' = "none"
  /\ UNCHANGED <<released, stopped>>

Release ==
  /\ ~stopped /\ ~released
  /\ released' = TRUE /\ cmd' = "none"
  /\ UNCHANGED <<due, stopped>>

ReportTurn ==
  /\ due \in Volume
  /\ cmd' = due /\ due' = "none"
  /\ UNCHANGED <<released, stopped>>

ReportPush ==
  /\ released
  /\ cmd' = "mutetoggle" /\ released' = FALSE
  /\ UNCHANGED <<due, stopped>>

Stop ==
  /\ ~stopped
  /\ stopped' = TRUE /\ due' = "none" /\ cmd' = "none"
  /\ released' \in BOOLEAN

\* A step that gives no command.
Quiet == cmd' = "none" /\ UNCHANGED <<due, released, stopped>>

Next ==
  \/ \E v \in Volume : Turn(v)
  \/ Release \/ ReportTurn \/ ReportPush \/ Stop \/ Quiet

Safety == Init /\ [][Next]_vars

Spec == Safety /\ WF_vars(ReportTurn) /\ WF_vars(ReportPush)
=============================================================================
