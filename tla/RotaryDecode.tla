---------------------------- MODULE RotaryDecode ----------------------------
(***************************************************************************)
(* The sampling half of main_loop (RotaryEncoder.c) with digitalRead and   *)
(* gpioShutdown (GPIO_Pi.c), and the rotary encoder it reads: two contacts *)
(* that make a quadrature signal and a push button, all with pull-ups.     *)
(*                                                                         *)
(* One tick of time is the short sleep (500 us).  A pass of the loop takes *)
(* no time but its sleep; the knob may move between any two of its reads.  *)
(***************************************************************************)
EXTENDS Integers

CONSTANTS
  ClkPin, DtPin, SwPin,  \* the pins the encoder is wired to
  P_CLK, P_DT, P_SW,     \* the pins the program was told: _p_clk, _p_dt, _p_sw
  QT_CNT,                \* short sleeps after the last edge (500)
  SlowWait,              \* ticks of the long sleep (10)
  CntMax,                \* INT_MAX, where cnt is set back
  MinPhase, MaxPhase,    \* ticks between two contact changes of one detent
  MinPress,              \* ticks the button stays up or down at least
  MaxSignals             \* bound: SIGINT / SIGTERM delivered

ASSUME RotaryDecodeAssumption ==
  /\ {QT_CNT, SlowWait, CntMax, MinPhase, MaxPhase, MinPress} \subseteq Nat \ {0}
  /\ QT_CNT < CntMax /\ MinPhase <= MaxPhase
  /\ MaxSignals \in Nat
  /\ {ClkPin, DtPin, SwPin, P_CLK, P_DT, P_SW} \subseteq 2 .. 27

VARIABLES
  pos, dir,    \* quarter turn since the last detent (0 at one), its direction
  age, since,  \* ticks since pos, and since the clock contact, changed
  button, hold, \* 0 while pushed, ticks since it changed
  pc,          \* where the pass is
  nap,         \* ticks left to sleep
  cnt, clk, sw, \* locals of main_loop
  ever, FOREVER, signals, \* _ever of GPIO_Pi.c, the loop flag, signals so far
  due, released, cmd \* history: what is owed to the user, last command given

knob == <<pos, dir, age, since>>
push == <<button, hold>>
prog == <<cnt, clk, sw>>
run == <<ever, FOREVER, signals>>
owed == <<due, released>>
vars == <<knob, push, pc, nap, prog, run, owed, cmd>>

Volume == {"volumeup", "volumedown"}

-----------------------------------------------------------------------------
(* The encoder.  Clockwise the contacts go (1,1) (0,1) (0,0) (1,0) (1,1).  *)

Clk(p) == IF p \in {1, 2} THEN 0 ELSE 1
Dt(p) == IF p \in {2, 3} THEN 0 ELSE 1

\* A pin nothing is wired to is pulled up.
Level(pin) ==
  IF pin = ClkPin THEN Clk(pos)
  ELSE IF pin = DtPin THEN Dt(pos)
  ELSE IF pin = SwPin THEN button ELSE 1

AtDetent == pos = 0

\* The knob is turned on; it turns back only at a detent.  The command is owed
\* from the moment the clock contact opens.
Turn(d) ==
  /\ age >= MinPhase
  /\ AtDetent \/ d = dir
  /\ dir' = d
  /\ pos' = (pos + d + 4) % 4
  /\ age' = 0
  /\ since' = IF Clk(pos') = Clk(pos) THEN since ELSE 0
  /\ due' = IF Clk(pos') <= Clk(pos) THEN due
            ELSE IF d = 1 THEN "volumeup" ELSE "volumedown"
  /\ cmd' = "none"
  /\ UNCHANGED <<push, pc, nap, prog, run, released>>

Push ==
  /\ hold >= MinPress
  /\ button' = 1 - button /\ hold' = 0
  /\ released' = (released \/ button' = 1)
  /\ cmd' = "none"
  /\ UNCHANGED <<knob, pc, nap, prog, run, due>>

\* The knob rests at a detent only: in between it moves on within MaxPhase.
MustTurn == ~AtDetent /\ age >= MaxPhase

\* Ages are followed as far as something depends on them.
Older(a, limit) == IF a < limit THEN a + 1 ELSE a

Tick ==
  /\ pc = "asleep" /\ nap > 0 /\ ~MustTurn
  /\ nap' = nap - 1
  /\ age' = Older(age, MaxPhase)
  /\ since' = Older(since, 2 * MaxPhase)
  /\ hold' = Older(hold, MinPress)
  /\ cmd' = "none"
  /\ UNCHANGED <<pos, dir, button, pc, prog, run, owed>>

-----------------------------------------------------------------------------
(* GPIO_Pi.c *)

GPIO_ERR_NOT_SETUP == -2

\* digitalRead of a valid pin.
DigitalRead(pin) == IF ever THEN Level(pin) ELSE GPIO_ERR_NOT_SETUP

-----------------------------------------------------------------------------
(* main_loop *)

Init ==
  /\ pos = 0 /\ dir = 1 /\ age = MaxPhase /\ since = 2 * MaxPhase
  /\ button \in {0, 1} /\ hold = MinPress * button
  /\ pc = "test" /\ nap = 0
  /\ cnt = QT_CNT /\ clk = 1 /\ sw = 1
  /\ ever = TRUE /\ FOREVER = TRUE /\ signals = 0
  /\ due = "none" /\ released = FALSE /\ cmd = "none"

\* while (FOREVER)
Test ==
  /\ pc = "test"
  /\ pc' = IF FOREVER THEN "clk" ELSE "stopped"
  /\ cmd' = "none"
  /\ UNCHANGED <<knob, push, nap, prog, run, owed>>

\* Mutant: the edge does not speed up the polling.
ReadClk_StaysSlow ==
  /\ pc = "clk"
  /\ IF DigitalRead(P_CLK) # clk
     THEN clk' = 1 - clk /\ pc' = "dt"
     ELSE UNCHANGED clk /\ pc' = "sw"
  /\ cmd' = "none"
  /\ UNCHANGED <<knob, push, nap, cnt, sw, run, owed>>

ReadClk ==
  /\ pc = "clk"
  /\ IF DigitalRead(P_CLK) # clk
     THEN clk' = 1 - clk /\ cnt' = 0 /\ pc' = "dt"
     ELSE UNCHANGED <<clk, cnt>> /\ pc' = "sw"
  /\ cmd' = "none"
  /\ UNCHANGED <<knob, push, nap, sw, run, owed>>

\* The command for the state of the two contacts after an edge of the clock.
Decode(c, d) ==
  IF c = 1 /\ d = 1 THEN "volumedown" ELSE IF c = 1 /\ d = 0 THEN "volumeup" ELSE "none"

ReadDt ==
  /\ pc = "dt"
  /\ cmd' = Decode(clk, DigitalRead(P_DT))
  /\ due' = IF cmd' = "none" THEN due ELSE "none"
  /\ pc' = "sw"
  /\ UNCHANGED <<knob, push, nap, prog, run, released>>

ReadSw ==
  /\ pc = "sw"
  /\ IF DigitalRead(P_SW) # sw
     THEN /\ sw' = 1 - sw /\ cnt' = 0
          /\ IF sw' = 1
             THEN cmd' = "mutetoggle" /\ released' = FALSE
             ELSE cmd' = "none" /\ UNCHANGED released
     ELSE UNCHANGED <<sw, cnt, released>> /\ cmd' = "none"
  /\ pc' = "pause"
  /\ UNCHANGED <<knob, push, nap, clk, run, due>>

\* Mutant: cnt runs on.
NextCnt_RunsOn == cnt + 1

\* cnt++ and its reset.
NextCnt == IF cnt >= QT_CNT /\ cnt + 1 >= CntMax THEN QT_CNT ELSE cnt + 1

\* The sleep at the end of a pass.
Sleep ==
  /\ pc = "pause"
  /\ cnt' = NextCnt
  /\ nap' = IF cnt < QT_CNT THEN 1 ELSE SlowWait
  /\ pc' = "asleep" /\ cmd' = "none"
  /\ UNCHANGED <<knob, push, clk, sw, run, owed>>

Wake ==
  /\ pc = "asleep" /\ nap = 0
  /\ pc' = "test" /\ cmd' = "none"
  /\ UNCHANGED <<knob, push, nap, prog, run, owed>>

\* intHandler: gpioShutdown, then the loop flag.  The handler runs on this
\* thread, between two of its steps, and ends its sleep.
Signal ==
  /\ pc # "stopped" /\ signals < MaxSignals
  /\ signals' = signals + 1
  /\ ever' = FALSE /\ FOREVER' = FALSE
  /\ nap' = 0 /\ cmd' = "none"
  /\ UNCHANGED <<knob, push, pc, prog, owed>>

Program == Test \/ ReadClk \/ ReadDt \/ ReadSw \/ Sleep \/ Wake

Next ==
  \/ Program \/ Tick \/ Signal
  \/ \E d \in {1, -1} : Turn(d)
  \/ Push

\* The thread runs, time passes, and a knob that cannot rest moves on.
Fairness ==
  /\ WF_vars(Program) /\ WF_vars(Tick)
  /\ WF_vars(MustTurn /\ Turn(dir))

Spec == Init /\ [][Next]_vars /\ Fairness

-----------------------------------------------------------------------------
\* Type invariant.
DecodeTypeOK ==
  /\ pos \in 0 .. 3 /\ dir \in {1, -1}
  /\ age \in 0 .. MaxPhase /\ since \in 0 .. 2 * MaxPhase
  /\ button \in {0, 1} /\ hold \in 0 .. MinPress
  /\ pc \in {"test", "clk", "dt", "sw", "pause", "asleep", "stopped"}
  /\ nap \in Nat
  /\ cnt \in 0 .. CntMax /\ clk \in {0, 1} /\ sw \in {0, 1}
  /\ ever \in BOOLEAN /\ FOREVER \in BOOLEAN /\ signals \in 0 .. MaxSignals
  /\ due \in Volume \cup {"none"} /\ released \in BOOLEAN
  /\ cmd \in Volume \cup {"none", "mutetoggle"}

\* What the contract rests on.  The program was told the pins the encoder is
\* wired to; a contact stays as it is for longer than a short sleep, two of them
\* for longer than a long one; the fast polling outlasts half a detent; and a
\* push lasts longer than the long sleep.
Wired ==
  /\ P_CLK = ClkPin /\ P_DT = DtPin /\ P_SW = SwPin
  /\ ClkPin # DtPin /\ ClkPin # SwPin /\ DtPin # SwPin

Timing ==
  /\ MinPhase > 1 /\ 2 * MinPhase > SlowWait
  /\ QT_CNT > 2 * MaxPhase /\ MinPress > SlowWait

\* A pass that a signal interrupts finds the button "released" in its read of
\* the switch, if it saw it pushed.
Contract == INSTANCE KnobContract WITH
  stopped  <- ~ever,
  due      <- IF ever THEN due ELSE "none",
  released <- IF ever THEN released ELSE sw = 0 /\ pc \in {"clk", "dt", "sw"}

\* Every detent turned gives exactly one command, in its direction and before
\* the next one, and every push one mutetoggle, although the loop only samples
\* the contacts and samples them slowly until it sees an edge; and a signal in
\* the middle of a pass makes up no volume command (RotaryEncoder.c:229-257).
ImplementsContract == Contract!Spec

\* "It supports Volume up, Volume Down by rotating encoder and Mute by pressing
\* encoder." (README.md:4): a volume command is only given when the knob was
\* turned since the last one.
VolumeOnlyIfTurned == [][cmd' \in Volume => due # "none"]_vars
=============================================================================
