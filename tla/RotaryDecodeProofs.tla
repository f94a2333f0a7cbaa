------------------------- MODULE RotaryDecodeProofs -------------------------
(* The sampling loop keeps the safety part of the contract for every       *)
(* timing of the encoder, the sleeps and the counter that Timing allows.   *)
EXTENDS RotaryDecode, TLAPS

\* A move of the knob, without the modulus.
LEMMA Quarter ==
  ASSUME NEW p \in 0 .. 3
  PROVE  /\ (p + 1 + 4) % 4 = IF p = 3 THEN 0 ELSE p + 1
         /\ (p + (-1) + 4) % 4 = IF p = 0 THEN 3 ELSE p - 1
<1>1. CASE p = 0  BY <1>1
<1>2. CASE p = 1  BY <1>2
<1>3. CASE p = 2  BY <1>3
<1>4. CASE p = 3  BY <1>4
<1>5. QED BY <1>1, <1>2, <1>3, <1>4

LEMMA Moves ==
  ASSUME pos \in 0 .. 3, NEW d \in {1, -1}, Turn(d)
  PROVE  \/ d = 1 /\ pos' = (IF pos = 3 THEN 0 ELSE pos + 1)
         \/ d = -1 /\ pos' = (IF pos = 0 THEN 3 ELSE pos - 1)
<1>1. pos' = (pos + d + 4) % 4
  BY DEF Turn
<1>2. CASE d = 1
  BY <1>1, <1>2, Quarter
<1>3. CASE d = -1
  BY <1>1, <1>3, Quarter
<1>4. QED BY <1>2, <1>3

LEMMA Constants ==
  /\ QT_CNT \in Nat /\ QT_CNT > 0 /\ SlowWait \in Nat /\ SlowWait > 0
  /\ CntMax \in Nat /\ QT_CNT < CntMax
  /\ MinPhase \in Nat /\ MinPhase > 0 /\ MaxPhase \in Nat /\ MinPhase <= MaxPhase
  /\ MinPress \in Nat /\ MinPress > 0 /\ MaxSignals \in Nat
BY RotaryDecodeAssumption

-----------------------------------------------------------------------------
(* Types, in groups that the steps disturb one at a time. *)

KnobTypes ==
  /\ pos \in 0 .. 3 /\ dir \in {1, -1}
  /\ age \in 0 .. MaxPhase /\ since \in 0 .. 2 * MaxPhase

PushTypes == button \in {0, 1} /\ hold \in 0 .. MinPress

PassTypes ==
  /\ pc \in {"test", "clk", "dt", "sw", "pause", "asleep", "stopped"}
  /\ nap \in Nat
  /\ cnt \in 0 .. CntMax /\ clk \in {0, 1} /\ sw \in {0, 1}

RunTypes == ever \in BOOLEAN /\ FOREVER \in BOOLEAN /\ signals \in 0 .. MaxSignals

OwedTypes ==
  /\ due \in Volume \cup {"none"} /\ released \in BOOLEAN
  /\ cmd \in Volume \cup {"none", "mutetoggle"}

LEMMA Groups ==
  DecodeTypeOK <=> KnobTypes /\ PushTypes /\ PassTypes /\ RunTypes /\ OwedTypes
BY Zenon DEF DecodeTypeOK, KnobTypes, PushTypes, PassTypes, RunTypes, OwedTypes

LEMMA KnobTypesStep ==
  ASSUME KnobTypes, [Next]_vars
  PROVE  KnobTypes'
<1>1. CASE Program
  BY <1>1 DEF Program, Test, ReadClk, ReadDt, ReadSw, Sleep, Wake, knob, KnobTypes
<1>2. CASE Tick
  BY <1>2, Constants DEF Tick, Older, KnobTypes
<1>3. CASE Signal \/ Push \/ UNCHANGED vars
  BY <1>3 DEF Signal, Push, vars, knob, KnobTypes
<1>4. ASSUME NEW d \in {1, -1}, Turn(d) PROVE KnobTypes'
  <2>1. pos' \in 0 .. 3
    BY <1>4, Moves DEF KnobTypes
  <2>2. QED BY <1>4, <2>1, Constants DEF Turn, KnobTypes
<1>5. QED BY <1>1, <1>2, <1>3, <1>4 DEF Next

LEMMA PushTypesStep ==
  ASSUME PushTypes, [Next]_vars
  PROVE  PushTypes'
<1>1. CASE Program
  BY <1>1 DEF Program, Test, ReadClk, ReadDt, ReadSw, Sleep, Wake, push, PushTypes
<1>2. CASE Tick
  BY <1>2, Constants DEF Tick, Older, PushTypes
<1>3. CASE Push
  BY <1>3, Constants DEF Push, PushTypes
<1>4. CASE Signal \/ (\E d \in {1, -1} : Turn(d)) \/ UNCHANGED vars
  BY <1>4 DEF Signal, Turn, vars, push, PushTypes
<1>5. QED BY <1>1, <1>2, <1>3, <1>4 DEF Next

LEMMA PassTypesStep ==
  ASSUME PassTypes, [Next]_vars
  PROVE  PassTypes'
<1>1. CASE Test
  BY <1>1 DEF Test, prog, PassTypes
<1>2. CASE ReadClk
  BY <1>2, Constants DEF ReadClk, PassTypes
<1>3. CASE ReadDt
  BY <1>3 DEF ReadDt, prog, PassTypes
<1>4. CASE ReadSw
  BY <1>4, Constants DEF ReadSw, PassTypes
<1>5. CASE Sleep
  BY <1>5, Constants DEF Sleep, NextCnt, PassTypes
<1>6. CASE Wake
  BY <1>6 DEF Wake, prog, PassTypes
<1>7. CASE Tick
  BY <1>7 DEF Tick, prog, PassTypes
<1>8. CASE Signal
  BY <1>8 DEF Signal, prog, PassTypes
<1>9. CASE Push \/ (\E d \in {1, -1} : Turn(d)) \/ UNCHANGED vars
  BY <1>9 DEF Push, Turn, vars, prog, PassTypes
<1>10. QED
  BY <1>1, <1>2, <1>3, <1>4, <1>5, <1>6, <1>7, <1>8, <1>9 DEF Next, Program

LEMMA RunTypesStep ==
  ASSUME RunTypes, [Next]_vars
  PROVE  RunTypes'
<1>1. CASE Signal
  <2>1. signals' \in 0 .. MaxSignals
    BY <1>1, Constants DEF Signal, RunTypes
  <2>2. ever' = FALSE /\ FOREVER' = FALSE
    BY <1>1 DEF Signal
  <2>3. QED BY <2>1, <2>2, Zenon DEF RunTypes
<1>2. CASE Program
  BY <1>2 DEF Program, Test, ReadClk, ReadDt, ReadSw, Sleep, Wake, run, RunTypes
<1>3. CASE Tick \/ Push \/ (\E d \in {1, -1} : Turn(d)) \/ UNCHANGED vars
  BY <1>3 DEF Tick, Push, Turn, vars, run, RunTypes
<1>4. QED BY <1>1, <1>2, <1>3 DEF Next

LEMMA DueType ==
  ASSUME OwedTypes, [Next]_vars
  PROVE  due' \in Volume \cup {"none"} /\ cmd' \in Volume \cup {"none", "mutetoggle"}
<1>1. CASE ReadDt
  BY <1>1 DEF ReadDt, Decode, Volume, OwedTypes
<1>2. CASE ReadSw
  BY <1>2 DEF ReadSw, OwedTypes
<1>3. CASE Test \/ ReadClk \/ Sleep \/ Wake \/ Tick \/ Signal
  BY <1>3 DEF Test, ReadClk, Sleep, Wake, Tick, Signal, owed, OwedTypes
<1>4. CASE Push
  BY <1>4 DEF Push, OwedTypes
<1>5. ASSUME NEW d \in {1, -1}, Turn(d)
      PROVE  due' \in Volume \cup {"none"} /\ cmd' \in Volume \cup {"none", "mutetoggle"}
  BY <1>5 DEF Turn, Volume, OwedTypes
<1>6. CASE UNCHANGED vars
  BY <1>6 DEF vars, owed, OwedTypes
<1>7. QED BY <1>1, <1>2, <1>3, <1>4, <1>5, <1>6 DEF Next, Program

LEMMA ReleasedType ==
  ASSUME OwedTypes, [Next]_vars
  PROVE  released' \in BOOLEAN
<1>0. released \in BOOLEAN
  BY Zenon DEF OwedTypes
<1>1. CASE ReadSw
  <2>1. released' = released \/ released' = FALSE
    BY <1>1, Zenon DEF ReadSw
  <2>2. QED BY <1>0, <2>1, Zenon
<1>2. CASE Push
  <2>1. released' = (released \/ button' = 1)
    BY <1>2 DEF Push
  <2>2. QED BY <2>1, Zenon
<1>3. CASE Test \/ ReadClk \/ ReadDt \/ Sleep \/ Wake \/ Tick \/ Signal
           \/ (\E d \in {1, -1} : Turn(d)) \/ UNCHANGED vars
  <2>1. released' = released
    BY <1>3 DEF Test, ReadClk, ReadDt, Sleep, Wake, Tick, Signal, Turn, vars, owed
  <2>2. QED BY <1>0, <2>1, Zenon
<1>4. QED BY <1>1, <1>2, <1>3, Zenon DEF Next, Program

\* Type invariant of RotaryDecode: cnt, which counts every idle pass, never
\* exceeds CntMax (RotaryEncoder.c:251-256).
THEOREM DecodeTypeCorrect == Spec => []DecodeTypeOK
<1>1. Init => DecodeTypeOK
  <2>1. Init => KnobTypes /\ PushTypes /\ PassTypes
    BY Constants DEF Init, KnobTypes, PushTypes, PassTypes
  <2>2. Init => RunTypes
    BY Constants DEF Init, RunTypes
  <2>3. Init => OwedTypes
    BY DEF Init, OwedTypes
  <2>4. QED BY <2>1, <2>2, <2>3, Groups
<1>2. DecodeTypeOK /\ [Next]_vars => DecodeTypeOK'
  <2> SUFFICES ASSUME DecodeTypeOK, [Next]_vars PROVE DecodeTypeOK'
    OBVIOUS
  <2>1. KnobTypes /\ PushTypes /\ PassTypes /\ RunTypes /\ OwedTypes
    BY Groups
  <2>2. KnobTypes' /\ PushTypes' /\ PassTypes' /\ RunTypes'
    BY <2>1, KnobTypesStep, PushTypesStep, PassTypesStep, RunTypesStep
  <2>3. OwedTypes'
    BY <2>1, DueType, ReleasedType, Zenon DEF OwedTypes
  <2>4. QED BY <2>2, <2>3, Groups, PTL
<1>3. QED BY <1>1, <1>2, PTL DEF Spec
-----------------------------------------------------------------------------
(* The inductive invariant.  A contact is "seen" when the program's copy of *)
(* it agrees with it.                                                       *)

Safe == Contract!Safety

\* The loop flags agree, and only a pass that sleeps has sleep left.
PassInv ==
  /\ FOREVER = ever
  /\ pc # "asleep" => nap = 0
  /\ nap <= SlowWait

\* The first and the second of the two phases in which the clock is closed.
First == (pos = 1 /\ dir = 1) \/ (pos = 2 /\ dir = -1)
Second == (pos = 2 /\ dir = 1) \/ (pos = 1 /\ dir = -1)

PhaseInv ==
  /\ First => since = age
  /\ Second => age + MinPhase <= since /\ since <= age + MaxPhase

\* Past the read of the clock in this pass.
Past == {"dt", "sw", "pause"}

DueIsRight == (pos = 3 /\ due = "volumeup") \/ (pos = 0 /\ due = "volumedown")

\* The closing of the clock is seen within a long sleep; its opening within a
\* short one, before the data contact can change.
ClosedUnseen ==
  Clk(pos) = 0 /\ clk = 1 => since + nap <= SlowWait /\ (pc \in Past => since = 0)
ClosedSeen == Clk(pos) = 0 /\ clk = 0 => nap <= 1 /\ cnt <= since + nap
OpenUnseen ==
  Clk(pos) = 1 /\ clk = 0 =>
    /\ age = since /\ since + nap <= 1 /\ DueIsRight
    /\ pc \in Past => since = 0 /\ cnt < QT_CNT
OpenSeen == pc = "dt" /\ clk = 1 => Clk(pos) = 1 /\ age <= 1 /\ DueIsRight
NothingElseDue == due # "none" => Clk(pos) = 1 /\ (clk = 0 \/ pc = "dt")

ClockInv == ClosedUnseen /\ ClosedSeen /\ OpenUnseen /\ OpenSeen /\ NothingElseDue

ButtonInv ==
  /\ sw # button => hold + nap <= SlowWait /\ (pc = "pause" => hold = 0)
  /\ released <=> sw = 0 /\ button = 1

IInv == PassInv /\ PhaseInv /\ (ever => ClockInv /\ ButtonInv)

LEMMA PassStep ==
  ASSUME DecodeTypeOK, PassInv, [Next]_vars
  PROVE  PassInv'
<1>n. nap \in Nat
  BY Groups DEF PassTypes
<1>1. CASE Signal
  <2>1. FOREVER' = ever' /\ nap' = 0
    BY <1>1, Zenon DEF Signal
  <2>2. QED BY <2>1, Constants DEF PassInv
<1>2. CASE Sleep
  BY <1>2, Constants DEF Sleep, run, PassInv
<1>3. CASE Tick
  BY <1>3, <1>n, Constants DEF Tick, run, PassInv
<1>4. CASE Test \/ ReadClk \/ ReadDt \/ ReadSw \/ Wake
  BY <1>4 DEF Test, ReadClk, ReadDt, ReadSw, Wake, run, PassInv
<1>5. CASE Push \/ (\E d \in {1, -1} : Turn(d)) \/ UNCHANGED vars
  BY <1>5 DEF Push, Turn, vars, run, PassInv
<1>6. QED BY <1>1, <1>2, <1>3, <1>4, <1>5 DEF Next, Program

\* While the clock is closed neither age has reached its cap.
LEMMA PhaseStep ==
  ASSUME DecodeTypeOK, PhaseInv, [Next]_vars
  PROVE  PhaseInv'
<1>k. KnobTypes
  BY Groups
<1>1. CASE Tick
  <2>1. CASE First
    <3>1. age < MaxPhase
      BY <1>1, <1>k, <2>1, Constants DEF Tick, MustTurn, AtDetent, First, KnobTypes
    <3>2. QED BY <1>1, <1>k, <2>1, <3>1, Constants
          DEF Tick, Older, PhaseInv, First, Second, KnobTypes
  <2>2. CASE Second
    <3>1. age < MaxPhase
      BY <1>1, <1>k, <2>2, Constants DEF Tick, MustTurn, AtDetent, Second, KnobTypes
    <3>2. QED BY <1>1, <1>k, <2>2, <3>1, Constants
          DEF Tick, Older, PhaseInv, First, Second, KnobTypes
  <2>3. CASE ~First /\ ~Second
    BY <1>1, <2>3 DEF Tick, PhaseInv, First, Second
  <2>4. QED BY <2>1, <2>2, <2>3
<1>2. ASSUME NEW d \in {1, -1}, Turn(d) PROVE PhaseInv'
  <2>1. \/ d = 1 /\ pos' = (IF pos = 3 THEN 0 ELSE pos + 1)
        \/ d = -1 /\ pos' = (IF pos = 0 THEN 3 ELSE pos - 1)
    BY <1>2, <1>k, Moves DEF KnobTypes
  <2>2. /\ age >= MinPhase /\ (pos = 0 \/ d = dir) /\ dir' = d /\ age' = 0
        /\ since' = IF Clk(pos') = Clk(pos) THEN since ELSE 0
    BY <1>2 DEF Turn, AtDetent
  <2>3. First' => since' = age'
    BY <1>k, <2>1, <2>2 DEF First, Clk, KnobTypes
  <2>4. Second' => age' + MinPhase <= since' /\ since' <= age' + MaxPhase
    <3>1. Second' => First /\ since' = since
      BY <1>k, <2>1, <2>2 DEF First, Second, Clk, KnobTypes
    <3>2. QED BY <1>k, <2>2, <3>1, Constants DEF PhaseInv, KnobTypes
  <2>5. QED BY <2>3, <2>4 DEF PhaseInv
<1>3. CASE Program \/ Signal \/ Push \/ UNCHANGED vars
  BY <1>3 DEF Program, Test, ReadClk, ReadDt, ReadSw, Sleep, Wake, Signal, Push, vars,
              knob, PhaseInv, First, Second
<1>4. QED BY <1>1, <1>2, <1>3 DEF Next

\* What the reads return while the program runs.
LEMMA Reads ==
  ASSUME Wired, ever = TRUE
  PROVE  /\ DigitalRead(P_CLK) = Clk(pos)
         /\ DigitalRead(P_DT) = Dt(pos)
         /\ DigitalRead(P_SW) = button
BY DEF Wired, DigitalRead, Level

\* The clock is closed in the two phases of a detent and in no other.
LEMMA Closed ==
  ASSUME KnobTypes
  PROVE  /\ Clk(pos) = 0 <=> First \/ Second
         /\ Clk(pos) \in {0, 1}
BY DEF KnobTypes, Clk, First, Second

\* While it is closed and seen, the fast polling has not run out.
LEMMA StillFast ==
  ASSUME Timing, KnobTypes, PassTypes, PhaseInv, ClosedSeen,
         Clk(pos) = 0, clk = 0, pc # "asleep", PassInv
  PROVE  cnt <= since /\ cnt < QT_CNT
<1>1. since <= 2 * MaxPhase
  BY Closed, Constants DEF PhaseInv, KnobTypes
<1>2. QED BY <1>1, Constants DEF Timing, ClosedSeen, PassInv, PassTypes, KnobTypes

\* Nothing is read too late: the knob turns on from an opening that was seen, and
\* the clock opens after a closing that was seen.
LEMMA TurnFree ==
  ASSUME Timing, KnobTypes, PassTypes, PassInv, PhaseInv, ClockInv,
         NEW d \in {1, -1}, Turn(d)
  PROVE  /\ ~(Clk(pos) = 1 /\ clk = 0) /\ ~(pc = "dt" /\ clk = 1)
         /\ ~(Second /\ clk = 1)
         /\ due = "none"
<1>1. age >= MinPhase
  BY DEF Turn
<1>2. ~(Clk(pos) = 1 /\ clk = 0) /\ ~(pc = "dt" /\ clk = 1)
  BY <1>1, Constants DEF Timing, ClockInv, OpenUnseen, OpenSeen, KnobTypes, PassTypes
<1>3. ~(Second /\ clk = 1)
  BY <1>1, Closed, Constants
     DEF Timing, ClockInv, ClosedUnseen, PhaseInv, KnobTypes, PassTypes
<1>4. due = "none"
  BY <1>2, Closed DEF ClockInv, NothingElseDue, PassTypes
<1>5. QED BY <1>2, <1>3, <1>4

\* The knob moves.
LEMMA ClockTurn ==
  ASSUME Timing, KnobTypes, PassTypes, PassInv, PhaseInv, ClockInv,
         NEW d \in {1, -1}, Turn(d)
  PROVE  ClockInv'
<1>1. \/ d = 1 /\ pos' = (IF pos = 3 THEN 0 ELSE pos + 1)
      \/ d = -1 /\ pos' = (IF pos = 0 THEN 3 ELSE pos - 1)
  BY Moves DEF KnobTypes
<1>2. /\ age >= MinPhase /\ (pos = 0 \/ d = dir) /\ dir' = d /\ age' = 0
      /\ since' = (IF Clk(pos') = Clk(pos) THEN since ELSE 0)
      /\ due' = (IF Clk(pos') <= Clk(pos) THEN due
                 ELSE IF d = 1 THEN "volumeup" ELSE "volumedown")
      /\ UNCHANGED <<pc, nap, cnt, clk>>
  BY DEF Turn, AtDetent, prog
<1>3. ~(Clk(pos) = 1 /\ clk = 0) /\ ~(pc = "dt" /\ clk = 1)
  BY TurnFree
<1>4. ~(Second /\ clk = 1)
  BY TurnFree
<1>5. due = "none"
  BY TurnFree
<1>6. CASE Clk(pos) = 1 /\ Clk(pos') = 1
  <2>1. clk = 1 /\ due' = "none" /\ since' = since
    BY <1>2, <1>3, <1>5, <1>6 DEF PassTypes
  <2>2. QED BY <1>2, <1>3, <1>6, <2>1
        DEF ClockInv, ClosedUnseen, ClosedSeen, OpenUnseen, OpenSeen, NothingElseDue
<1>7. CASE Clk(pos) = 1 /\ Clk(pos') = 0
  <2>1. clk = 1 /\ due' = "none" /\ since' = 0
    BY <1>2, <1>3, <1>5, <1>7 DEF PassTypes
  <2>2. QED BY <1>2, <1>3, <1>7, <2>1, Constants
        DEF ClockInv, ClosedUnseen, ClosedSeen, OpenUnseen, OpenSeen, NothingElseDue,
            PassInv, PassTypes
<1>8. CASE Clk(pos) = 0 /\ Clk(pos') = 0
  <2>1. due' = "none" /\ since' = since
    BY <1>2, <1>5, <1>8
  <2>2. QED BY <1>2, <1>3, <1>8, <2>1
        DEF ClockInv, ClosedUnseen, ClosedSeen, OpenUnseen, OpenSeen, NothingElseDue
<1>9. CASE Clk(pos) = 0 /\ Clk(pos') = 1
  <2>1. Second
    BY <1>1, <1>2, <1>9 DEF Second, Clk, KnobTypes
  <2>2. clk = 0 /\ since' = 0
    BY <1>2, <1>4, <1>9, <2>1 DEF PassTypes
  <2>3. DueIsRight'
    BY <1>1, <1>2, <1>9, <2>1 DEF DueIsRight, Clk, Second, KnobTypes
  <2>4. pc \in Past => cnt < QT_CNT
    BY <1>9, <2>2, StillFast DEF Past, ClockInv
  <2>5. nap <= 1
    BY <1>9, <2>2 DEF ClockInv, ClosedSeen
  <2>6. QED BY <1>2, <1>9, <2>2, <2>3, <2>4, <2>5
        DEF ClockInv, ClosedUnseen, ClosedSeen, OpenUnseen, OpenSeen, NothingElseDue,
            PassTypes
<1>10. Clk(pos) \in {0, 1} /\ Clk(pos') \in {0, 1}
  BY DEF Clk
<1>11. QED BY <1>6, <1>7, <1>8, <1>9, <1>10

\* Time passes.
LEMMA ClockTick ==
  ASSUME Timing, KnobTypes, PassTypes, PhaseInv, ClockInv, Tick
  PROVE  ClockInv'
<1>1. /\ pc = "asleep" /\ nap > 0 /\ nap' = nap - 1
      /\ age' = Older(age, MaxPhase) /\ since' = Older(since, 2 * MaxPhase)
      /\ UNCHANGED <<pos, pc, cnt, clk, due>>
  BY DEF Tick, prog, owed
<1>2. since' <= since + 1
  BY <1>1 DEF Older, KnobTypes
<1>3. ClosedUnseen'
  BY <1>1, <1>2, Constants
     DEF ClockInv, ClosedUnseen, Past, Clk, Older, KnobTypes, PassTypes
<1>4. ClosedSeen'
  <2>1. CASE Clk(pos) = 0
    <3>1. age < MaxPhase
      BY <2>1, Constants DEF Tick, MustTurn, AtDetent, Clk, KnobTypes
    <3>2. since < 2 * MaxPhase
      BY <2>1, <3>1, Closed, Constants DEF PhaseInv, KnobTypes
    <3>3. QED BY <1>1, <2>1, <3>2, Constants
          DEF ClockInv, ClosedSeen, Clk, Older, KnobTypes, PassTypes
  <2>2. CASE Clk(pos) # 0
    BY <1>1, <2>2 DEF ClosedSeen, Clk
  <2>3. QED BY <2>1, <2>2
<1>5. OpenUnseen'
  BY <1>1, Constants
     DEF ClockInv, OpenUnseen, DueIsRight, Past, Clk, Older, KnobTypes, PassTypes
<1>6. OpenSeen' /\ NothingElseDue'
  BY <1>1 DEF ClockInv, OpenSeen, NothingElseDue, Clk
<1>7. QED BY <1>3, <1>4, <1>5, <1>6 DEF ClockInv

\* The program reads, decodes and sleeps.
LEMMA ClockProgram ==
  ASSUME Timing, Wired, ever = TRUE, FOREVER = TRUE,
         KnobTypes, PassTypes, PassInv, PhaseInv, ClockInv, Program
  PROVE  ClockInv'
<1>k. pos' = pos /\ age' = age /\ since' = since
  BY DEF Program, Test, ReadClk, ReadDt, ReadSw, Sleep, Wake, knob
<1>c. Clk(pos) \in {0, 1}
  BY DEF Clk
<1>1. CASE Test \/ Wake
  BY <1>1, <1>k
     DEF Test, Wake, prog, owed, ClockInv, ClosedUnseen, ClosedSeen, OpenUnseen, OpenSeen,
         NothingElseDue, DueIsRight, Past, Clk, PassInv
<1>2. CASE ReadClk
  <2>1. pc = "clk" /\ nap = 0 /\ nap' = 0 /\ due' = due /\ (pc' = "dt" \/ pc' = "sw")
    BY <1>2 DEF ReadClk, PassInv, owed
  <2>2. CASE Clk(pos) # clk
    <3>1. clk' = 1 - clk /\ cnt' = 0 /\ pc' = "dt" /\ clk' = Clk(pos)
      BY <1>2, <1>c, <2>2, Reads DEF ReadClk, PassTypes
    <3>2. Clk(pos') = Clk(pos)
      BY <1>k
    <3>3. OpenSeen' /\ NothingElseDue'
      BY <1>k, <1>c, <2>1, <2>2, <3>1, <3>2, Constants
         DEF ClockInv, OpenUnseen, OpenSeen, NothingElseDue, DueIsRight, KnobTypes, PassTypes
    <3>4. QED BY <1>k, <1>c, <2>1, <3>1, <3>2, <3>3
          DEF ClockInv, ClosedUnseen, ClosedSeen, OpenUnseen, KnobTypes
  <2>3. CASE Clk(pos) = clk
    <3>1. clk' = clk /\ cnt' = cnt /\ pc' = "sw"
      BY <1>2, <2>3, Reads DEF ReadClk
    <3>2. QED BY <1>k, <1>c, <2>1, <2>3, <3>1
          DEF ClockInv, ClosedUnseen, ClosedSeen, OpenUnseen, OpenSeen, NothingElseDue, Clk
  <2>4. QED BY <2>2, <2>3
<1>3. CASE ReadDt
  <2>1. /\ pc = "dt" /\ pc' = "sw" /\ UNCHANGED <<nap, cnt, clk>>
        /\ cmd' = Decode(clk, Dt(pos)) /\ due' = (IF cmd' = "none" THEN due ELSE "none")
    BY <1>3, Reads DEF ReadDt, prog
  <2>2. CASE clk = 1
    <3>1. Clk(pos) = 1 /\ DueIsRight
      BY <2>1, <2>2 DEF ClockInv, OpenSeen
    <3>2. due' = "none"
      BY <2>1, <2>2, <3>1 DEF Decode, Dt, DueIsRight
    <3>3. QED BY <1>k, <2>1, <2>2, <3>1, <3>2
          DEF ClockInv, ClosedUnseen, ClosedSeen, OpenUnseen, OpenSeen, NothingElseDue, Clk
  <2>3. CASE clk = 0
    <3>1. due' = due
      BY <2>1, <2>3 DEF Decode
    <3>2. QED BY <1>k, <2>1, <2>3, <3>1
          DEF ClockInv, ClosedUnseen, ClosedSeen, OpenUnseen, OpenSeen, NothingElseDue,
              DueIsRight, Past, Clk
  <2>4. QED BY <2>2, <2>3 DEF PassTypes
<1>4. CASE ReadSw
  <2>1. /\ pc = "sw" /\ pc' = "pause" /\ UNCHANGED <<nap, clk, due>>
        /\ cnt' = 0 \/ cnt' = cnt
    BY <1>4 DEF ReadSw
  <2>2. QED BY <1>k, <2>1, Constants
        DEF ClockInv, ClosedUnseen, ClosedSeen, OpenUnseen, OpenSeen, NothingElseDue,
            DueIsRight, Past, Clk, KnobTypes, PassTypes
<1>5. CASE Sleep
  <2>1. /\ pc = "pause" /\ pc' = "asleep" /\ nap = 0 /\ UNCHANGED <<clk, due>>
        /\ nap' = (IF cnt < QT_CNT THEN 1 ELSE SlowWait) /\ cnt' = NextCnt
    BY <1>5 DEF Sleep, PassInv, owed
  <2>2. nap' <= SlowWait
    BY <2>1, Constants
  <2>3. ClosedUnseen'
    BY <1>k, <2>1, <2>2, Constants DEF ClockInv, ClosedUnseen, Past, Clk
  <2>4. ClosedSeen'
    <3>1. CASE Clk(pos) = 0 /\ clk = 0
      <4>1. cnt <= since /\ cnt < QT_CNT
        BY <2>1, <3>1, StillFast DEF ClockInv
      <4>2. cnt' = cnt + 1 /\ nap' = 1
        BY <2>1, <4>1, Constants DEF NextCnt, PassTypes
      <4>3. QED BY <1>k, <4>1, <4>2 DEF ClosedSeen, KnobTypes, PassTypes
    <3>2. CASE ~(Clk(pos) = 0 /\ clk = 0)
      BY <1>k, <2>1, <3>2 DEF ClosedSeen, Clk
    <3>3. QED BY <3>1, <3>2
  <2>5. OpenUnseen'
    BY <1>k, <2>1 DEF ClockInv, OpenUnseen, DueIsRight, Past, Clk
  <2>6. OpenSeen' /\ NothingElseDue'
    BY <1>k, <2>1 DEF ClockInv, OpenSeen, NothingElseDue, Clk
  <2>7. QED BY <2>3, <2>4, <2>5, <2>6 DEF ClockInv
<1>6. QED BY <1>1, <1>2, <1>3, <1>4, <1>5 DEF Program

\* Once told to stop the program never runs again.
LEMMA EverStep ==
  ASSUME [Next]_vars, ever' = TRUE, RunTypes
  PROVE  ever = TRUE
<1>1. CASE Signal
  BY <1>1, Zenon DEF Signal
<1>2. CASE ~Signal
  <2>1. ever' = ever
    BY <1>2 DEF Next, Program, Test, ReadClk, ReadDt, ReadSw, Sleep, Wake, Tick, Push, Turn,
                run, vars
  <2>2. QED BY <2>1
<1>3. QED BY <1>1, <1>2

LEMMA ClockStep ==
  ASSUME Timing, Wired, ever = TRUE, ever' = TRUE, DecodeTypeOK, PassInv, PhaseInv, ClockInv,
         [Next]_vars
  PROVE  ClockInv'
<1>t. KnobTypes /\ PassTypes
  BY Groups
<1>1. CASE Program
  <2>1. FOREVER = TRUE
    BY DEF PassInv
  <2>2. QED BY <1>1, <1>t, <2>1, ClockProgram
<1>2. CASE Tick
  BY <1>2, <1>t, ClockTick
<1>3. CASE Signal
  <2>1. ever' = FALSE
    BY <1>3, Zenon DEF Signal
  <2>2. QED BY <2>1
<1>4. ASSUME NEW d \in {1, -1}, Turn(d) PROVE ClockInv'
  BY <1>4, <1>t, ClockTurn
<1>5. CASE Push \/ UNCHANGED vars
  BY <1>5 DEF Push, vars, knob, prog, owed, ClockInv, ClosedUnseen, ClosedSeen, OpenUnseen,
              OpenSeen, NothingElseDue, DueIsRight, Past, Clk
<1>6. QED BY <1>1, <1>2, <1>3, <1>4, <1>5 DEF Next

\* The button moves when the program has seen its last move.
LEMMA PushSeen ==
  ASSUME Timing, PushTypes, PassTypes, ButtonInv, Push
  PROVE  sw = button
BY Constants DEF Timing, Push, PushTypes, PassTypes, ButtonInv

LEMMA ButtonStep ==
  ASSUME Timing, Wired, ever = TRUE, ever' = TRUE, DecodeTypeOK, PassInv, ButtonInv, [Next]_vars
  PROVE  ButtonInv'
<1>t. PushTypes /\ PassTypes
  BY Groups
<1>r. released \in BOOLEAN
  BY Zenon DEF DecodeTypeOK
<1>1. CASE ReadSw
  <2>1. pc' = "pause" /\ button' = button /\ hold' = hold /\ nap' = nap
    BY <1>1 DEF ReadSw, push
  <2>2. sw' = button'
    BY <1>1, <1>t, Reads DEF ReadSw, push, PushTypes, PassTypes
  <2>3. released' = FALSE
    <3>1. CASE button # sw /\ sw' = 1
      BY <1>1, <3>1, Reads, Zenon DEF ReadSw
    <3>2. CASE button = sw \/ sw' # 1
      <4>1. ~(sw = 0 /\ button = 1)
        BY <2>1, <2>2, <3>2 DEF PushTypes
      <4>2. released = FALSE
        BY <1>r, <4>1, Zenon DEF ButtonInv
      <4>3. released' = released
        BY <1>1, <3>2, Reads DEF ReadSw
      <4>4. QED BY <4>2, <4>3
    <3>3. QED BY <3>1, <3>2
  <2>4. QED BY <2>2, <2>3 DEF ButtonInv
<1>2. CASE Push
  <2>1. sw = button /\ sw' = sw /\ button' = 1 - button /\ hold' = 0 /\ nap' = nap
    BY <1>2, <1>t, PushSeen DEF Push, prog
  <2>2. released = FALSE
    BY <1>r, <2>1 DEF ButtonInv
  <2>3. released' = (button' = 1)
    BY <1>2, <2>2, Zenon DEF Push
  <2>4. hold' + nap' <= SlowWait
    BY <1>t, <2>1 DEF PassInv, PassTypes
  <2>5. (pc = "pause" => hold' = 0) /\ (button' = 1 <=> sw' = 0 /\ button' = 1)
    BY <1>t, <2>1 DEF PushTypes
  <2>6. pc' = pc
    BY <1>2 DEF Push
  <2>7. QED BY <2>3, <2>4, <2>5, <2>6, Zenon DEF ButtonInv
<1>3. CASE Tick
  <2>1. /\ pc = "asleep" /\ pc' = pc /\ nap > 0 /\ nap' = nap - 1
        /\ hold' = Older(hold, MinPress) /\ UNCHANGED <<sw, button, released>>
    BY <1>3 DEF Tick, prog, owed
  <2>2. QED BY <1>t, <2>1, Constants DEF ButtonInv, Older, PushTypes, PassTypes
<1>4. CASE Sleep
  <2>1. /\ pc = "pause" /\ pc' = "asleep" /\ nap' \in Nat /\ nap' <= SlowWait
        /\ UNCHANGED <<sw, button, hold, released>>
    BY <1>4, Constants DEF Sleep, push, owed
  <2>2. QED BY <1>t, <2>1 DEF ButtonInv, PushTypes, PassTypes
<1>5. CASE Test \/ ReadClk \/ ReadDt \/ Wake
  <2>1. /\ pc' # "pause" /\ UNCHANGED <<sw, button, hold, nap, released>>
    BY <1>5 DEF Test, ReadClk, ReadDt, Wake, push, prog, owed
  <2>2. QED BY <2>1 DEF ButtonInv
<1>6. CASE Signal
  <2>1. ever' = FALSE
    BY <1>6, Zenon DEF Signal
  <2>2. QED BY <2>1
<1>7. CASE (\E d \in {1, -1} : Turn(d)) \/ UNCHANGED vars
  <2>1. UNCHANGED <<sw, button, hold, nap, released, pc>>
    BY <1>7 DEF Turn, vars, push, prog, owed
  <2>2. QED BY <2>1 DEF ButtonInv
<1>8. QED BY <1>1, <1>2, <1>3, <1>4, <1>5, <1>6, <1>7 DEF Next, Program

LEMMA InvInit ==
  ASSUME Init
  PROVE  IInv
<1>1. PassInv
  BY Constants DEF Init, PassInv
<1>2. PhaseInv
  BY DEF Init, PhaseInv, First, Second
<1>3. ClockInv
  BY DEF Init, ClockInv, ClosedUnseen, ClosedSeen, OpenUnseen, OpenSeen, NothingElseDue, Clk
<1>4. ButtonInv
  BY Constants DEF Init, ButtonInv
<1>5. QED BY <1>1, <1>2, <1>3, <1>4 DEF IInv

LEMMA InvStep ==
  ASSUME Timing, Wired, DecodeTypeOK, IInv, [Next]_vars
  PROVE  IInv'
<1>1. PassInv' /\ PhaseInv'
  BY PassStep, PhaseStep DEF IInv
<1>2. ASSUME ever' = TRUE PROVE ClockInv' /\ ButtonInv'
  <2>1. ever = TRUE
    BY <1>2, EverStep, Groups
  <2>2. ClockInv /\ ButtonInv
    BY <2>1 DEF IInv
  <2>3. PassInv /\ PhaseInv
    BY DEF IInv
  <2>4. QED BY <1>2, <2>1, <2>2, <2>3, ClockStep, ButtonStep
<1>3. ever' = TRUE \/ ever' = FALSE
  <2>1. RunTypes'
    BY RunTypesStep, Groups
  <2>2. QED BY <2>1, Zenon DEF RunTypes
<1>4. QED BY <1>1, <1>2, <1>3, Zenon DEF IInv

-----------------------------------------------------------------------------
(* Every step is a step of the contract. *)

\* The program found the button pushed and still tells of its release although
\* it is stopped.
Late == sw = 0 /\ pc \in {"clk", "dt", "sw"}

\* A step is quiet when it gives no command and leaves what is owed as it is.
LEMMA QuietStep ==
  ASSUME cmd' = "none", ever' = ever,
         ever = TRUE => due' = due /\ released' = released,
         ever = FALSE => Late' = Late, ever \in BOOLEAN
  PROVE  Contract!Quiet
<1>1. (IF ever THEN due ELSE "none")' = IF ever THEN due ELSE "none"
  BY Zenon
<1>2. (IF ever THEN released ELSE Late)' = IF ever THEN released ELSE Late
  BY Zenon
<1>3. (~ever)' = ~ever
  BY Zenon
<1>4. QED BY <1>1, <1>2, <1>3, Zenon DEF Contract!Quiet, Late

LEMMA KeepTurn ==
  ASSUME Timing, DecodeTypeOK, IInv, NEW d \in {1, -1}, Turn(d)
  PROVE  Contract!Next
<1>1. /\ due' = (IF Clk(pos') <= Clk(pos) THEN due
                 ELSE IF d = 1 THEN "volumeup" ELSE "volumedown")
      /\ cmd' = "none" /\ UNCHANGED <<pc, sw, ever, released>>
  BY DEF Turn, prog, run
<1>e. ever \in BOOLEAN
  BY Zenon DEF DecodeTypeOK
<1>2. CASE due' = due \/ ever = FALSE
  <2>1. Late' = Late
    BY <1>1 DEF Late
  <2>2. QED BY <1>1, <1>2, <1>e, <2>1, QuietStep DEF Contract!Next
<1>3. CASE due' # due /\ ever = TRUE
  <2>1. due = "none"
    BY <1>3, TurnFree, Groups DEF IInv
  <2>2. due' \in Volume
    BY <1>1, <1>3 DEF Volume
  <2>3. ever' = TRUE
    BY <1>1, <1>3
  <2>4. Contract!Turn(due')
    <3>1. /\ (IF ever THEN due ELSE "none") = "none"
          /\ (IF ever THEN due ELSE "none")' = due'
      BY <1>3, <2>1, <2>3, Zenon
    <3>2. (IF ever THEN released ELSE Late)' = IF ever THEN released ELSE Late
      BY <1>1, <1>3, <2>3, Zenon
    <3>3. ~ ~ever /\ (~ever)' = ~ever
      BY <1>3, <2>3, Zenon
    <3>4. QED BY <1>1, <3>1, <3>2, <3>3, Zenon DEF Contract!Turn, Late
  <2>5. QED BY <2>2, <2>4, Zenon DEF Contract!Next
<1>4. QED BY <1>2, <1>3, <1>e, Zenon

LEMMA ReleasedPushed ==
  ASSUME Push, released \in BOOLEAN, released' # released
  PROVE  released = FALSE /\ released' = TRUE
<1>1. released' = (released \/ button' = 1)
  BY Zenon DEF Push
<1>2. QED BY <1>1, Zenon

LEMMA KeepPush ==
  ASSUME Timing, DecodeTypeOK, IInv, Push
  PROVE  Contract!Next
<1>1. /\ cmd' = "none" /\ UNCHANGED <<pc, sw, ever, due>>
      /\ button' = 1 - button
  BY DEF Push, prog, run
<1>e. ever \in BOOLEAN /\ released \in BOOLEAN
  BY Zenon DEF DecodeTypeOK
<1>2. Late' = Late
  BY <1>1 DEF Late
<1>3. CASE released' = released \/ ever = FALSE
  BY <1>1, <1>2, <1>3, <1>e, QuietStep, Zenon DEF Contract!Next
<1>4. CASE released' # released /\ ever = TRUE
  <2>1. released = FALSE /\ released' = TRUE
    BY <1>e, <1>4, ReleasedPushed
  <2>2. ever' = TRUE
    BY <1>1, <1>4
  <2>3. /\ (IF ever THEN released ELSE Late) = FALSE
        /\ (IF ever THEN released ELSE Late)' = TRUE
    BY <1>4, <2>1, <2>2, Zenon
  <2>4. (IF ever THEN due ELSE "none")' = IF ever THEN due ELSE "none"
    BY <1>1, <1>4, <2>2, Zenon
  <2>5. ~ ~ever /\ (~ever)' = ~ever
    BY <1>4, <2>2, Zenon
  <2>6. Contract!Release
    BY <1>1, <2>3, <2>4, <2>5, Zenon DEF Contract!Release, Late
  <2>7. QED BY <2>6, Zenon DEF Contract!Next
<1>5. QED BY <1>3, <1>4, <1>e, Zenon

\* The read of the data contact gives the command that is owed.
LEMMA KeepReadDt ==
  ASSUME Wired, DecodeTypeOK, IInv, ReadDt
  PROVE  Contract!Next
<1>1. /\ pc = "dt" /\ pc' = "sw" /\ UNCHANGED <<sw, ever, released>>
      /\ cmd' = Decode(clk, DigitalRead(P_DT))
      /\ due' = (IF cmd' = "none" THEN due ELSE "none")
  BY DEF ReadDt, prog, run
<1>e. ever \in BOOLEAN
  BY Zenon DEF DecodeTypeOK
<1>2. Late' = Late
  BY <1>1 DEF Late
<1>3. CASE cmd' = "none"
  BY <1>1, <1>2, <1>3, <1>e, QuietStep, Zenon DEF Contract!Next
<1>4. CASE cmd' # "none"
  <2>1. ever = TRUE
    <3>1. CASE ever = FALSE
      <4>1. DigitalRead(P_DT) = -2
        BY <3>1, Zenon DEF DigitalRead, GPIO_ERR_NOT_SETUP
      <4>2. cmd' = "none"
        BY <1>1, <4>1 DEF Decode
      <4>3. QED BY <1>4, <4>2
    <3>2. QED BY <1>e, <3>1, Zenon
  <2>2. clk = 1
    BY <1>1, <1>4 DEF Decode
  <2>3. DueIsRight
    BY <1>1, <2>1, <2>2 DEF IInv, ClockInv, OpenSeen
  <2>4. cmd' = Decode(clk, Dt(pos))
    BY <1>1, <2>1, Reads
  <2>5. cmd' = due /\ due \in Volume /\ due' = "none"
    BY <1>1, <1>4, <2>2, <2>3, <2>4 DEF DueIsRight, Decode, Dt, Volume
  <2>6. ever' = TRUE
    BY <1>1, <2>1
  <2>7. /\ (IF ever THEN due ELSE "none") = due
        /\ (IF ever THEN due ELSE "none")' = "none"
    BY <2>1, <2>5, <2>6, Zenon
  <2>8. (IF ever THEN released ELSE Late)' = IF ever THEN released ELSE Late
    BY <1>1, <2>1, <2>6, Zenon
  <2>9. (~ever)' = ~ever
    BY <2>1, <2>6, Zenon
  <2>10. Contract!ReportTurn
    BY <2>5, <2>7, <2>8, <2>9, Zenon DEF Contract!ReportTurn, Late
  <2>11. QED BY <2>10, Zenon DEF Contract!Next
<1>5. QED BY <1>3, <1>4

\* The read of the switch tells of a push the program saw, in the pass that a
\* signal interrupts too.
LEMMA KeepReadSw ==
  ASSUME Wired, DecodeTypeOK, IInv, ReadSw
  PROVE  Contract!Next
<1>1. /\ pc = "sw" /\ pc' = "pause" /\ UNCHANGED <<ever, due>>
  BY DEF ReadSw, run
<1>e. ever \in BOOLEAN
  BY Zenon DEF DecodeTypeOK
<1>r. released \in BOOLEAN
  BY Zenon DEF DecodeTypeOK
<1>s. sw \in {0, 1} /\ button \in {0, 1}
  BY Groups DEF PassTypes, PushTypes
<1>2. CASE cmd' = "none"
  <2>1. released' = released
    BY <1>2 DEF ReadSw
  <2>2. ever = FALSE => sw = 1
    <3>1. CASE ever = FALSE
      <4>1. DigitalRead(P_SW) = -2
        BY <3>1, Zenon DEF DigitalRead, GPIO_ERR_NOT_SETUP
      <4>2. sw' = 1 - sw /\ sw' # 1
        BY <1>2, <1>s, <4>1 DEF ReadSw
      <4>3. QED BY <1>s, <4>2
    <3>2. QED BY <1>e, <3>1, Zenon
  <2>3. ever = FALSE => Late' = FALSE /\ Late = FALSE
    BY <1>1, <2>2 DEF Late
  <2>4. QED BY <1>1, <1>2, <1>e, <2>1, <2>3, QuietStep, Zenon DEF Contract!Next
<1>3. CASE cmd' # "none"
  <2>1. /\ DigitalRead(P_SW) # sw /\ sw' = 1 - sw /\ sw' = 1
        /\ cmd' = "mutetoggle" /\ released' = FALSE
    BY <1>3 DEF ReadSw
  <2>2. sw = 0
    BY <1>s, <2>1
  <2>3. (IF ever THEN released ELSE Late) = TRUE
    <3>1. CASE ever = TRUE
      <4>1. button = 1
        BY <1>s, <2>1, <2>2, <3>1, Reads
      <4>2. released <=> sw = 0 /\ button = 1
        BY <3>1, Zenon DEF IInv, ButtonInv
      <4>3. released = TRUE
        BY <1>r, <2>2, <4>1, <4>2, Zenon
      <4>4. QED BY <3>1, <4>3, Zenon
    <3>2. CASE ever = FALSE
      <4>1. Late = TRUE
        BY <1>1, <2>2 DEF Late
      <4>2. QED BY <3>2, <4>1, Zenon
    <3>3. QED BY <1>e, <3>1, <3>2, Zenon
  <2>4. (IF ever THEN released ELSE Late)' = FALSE
    <3>1. Late' = FALSE
      BY <1>1 DEF Late
    <3>2. QED BY <2>1, <3>1, Zenon
  <2>5. (IF ever THEN due ELSE "none")' = IF ever THEN due ELSE "none"
    BY <1>1, Zenon
  <2>6. (~ever)' = ~ever
    BY <1>1, Zenon
  <2>7. Contract!ReportPush
    BY <2>1, <2>3, <2>4, <2>5, <2>6, Zenon DEF Contract!ReportPush, Late
  <2>8. QED BY <2>7, Zenon DEF Contract!Next
<1>4. QED BY <1>2, <1>3

LEMMA KeepSignal ==
  ASSUME DecodeTypeOK, Signal
  PROVE  Contract!Next
<1>1. ever' = FALSE /\ cmd' = "none" /\ UNCHANGED <<pc, sw>>
  BY Zenon DEF Signal, prog
<1>e. ever \in BOOLEAN
  BY Zenon DEF DecodeTypeOK
<1>2. Late' = Late
  BY <1>1 DEF Late
<1>3. CASE ever = FALSE
  BY <1>1, <1>2, <1>3, <1>e, QuietStep, Zenon DEF Contract!Next
<1>4. CASE ever = TRUE
  <2>1. (IF ever THEN due ELSE "none")' = "none"
    BY <1>1, Zenon
  <2>2. (IF ever THEN released ELSE Late)' = Late'
    BY <1>1, Zenon
  <2>3. Late' \in BOOLEAN
    BY <1>2, Zenon DEF Late
  <2>4. ~ ~ever /\ (~ever)' = TRUE
    BY <1>1, <1>4, Zenon
  <2>5. Contract!Stop
    BY <1>1, <2>1, <2>2, <2>3, <2>4, Zenon DEF Contract!Stop, Late
  <2>6. QED BY <2>5, Zenon DEF Contract!Next
<1>5. QED BY <1>3, <1>4, <1>e, Zenon

\* The other steps of the loop, and time.
LEMMA KeepRest ==
  ASSUME DecodeTypeOK, IInv, Test \/ ReadClk \/ Sleep \/ Wake \/ Tick
  PROVE  Contract!Next
<1>1. cmd' = "none" /\ UNCHANGED <<ever, due, released, sw>>
  BY DEF Test, ReadClk, Sleep, Wake, Tick, prog, run, owed
<1>e. ever \in BOOLEAN
  BY Zenon DEF DecodeTypeOK
<1>2. ever = FALSE => Late' = Late
  <2>1. CASE Test
    <3>1. ever = FALSE => FOREVER = FALSE
      BY DEF IInv, PassInv
    <3>2. QED BY <1>1, <2>1, <3>1 DEF Test, Late
  <2>2. CASE ReadClk \/ Sleep \/ Wake \/ Tick
    BY <1>1, <2>2 DEF ReadClk, Sleep, Wake, Tick, Late
  <2>3. QED BY <2>1, <2>2
<1>3. QED BY <1>1, <1>2, <1>e, QuietStep, Zenon DEF Contract!Next

LEMMA KeepNext ==
  ASSUME Timing, Wired, DecodeTypeOK, IInv, Next
  PROVE  Contract!Next
BY KeepTurn, KeepPush, KeepReadDt, KeepReadSw, KeepSignal, KeepRest DEF Next, Program

LEMMA KeepStep ==
  ASSUME Timing, Wired, DecodeTypeOK, IInv, [Next]_vars
  PROVE  [Contract!Next]_(Contract!vars)
<1>1. CASE UNCHANGED vars
  <2>1. UNCHANGED <<due, released, ever, cmd, sw, pc>>
    BY <1>1 DEF vars, owed, run, prog
  <2>2. /\ (IF ever THEN due ELSE "none")' = IF ever THEN due ELSE "none"
        /\ (~ever)' = ~ever
    BY <2>1, Zenon
  <2>3. (IF ever THEN released ELSE Late)' = IF ever THEN released ELSE Late
    BY <2>1, Zenon DEF Late
  <2>4. QED BY <2>1, <2>2, <2>3, Zenon DEF Contract!vars, Late
<1>2. QED BY <1>1, KeepNext

LEMMA KeepInit ==
  ASSUME Init
  PROVE  Contract!Init
<1>1. due = "none" /\ cmd = "none" /\ ever = TRUE /\ released = FALSE
  BY Zenon DEF Init
<1>2. QED BY <1>1, Zenon DEF Contract!Init

\* With the pins wired as the program was told, and for every timing that
\* Timing allows, the loop keeps the safety part of the contract: one command a
\* detent, in its direction, one mutetoggle a push, and nothing made up
\* (RotaryEncoder.c:229-257).
THEOREM KeepsContract ==
  ASSUME Timing, Wired
  PROVE  Spec => Safe
<1>1. Init => IInv
  BY InvInit
<1>2. DecodeTypeOK /\ IInv /\ [Next]_vars => IInv'
  BY InvStep
<1>3. DecodeTypeOK /\ IInv /\ [Next]_vars => [Contract!Next]_(Contract!vars)
  BY KeepStep
<1>4. Init => Contract!Init
  BY KeepInit
<1>5. QED BY <1>1, <1>2, <1>3, <1>4, DecodeTypeCorrect, PTL DEF Spec, Safe, Contract!Safety

\* With the pins as wired no volume command is given that nobody turned the knob
\* for; the command line of README.md:27, whose second -rc names the switch, gives
\* one (MCRotaryDecode).
THEOREM OnlyIfTurned ==
  ASSUME Timing, Wired
  PROVE  Spec => VolumeOnlyIfTurned
<1>1. Init => IInv
  BY InvInit
<1>2. DecodeTypeOK /\ IInv /\ [Next]_vars => IInv'
  BY InvStep
<1>3. DecodeTypeOK /\ IInv /\ [Next]_vars => [cmd' \in Volume => due # "none"]_vars
  <2>1. SUFFICES ASSUME DecodeTypeOK, IInv, Next, cmd' \in Volume
                 PROVE  due # "none"
    OBVIOUS
  <2>2. Contract!Next
    BY <2>1, KeepNext
  <2>3. (IF ever THEN due ELSE "none") \in Volume
    BY <2>1, <2>2 DEF Contract!Next, Contract!Turn, Contract!Release, Contract!ReportTurn,
                      Contract!ReportPush, Contract!Stop, Contract!Quiet, Volume
  <2>4. QED BY <2>3 DEF Volume
<1>4. QED BY <1>1, <1>2, <1>3, DecodeTypeCorrect, PTL DEF Spec, VolumeOnlyIfTurned
=============================================================================
