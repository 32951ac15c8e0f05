------------------------- MODULE ResetButtonProofs -------------------------
(***************************************************************************)
(* The factory reset happens when, and only when, the button was held for  *)
(* that long, for any timing parameters and widths of the counters that    *)
(* satisfy ButtonAssumption, as those of sdkconfig do.                     *)
(***************************************************************************)
EXTENDS ResetButton, TLAPS

-----------------------------------------------------------------------------
(* The inductive invariant: what each state of the machine knows of the    *)
(* press in progress.                                                      *)

AtRestKnows == state = 0 => ~level /\ count = [start |-> 0, up |-> -1] /\ holdCnt = 0

PressedKnows ==
  state = 1 =>
    /\ level /\ held.fresh
    /\ held.time = ticks /\ ticks <= LongTicks
    /\ count = [start |-> 0, up |-> -1] /\ holdCnt = 0

AgainKnows ==
  state \in {2, 3} =>
    /\ ~held.fresh
    /\ count = [start |-> 0, up |-> -1] /\ holdCnt = 0

\* start_time is that of this press, and until the first LONG_PRESS_HOLD the
\* counters have not run over.
LongKnows ==
  state = 4 =>
    /\ level /\ held.fresh /\ held.time > LongTicks
    /\ count.start = 1
    /\ since <= held.time - LongTicks - 1
    /\ held.time < LongTicks + TimeWord => since = held.time - LongTicks - 1
    /\ count.up = -1 =>
         holdCnt = 0 /\ ticks = held.time /\ held.time < LongTicks + SerialTicks

FreshKnows == held.fresh => level

RestartKnows == restarting => state = 0

ButtonInd ==
  /\ TypeOK /\ AtRestKnows /\ PressedKnows /\ AgainKnows /\ LongKnows /\ FreshKnows
  /\ RestartKnows

-----------------------------------------------------------------------------
\* The machine as it is created, at the start and after a restart.
LEMMA BootInd ==
  /\ Boot.state = 0 /\ Boot.ticks \in 0..(Word - 1) /\ Boot.level = FALSE
  /\ Boot.debounce \in 0..(DebounceTicks - 1) /\ Boot.holdCnt \in 0..(Word - 1)
  /\ Boot.holdCnt = 0 /\ Boot.count = [start |-> 0, up |-> -1]
  /\ Boot.count \in [start : {0, 1}, up : {-1, 0}]
  /\ 0 \in 0..(TimeWord - 1)
  /\ NotHeld \in [time : Nat, fresh : BOOLEAN] /\ ~NotHeld.fresh
  BY ButtonAssumption DEF Boot, NotHeld

LEMMA InitInd == Init => ButtonInd
<1> SUFFICES ASSUME Init PROVE ButtonInd
  OBVIOUS
<1>1. TypeOK
  <2>1. state \in 0..4 /\ ticks \in 0..(Word - 1) /\ since \in 0..(TimeWord - 1)
    BY BootInd DEF Init
  <2>2. level \in BOOLEAN /\ restarting \in BOOLEAN
    BY BootInd DEF Init
  <2>3. /\ debounce \in 0..(DebounceTicks - 1) /\ holdCnt \in 0..(Word - 1)
        /\ count \in [start : {0, 1}, up : {-1, 0}]
        /\ held \in [time : Nat, fresh : BOOLEAN]
    BY BootInd DEF Init
  <2> QED
    BY <2>1, <2>2, <2>3 DEF TypeOK
<1> QED
  BY <1>1, BootInd
  DEF Init, ButtonInd, AtRestKnows, PressedKnows, AgainKnows, LongKnows, FreshKnows, RestartKnows

\* Counters count, and stay in their words.
LEMMA IncTyped ==
  ASSUME NEW w \in Nat, NEW n \in 0..(w - 1)
  PROVE  Inc(n, w) \in 0..(w - 1) /\ Inc(n, w) <= n + 1 /\ (n + 1 # w => Inc(n, w) = n + 1)
  BY DEF Inc

\* What a tick does before the state machine.
LEMMA BeforeTyped ==
  ASSUME TypeOK, NEW pressed \in BOOLEAN, Before(pressed)
  PROVE  /\ level' \in BOOLEAN /\ debounce' \in 0..(DebounceTicks - 1)
         /\ held' \in [time : Nat, fresh : BOOLEAN]
         /\ ~level' => ~held'.fresh
         /\ level' /\ level => held'.fresh = held.fresh /\ held'.time = held.time + 1
         /\ level' /\ ~level => held'.fresh = (state = 0) /\ held'.time = 0
         /\ Counted \in 0..(Word - 1)
         /\ state > 0 /\ ticks + 1 < Word => Counted = ticks + 1
         /\ Inc(since, TimeWord) \in 0..(TimeWord - 1)
         /\ Inc(since, TimeWord) <= since + 1
         /\ since + 1 # TimeWord => Inc(since, TimeWord) = since + 1
         /\ Inc(holdCnt, Word) \in 0..(Word - 1)
<1>1. level' \in BOOLEAN /\ debounce' \in 0..(DebounceTicks - 1)
  BY ButtonAssumption DEF TypeOK, Before, Debounce
<1>2. /\ held' \in [time : Nat, fresh : BOOLEAN]
      /\ ~level' => ~held'.fresh
      /\ level' /\ level => held'.fresh = held.fresh /\ held'.time = held.time + 1
      /\ level' /\ ~level => held'.fresh = (state = 0) /\ held'.time = 0
  <2>1. CASE ~level'
    BY <2>1 DEF Before, Watch, NotHeld
  <2>2. CASE level' /\ level
    BY <2>2 DEF Before, Watch, TypeOK
  <2>3. CASE level' /\ ~level
    BY <2>3 DEF Before, Watch
  <2> QED
    BY <1>1, <2>1, <2>2, <2>3
<1>3. /\ Counted \in 0..(Word - 1)
      /\ state > 0 /\ ticks + 1 < Word => Counted = ticks + 1
  BY ButtonAssumption DEF TypeOK, Counted, Inc
<1>4. /\ Inc(since, TimeWord) \in 0..(TimeWord - 1)
      /\ Inc(since, TimeWord) <= since + 1
      /\ since + 1 # TimeWord => Inc(since, TimeWord) = since + 1
      /\ Inc(holdCnt, Word) \in 0..(Word - 1)
  BY ButtonAssumption, IncTyped DEF TypeOK
<1> QED
  BY <1>1, <1>2, <1>3, <1>4

\* Every tick keeps what is known, whatever the level that is read.
LEMMA TickInd ==
  ASSUME ButtonInd, NEW pressed \in BOOLEAN, Before(pressed), Step
  PROVE  ButtonInd'
<1> USE BeforeTyped, ButtonAssumption
<1>0. TypeOK /\ 0 \in 0..(Word - 1) /\ 0 \in 0..(TimeWord - 1) /\ ~restarting
  BY DEF ButtonInd, Before
<1>9. /\ ~level' => ~held'.fresh
      /\ level' /\ level => held'.fresh = held.fresh /\ held'.time = held.time + 1
  BY <1>0
<1>1. CASE AtRest
  <2>1. ~level /\ count = [start |-> 0, up |-> -1] /\ holdCnt = 0
    BY <1>1 DEF ButtonInd, AtRestKnows, AtRest
  <2>2. TypeOK'
    BY <1>0, <1>1 DEF AtRest, StaysAt, Clock, TypeOK
  <2> QED
    BY <1>0, <1>1, <2>1, <2>2
    DEF AtRest, StaysAt, ButtonInd, AtRestKnows, PressedKnows, AgainKnows, LongKnows,
        FreshKnows, RestartKnows
<1>2. CASE Pressed
  <2>1. /\ level /\ held.fresh /\ held.time = ticks /\ ticks <= LongTicks
        /\ count = [start |-> 0, up |-> -1] /\ holdCnt = 0
    BY <1>2 DEF ButtonInd, PressedKnows, Pressed
  <2>2. Counted = ticks + 1 /\ Counted \in Nat
    <3>1. ticks \in Nat /\ ticks + 1 < Word
      BY <1>0, <2>1 DEF TypeOK
    <3>2. state > 0
      BY <1>2 DEF Pressed
    <3> QED
      BY <1>0, <3>1, <3>2
  <2>3. CASE ~level'
    <3>1. TypeOK'
      BY <1>0, <1>2, <2>3 DEF Pressed, Clock, TypeOK
    <3>2. /\ state' = 2 /\ ~held'.fresh
          /\ count' = count /\ holdCnt' = holdCnt /\ restarting' = restarting
      BY <1>9, <1>2, <2>3 DEF Pressed
    <3> QED
      BY <1>0, <2>1, <3>1, <3>2
      DEF ButtonInd, AtRestKnows, PressedKnows, AgainKnows, LongKnows, FreshKnows,
          RestartKnows
  <2>4. CASE level' /\ Counted > LongTicks
    <3>1. Counted = LongTicks + 1 /\ Distance(Counted, LongTicks) <= Tolerance
      BY <1>0, <2>1, <2>2, <2>4 DEF Distance, TypeOK
    <3>2. /\ state' = 4 /\ ticks' = LongTicks + 1 /\ since' = 0 /\ holdCnt' = 0
          /\ count' = [start |-> 1, up |-> -1] /\ restarting' = restarting
      BY <1>2, <2>1, <2>4, <3>1 DEF Pressed, LongPressStarts
    <3>3. TypeOK'
      BY <1>0, <2>2, <3>1, <3>2 DEF TypeOK
    <3>4. held'.fresh /\ held'.time = LongTicks + 1
      BY <1>0, <2>1, <2>2, <2>4, <3>1
    <3> QED
      BY <1>0, <2>4, <3>2, <3>3, <3>4
      DEF ButtonInd, AtRestKnows, PressedKnows, AgainKnows, LongKnows, FreshKnows, RestartKnows
  <2>5. CASE level' /\ ~(Counted > LongTicks)
    <3>1. TypeOK'
      BY <1>0, <1>2, <2>5 DEF Pressed, StaysAt, Clock, TypeOK
    <3>2. /\ state' = 1 /\ ticks' = Counted /\ Counted <= LongTicks
          /\ count' = count /\ holdCnt' = holdCnt /\ restarting' = restarting
      BY <1>2, <2>1, <2>2, <2>5 DEF Pressed, StaysAt
    <3>3. held'.fresh /\ held'.time = ticks'
      BY <1>9, <2>1, <2>2, <2>5, <3>2
    <3> QED
      BY <1>0, <2>1, <2>5, <3>1, <3>2, <3>3
      DEF ButtonInd, AtRestKnows, PressedKnows, AgainKnows, LongKnows,
          FreshKnows, RestartKnows
  <2> QED
    BY <1>0, <2>3, <2>4, <2>5
<1>3. CASE Released
  <2>1. ~held.fresh /\ count = [start |-> 0, up |-> -1] /\ holdCnt = 0
    BY <1>3 DEF ButtonInd, AgainKnows, Released
  <2>2. TypeOK'
    BY <1>0, <1>3 DEF Released, StaysAt, Clock, TypeOK
  <2> QED
    BY <1>0, <1>3, <2>1, <2>2
    DEF Released, StaysAt, ButtonInd, AtRestKnows, PressedKnows, AgainKnows, LongKnows,
        FreshKnows, RestartKnows, TypeOK
<1>4. CASE PressedAgain
  <2>1. ~held.fresh /\ count = [start |-> 0, up |-> -1] /\ holdCnt = 0
    BY <1>4 DEF ButtonInd, AgainKnows, PressedAgain
  <2>2. TypeOK'
    BY <1>0, <1>4 DEF PressedAgain, StaysAt, Clock, TypeOK
  <2> QED
    BY <1>0, <1>4, <2>1, <2>2
    DEF PressedAgain, StaysAt, ButtonInd, AtRestKnows, PressedKnows, AgainKnows, LongKnows,
        FreshKnows, RestartKnows, TypeOK
<1>5. CASE Held
  <2>1. /\ level /\ held.fresh /\ held.time > LongTicks /\ count.start = 1
        /\ since <= held.time - LongTicks - 1
        /\ held.time < LongTicks + TimeWord => since = held.time - LongTicks - 1
        /\ count.up = -1 =>
             holdCnt = 0 /\ ticks = held.time /\ held.time < LongTicks + SerialTicks
    BY <1>5 DEF ButtonInd, LongKnows, Held
  <2>2. /\ level' /\ held'.fresh /\ held'.time = held.time + 1 /\ state' = 4
        /\ ticks' = Counted /\ since' = Inc(since, TimeWord)
        /\ restarting' = restarting
    BY <1>0, <1>5, <2>1 DEF Held, StaysAt, Clock
  <2>3. count' \in [start : {0, 1}, up : {-1, 0}] /\ count'.start = 1
    BY <1>0, <1>5, <2>1 DEF Held, TypeOK
  <2>4. TypeOK'
    <3>1. holdCnt' \in 0..(Word - 1)
      BY <1>0, <1>5 DEF Held, TypeOK
    <3> QED
      BY <1>0, <1>5, <2>2, <2>3, <3>1 DEF Held, TypeOK
  <2>5. ASSUME count'.up = -1
        PROVE  holdCnt' = 0 /\ ticks' = held'.time /\ held'.time < LongTicks + SerialTicks
    <3>1. count.up = -1
      BY <1>0, <1>5, <2>5 DEF Held, TypeOK
    <3>2. Counted = ticks + 1 /\ ticks + 1 = held'.time
      BY <1>0, <1>5, <2>1, <2>2, <3>1 DEF Held, TypeOK
    <3>3. Counted < SerialTicks + LongTicks
      <4>1. SUFFICES ASSUME Counted >= SerialTicks + LongTicks PROVE FALSE
        BY <1>0, <3>2 DEF TypeOK
      <4>2. Counted = SerialTicks + LongTicks
        BY <1>0, <2>1, <3>1, <3>2, <4>1 DEF TypeOK
      <4>3. Distance(Counted, LongTicks) <= Tolerance
        BY <4>2 DEF Distance
      <4>4. (holdCnt + 1) * SerialTicks + LongTicks = SerialTicks + LongTicks
        BY <2>1, <3>1
      <4>5. count'.up = 0
        BY <1>0, <1>5, <3>1, <4>1, <4>3, <4>4 DEF Held, TypeOK
      <4> QED
        BY <2>5, <4>5
    <3>4. (holdCnt + 1) * SerialTicks + LongTicks = SerialTicks + LongTicks
      BY <2>1, <3>1
    <3>5. holdCnt' = holdCnt
      BY <1>0, <1>5, <3>2, <3>3, <3>4 DEF Held, TypeOK
    <3> QED
      BY <2>1, <2>2, <3>1, <3>2, <3>3, <3>5
  <2>6. /\ held'.time > LongTicks /\ since' <= held'.time - LongTicks - 1
        /\ held'.time < LongTicks + TimeWord => since' = held'.time - LongTicks - 1
    BY <1>0, <2>1, <2>2 DEF TypeOK
  <2> QED
    BY <1>0, <2>2, <2>3, <2>4, <2>5, <2>6
    DEF ButtonInd, AtRestKnows, PressedKnows, AgainKnows, LongKnows, FreshKnows, RestartKnows
<1>6. CASE LetGo
  <2>1. TypeOK'
    BY <1>0, <1>6 DEF LetGo, Clock, TypeOK
  <2> QED
    BY <1>0, <1>6, <2>1
    DEF LetGo, ButtonInd, AtRestKnows, PressedKnows, AgainKnows, LongKnows, FreshKnows, RestartKnows
<1> QED
  BY <1>1, <1>2, <1>3, <1>4, <1>5, <1>6 DEF Step

LEMMA NextInd == ButtonInd /\ [Next]_vars => ButtonInd'
<1> SUFFICES ASSUME ButtonInd, [Next]_vars PROVE ButtonInd'
  OBVIOUS
<1>1. CASE Tick
  BY <1>1, TickInd DEF Tick
<1>2. CASE Restart
  <2>1. TypeOK'
    <3>1. state' \in 0..4 /\ ticks' \in 0..(Word - 1) /\ since' \in 0..(TimeWord - 1)
      BY <1>2, BootInd DEF Restart
    <3>2. level' \in BOOLEAN /\ restarting' \in BOOLEAN
      BY <1>2, BootInd DEF Restart
    <3>3. /\ debounce' \in 0..(DebounceTicks - 1) /\ holdCnt' \in 0..(Word - 1)
          /\ count' \in [start : {0, 1}, up : {-1, 0}]
          /\ held' \in [time : Nat, fresh : BOOLEAN]
      BY <1>2, BootInd DEF Restart
    <3> QED
      BY <3>1, <3>2, <3>3 DEF TypeOK
  <2> QED
    BY <1>2, <2>1, BootInd
    DEF Restart, ButtonInd, AtRestKnows, PressedKnows, AgainKnows, LongKnows, FreshKnows, RestartKnows
<1>3. CASE UNCHANGED vars
  BY <1>3
  DEF vars, ButtonInd, TypeOK, AtRestKnows, PressedKnows, AgainKnows, LongKnows, FreshKnows, RestartKnows
<1> QED
  BY <1>1, <1>2, <1>3 DEF Next

(* What each state of button_handler knows of the press that led to it     *)
(* (iot_button.c), and factory_reset.c of the time it stored.              *)
THEOREM ButtonInductive == Spec => []ButtonInd
  BY InitInd, NextInd, PTL DEF Spec

-----------------------------------------------------------------------------
(* The theorems.                                                           *)

\* Types, and the counters of iot_button.c in their words.
THEOREM ButtonTypeCorrect == Spec => []TypeOK
<1>1. ButtonInd => TypeOK
  BY DEF ButtonInd
<1> QED
  BY <1>1, ButtonInductive, PTL

\* No reset without a press, from rest and unbroken, for the long press and
\* hold_time (factory_reset.c:51-63).
THEOREM NoAccidentalReset == Spec => ResetIsMeant
<1>1. ButtonInd /\ [Next]_vars =>
        [restarting' /\ ~restarting =>
           held.fresh /\ held.time >= LongTicks + HoldTicks]_vars
  <2> SUFFICES ASSUME ButtonInd, Next, restarting', ~restarting
               PROVE  held.fresh /\ held.time >= LongTicks + HoldTicks
    OBVIOUS
  <2>1. PICK pressed \in BOOLEAN : Before(pressed) /\ LetGo
    BY DEF Next, Tick, Restart, Step, AtRest, Pressed, Released, PressedAgain, Held
  <2>2. held.fresh /\ since <= held.time - LongTicks - 1
    BY <2>1 DEF ButtonInd, LongKnows, LetGo
  <2>3. Inc(since, TimeWord) <= since + 1 /\ Inc(since, TimeWord) >= HoldTicks
    BY <2>1, BeforeTyped DEF ButtonInd, LetGo, Reset, Clock
  <2>4. since \in Nat /\ held.time \in Nat /\ Inc(since, TimeWord) \in Nat
    BY <2>1, BeforeTyped, ButtonAssumption DEF ButtonInd, TypeOK
  <2> QED
    BY <2>2, <2>3, <2>4, ButtonAssumption
<1> QED
  BY <1>1, ButtonInductive, PTL DEF Spec, ResetIsMeant

\* And no such press without a reset, as long as the clock has not run over.
THEOREM ResetOnDemand == Spec => HoldIsHonoured
<1>1. ButtonInd /\ [Next]_vars =>
        [level /\ ~level' /\ HeldToReset => restarting']_vars
  <2> SUFFICES ASSUME ButtonInd, Next, level, ~level', HeldToReset
               PROVE  restarting'
    OBVIOUS
  <2>0. TypeOK /\ held.time \in Nat
    BY DEF ButtonInd, TypeOK
  <2>1. state = 4
    BY <2>0, ButtonAssumption
    DEF ButtonInd, TypeOK, AtRestKnows, PressedKnows, AgainKnows, HeldToReset
  <2>2. CASE Tick
    <3>1. PICK pressed \in BOOLEAN : Before(pressed) /\ LetGo
      BY <2>1, <2>2 DEF Tick, Step, AtRest, Pressed, Released, PressedAgain, Held
    <3>2. count.up = 0
      BY <2>0, <2>1, ButtonAssumption DEF ButtonInd, TypeOK, LongKnows, HeldToReset
    <3>3. since = held.time - LongTicks - 1
      BY <2>0, <2>1, ButtonAssumption DEF ButtonInd, LongKnows, HeldToReset
    <3>4. since + 1 # TimeWord /\ since + 1 >= HoldTicks
      BY <2>0, <3>3, ButtonAssumption DEF HeldToReset
    <3>5. since' = since + 1
      BY <2>0, <3>1, <3>4, BeforeTyped DEF LetGo, Clock
    <3> QED
      BY <3>1, <3>2, <3>4, <3>5 DEF LetGo, Reset
  <2>3. CASE Restart
    BY <2>1, <2>3 DEF ButtonInd, RestartKnows, Restart
  <2> QED
    BY <2>2, <2>3 DEF Next
<1> QED
  BY <1>1, ButtonInductive, PTL DEF Spec, HoldIsHonoured
=============================================================================
