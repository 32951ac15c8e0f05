---------------------------- MODULE ResetButton ----------------------------
(***************************************************************************)
(* The button: the state machine of components/espressif__button           *)
(* /iot_button.c, stepped by a timer, with the callback that               *)
(* main/src/button/factory_reset.c registers for its events.               *)
(*                                                                         *)
(* Times are in ticks of the timer (CONFIG_BUTTON_PERIOD_TIME_MS), words   *)
(* as wide as in the code.  One callback is registered for each event, so  *)
(* count[0] and count[1] say whether the one for LONG_PRESS_START may      *)
(* still be called (0) and the one for LONG_PRESS_UP already (0).  Clicks  *)
(* and repeats only log and are left out.                                  *)
(***************************************************************************)
EXTENDS Integers

CONSTANTS
  DebounceTicks,  \* CONFIG_BUTTON_DEBOUNCE_TICKS
  ShortTicks,     \* CONFIG_BUTTON_SHORT_PRESS_TIME_MS
  LongTicks,      \* CONFIG_BUTTON_LONG_PRESS_TIME_MS
  SerialTicks,    \* CONFIG_BUTTON_SERIAL_TIME_MS
  Tolerance,      \* CONFIG_BUTTON_LONG_PRESS_TOLERANCE_MS
  HoldTicks,      \* hold_time
  Word,           \* ticks and long_press_hold_cnt are uint16_t
  TimeWord,       \* the uint32_t microseconds of start_time and end_time
  MaxHeld         \* bound: how long the button is held at most

ASSUME ButtonAssumption ==
  /\ DebounceTicks \in Nat \ {0} /\ ShortTicks \in Nat /\ LongTicks \in Nat
  /\ SerialTicks \in Nat \ {0, 1} /\ HoldTicks \in Nat /\ MaxHeld \in Nat
  /\ Tolerance \in Nat \ {0} /\ SerialTicks <= Tolerance
  /\ Word \in Nat /\ LongTicks + SerialTicks < Word
  /\ TimeWord \in Nat /\ SerialTicks <= HoldTicks /\ HoldTicks < TimeWord

VARIABLES
  state,          \* btn->state: 0 rest, 1 pressed, 2 released, 3 pressed again, 4 long
  ticks,          \* btn->ticks
  level,          \* btn->button_level is active_level: the debounced button
  debounce,       \* btn->debounce_cnt
  holdCnt,        \* btn->long_press_hold_cnt
  count,          \* btn->count: the callbacks of LONG_PRESS_START and LONG_PRESS_UP
  since,          \* esp_timer_get_time() - start_time, in ticks, modulo TimeWord
  restarting,     \* the flash is erased and esp_restart was called
  held            \* history: ticks since the button was pressed, and whether
                  \* it was at rest then

vars == <<state, ticks, level, debounce, holdCnt, count, since, restarting, held>>

IncUnbounded(n, width) == n + 1
Inc(n, width) == IF n + 1 = width THEN 0 ELSE n + 1
Distance(m, n) == IF m < n THEN n - m ELSE m - n

\* calloc, button_create_com, iot_button_register_event_cb.
Boot ==
  [state |-> 0, ticks |-> 0, level |-> FALSE, debounce |-> 0, holdCnt |-> 0,
   count |-> [start |-> 0, up |-> -1]]

NotHeld == [time |-> 0, fresh |-> FALSE]

Init ==
  /\ state = Boot.state /\ ticks = Boot.ticks /\ level = Boot.level
  /\ debounce = Boot.debounce /\ holdCnt = Boot.holdCnt /\ count = Boot.count
  /\ since = 0 /\ restarting = FALSE /\ held = NotHeld

-----------------------------------------------------------------------------
(* What every tick does before the state machine.                          *)

\* The level counts as changed when it was read DebounceTicks times in a row.
Debounce(pressed) ==
  IF pressed = level THEN level' = level /\ debounce' = 0
  ELSE IF debounce + 1 >= DebounceTicks THEN level' = pressed /\ debounce' = 0
       ELSE level' = level /\ debounce' = debounce + 1

CountedWhilePressed == IF state > 0 /\ level THEN Inc(ticks, Word) ELSE ticks
Counted == IF state > 0 THEN Inc(ticks, Word) ELSE ticks

Watch ==
  /\ held' = CASE ~level' -> NotHeld
               [] level' /\ level -> [held EXCEPT !.time = @ + 1]
               [] OTHER -> [time |-> 0, fresh |-> state = 0]

Before(pressed) ==
  /\ ~restarting
  /\ pressed => held.time < MaxHeld
  /\ Debounce(pressed) /\ Watch

\* The clock runs on, whatever start_time was.
Clock == since' = Inc(since, TimeWord)

StaysAt(t) == state' = state /\ ticks' = t

-----------------------------------------------------------------------------
(* The state machine.                                                      *)

AtRest ==
  /\ state = 0
  /\ IF level' THEN ticks' = 0 /\ state' = 1 ELSE StaysAt(Counted)
  /\ Clock /\ UNCHANGED <<holdCnt, count, restarting>>

\* The one callback of LONG_PRESS_START stores start_time.
LongPressStarts ==
  IF count.start = 0 /\ Distance(Counted, LongTicks) <= Tolerance
  THEN since' = 0 /\ count' = [count EXCEPT !.start = 1]
  ELSE Clock /\ UNCHANGED count

Pressed ==
  /\ state = 1
  /\ IF ~level' THEN ticks' = 0 /\ state' = 2 /\ Clock /\ UNCHANGED count
     ELSE IF Counted > LongTicks
          THEN state' = 4 /\ ticks' = Counted /\ LongPressStarts
          ELSE StaysAt(Counted) /\ Clock /\ UNCHANGED count
  /\ UNCHANGED <<holdCnt, restarting>>

Released ==
  /\ state = 2
  /\ IF level' THEN ticks' = 0 /\ state' = 3
     ELSE IF Counted > ShortTicks THEN ticks' = Counted /\ state' = 0
          ELSE StaysAt(Counted)
  /\ Clock /\ UNCHANGED <<holdCnt, count, restarting>>

\* Nothing here leads to a long press.
PressedAgain ==
  /\ state = 3
  /\ IF level' THEN StaysAt(Counted)
     ELSE IF Counted < ShortTicks THEN ticks' = 0 /\ state' = 2
          ELSE ticks' = Counted /\ state' = 0
  /\ Clock /\ UNCHANGED <<holdCnt, count, restarting>>

HeldLate ==
  /\ state = 4 /\ level'
  /\ StaysAt(Counted)
  /\ IF Counted > (holdCnt + 1) * SerialTicks + LongTicks
     THEN /\ holdCnt' = Inc(holdCnt, Word)
          /\ count' = IF count.up = -1 /\ Distance(Counted, LongTicks) <= Tolerance
                      THEN [count EXCEPT !.up = 0] ELSE count
     ELSE UNCHANGED <<holdCnt, count>>
  /\ Clock /\ UNCHANGED restarting

\* LONG_PRESS_HOLD: only now may the callback of LONG_PRESS_UP be called.  That of
\* LONG_PRESS_START has been, by ButtonAssumption.
Held ==
  /\ state = 4 /\ level'
  /\ StaysAt(Counted)
  /\ IF Counted >= (holdCnt + 1) * SerialTicks + LongTicks
     THEN /\ holdCnt' = Inc(holdCnt, Word)
          /\ count' = IF count.up = -1 /\ Distance(Counted, LongTicks) <= Tolerance
                      THEN [count EXCEPT !.up = 0] ELSE count
     ELSE UNCHANGED <<holdCnt, count>>
  /\ Clock /\ UNCHANGED restarting

Reset == since' >= HoldTicks

LetGoForgetful ==
  /\ state = 4 /\ ~level'
  /\ Clock
  /\ restarting' = (count.up = 0 /\ Reset)
  /\ count' = [count EXCEPT !.up = -1]
  /\ ticks' = Counted /\ state' = 0 /\ holdCnt' = 0

\* LONG_PRESS_UP: button_event_cb compares the time held; nvs_delete_all and
\* esp_restart do not return.
LetGo ==
  /\ state = 4 /\ ~level'
  /\ Clock
  /\ restarting' = (count.up = 0 /\ Reset)
  /\ count' = [start |-> 0, up |-> -1]
  /\ ticks' = Counted /\ state' = 0 /\ holdCnt' = 0

Step == AtRest \/ Pressed \/ Released \/ PressedAgain \/ Held \/ LetGo

Tick == \E pressed \in BOOLEAN : Before(pressed) /\ Step

Restart ==
  /\ restarting
  /\ state' = Boot.state /\ ticks' = Boot.ticks /\ level' = Boot.level
  /\ debounce' = Boot.debounce /\ holdCnt' = Boot.holdCnt /\ count' = Boot.count
  /\ since' = 0 /\ restarting' = FALSE /\ held' = NotHeld

Next == Tick \/ Restart

Spec == Init /\ [][Next]_vars

\* The timer is periodic and esp_restart restarts.
LiveSpec == Spec /\ WF_vars(Tick) /\ WF_vars(Restart)

-----------------------------------------------------------------------------
\* Every variable has its type; the callbacks are counted as in the code.
TypeOK ==
  /\ state \in 0..4
  /\ ticks \in 0..(Word - 1)
  /\ level \in BOOLEAN
  /\ debounce \in 0..(DebounceTicks - 1)
  /\ holdCnt \in 0..(Word - 1)
  /\ count \in [start : {0, 1}, up : {-1, 0}]
  /\ since \in 0..(TimeWord - 1)
  /\ restarting \in BOOLEAN
  /\ held \in [time : Nat, fresh : BOOLEAN]

(* The node is reset only when the button is let go after it was pressed,  *)
(* once, without a break for the long press and hold_time after it         *)
(* (factory_reset.c:51-63), whatever was pressed and bounced before: the   *)
(* start_time compared is of this press.                                   *)
ResetIsMeant ==
  [][restarting' /\ ~restarting =>
       held.fresh /\ held.time >= LongTicks + HoldTicks]_vars

(* Whoever holds the button that long from rest resets the node when they  *)
(* let go, although the callback of LONG_PRESS_UP is only made possible by *)
(* a LONG_PRESS_HOLD that comes within the tolerance (iot_button.c:232-254)*)
(* and the counters have run over since; not after TimeWord ticks, when    *)
(* the difference of the two times has.                                    *)
HeldToReset ==
  held.fresh /\ held.time \in (LongTicks + HoldTicks)..(LongTicks + TimeWord - 1)

HoldIsHonoured == [][level /\ ~level' /\ HeldToReset => restarting']_vars

(* When nobody presses the button any more, its state machine comes to     *)
(* rest, ready for the next press, whichever state it was in.              *)
ComesToRest == <>[]~level => <>[](state = 0)
=============================================================================
