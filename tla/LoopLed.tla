------------------------------- MODULE LoopLed -------------------------------
(***************************************************************************)
(* The traffic light of local_device (local_device/driver/loopled.hpp).    *)
(* The timer thread refreshes it once a second; device_manage::run turns   *)
(* the cycle on and off.  is_loopled_run is atomic; tick is not, and both  *)
(* threads write it: a refresh that meets a reset may have loaded the tick *)
(* before or after it, for each of its comparisons and for its increment.  *)
(* The device is open: every write of a lamp succeeds.                     *)
(***************************************************************************)
EXTENDS Naturals, Sequences, FiniteSets

CONSTANTS GREEN_TICK_TICKCOUNT, GREEN_BLINK_TICKCOUNT,
          YELLOW_TICKCOUNT, RED_TICK_TICKCOUNT,
          MaxCommands    \* bound on the calls of set_state

ASSUME TicksAssumption ==
    /\ {GREEN_TICK_TICKCOUNT, GREEN_BLINK_TICKCOUNT, YELLOW_TICKCOUNT,
        RED_TICK_TICKCOUNT, MaxCommands} \subseteq Nat
    /\ 0 < GREEN_TICK_TICKCOUNT
    /\ GREEN_TICK_TICKCOUNT < GREEN_BLINK_TICKCOUNT
    /\ GREEN_BLINK_TICKCOUNT < YELLOW_TICKCOUNT
    /\ YELLOW_TICKCOUNT < RED_TICK_TICKCOUNT

Lamps == {"red", "yellow", "green"}

VARIABLES is_loopled_run,  \* the cycle runs
          tick,            \* where in the cycle it is
          lamps,           \* what is lit
          at,              \* where the refresh is: "idle", "loaded", "writing"
          seen,            \* the tick the refresh loaded last
          todo,            \* writes the refresh has still to do
          next,            \* what it does with the tick afterwards
          resetting,       \* set_state(false) has yet to reset the tick
          shown,           \* history: the lamp that was lit last
          commands,        \* history: calls of set_state
          raced            \* history: the tick was reset during a refresh

refresh == <<at, seen, todo, next>>
vars == <<is_loopled_run, tick, lamps, refresh, resetting, shown, commands, raced>>

Init == /\ is_loopled_run = FALSE /\ tick = 0
        /\ lamps = [l \in Lamps |-> 0]
        /\ at = "idle" /\ seen = 0 /\ todo = <<>> /\ next = "keep"
        /\ resetting = FALSE
        /\ shown = "none" /\ commands = 0 /\ raced = FALSE

Write(lamp, status) == [lamp |-> lamp, status |-> status]
WriteType == [lamp : Lamps, status : {0, 1}]

write_multi_io(red, yellow, green) ==
    <<Write("red", red), Write("yellow", yellow), Write("green", green)>>

-----------------------------------------------------------------------------
(* loop_refresh_per_second *)

\* The writes that a branch makes, and what it does with the tick after them.
Do(writes, then) == todo' = writes /\ next' = then

(* A branch without writes: every tick that none of the others takes.      *)
CountOnly(t) ==
    /\ t \notin {0, GREEN_BLINK_TICKCOUNT, YELLOW_TICKCOUNT}
    /\ t \notin GREEN_TICK_TICKCOUNT .. GREEN_BLINK_TICKCOUNT
    /\ t < RED_TICK_TICKCOUNT
    /\ Do(<<>>, "count")

\* Mutant: the bounds of yellow and red are exchanged.
BranchSwapped(t, parity) ==
    \/ t = 0 /\ Do(write_multi_io(0, 0, 1), "count")
    \/ /\ t \in GREEN_TICK_TICKCOUNT .. (GREEN_BLINK_TICKCOUNT - 1)
       /\ Do(<<Write("green", parity)>>, "count")
    \/ t = YELLOW_TICKCOUNT /\ Do(<<Write("green", 0)>> \o write_multi_io(0, 1, 0), "count")
    \/ /\ t = GREEN_BLINK_TICKCOUNT
       /\ Do(<<Write("yellow", 0)>> \o write_multi_io(1, 0, 0), "count")
    \/ t >= RED_TICK_TICKCOUNT /\ Do(write_multi_io(0, 0, 0), "zero")
    \/ CountOnly(t)

\* Mutant: the lamp that goes out is left to write_multi_io.
BranchTogether(t, parity) ==
    \/ t = 0 /\ Do(write_multi_io(0, 0, 1), "count")
    \/ /\ t \in GREEN_TICK_TICKCOUNT .. (GREEN_BLINK_TICKCOUNT - 1)
       /\ Do(<<Write("green", parity)>>, "count")
    \/ t = GREEN_BLINK_TICKCOUNT /\ Do(write_multi_io(0, 1, 0), "count")
    \/ t = YELLOW_TICKCOUNT /\ Do(write_multi_io(1, 0, 0), "count")
    \/ t >= RED_TICK_TICKCOUNT /\ Do(write_multi_io(0, 0, 0), "zero")
    \/ CountOnly(t)

\* The branch that a tick takes: green, blinking, yellow, red, dark or none.
Branch(t, parity) ==
    \/ t = 0 /\ Do(write_multi_io(0, 0, 1), "count")
    \/ /\ t \in GREEN_TICK_TICKCOUNT .. (GREEN_BLINK_TICKCOUNT - 1)
       /\ Do(<<Write("green", parity)>>, "count")
    \/ /\ t = GREEN_BLINK_TICKCOUNT
       /\ Do(<<Write("green", 0)>> \o write_multi_io(0, 1, 0), "count")
    \/ /\ t = YELLOW_TICKCOUNT
       /\ Do(<<Write("yellow", 0)>> \o write_multi_io(1, 0, 0), "count")
    \/ t >= RED_TICK_TICKCOUNT /\ Do(write_multi_io(0, 0, 0), "zero")
    \/ CountOnly(t)

\* Mutant: a light that is off has its tick reset, its lamps are left alone.
RefreshBeginDim ==
    /\ at = "idle"
    /\ \/ /\ is_loopled_run
          /\ at' = "loaded" /\ seen' = tick
          /\ UNCHANGED <<tick, todo, next>>
       \/ /\ ~is_loopled_run
          /\ tick' = 0
          /\ at' = "writing" /\ todo' = <<>> /\ next' = "keep"
          /\ UNCHANGED seen
    /\ UNCHANGED <<is_loopled_run, lamps, resetting, shown, commands, raced>>

RefreshBegin ==
    /\ at = "idle"
    /\ \/ /\ is_loopled_run
          /\ at' = "loaded" /\ seen' = tick
          /\ UNCHANGED <<tick, todo, next>>
       \/ /\ ~is_loopled_run
          /\ tick' = 0
          /\ at' = "writing" /\ todo' = write_multi_io(0, 0, 0) /\ next' = "keep"
          /\ UNCHANGED seen
    /\ UNCHANGED <<is_loopled_run, lamps, resetting, shown, commands, raced>>

(* The comparisons.  When the tick was reset meanwhile, the first of them  *)
(* may have failed on the old tick and the others on 0.                    *)
RefreshBranch ==
    /\ at = "loaded"
    /\ \E t \in {seen, tick}, parity \in {seen % 2, tick % 2} :
          /\ seen' = t
          /\ \/ Branch(t, parity)
             \/ t # seen /\ Do(<<>>, "count")
    /\ at' = "writing"
    /\ UNCHANGED <<tick, is_loopled_run, lamps, resetting, shown, commands, raced>>

write_io_status ==
    /\ at = "writing" /\ todo # <<>>
    /\ lamps' = [lamps EXCEPT ![Head(todo).lamp] = Head(todo).status]
    /\ shown' = IF Head(todo).status = 1 THEN Head(todo).lamp ELSE shown
    /\ todo' = Tail(todo)
    /\ UNCHANGED <<at, seen, next, tick, is_loopled_run, resetting, commands, raced>>

\* Mutant: the tick is not reset at the end of the cycle.
RefreshEndCounting ==
    /\ at = "writing" /\ todo = <<>>
    /\ tick' = IF next = "keep" \/ tick >= RED_TICK_TICKCOUNT THEN tick ELSE tick + 1
    /\ at' = "idle"
    /\ UNCHANGED <<seen, todo, next, is_loopled_run, lamps, resetting, shown, commands, raced>>

RefreshEnd ==
    /\ at = "writing" /\ todo = <<>>
    /\ \/ next = "count" /\ tick' \in {tick + 1, seen + 1}
       \/ next = "zero" /\ tick' = 0
       \/ next = "keep" /\ UNCHANGED tick
    /\ at' = "idle"
    /\ UNCHANGED <<seen, todo, next, is_loopled_run, lamps, resetting, shown, commands, raced>>

-----------------------------------------------------------------------------
(* set_state *)

SetState(state) ==
    /\ ~resetting
    /\ commands < MaxCommands /\ commands' = commands + 1
    /\ is_loopled_run' = state
    /\ resetting' = ~state
    /\ UNCHANGED <<tick, lamps, refresh, shown, raced>>

ResetTick ==
    /\ resetting /\ resetting' = FALSE
    /\ tick' = 0
    /\ raced' = (raced \/ at # "idle")
    /\ UNCHANGED <<is_loopled_run, lamps, refresh, shown, commands>>

-----------------------------------------------------------------------------
Refresh == RefreshBegin \/ RefreshBranch \/ write_io_status \/ RefreshEnd

Next == \/ Refresh
        \/ \E state \in BOOLEAN : SetState(state)
        \/ ResetTick

(* The timer calls the refresh once a second for ever, and a set_state     *)
(* that was begun comes to its end.                                        *)
Spec == Init /\ [][Next]_vars /\ WF_vars(Refresh) /\ WF_vars(ResetTick)

-----------------------------------------------------------------------------
TypeOK == /\ is_loopled_run \in BOOLEAN /\ resetting \in BOOLEAN /\ raced \in BOOLEAN
          /\ tick \in 0 .. RED_TICK_TICKCOUNT /\ seen \in 0 .. RED_TICK_TICKCOUNT
          /\ lamps \in [Lamps -> {0, 1}]
          /\ at \in {"idle", "loaded", "writing"}
          /\ todo \in Seq(WriteType) /\ Len(todo) <= 4
          /\ next \in {"count", "zero", "keep"}
          /\ shown \in Lamps \cup {"none"}
          /\ commands \in 0 .. MaxCommands

Lit == {l \in Lamps : lamps[l] = 1}

(* Never two lamps at once, not even between two writes of one refresh and *)
(* however the cycle was turned off and on, as long as no reset has fallen *)
(* into a refresh.                                                         *)
OneLamp == ~raced => Cardinality(Lit) <= 1

(* Under the same condition yellow is lit only after green, and red only   *)
(* after yellow.                                                           *)
Lights(l) == l \notin Lit /\ l \in Lit'
PhaseOrder == [][~raced => /\ Lights("yellow") => shown = "green"
                           /\ Lights("red") => shown = "yellow"]_vars

(* A light that was turned off goes dark, even when a refresh that saw it  *)
(* on lights a lamp afterwards, and even when a reset of the tick is lost. *)
StopDarkens == ~is_loopled_run ~> Lit = {} \/ is_loopled_run

(* A light that stays on shows every lamp again and again, whatever the    *)
(* resets have done to its tick.                                           *)
KeepsCycling == <>[]is_loopled_run => \A l \in Lamps : []<>(l \in Lit)

\* The lamps come to follow set_state, in both directions.
StateFollowed == StopDarkens /\ KeepsCycling
=============================================================================
