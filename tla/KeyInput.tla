------------------------------ MODULE KeyInput ------------------------------
(***************************************************************************)
(* DeviceLink with the key below it: the driver                            *)
(* (mod/06.key/key_input/kernel_input.c), whose interrupt thread arms a    *)
(* timer of 20 ms unless one runs and whose timer function reports the     *)
(* line to the input core, and the thread of the application               *)
(* (local_device/driver/key.cpp) that reads the events of the core.  The   *)
(* board has one core, and a timer function runs to its end before the     *)
(* interrupt thread runs again.                                            *)
(***************************************************************************)
EXTENDS DeviceLink

CONSTANTS KEY_ENTER,  \* the code the driver reports, 28
          KEY_NUM,    \* the code the application waits for, 11
          MaxEvents   \* bound on the events the application has not read

ASSUME EventAssumption == MaxEvents \in Nat

VARIABLES key_code,  \* of the key behind the configured device
          pressed,   \* the key itself
          moved,     \* history: it has moved at all
          irq,       \* an edge came, and the interrupt thread has not run
          protect,
          key_timer, \* armed
          reported,  \* what the input core last passed on
          events     \* events of the core that the application has not read

keyVars == <<key_code, pressed, moved, irq, protect, key_timer, reported, events>>
allVars == <<vars, keyVars>>

\* The device is that of the driver, whose code is another than the one waited
\* for, or one with the same wiring that some other driver serves.
KeyInit == /\ Init
           /\ key_code \in {KEY_ENTER, KEY_NUM}
           /\ pressed = FALSE /\ moved = FALSE /\ irq = FALSE
           /\ protect = 0 /\ key_timer = FALSE
           /\ reported = 0 /\ events = <<>>

\* Both edges interrupt; the key bounces as it likes.
Edge == /\ pressed' = ~pressed /\ moved' = TRUE /\ irq' = TRUE
        /\ UNCHANGED <<key_code, protect, key_timer, reported, events>>

\* key_handler.
KeyHandler == /\ irq /\ irq' = FALSE
              /\ protect' = 1
              /\ key_timer' = (key_timer \/ protect = 0)
              /\ UNCHANGED <<key_code, pressed, moved, reported, events>>

\* The line is active low, so the value of a key that is pressed is 1, and 1 is
\* reported as 0: the application sees the key go down when it is let go.
Reported == IF pressed THEN 0 ELSE 1

\* Mutant: protect is left set.
KeyTimerFuncProtected ==
    /\ key_timer /\ key_timer' = FALSE
    /\ reported' = Reported
    /\ IF Reported = reported THEN UNCHANGED events
       ELSE Len(events) < MaxEvents /\ events' = Append(events, Reported)
    /\ UNCHANGED <<key_code, pressed, moved, irq, protect>>

\* key_timer_func; the input core passes on what differs from what it passed last.
KeyTimerFunc ==
    /\ key_timer /\ key_timer' = FALSE /\ protect' = 0
    /\ reported' = Reported
    /\ IF Reported = reported THEN UNCHANGED events
       ELSE Len(events) < MaxEvents /\ events' = Append(events, Reported)
    /\ UNCHANGED <<key_code, pressed, moved, irq>>

\* key_device::run: the one action that is registered is for KEY_NUM and the value 1.
KeyRun == /\ events # <<>> /\ events' = Tail(events)
          /\ IF key_code = KEY_NUM /\ Head(events) = 1 THEN KeyPress ELSE UNCHANGED vars
          /\ UNCHANGED <<key_code, pressed, moved, irq, protect, key_timer, reported>>

Driver == Edge \/ KeyHandler \/ KeyTimerFunc

KeyNext == \/ Driver /\ UNCHANGED vars
           \/ KeyRun
           \/ LinkStep /\ UNCHANGED keyVars

KeySpec == /\ KeyInit /\ [][KeyNext]_allVars
           /\ Fairness

-----------------------------------------------------------------------------
\* When no edge waits and no timer runs, what was reported last is the line as it
\* is now: no edge gets lost between two of the timer, however the key bounces.
LineReported == moved /\ ~irq /\ ~key_timer => reported = Reported
=============================================================================
