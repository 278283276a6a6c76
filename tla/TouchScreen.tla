----------------------------- MODULE TouchScreen -----------------------------
(***************************************************************************)
(* The touch screen: the driver mod/14.touch_key/goodix_ts_i2c on the      *)
(* GT9147 that the board has under QEMU (hw/sensor/gt9147.c), touched by   *)
(* the command of the monitor (monitor/hmp-cmds.c).  The command writes    *)
(* the registers of the chip and pulses the interrupt at once; the         *)
(* interrupt thread of the driver reads the status, then the points, byte  *)
(* by byte, reports them, and clears the status.  Nothing keeps a touch    *)
(* from falling in between.                                                *)
(***************************************************************************)
EXTENDS Integers, Sequences

CONSTANTS GOODIX_MAX_CONTACTS,  \* fingers
          Touches,     \* arguments of the command: [point, x, y]
          MaxTouches,  \* bound on the commands
          MaxFails     \* bound on the transfers that fail

WordMax == 65535
Word    == 0 .. WordMax

\* What the constants have to be; Board assumes it.
Assumption ==
    /\ GOODIX_MAX_CONTACTS \in 1 .. 15
    /\ Touches \subseteq [point : 0 .. 255, x : Word, y : Word]
    /\ {MaxTouches, MaxFails} \subseteq Nat

Fingers == 0 .. GOODIX_MAX_CONTACTS - 1
Up == <<>>

VARIABLES status,      \* GT_GSTID_REG
          points,      \* the bytes of each point's x and y, low bytes first
          probe,       \* how far goodix_probe is
          latched,     \* a falling edge waits for the interrupt thread
          handler,     \* where goodix_irq_handler is
          touch_num, point_data,
          slot_state,  \* the driver's note of the fingers it has reported
          shown,       \* what the input device shows: where each finger is
          touches, fails,
          last,        \* history: the fingers of the last touch
          sure         \* history: nothing has come in the way of that touch

chip == <<status, points>>
local == <<touch_num, point_data>>
vars == <<chip, probe, latched, handler, local, slot_state, shown, touches, fails, last, sure>>

Init == /\ status = 0 /\ points = [i \in Fingers |-> <<0, 0, 0, 0>>]
        /\ probe = "started" /\ latched = FALSE
        /\ handler = "idle" /\ touch_num = 0 /\ point_data = <<>>
        /\ slot_state = [i \in Fingers |-> FALSE] /\ shown = [i \in Fingers |-> Up]
        /\ touches = 0 /\ fails = 0
        /\ last = [i \in Fingers |-> Up] /\ sure = FALSE

-----------------------------------------------------------------------------
(* The chip and the command: hmp_touch_press, gt9147_touch.                *)

Contacts(t) == IF t.point > GOODIX_MAX_CONTACTS THEN GOODIX_MAX_CONTACTS ELSE t.point

\* Every point is moved from the one before it by 10 and 5 more than that was.
At(t, i) == <<(t.x + 5 * i * (i + 1)) % 65536, (t.y + 5 * ((i * (i + 1)) \div 2)) % 65536>>

BytesOf(p) == <<p[1] % 256, p[1] \div 256, p[2] % 256, p[2] \div 256>>

\* The touch is not read, or read in part, when the handler has read the status
\* and not cleared it yet.
Window == handler \in {"points", "report", "clear"}

hmp_touch_press(t) ==
    /\ touches < MaxTouches /\ touches' = touches + 1
    /\ status' = 128 + Contacts(t)
    /\ points' = [i \in Fingers |-> IF i < Contacts(t) THEN BytesOf(At(t, i)) ELSE points[i]]
    /\ latched' = (latched \/ probe # "started")
    /\ last' = [i \in Fingers |-> IF i < Contacts(t) THEN At(t, i) ELSE Up]
    /\ sure' = (probe # "started" /\ ~Window)
    /\ UNCHANGED <<probe, handler, local, slot_state, shown, fails>>

-----------------------------------------------------------------------------
(* goodix_probe: the interrupt is requested, then the input device made.   *)

ProbeRequests ==
    /\ probe = "started" /\ probe' = "requested"
    /\ UNCHANGED <<chip, latched, handler, local, slot_state, shown, touches, fails, last, sure>>

goodix_inputdev_create ==
    /\ probe = "requested" /\ probe' = "done"
    /\ UNCHANGED <<chip, latched, handler, local, slot_state, shown, touches, fails, last, sure>>

-----------------------------------------------------------------------------
(* goodix_irq_handler. *)

Interrupt ==
    /\ latched /\ handler = "idle"
    /\ latched' = FALSE /\ handler' = "status"
    /\ UNCHANGED <<chip, probe, local, slot_state, shown, touches, fails, last, sure>>

\* A transfer fails: nothing is read, and only failing points are given up with
\* the status cleared.
Fails ==
    /\ handler \in {"status", "points", "clear"}
    /\ fails < MaxFails /\ fails' = fails + 1
    /\ handler' = IF handler = "points" THEN "clear" ELSE "idle"
    /\ sure' = (handler = "clear" /\ sure)
    /\ UNCHANGED <<chip, probe, latched, local, slot_state, shown, touches, last>>

\* Mutant: without a point there is nothing to report.
ReadStatusPoints ==
    /\ handler = "status"
    /\ touch_num' = IF status % 16 > GOODIX_MAX_CONTACTS THEN GOODIX_MAX_CONTACTS ELSE status % 16
    /\ point_data' = <<>>
    /\ handler' = IF status < 128 THEN "idle" ELSE IF touch_num' = 0 THEN "clear" ELSE "points"
    /\ UNCHANGED <<chip, probe, latched, slot_state, shown, touches, fails, last, sure>>

\* Without the highest bit the interrupt is not the chip's.
ReadStatus ==
    /\ handler = "status"
    /\ touch_num' = IF status % 16 > GOODIX_MAX_CONTACTS THEN GOODIX_MAX_CONTACTS ELSE status % 16
    /\ point_data' = <<>>
    /\ handler' = IF status < 128 THEN "idle" ELSE IF touch_num' = 0 THEN "report" ELSE "points"
    /\ UNCHANGED <<chip, probe, latched, slot_state, shown, touches, fails, last, sure>>

\* gt9147_recv: the next byte of the points.
ReadPoints ==
    /\ handler = "points"
    /\ LET n == Len(point_data)
       IN  /\ point_data' = Append(point_data, points[n \div 4][(n % 4) + 1])
           /\ handler' = IF n + 1 = 4 * touch_num THEN "report" ELSE "points"
    /\ UNCHANGED <<chip, probe, latched, touch_num, slot_state, shown, touches, fails, last, sure>>

Place(i) == <<point_data[4 * i + 1] + 256 * point_data[4 * i + 2],
              point_data[4 * i + 3] + 256 * point_data[4 * i + 4]>>

\* Mutant: the fingers that have gone are not released.
ReportKeeps ==
    /\ handler = "report"
    /\ \/ /\ probe = "done" /\ handler' = "clear"
          /\ shown' = [i \in Fingers |-> IF i < touch_num THEN Place(i) ELSE shown[i]]
          /\ slot_state' = [i \in Fingers |-> i < touch_num]
       \/ probe # "done" /\ handler' = "dead" /\ UNCHANGED <<shown, slot_state>>
    /\ UNCHANGED <<chip, probe, latched, local, touches, fails, last, sure>>

\* All of it shows with input_sync.  Before the input device has been made the
\* handler goes through a null pointer.
Report ==
    /\ handler = "report"
    /\ \/ /\ probe = "done" /\ handler' = "clear"
          /\ shown' = [i \in Fingers |-> IF i < touch_num THEN Place(i)
                                         ELSE IF slot_state[i] THEN Up ELSE shown[i]]
          /\ slot_state' = [i \in Fingers |-> i < touch_num]
       \/ probe # "done" /\ handler' = "dead" /\ UNCHANGED <<shown, slot_state>>
    /\ UNCHANGED <<chip, probe, latched, local, touches, fails, last, sure>>

Clear ==
    /\ handler = "clear" /\ handler' = "idle"
    /\ status' = 0
    /\ UNCHANGED <<points, probe, latched, local, slot_state, shown, touches, fails, last, sure>>

goodix_probe == ProbeRequests \/ goodix_inputdev_create
goodix_irq_handler == Interrupt \/ ReadStatus \/ ReadPoints \/ Report \/ Clear

Next == (\E t \in Touches : hmp_touch_press(t)) \/ goodix_probe \/ Fails \/ goodix_irq_handler

\* The probe and the interrupt thread go on; nobody has to touch.
Spec == Init /\ [][Next]_vars /\ WF_vars(goodix_probe) /\ WF_vars(goodix_irq_handler)

-----------------------------------------------------------------------------
TypeOK ==
    /\ status \in {0} \cup 128 .. 128 + GOODIX_MAX_CONTACTS
    /\ points \in [Fingers -> [1 .. 4 -> 0 .. 255]]
    /\ probe \in {"started", "requested", "done"} /\ latched \in BOOLEAN
    /\ handler \in {"idle", "status", "points", "report", "clear", "dead"}
    /\ touch_num \in 0 .. GOODIX_MAX_CONTACTS /\ point_data \in Seq(0 .. 255)
    /\ slot_state \in [Fingers -> BOOLEAN] /\ DOMAIN shown = Fingers /\ sure \in BOOLEAN
    /\ touches \in 0 .. MaxTouches /\ fails \in 0 .. MaxFails

\* At rest the input device shows the fingers of the last touch, each where it is
\* and no other, whatever became of those before it: unless that touch came while
\* the handler was between its read of the status and its write, or before the
\* interrupt was requested, or a transfer failed.
ShownIsTouched == probe = "done" /\ handler = "idle" /\ ~latched /\ sure => shown = last

\* A touch that nothing comes in the way of is shown in the end, unless one came
\* before the input device was made.
TouchShown == sure ~> (shown = last \/ ~sure \/ handler = "dead")
=============================================================================
