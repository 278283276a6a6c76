-------------------------------- MODULE Board --------------------------------
(***************************************************************************)
(* The devices of the board that have a concurrency of their own: the      *)
(* traffic light (LoopLed), the alarm and the time of the real-time clock  *)
(* (RtcAlarm, RtcClock), the touch screen (TouchScreen) and the key as a   *)
(* device file (KeyNode).  They share no state, so what one of them does   *)
(* among the others it does alone too: a behaviour of Board is one of a    *)
(* single device, and the others rest where they start.                    *)
(***************************************************************************)
EXTENDS LoopLed

CONSTANTS MaxMatches, MaxCalls,                               \* of RtcAlarm
          Times, AlarmBytes, HostTime, MaxTicks, MaxResets,   \* of RtcClock, with MaxCalls
          GOODIX_MAX_CONTACTS, Touches, MaxTouches, MaxFails, \* of TouchScreen
          App, Others, MaxEdges, MaxReads                     \* of KeyNode

VARIABLES device,   \* the one that is looked at
          aie, af, armed, driver, mode, alarm_latched, alarm_handler, buf, alarm_calls, matches,
          asked, owed, missed, alarm_raced,
          chip, bus, ticks, calls, resets, time, clock, during,
          touch_status, points, touch_probe, latched, handler, touch_num, point_data, slot_state,
          touch_shown, touches, fails, last, sure,
          value, irq, protect, key_timer, key_value, status, async_queue, sigio, probe, dead, pc,
          edges, reads, change, key_seen, told, new, disturbed

Alarm == INSTANCE RtcAlarm WITH latched <- alarm_latched, handler <- alarm_handler,
                                calls <- alarm_calls, raced <- alarm_raced
Clock == INSTANCE RtcClock
Touch == INSTANCE TouchScreen WITH status <- touch_status, probe <- touch_probe,
                                   shown <- touch_shown
Key   == INSTANCE KeyNode WITH seen <- key_seen

ASSUME DeviceAssumption ==
    Alarm!Assumption /\ Clock!Assumption /\ Touch!Assumption /\ Key!Assumption

alarm == <<aie, af, armed, driver, mode, alarm_latched, alarm_handler, buf, alarm_calls, matches,
           asked, owed, missed, alarm_raced>>
rtc   == <<chip, bus, ticks, calls, resets, time, clock, during>>
touch == <<touch_status, points, touch_probe, latched, handler, touch_num, point_data, slot_state,
           touch_shown, touches, fails, last, sure>>
key   == <<value, irq, protect, key_timer, key_value, status, async_queue, sigio, probe, dead, pc,
           edges, reads, change, key_seen, told, new, disturbed>>
allVars == <<device, vars, alarm, rtc, touch, key>>

Devices == {"loopled", "alarm", "clock", "touch", "key"}

BoardInit == /\ device \in Devices
             /\ Init /\ Alarm!Init /\ Clock!Init /\ Touch!Init /\ Key!Init
             \* The devices at rest have one initial state.
             /\ device # "alarm" => ~aie /\ ~af /\ ~armed
             /\ device # "key" => value = 0

LightStep(A) == device = "loopled" /\ A /\ UNCHANGED <<device, alarm, rtc, touch, key>>
AlarmStep(A) == device = "alarm" /\ A /\ UNCHANGED <<device, vars, rtc, touch, key>>
ClockStep(A) == device = "clock" /\ A /\ UNCHANGED <<device, vars, alarm, touch, key>>
TouchStep(A) == device = "touch" /\ A /\ UNCHANGED <<device, vars, alarm, rtc, key>>
KeyStep(A)   == device = "key" /\ A /\ UNCHANGED <<device, vars, alarm, rtc, touch>>

BoardNext == \/ LightStep(Next) \/ AlarmStep(Alarm!Next) \/ ClockStep(Clock!Next)
             \/ TouchStep(Touch!Next) \/ KeyStep(Key!Next)

\* The fairness of each device, for the one that is looked at: what a thread of
\* one does stands in one line with what a thread of another does.
BoardSpec ==
    /\ BoardInit /\ [][BoardNext]_allVars
    /\ WF_allVars(\/ LightStep(Refresh) \/ AlarmStep(Alarm!Handler)
                  \/ TouchStep(Touch!goodix_irq_handler) \/ KeyStep(Key!key_handler))
    /\ WF_allVars(\/ LightStep(ResetTick) \/ AlarmStep(Alarm!Probe)
                  \/ TouchStep(Touch!goodix_probe) \/ KeyStep(Key!key_probe))
    /\ WF_allVars(AlarmStep(Alarm!SetMode) \/ KeyStep(Key!key_timer_func))
    /\ WF_allVars(KeyStep(Key!sigio_signal_func))
    /\ \A r \in Key!Readers : WF_allVars(KeyStep(Key!key_read(r)))

-----------------------------------------------------------------------------
(* The properties of the drivers; each is stated and explained in its module. *)

\* Once a call has ended the alarm is on or off as it asked (RtcAlarm).
ModeAsAsked == Alarm!ModeAsAsked
\* An alarm that goes off while it is on is reported (RtcAlarm).
AlarmReported == Alarm!AlarmReported
\* A time that is read is one at which the clock stood while it was read (RtcClock).
TimeIsNow == Clock!TimeIsNow
\* At rest the input device shows the fingers of the last touch (TouchScreen).
ShownIsTouched == Touch!ShownIsTouched
\* A touch that nothing comes in the way of is shown in the end (TouchScreen).
TouchShown == Touch!TouchShown
\* What a reader of the key gets is a change no read has returned before (KeyNode).
ReadIsNew == Key!ReadIsNew
\* A change of the key that was signalled is taken from the word (KeyNode).
ChangeTaken == Key!ChangeTaken
=============================================================================
