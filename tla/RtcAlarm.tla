------------------------------ MODULE RtcAlarm ------------------------------
(***************************************************************************)
(* The alarm of the real-time clock: the driver                            *)
(* mod/09.rtc/bus_rtc/kernel_bus_rtc.c over the second control register of *)
(* the PCF8563.  The calls of the rtc core come one at a time, under its   *)
(* lock; the interrupt thread of the driver does not take that lock, and   *)
(* both read the register, change it and write it back in transfers of     *)
(* their own.  The chip has a battery: before the probe its register       *)
(* holds what was there when the board was switched off.                   *)
(***************************************************************************)
EXTENDS Naturals

CONSTANTS MaxCalls,    \* bound on the calls of the rtc core
          MaxMatches   \* bound on the times the alarm goes off

\* What the constants have to be; Board assumes it.
Assumption == {MaxCalls, MaxMatches} \subseteq Nat

VARIABLES aie, af,     \* PCF8563_BIT_AIE and PCF8563_BIT_AF of the register
          armed,       \* the alarm registers hold a time
          driver,      \* how far i2c_probe is
          mode,        \* set_alarm_mode under way, with this `on'; or "none"
          latched,     \* a falling edge waits for the interrupt thread
          handler,     \* where pcf8563_irq_handler is
          buf,         \* its copy of AIE
          calls, matches,
          asked,       \* history: the mode asked for last
          owed,        \* history: the alarm went off, and nobody knows
          missed,      \* history: it went off before the interrupt was requested
          raced        \* history: the mode was written while the handler held a copy

register == <<aie, af>>
vars == <<register, armed, driver, mode, latched, handler, buf, calls, matches, asked, owed,
          missed, raced>>

Init == /\ aie \in BOOLEAN /\ af \in BOOLEAN /\ armed \in BOOLEAN
        /\ driver = "new" /\ mode = "none"
        /\ latched = FALSE /\ handler = "idle" /\ buf = FALSE
        /\ calls = 0 /\ matches = 0
        /\ asked = FALSE /\ owed = FALSE /\ missed = FALSE /\ raced = FALSE

Requested == driver = "done"

\* The pin is low while AF and AIE are set.  A falling edge is latched once the
\* interrupt has been requested; until then it is lost.
Falls == ~(aie /\ af) /\ aie' /\ af'
Pin   == latched' = (latched \/ (Falls /\ Requested))
\* Every write of the register clears AF.
Write(on) == /\ aie' = on /\ af' = FALSE /\ missed' = FALSE
             /\ Pin

-----------------------------------------------------------------------------
(* The chip. *)

AlarmMatches ==
    /\ armed /\ matches < MaxMatches /\ matches' = matches + 1
    /\ af' = TRUE /\ UNCHANGED aie
    /\ Pin
    /\ owed'   = (owed \/ (aie /\ Requested))
    /\ missed' = (missed \/ (Falls /\ ~Requested))
    /\ UNCHANGED <<armed, driver, mode, handler, buf, calls, asked, raced>>

-----------------------------------------------------------------------------
(* i2c_probe. *)

\* The register is cleared ...
ProbeClears ==
    /\ driver = "new" /\ driver' = "cleared"
    /\ Write(FALSE)
    /\ UNCHANGED <<armed, mode, handler, buf, calls, matches, asked, owed, raced>>

\* ... the clock is registered, and can be called from now on ...
ProbeRegisters ==
    /\ driver = "cleared" /\ driver' = "registered"
    /\ UNCHANGED <<register, armed, mode, latched, handler, buf, calls, matches, asked, owed,
                   missed, raced>>

\* ... and then the interrupt is requested.
ProbeRequests ==
    /\ driver = "registered" /\ driver' = "done"
    /\ UNCHANGED <<register, armed, mode, latched, handler, buf, calls, matches, asked, owed,
                   missed, raced>>

-----------------------------------------------------------------------------
(* The rtc core. *)

Call(on) ==
    /\ driver \in {"registered", "done"} /\ mode = "none"
    /\ calls < MaxCalls /\ calls' = calls + 1
    /\ mode' = on /\ asked' = (on = "on")
    /\ UNCHANGED <<register, driver, latched, handler, buf, matches, owed, missed, raced>>

\* pcf8563_set_alarm writes the alarm registers first.
SetAlarm(on)       == Call(on) /\ armed' = TRUE
AlarmIrqEnable(on) == Call(on) /\ UNCHANGED armed

\* Mutant: the branch that takes AIE away is missing.
SetModeOn ==
    /\ mode # "none" /\ mode' = "none"
    /\ Write(aie \/ mode = "on")
    /\ owed' = FALSE
    /\ raced' = (handler = "write")
    /\ UNCHANGED <<armed, driver, handler, buf, calls, matches, asked>>

\* pcf8563_set_alarm_mode: of what it has read every bit that is modelled is
\* overwritten.
SetMode ==
    /\ mode # "none" /\ mode' = "none"
    /\ Write(mode = "on")
    /\ owed' = FALSE
    /\ raced' = (handler = "write")
    /\ UNCHANGED <<armed, driver, handler, buf, calls, matches, asked>>

-----------------------------------------------------------------------------
(* pcf8563_irq_handler, in the interrupt thread. *)

Interrupt ==
    /\ latched /\ handler = "idle"
    /\ latched' = FALSE /\ handler' = "mode"
    /\ UNCHANGED <<register, armed, driver, mode, buf, calls, matches, asked, owed, missed, raced>>

\* pcf8563_get_alarm_mode: without the flag the interrupt is spurious.
HandlerGetMode ==
    /\ handler = "mode" /\ handler' = IF af THEN "read" ELSE "idle"
    /\ UNCHANGED <<register, armed, driver, mode, latched, buf, calls, matches, asked, owed,
                   missed, raced>>

\* pcf8563_clear_alarm_flag reads ...
ClearReads ==
    /\ handler = "read" /\ handler' = "write" /\ buf' = aie
    /\ UNCHANGED <<register, armed, driver, mode, latched, calls, matches, asked, owed, missed,
                   raced>>

\* Mutant: the flag is written back as it was read.
ClearWritesBack ==
    /\ handler = "write" /\ handler' = "report"
    /\ aie' = buf /\ UNCHANGED <<af, missed>> /\ Pin
    /\ UNCHANGED <<armed, driver, mode, buf, calls, matches, asked, owed, raced>>

\* ... and writes.
ClearWrites ==
    /\ handler = "write" /\ handler' = "report"
    /\ Write(buf)
    /\ UNCHANGED <<armed, driver, mode, buf, calls, matches, asked, owed, raced>>

\* rtc_update_irq.
Report ==
    /\ handler = "report" /\ handler' = "idle" /\ owed' = FALSE
    /\ UNCHANGED <<register, armed, driver, mode, latched, buf, calls, matches, asked, missed,
                   raced>>

-----------------------------------------------------------------------------
Probe   == ProbeClears \/ ProbeRegisters \/ ProbeRequests
Handler == Interrupt \/ HandlerGetMode \/ ClearReads \/ ClearWrites \/ Report

Next == \/ AlarmMatches \/ Probe
        \/ \E on \in {"on", "off"} : SetAlarm(on) \/ AlarmIrqEnable(on)
        \/ SetMode \/ Handler

\* The probe, a call begun and the interrupt thread go on; nobody has to call,
\* and no alarm has to go off.
Spec == Init /\ [][Next]_vars /\ WF_vars(Probe) /\ WF_vars(SetMode) /\ WF_vars(Handler)

-----------------------------------------------------------------------------
TypeOK ==
    /\ {aie, af, armed, latched, buf, asked, owed, missed, raced} \subseteq BOOLEAN
    /\ driver \in {"new", "cleared", "registered", "done"}
    /\ mode \in {"none", "on", "off"}
    /\ handler \in {"idle", "mode", "read", "write", "report"}
    /\ calls \in 0 .. MaxCalls /\ matches \in 0 .. MaxMatches

\* Once a call has ended the alarm is on or off as it asked, unless it wrote the
\* register between the read and the write of the interrupt thread.
ModeAsAsked ==
    driver # "new" /\ mode = "none" /\ ~raced => aie = asked

\* An alarm that goes off while it is on is reported, or the next call takes it
\* away, unless one before the interrupt was requested holds the pin.
AlarmReported == owed ~> (~owed \/ missed)
=============================================================================
