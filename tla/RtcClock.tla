------------------------------ MODULE RtcClock ------------------------------
(***************************************************************************)
(* The time of the real-time clock: the driver                             *)
(* mod/09.rtc/bus_rtc/kernel_bus_rtc.c on the PCF8563 that the board has   *)
(* under QEMU (platform/I.MX6ULL/qemu-11.0.0-patch/hw/sensor/pcf8563.c).   *)
(* A transfer on the bus is not interrupted by another one, but it goes    *)
(* byte by byte, and the timer of the emulated chip may expire between any *)
(* two of them.  A time is a sequence of its fields in the order of the    *)
(* registers, with the month from 0 and the year from 1900 as in struct    *)
(* tm.  The host's zone has no daylight saving.                            *)
(***************************************************************************)
EXTENDS Integers, Sequences

CONSTANTS Times,       \* times that are set
          AlarmBytes,  \* alarms that are set: bytes of the four registers
          HostTime,    \* the host's time, at a reset
          MaxTicks,    \* bound on the seconds that pass
          MaxCalls,    \* bound on the transfers
          MaxResets    \* bound on the resets of the machine

REG_CTRL2     == 1
REG_SEC       == 2
REG_YEAR      == 8
REG_MIN_ALARM == 9
PCF8563_REG_MAX == 15

-----------------------------------------------------------------------------
(* Calendar, from 2000 to 2099, the range the driver registers; to_bcd is   *)
(* bin2bcd of the driver too, from_bcd bcd2bin.                             *)

to_bcd(value)   == 16 * (value \div 10) + (value % 10)
from_bcd(value) == 10 * (value \div 16) + (value % 16)

Years    == 100 .. 199
Leap(y)  == y % 4 = 0
DaysBeforeYear(y)     == 365 * (y - 100) + (y - 97) \div 4
DaysBeforeMonth(m, y) == <<0, 31, 59, 90, 120, 151, 181, 212, 243, 273, 304, 334, 365>>[m + 1]
                         + (IF m > 1 /\ Leap(y) THEN 1 ELSE 0)

\* Seconds since 2000.
mktime(tm) == LET days == DaysBeforeYear(tm[7]) + DaysBeforeMonth(tm[6], tm[7]) + tm[4] - 1
              IN  tm[1] + 60 * (tm[2] + 60 * (tm[3] + 24 * days))

localtime(t) ==
    LET days == t \div 86400
        year == CHOOSE y \in Years : days \in DaysBeforeYear(y) .. DaysBeforeYear(y + 1) - 1
        yday == days - DaysBeforeYear(year)
        mon  == CHOOSE m \in 0 .. 11 :
                    yday \in DaysBeforeMonth(m, year) .. DaysBeforeMonth(m + 1, year) - 1
    IN  <<t % 60, (t \div 60) % 60, (t \div 3600) % 24, yday - DaysBeforeMonth(mon, year) + 1,
          (days + 6) % 7, mon, year>>

\* The times of the calendar, and the seconds that fall before its end.
Fields == (0 .. 59) \X (0 .. 59) \X (0 .. 23) \X (1 .. 31) \X (0 .. 6) \X (0 .. 11) \X Years
InCalendar(t) == t \in Nat /\ t \div 86400 < DaysBeforeYear(200)

Byte == 0 .. 255

\* What the constants have to be; Board assumes it.  The clock stays in the range
\* that the driver registers.
Assumption == /\ {MaxTicks, MaxCalls, MaxResets} \subseteq Nat
              /\ Times \subseteq Fields
              /\ AlarmBytes \subseteq Byte \X Byte \X Byte \X Byte
              /\ \A t \in {HostTime} \cup {mktime(tm) : tm \in Times} :
                    t \in Nat /\ InCalendar(t + MaxTicks)

\* The seven time registers: the month has the century in its highest bit.
Encoded(tm) ==
    <<to_bcd(tm[1]), to_bcd(tm[2]), to_bcd(tm[3]), to_bcd(tm[4]), tm[5],
      to_bcd(tm[6] + 1) + (IF tm[7] >= 100 THEN 0 ELSE 128), to_bcd(tm[7] % 100)>>

Decoded(b) ==
    <<from_bcd(b[1] % 128), from_bcd(b[2] % 128), from_bcd(b[3] % 64), from_bcd(b[4] % 64),
      b[5] % 8, from_bcd(b[6] % 32) - 1, from_bcd(b[7]) + (IF b[6] >= 128 THEN 0 ELSE 100)>>

-----------------------------------------------------------------------------
(* The chip: PCF8563State and its handlers.                                *)

TimeRegs(s) == [i \in 1 .. 7 |-> s.regs[REG_SEC + i - 1]]

pcf8563_update_time(s) ==
    [s EXCEPT !.regs = [r \in DOMAIN @ |-> IF r \in REG_SEC .. REG_YEAR
                                           THEN Encoded(localtime(s.timestamp))[r - REG_SEC + 1]
                                           ELSE @[r]]]

pcf8563_store_time(s) == [s EXCEPT !.timestamp = mktime(Decoded(TimeRegs(s)))]

\* Mutant: the registers follow the clock.
timer_cb_updates(s) == pcf8563_update_time([s EXCEPT !.timestamp = @ + 1])

timer_cb(s) == [s EXCEPT !.timestamp = @ + 1]

pcf8563_reset_state ==
    pcf8563_update_time([regs |-> [r \in 0 .. PCF8563_REG_MAX |-> 0], reg |-> 0,
                         waiting_reg |-> TRUE, read_update |-> TRUE, timestamp |-> HostTime])

\* The first byte of a transfer is the register, the others go there and on.
pcf8563_send(s, data) ==
    IF s.waiting_reg THEN [s EXCEPT !.reg = data, !.waiting_reg = FALSE]
    ELSE LET w == IF s.reg <= PCF8563_REG_MAX THEN [s EXCEPT !.regs[s.reg] = data] ELSE s
             t == IF s.reg \in REG_SEC .. REG_YEAR
                  THEN [pcf8563_store_time(w) EXCEPT !.read_update = FALSE]
                  ELSE w
         IN  [t EXCEPT !.reg = (@ + 1) % 256]

\* Mutant: every read finds the clock as it is.
FreshAlways(s) == IF s.reg \in REG_SEC .. REG_YEAR THEN pcf8563_update_time(s) ELSE s

\* What a read finds: the registers as the clock is at the first of the time.
Fresh(s) == IF ~s.read_update /\ s.reg \in REG_SEC .. REG_YEAR
            THEN [pcf8563_update_time(s) EXCEPT !.read_update = TRUE]
            ELSE s

pcf8563_recv(s) == [Fresh(s) EXCEPT !.reg = (@ + 1) % 256]
Received(s)     == IF s.reg <= PCF8563_REG_MAX THEN Fresh(s).regs[s.reg] ELSE 255

\* pcf8563_event: the others do nothing.
StartRecv(s) == [s EXCEPT !.read_update = FALSE]
Finish(s)    == [s EXCEPT !.waiting_reg = TRUE, !.read_update = FALSE]

-----------------------------------------------------------------------------
VARIABLES chip,     \* the state of the chip
          bus,      \* the transfer under way: [call, left, got]
          ticks, calls, resets,
          time,     \* what pcf8563_get_time returned last
          clock,    \* history: the time set last, and the seconds counted since then
          during    \* history: what it was during the last pcf8563_get_time

vars == <<chip, bus, ticks, calls, resets, time, clock, during>>

\* A transfer: the call it belongs to, bytes still to be sent, how many still to
\* be received, and those received.
Transfer(call, out, in) == [call |-> call, out |-> out, in |-> in, got |-> <<>>]
Silence == Transfer("none", <<>>, 0)

Init == /\ chip = pcf8563_reset_state /\ bus = Silence
        /\ ticks = 0 /\ calls = 0 /\ resets = 0
        /\ time = <<>> /\ clock = HostTime /\ during = {}

\* A timer of the chip expires: the one of the last reset, or one that an earlier
\* reset left armed, which fires once more and puts the new one off.
Tick == /\ ticks < MaxTicks /\ ticks' = ticks + 1
        /\ chip' = timer_cb(chip) /\ clock' = clock + 1
        /\ during' = IF bus.call = "get_time" THEN during \cup {clock'} ELSE during
        /\ UNCHANGED <<bus, calls, resets, time>>

\* The machine is reset, in the middle of a transfer or not.
Reset == /\ resets < MaxResets /\ resets' = resets + 1
         /\ chip' = pcf8563_reset_state /\ bus' = Silence
         /\ clock' = HostTime /\ time' = <<>> /\ during' = {}
         /\ UNCHANGED <<ticks, calls>>

Idle == bus = Silence /\ calls < MaxCalls

\* pcf8563_read_block: the register is sent, and the bus turned around.
ReadBlock(call, reg, len) ==
    /\ Idle /\ calls' = calls + 1
    /\ chip' = StartRecv(pcf8563_send(chip, reg))
    /\ bus' = Transfer(call, <<>>, len)

\* pcf8563_write_block.
WriteBlock(call, reg, buf) ==
    /\ Idle /\ calls' = calls + 1
    /\ chip' = pcf8563_send(chip, reg)
    /\ bus' = Transfer(call, buf, 0)

-----------------------------------------------------------------------------
(* The driver. *)

pcf8563_get_time == /\ ReadBlock("get_time", REG_SEC, 7)
                    /\ during' = {clock} /\ time' = <<>>
                    /\ UNCHANGED <<ticks, resets, clock>>

pcf8563_set_time == /\ \E tm \in Times : WriteBlock("set_time", REG_SEC, Encoded(tm))
                    /\ UNCHANGED <<ticks, resets, time, clock, during>>

\* Other transfers: the alarm and the mode, which are in RtcAlarm.
pcf8563_set_alarm == /\ \E buf \in AlarmBytes : WriteBlock("set_alarm", REG_MIN_ALARM, buf)
                     /\ UNCHANGED <<ticks, resets, time, clock, during>>

pcf8563_set_alarm_mode == /\ \/ ReadBlock("get_mode", REG_CTRL2, 1)
                             \/ WriteBlock("set_mode", REG_CTRL2, <<0>>)
                          /\ UNCHANGED <<ticks, resets, time, clock, during>>

\* With the last byte the time has been set.
SendByte ==
    /\ bus.out # <<>>
    /\ chip' = pcf8563_send(chip, Head(bus.out))
    /\ bus' = [bus EXCEPT !.out = Tail(@), !.got = Append(@, Head(bus.out))]
    /\ clock' = IF bus.call = "set_time" /\ Len(bus.out) = 1 THEN mktime(Decoded(bus'.got))
                ELSE clock
    /\ UNCHANGED <<ticks, calls, resets, time, during>>

RecvByte ==
    /\ bus.in > 0
    /\ chip' = pcf8563_recv(chip)
    /\ bus' = [bus EXCEPT !.in = @ - 1, !.got = Append(@, Received(chip))]
    /\ UNCHANGED <<ticks, calls, resets, time, clock, during>>

Stop ==
    /\ bus.call # "none" /\ bus.out = <<>> /\ bus.in = 0
    /\ chip' = Finish(chip) /\ bus' = Silence
    /\ time' = IF bus.call = "get_time" THEN Decoded(bus.got) ELSE time
    /\ UNCHANGED <<ticks, calls, resets, clock, during>>

Next == \/ Tick \/ Reset
        \/ pcf8563_get_time \/ pcf8563_set_time \/ pcf8563_set_alarm \/ pcf8563_set_alarm_mode
        \/ SendByte \/ RecvByte \/ Stop

Spec == Init /\ [][Next]_vars

-----------------------------------------------------------------------------
TypeOK ==
    /\ chip \in [regs : [0 .. PCF8563_REG_MAX -> Byte], reg : Byte, waiting_reg : BOOLEAN,
              read_update : BOOLEAN, timestamp : Nat]
    /\ bus.out \in Seq(Byte) /\ bus.in \in 0 .. 7 /\ bus.got \in Seq(Byte)
    /\ ticks \in 0 .. MaxTicks /\ calls \in 0 .. MaxCalls /\ resets \in 0 .. MaxResets
    /\ clock \in Nat /\ during \subseteq Nat

\* A time that is read is one at which the clock stood while it was read: no field
\* of it is of an earlier second than another, and it is the time that was set and
\* the seconds counted since, whatever else was sent to the chip.
TimeIsNow == time # <<>> => \E t \in during : time = localtime(t)
=============================================================================
