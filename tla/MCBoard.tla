------------------------------- MODULE MCBoard -------------------------------
(* Board.  The light has a short cycle: green for two ticks, blinking for    *)
(* two, yellow and red for two each; up to five calls of set_state.  The     *)
(* alarm is called and goes off four times.  The clock is set to seconds     *)
(* around the end of a year and the end of a February with 29 days, started  *)
(* at the end of a month with 31: while the bytes of a new time come, the    *)
(* chip holds days that do not exist.  The screen has two fingers and is     *)
(* touched with one, with two over the highest coordinate, with more than    *)
(* there are and with none.  The key has the application, one more reader    *)
(* and five edges: two changes and a bounce.                                 *)
EXTENDS Board

NewYear == <<58, 59, 23, 31, 0, 11, 123>>
LeapDay == <<59, 59, 23, 29, 4, 1, 124>>

MCTimes      == {NewYear, LeapDay}
MCAlarmBytes == {<<48, 18, 49, 3>>}
\* 2001-01-31 12:59:09 in seconds since 2000.
MCHostTime   == ((366 + 30) * 24 + 12) * 3600 + 59 * 60 + 9

MCTouches == {[point |-> 1, x |-> 258, y |-> 772], [point |-> 2, x |-> 65530, y |-> 1286],
              [point |-> 9, x |-> 515, y |-> 1], [point |-> 0, x |-> 0, y |-> 0]}
=============================================================================
