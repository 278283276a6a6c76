--------------------------- MODULE MCCommandRoute ---------------------------
(* CommandRoute with two processes and three lines, of which the second has *)
(* arguments if it goes to the first process: merged commands are carried   *)
(* out by one of them and fail in the other.  FIFOs hold one message, and   *)
(* two processes may end.  A tick of the clock is longer than a login       *)
(* lasts: in two of them it ends, and the line that says so has to wait for *)
(* as long again, behind which the time is taken a second time.             *)
EXTENDS CommandRoute

MCDevices       == {"local", "lower"}
MCWithArguments == {<<"local", 2>>}
=============================================================================
