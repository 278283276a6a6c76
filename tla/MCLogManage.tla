----------------------------- MODULE MCLogManage -----------------------------
(***************************************************************************)
(* LogManage with a buffer of seven bytes: lines of 2 and 4 bytes fit with *)
(* their end of line, one of 6 does not by one byte, one of 7 not at all.  *)
(* Two of the three threads share a process.                               *)
(***************************************************************************)
EXTENDS LogManage, TLC

MCThreads == {"main_1", "main_2", "local"}
MCProcess == [t \in MCThreads |-> IF t = "local" THEN "local_device" ELSE "main_process"]
=============================================================================
