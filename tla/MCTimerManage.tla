---------------------------- MODULE MCTimerManage ----------------------------
(* TimerManage with one client; a one-shot action, one every two ticks for *)
(* two times, one with period 0, one that repeats for ever and one that is *)
(* to repeat more often than that.                                         *)
EXTENDS TimerManage

MCRequests == { [id |-> 1, time |-> 1, count |-> 1],
                [id |-> 1, time |-> 2, count |-> 2],
                [id |-> 0, time |-> 0, count |-> 2],
                [id |-> 0, time |-> 2, count |-> Always],
                [id |-> 1, time |-> 1, count |-> Always + 1] }
=============================================================================
