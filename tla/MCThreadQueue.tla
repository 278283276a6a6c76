---------------------------- MODULE MCThreadQueue ----------------------------
(* ThreadQueue with two senders, two receivers, two objects and a queue of *)
(* three: both windows of send() and receive() are open in both threads.   *)
EXTENDS ThreadQueue
=============================================================================
