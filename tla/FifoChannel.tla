----------------------------- MODULE FifoChannel -----------------------------
(***************************************************************************)
(* What an inter-thread queue of this code base promises to its users: a   *)
(* lossless first-in first-out channel.  A receive either takes the oldest *)
(* item or gives up; an item that stays in the channel is taken in the     *)
(* end.  ThreadQueue is shown to implement it.                             *)
(***************************************************************************)
EXTENDS Sequences

CONSTANTS Items,     \* what can be sent
          Takers,    \* the threads that receive
          Nothing    \* the result of a receive that gave up

VARIABLES chan,      \* the items sent and not yet received, oldest first
          result     \* result[t] is what the last receive of t returned

vars == <<chan, result>>

TypeOK == /\ chan \in Seq(Items)
          /\ result \in [Takers -> Items \cup {Nothing}]

Init == /\ chan = <<>>
        /\ result = [t \in Takers |-> Nothing]

Put(i) == /\ chan' = Append(chan, i)
          /\ UNCHANGED result

Take(t) == /\ chan # <<>>
           /\ chan' = Tail(chan)
           /\ result' = [result EXCEPT ![t] = Head(chan)]

GiveUp(t) == /\ result' = [result EXCEPT ![t] = Nothing]
             /\ UNCHANGED chan

TakeSome == \E t \in Takers : Take(t)

Next == \/ \E i \in Items : Put(i)
        \/ TakeSome
        \/ \E t \in Takers : GiveUp(t)

Safe == Init /\ [][Next]_vars

Spec == Safe /\ WF_vars(TakeSome)
=============================================================================
