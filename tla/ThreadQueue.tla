----------------------------- MODULE ThreadQueue -----------------------------
(***************************************************************************)
(* EVENT::Thread_Queue (embed/common/event/thread_queue.hpp) on top of     *)
(* EVENT::semaphore (semaphore.hpp).  The queue and the semaphore have a   *)
(* mutex each and no operation holds both, so between the push and the     *)
(* signal of send(), and between the wait and the pop of receive(), every  *)
(* other thread may run.  One action is one critical section.              *)
(***************************************************************************)
EXTENDS Naturals, Sequences, FiniteSets

CONSTANTS Senders,    \* threads that call send()
          Receivers,  \* threads that call receive()
          Objects,    \* the objects of type T that are sent
          None,       \* stands for receive() returning false
          MaxQueue    \* bound on the queue, which the code does not bound

ASSUME ThreadAssumption == IsFiniteSet(Senders) /\ IsFiniteSet(Receivers)
ASSUME NoneAssumption == None \notin Objects
ASSUME BoundAssumption == MaxQueue \in Nat

VARIABLES queue_,     \* std::queue<T>
          wakeups_,   \* the count of the semaphore
          sending,    \* sending[s]: where s is in send()
          receiving,  \* receiving[r]: where r is in receive()
          result      \* result[r]: what the last receive() of r returned

vars == <<queue_, wakeups_, sending, receiving, result>>

Asleep   == {r \in Receivers : receiving[r] = "asleep"}    \* blocked in cv_
Notified == {r \in Receivers : receiving[r] = "notified"}  \* has to retest
Claimed  == {r \in Receivers : receiving[r] = "claimed"}   \* past wait()
Pushed   == {s \in Senders : sending[s] = "pushed"}        \* before signal()

Init == /\ queue_ = <<>>
        /\ wakeups_ = 0
        /\ sending = [s \in Senders |-> "idle"]
        /\ receiving = [r \in Receivers |-> "idle"]
        /\ result = [r \in Receivers |-> None]

-----------------------------------------------------------------------------
(* send(): push under the mutex of the queue, then signal the semaphore.   *)

SendPush(s, o) ==
    /\ sending[s] = "idle"
    /\ Len(queue_) < MaxQueue
    /\ queue_' = Append(queue_, o)
    /\ sending' = [sending EXCEPT ![s] = "pushed"]
    /\ UNCHANGED <<wakeups_, receiving, result>>

\* Mutant: "there is a wakeup already, so somebody must be on the way".
NotifyOneIfNone == IF Asleep = {} \/ wakeups_ > 0
                   THEN UNCHANGED receiving
                   ELSE \E r \in Asleep : receiving' = [receiving EXCEPT ![r] = "notified"]

\* notify_one(): some blocked thread, if there is one, is woken.
NotifyOne == IF Asleep = {}
             THEN UNCHANGED receiving
             ELSE \E r \in Asleep : receiving' = [receiving EXCEPT ![r] = "notified"]

\* Mutant: a binary semaphore, which forgets a second wakeup.
SendSignalBinary(s) ==
    /\ sending[s] = "pushed"
    /\ wakeups_' = 1
    /\ NotifyOne
    /\ sending' = [sending EXCEPT ![s] = "idle"]
    /\ UNCHANGED <<queue_, result>>

SendSignal(s) ==
    /\ sending[s] = "pushed"
    /\ wakeups_' = wakeups_ + 1
    /\ NotifyOne
    /\ sending' = [sending EXCEPT ![s] = "idle"]
    /\ UNCHANGED <<queue_, result>>

-----------------------------------------------------------------------------
(* receive(): semaphore::wait(timeout), then pop under the queue's mutex.  *)

\* The predicate of wait_for holds: the thread takes one wakeup.
Claim(r) == /\ wakeups_ > 0
            /\ wakeups_' = wakeups_ - 1
            /\ receiving' = [receiving EXCEPT ![r] = "claimed"]
            /\ UNCHANGED <<queue_, sending, result>>

\* The predicate does not hold: the thread blocks, releasing the mutex.
Block(r) == /\ wakeups_ = 0
            /\ receiving' = [receiving EXCEPT ![r] = "asleep"]
            /\ UNCHANGED <<queue_, wakeups_, sending, result>>

ReceiveWait(r) == receiving[r] \in {"idle", "notified"} /\ (Claim(r) \/ Block(r))

\* A condition variable may wake a thread that nobody notified.
SpuriousWakeup(r) ==
    /\ receiving[r] = "asleep"
    /\ receiving' = [receiving EXCEPT ![r] = "notified"]
    /\ UNCHANGED <<queue_, wakeups_, sending, result>>

\* The time is up: wait_for tests the predicate a last time.
Timeout(r) ==
    /\ receiving[r] \in {"asleep", "notified"}
    /\ \/ Claim(r)
       \/ /\ wakeups_ = 0
          /\ receiving' = [receiving EXCEPT ![r] = "idle"]
          /\ result' = [result EXCEPT ![r] = None]
          /\ UNCHANGED <<queue_, wakeups_, sending>>

\* Mutant: the newest object is taken first.
ReceivePopBack(r) ==
    /\ receiving[r] = "claimed"
    /\ receiving' = [receiving EXCEPT ![r] = "idle"]
    /\ result' = [result EXCEPT ![r] = IF queue_ # <<>> THEN queue_[Len(queue_)] ELSE None]
    /\ queue_' = IF queue_ # <<>> THEN SubSeq(queue_, 1, Len(queue_) - 1) ELSE queue_
    /\ UNCHANGED <<wakeups_, sending>>

ReceivePop(r) ==
    /\ receiving[r] = "claimed"
    /\ receiving' = [receiving EXCEPT ![r] = "idle"]
    /\ result' = [result EXCEPT ![r] = IF queue_ # <<>> THEN Head(queue_) ELSE None]
    /\ queue_' = IF queue_ # <<>> THEN Tail(queue_) ELSE queue_
    /\ UNCHANGED <<wakeups_, sending>>

-----------------------------------------------------------------------------
Next == \/ \E s \in Senders : (\E o \in Objects : SendPush(s, o)) \/ SendSignal(s)
        \/ \E r \in Receivers : \/ ReceiveWait(r)
                                \/ SpuriousWakeup(r)
                                \/ Timeout(r)
                                \/ ReceivePop(r)

Safe == Init /\ [][Next]_vars

(* A sender that pushed goes on to signal, and the users call receive() in *)
(* a loop (eMBPoll does).  Nothing is assumed of new sends, timeouts and   *)
(* spurious wakeups: no item may depend on one of them to be received.     *)
Fairness == /\ \A s \in Senders : WF_vars(SendSignal(s))
            /\ \A r \in Receivers : WF_vars(ReceiveWait(r)) /\ WF_vars(ReceivePop(r))

Spec == Safe /\ Fairness

-----------------------------------------------------------------------------
TypeOK == /\ queue_ \in Seq(Objects)
          /\ wakeups_ \in Nat
          /\ sending \in [Senders -> {"idle", "pushed"}]
          /\ receiving \in [Receivers -> {"idle", "asleep", "notified", "claimed"}]
          /\ result \in [Receivers -> Objects \cup {None}]

(* The count of the semaphore and the length of the queue, which no mutex  *)
(* protects together, differ by exactly the threads that are between their *)
(* two critical sections (send() before signal(), receive() after wait()). *)
TokensMatchItems ==
    Len(queue_) = wakeups_ + Cardinality(Pushed) + Cardinality(Claimed)

(* A receive() that got its wakeup finds an object, however many receivers *)
(* run between wait() and pop: the else of "queue_.size() != 0" is dead.   *)
ClaimFindsObject == Claimed # {} => queue_ # <<>>

(* No lost wakeup: while a receiver is blocked, every wakeup that is left  *)
(* has a notified receiver on its way to take it.                          *)
NoLostWakeup == Asleep # {} => wakeups_ <= Cardinality(Notified)

\* The semaphore serves the queue: its tokens are its objects, and wake a receiver
\* for each of them (semaphore.hpp).
WakeupsMatch == TokensMatchItems /\ NoLostWakeup

IInv == TypeOK /\ TokensMatchItems /\ NoLostWakeup

-----------------------------------------------------------------------------
(* send() and receive() are a lossless FIFO channel, and an object that is *)
(* in the queue is received without help from a timeout or a later send(). *)
Channel == INSTANCE FifoChannel WITH
               Items <- Objects, Takers <- Receivers, Nothing <- None, chan <- queue_
ImplementsChannel == Channel!Spec
=============================================================================
