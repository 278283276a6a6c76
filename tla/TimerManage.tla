----------------------------- MODULE TimerManage -----------------------------
(***************************************************************************)
(* timer_manage and its timer_struct (embed/common/timer_manage.cpp and    *)
(* .hpp): a thread that wakes up every peroid_, counts the ticks and runs  *)
(* the actions that other threads register and remove.  run() and          *)
(* remove_action() take begin() of the vector before they lock the mutex,  *)
(* so the iterator may point into storage that a push_back has replaced;   *)
(* to use it then is undefined, and the model goes no further.             *)
(***************************************************************************)
EXTENDS Naturals, Sequences

CONSTANTS Clients,       \* threads that register and remove actions
          Requests,      \* what they register: records [id, time, count]
          Always,        \* TIME_ACTION_ALWAYS
          MaxActions,    \* bound on the registrations
          MaxTicks       \* bound on the wakeups of the timer that find actions

ASSUME RequestAssumption == Requests \subseteq [id : Nat, time : Nat, count : Nat]
ASSUME TimerBounds == {Always, MaxActions, MaxTicks} \subseteq Nat

Ids == {r.id : r \in Requests}
NoIterator == 0          \* generations are counted from 1

VARIABLES stop_loop_,    \* timer_struct: the loop is to end
          thread,        \* where the thread of the timer is
          stopping,      \* where the owner is in timer_struct::stop()
          ticks_,        \* wakeups counted (the code adds peroid_ for each)
          vec,           \* time_action_vec_
          capacity,      \* how many actions its storage can hold
          generation,    \* counts the storages the vector has had
          iter,          \* iter[t]: the storage the begin() of t points into
          removing,      \* removing[c]: {id} while c is in remove_action(id), else {}
          registered,    \* history: registrations so far
          gone,          \* history: ids removed and not registered again
          undefined      \* an iterator into a freed storage was used

timer   == <<stop_loop_, thread, stopping>>
storage == <<vec, capacity, generation>>
timerVars == <<timer, ticks_, storage, iter, removing, registered, gone, undefined>>

Run == "run"             \* iter[Run] is the iterator of timer_manage::run

(* init() has been called: the thread was created.                         *)
TimerInit == /\ stop_loop_ = FALSE /\ thread = "starting" /\ stopping = "no"
             /\ ticks_ = 0
             /\ vec = <<>> /\ capacity = 0 /\ generation = 1
             /\ iter = [t \in Clients \cup {Run} |-> NoIterator]
             /\ removing = [c \in Clients |-> {}]
             /\ registered = 0
             /\ gone = {}
             /\ undefined = FALSE

-----------------------------------------------------------------------------
(* timer_struct::run *)

Enter == /\ thread = "starting"
         /\ stop_loop_' = FALSE
         /\ thread' = "test"
         /\ UNCHANGED <<stopping, ticks_, storage, iter, removing, registered, gone, undefined>>

\* Mutant: only the broadcast is to end the loop, the flag is not tested.
TestNot == /\ thread = "test"
           /\ thread' = "to wait"
           /\ UNCHANGED <<stop_loop_, stopping, ticks_, storage, iter, removing, registered,
                          gone, undefined>>

Test == /\ thread = "test"
        /\ thread' = IF stop_loop_ THEN "ended" ELSE "to wait"
        /\ UNCHANGED <<stop_loop_, stopping, ticks_, storage, iter, removing, registered, gone,
                       undefined>>

Wait == /\ thread = "to wait"
        /\ thread' = "waiting"
        /\ UNCHANGED <<stop_loop_, stopping, ticks_, storage, iter, removing, registered, gone,
                       undefined>>

\* ETIMEDOUT: timer_manage::run begins, up to its lock_guard.
RunBegin == /\ thread = "waiting"
            /\ ticks_ < MaxTicks \/ vec = <<>>
            /\ iter' = [iter EXCEPT ![Run] = generation]
            /\ ticks_' = IF ticks_ < MaxTicks THEN ticks_ + 1 ELSE ticks_
            /\ thread' = "locking"
            /\ UNCHANGED <<stop_loop_, stopping, storage, removing, registered, gone, undefined>>

\* The wait returned without a timeout, notified or not.
Woken == /\ thread = "waiting"
         /\ thread' = "test"
         /\ UNCHANGED <<stop_loop_, stopping, ticks_, storage, iter, removing, registered, gone,
                        undefined>>

(* timer_action::action: count the tick, and run the handler when the      *)
(* period is full.                                                         *)
Action(a) ==
    LET full == a.tick_count + 1 >= a.time
    IN  [a EXCEPT !.tick_count = IF full THEN 0 ELSE @ + 1,
                  !.times = IF full /\ @ # Always THEN @ - 1 ELSE @,
                  !.fired = IF full THEN @ + 1 ELSE @,
                  !.age = @ + 1]

\* Loops over the vector that erase: those with an index in `kept' stay, in order.
Kept(items, kept) ==
    LET Upto[i \in 0 .. Len(items)] ==
            IF i = 0 THEN <<>>
            ELSE IF i \in kept THEN Append(Upto[i - 1], items[i]) ELSE Upto[i - 1]
    IN  Upto[Len(items)]

Live(actions) == {i \in DOMAIN actions : actions[i].times # 0}

\* Mutant: the iterator is advanced after an erase, too.
AfterRunSkipping(actions) ==
    LET Skipped(i) == i > 1 /\ actions[i - 1].times = 0
    IN  Kept([i \in DOMAIN actions |-> IF Skipped(i) THEN [actions[i] EXCEPT !.age = @ + 1]
                                       ELSE Action(actions[i])], Live(actions))

\* The loop of timer_manage::run: exhausted actions go, the others act.
AfterRun(actions) == Kept([i \in DOMAIN actions |-> Action(actions[i])], Live(actions))

RunLocked ==
    /\ thread = "locking"
    /\ \/ /\ iter[Run] = generation
          /\ vec' = AfterRun(vec)
          /\ thread' = "test"
          /\ UNCHANGED undefined
       \/ /\ iter[Run] # generation
          /\ undefined' = TRUE
          /\ UNCHANGED <<vec, thread>>
    /\ iter' = [iter EXCEPT ![Run] = NoIterator]
    /\ UNCHANGED <<stop_loop_, stopping, ticks_, capacity, generation, removing, registered,
                   gone>>

\* timer_struct::stop, by the owner: the flag, then the broadcast.
StopFlag == /\ stopping = "no"
            /\ stopping' = IF stop_loop_ THEN "done" ELSE "broadcast"
            /\ stop_loop_' = TRUE
            /\ UNCHANGED <<thread, ticks_, storage, iter, removing, registered, gone, undefined>>

StopBroadcast == /\ stopping = "broadcast"
                 /\ stopping' = "done"
                 /\ thread' = IF thread = "waiting" THEN "test" ELSE thread
                 /\ UNCHANGED <<stop_loop_, ticks_, storage, iter, removing, registered, gone,
                                undefined>>

-----------------------------------------------------------------------------
(* register_action, under the mutex.  push_back replaces a full storage by *)
(* one of twice the size.  (Its own begin() is never used.)                *)
RegisterAction(c, r) ==
    /\ removing[c] = {}
    /\ registered < MaxActions
    /\ vec' = Append(vec, [id |-> r.id, time |-> r.time, times |-> r.count, tick_count |-> 0,
                           count |-> r.count, age |-> 0, fired |-> 0])
    /\ \/ /\ Len(vec) < capacity
          /\ UNCHANGED <<capacity, generation>>
       \/ /\ Len(vec) = capacity
          /\ capacity' = IF capacity = 0 THEN 1 ELSE 2 * capacity
          /\ generation' = generation + 1
    /\ registered' = registered + 1
    /\ gone' = gone \ {r.id}
    /\ UNCHANGED <<timer, ticks_, iter, removing, undefined>>

\* remove_action: begin(), then the loop under the mutex.
RemoveBegin(c, id) ==
    /\ removing[c] = {}
    /\ removing' = [removing EXCEPT ![c] = {id}]
    /\ iter' = [iter EXCEPT ![c] = generation]
    /\ UNCHANGED <<timer, ticks_, storage, registered, gone, undefined>>

\* Mutant: the loop ends with the first match.
WithoutFirst(actions, id) ==
    IF \E i \in 1 .. Len(actions) : actions[i].id = id
    THEN LET first == CHOOSE i \in 1 .. Len(actions) :
                         /\ actions[i].id = id
                         /\ \A j \in 1 .. i - 1 : actions[j].id # id
         IN  SubSeq(actions, 1, first - 1) \o SubSeq(actions, first + 1, Len(actions))
    ELSE actions

Without(actions, id) == Kept(actions, {i \in DOMAIN actions : actions[i].id # id})

RemoveLocked(c) ==
    /\ removing[c] # {}
    /\ \/ /\ iter[c] = generation
          /\ \E id \in removing[c] : vec' = Without(vec, id)
          /\ gone' = gone \cup removing[c]
          /\ UNCHANGED undefined
       \/ /\ iter[c] # generation
          /\ undefined' = TRUE
          /\ UNCHANGED <<vec, gone>>
    /\ removing' = [removing EXCEPT ![c] = {}]
    /\ iter' = [iter EXCEPT ![c] = NoIterator]
    /\ UNCHANGED <<timer, ticks_, capacity, generation, registered>>

-----------------------------------------------------------------------------
TimerThread == ~undefined /\ (Enter \/ Test \/ Wait \/ RunBegin \/ RunLocked)

TimerNext == \/ TimerThread
             \/ ~undefined /\ (Woken \/ StopFlag \/ StopBroadcast)
             \/ ~undefined /\ \E c \in Clients : \/ \E r \in Requests : RegisterAction(c, r)
                                                 \/ \E id \in Ids : RemoveBegin(c, id)
                                                 \/ RemoveLocked(c)

(* The thread runs, and its timed wait is not cut short for ever: its time *)
(* runs out in the end.  A stop() and a remove_action() begun go on.       *)
TimerSpec == /\ TimerInit /\ [][TimerNext]_timerVars
             /\ WF_timerVars(TimerThread) /\ SF_timerVars(~undefined /\ RunBegin)
             /\ WF_timerVars(~undefined /\ StopBroadcast)
             /\ \A c \in Clients : WF_timerVars(~undefined /\ RemoveLocked(c))

-----------------------------------------------------------------------------
ActionType == [id : Ids, time : Nat, times : Nat, tick_count : Nat,
               count : Nat, age : Nat, fired : Nat]

Period(a) == IF a.time = 0 THEN 1 ELSE a.time

TimerTypeOK == /\ stop_loop_ \in BOOLEAN /\ undefined \in BOOLEAN
               /\ thread \in {"starting", "test", "to wait", "waiting", "locking", "ended"}
               /\ stopping \in {"no", "broadcast", "done"}
               /\ ticks_ \in Nat /\ registered \in Nat
               /\ vec \in Seq(ActionType)
               /\ \A i \in 1 .. Len(vec) : vec[i].tick_count < Period(vec[i])
               /\ Len(vec) <= capacity
               /\ capacity \in Nat /\ generation \in Nat \ {NoIterator}
               /\ iter \in [Clients \cup {Run} -> Nat]
               /\ removing \in [Clients -> {{}} \cup {{id} : id \in Ids}]
               /\ gone \subseteq Ids

(* An action that has seen n runs has fired once per full period of its    *)
(* own, at most count times, and once per period for ever with             *)
(* TIME_ACTION_ALWAYS: no run is skipped when others are erased or added.  *)
(* More than TIME_ACTION_ALWAYS, which is 0xFFFFFFF, is for ever, too: the *)
(* count comes down to it and stays there.                                 *)
FiresOnSchedule ==
    \A i \in 1 .. Len(vec) :
        LET a == vec[i]
            full == a.age \div Period(a)
        IN  a.fired = IF a.count >= Always \/ full <= a.count THEN full ELSE a.count

(* remove_action leaves no action of the id behind, however often the id   *)
(* was registered, and it does not come back by itself.                    *)
RemovedIsGone == ~undefined => \A i \in 1 .. Len(vec) : vec[i].id \notin gone

(* stop() after the thread has entered its loop ends it, although the flag *)
(* is tested outside the mutex of the condition variable.                  *)
StopEndsLoop ==
    stop_loop_ /\ thread # "starting" ~> \/ thread = "ended" \/ undefined
                                         \/ ticks_ = MaxTicks /\ vec # <<>>
=============================================================================
