---------------------------- MODULE CommonProofs ----------------------------
(***************************************************************************)
(* Proofs about ThreadQueue for any finite sets of threads: its inductive  *)
(* invariant, what follows from it for receive(), and that every step is a *)
(* step of a FIFO channel.  After that: the timer, for any requests.       *)
(***************************************************************************)
EXTENDS ThreadQueue, TimerManage, FiniteSetTheorems, WellFoundedInduction, TLAPS

(* The counts of the threads in a place are natural numbers. *)
LEMMA CountsAreNat ==
    /\ Cardinality(Pushed) \in Nat /\ IsFiniteSet(Pushed)
    /\ Cardinality(Claimed) \in Nat /\ IsFiniteSet(Claimed)
    /\ Cardinality(Notified) \in Nat /\ IsFiniteSet(Notified)
  BY ThreadAssumption, FS_Subset, FS_CardinalityType DEF Pushed, Claimed, Notified

-----------------------------------------------------------------------------
(* Type correctness of the queue, the semaphore and the threads. *)
LEMMA TypeInvariant == TypeOK /\ [Next]_vars => TypeOK'
<1> SUFFICES ASSUME TypeOK, [Next]_vars PROVE TypeOK'
  OBVIOUS
<1> USE DEF TypeOK
<1>1. ASSUME NEW s \in Senders, NEW o \in Objects, SendPush(s, o) PROVE TypeOK'
  BY <1>1 DEF SendPush
<1>2. ASSUME NEW s \in Senders, SendSignal(s) PROVE TypeOK'
  BY <1>2 DEF SendSignal, NotifyOne, Asleep
<1>3. ASSUME NEW r \in Receivers, ReceiveWait(r) PROVE TypeOK'
  BY <1>3 DEF ReceiveWait, Claim, Block
<1>4. ASSUME NEW r \in Receivers, SpuriousWakeup(r) PROVE TypeOK'
  BY <1>4 DEF SpuriousWakeup
<1>5. ASSUME NEW r \in Receivers, Timeout(r) PROVE TypeOK'
  BY <1>5 DEF Timeout, Claim
<1>6. ASSUME NEW r \in Receivers, ReceivePop(r) PROVE TypeOK'
  BY <1>6 DEF ReceivePop
<1>7. CASE UNCHANGED vars
  BY <1>7 DEF vars
<1>8. QED
  BY <1>1, <1>2, <1>3, <1>4, <1>5, <1>6, <1>7 DEF Next

THEOREM TypeCorrect == Spec => []TypeOK
<1>1. Init => TypeOK
  BY DEF Init, TypeOK
<1>2. QED
  BY <1>1, TypeInvariant, PTL DEF Spec, Safe

-----------------------------------------------------------------------------
(* Without one thread, the notified receivers are at most one fewer. *)
LEMMA NotifiedWithout ==
    ASSUME NEW r
    PROVE  /\ Cardinality(Notified \ {r}) \in Nat
           /\ Cardinality(Notified \ {r}) >= Cardinality(Notified) - 1
<1>1. CASE r \in Notified
  <2>1. IsFiniteSet(Notified \ {r}) /\ Cardinality(Notified \ {r}) = Cardinality(Notified) - 1
    BY <1>1, CountsAreNat, FS_RemoveElement
  <2>2. Cardinality(Notified \ {r}) \in Nat
    BY <2>1, FS_CardinalityType
  <2>3. QED
    BY <2>1, <2>2, CountsAreNat
<1>2. CASE r \notin Notified
  <2>1. Notified \ {r} = Notified
    BY <1>2
  <2>2. QED
    BY <2>1, CountsAreNat
<1>3. QED
  BY <1>1, <1>2

(* A claimed wakeup stands for an object in the queue. *)
LEMMA ClaimedHasObject == IInv => ClaimFindsObject
<1> SUFFICES ASSUME IInv, Claimed # {} PROVE queue_ # <<>>
  BY DEF ClaimFindsObject
<1>1. PICK r : r \in Claimed
  OBVIOUS
<1>2. Cardinality(Claimed) > 0
  <2>1. Cardinality(Claimed \ {r}) = Cardinality(Claimed) - 1
    BY <1>1, CountsAreNat, FS_RemoveElement
  <2>2. Cardinality(Claimed \ {r}) \in Nat
    BY CountsAreNat, FS_RemoveElement, FS_CardinalityType
  <2>3. QED
    BY <2>1, <2>2, CountsAreNat
<1>3. QED
  BY <1>2, CountsAreNat DEF IInv, TypeOK, TokensMatchItems

(* Every step keeps the count of the semaphore in line with the queue, and *)
(* keeps a notified receiver for every wakeup that blocked receivers could *)
(* take.                                                                   *)
LEMMA InductiveStep == IInv /\ [Next]_vars => IInv'
<1> SUFFICES ASSUME IInv, [Next]_vars PROVE IInv'
  OBVIOUS
<1>t. TypeOK /\ TypeOK' /\ TokensMatchItems /\ NoLostWakeup
  BY TypeInvariant DEF IInv
<1>n. /\ IsFiniteSet(Pushed) /\ IsFiniteSet(Claimed) /\ IsFiniteSet(Notified)
      /\ Cardinality(Pushed) \in Nat /\ Cardinality(Claimed) \in Nat
      /\ Cardinality(Notified) \in Nat /\ wakeups_ \in Nat /\ Len(queue_) \in Nat
  BY <1>t, CountsAreNat DEF TypeOK
<1>1. ASSUME NEW s \in Senders, NEW o \in Objects, SendPush(s, o) PROVE IInv'
  <2>1. /\ Pushed' = Pushed \cup {s} /\ s \notin Pushed
        /\ Claimed' = Claimed /\ Notified' = Notified /\ Asleep' = Asleep
    BY <1>1, <1>t DEF SendPush, TypeOK, Pushed, Claimed, Notified, Asleep
  <2>2. Cardinality(Pushed') = Cardinality(Pushed) + 1
    BY <2>1, <1>n, FS_AddElement
  <2>3. Len(queue_') = Len(queue_) + 1 /\ wakeups_' = wakeups_
    BY <1>1, <1>t DEF SendPush, TypeOK
  <2>4. QED
    BY <2>1, <2>2, <2>3, <1>n, <1>t DEF IInv, TokensMatchItems, NoLostWakeup
<1>2. ASSUME NEW s \in Senders, SendSignal(s) PROVE IInv'
  <2>1. /\ Pushed' = Pushed \ {s} /\ s \in Pushed /\ Claimed' = Claimed
        /\ queue_' = queue_ /\ wakeups_' = wakeups_ + 1
    BY <1>2, <1>t DEF SendSignal, NotifyOne, TypeOK, Pushed, Claimed, Asleep
  <2>2. Cardinality(Pushed') = Cardinality(Pushed) - 1
    BY <2>1, <1>n, FS_RemoveElement
  <2>3. TokensMatchItems'
    BY <2>1, <2>2, <1>n, <1>t DEF TokensMatchItems
  <2>4. CASE Asleep = {}
    <3>1. Asleep' = {}
      BY <2>4, <1>2 DEF SendSignal, NotifyOne, Asleep
    <3>2. QED
      BY <3>1, <2>3, <1>t DEF IInv, NoLostWakeup
  <2>5. CASE Asleep # {}
    <3>1. PICK r \in Asleep : receiving' = [receiving EXCEPT ![r] = "notified"]
      BY <2>5, <1>2 DEF SendSignal, NotifyOne
    <3>2. Notified' = Notified \cup {r} /\ r \notin Notified
      BY <3>1, <1>t DEF TypeOK, Notified, Asleep
    <3>3. Cardinality(Notified') = Cardinality(Notified) + 1
      BY <3>2, <1>n, FS_AddElement
    <3>4. QED
      BY <2>1, <2>3, <2>5, <3>3, <1>n, <1>t DEF IInv, NoLostWakeup
  <2>6. QED
    BY <2>4, <2>5
<1>3. ASSUME NEW r \in Receivers, receiving[r] \in {"idle", "asleep", "notified"}, Claim(r)
      PROVE  IInv'
  <2>1. /\ Claimed' = Claimed \cup {r} /\ r \notin Claimed /\ Pushed' = Pushed
        /\ Notified' = Notified \ {r} /\ Asleep' \subseteq Asleep
        /\ queue_' = queue_ /\ wakeups_' = wakeups_ - 1 /\ wakeups_ > 0
    BY <1>3, <1>t DEF Claim, TypeOK, Pushed, Claimed, Notified, Asleep
  <2>2. Cardinality(Claimed') = Cardinality(Claimed) + 1
    BY <2>1, <1>n, FS_AddElement
  <2>3. Cardinality(Notified') >= Cardinality(Notified) - 1 /\ Cardinality(Notified') \in Nat
    BY <2>1, NotifiedWithout
  <2>4. TokensMatchItems'
    BY <2>1, <2>2, <1>n, <1>t, SMTT(30) DEF TokensMatchItems
  <2>5. NoLostWakeup'
    <3>1. CASE Asleep = {}
      BY <2>1, <3>1 DEF NoLostWakeup
    <3>2. CASE Asleep # {}
      BY <2>1, <2>3, <3>2, <1>n, <1>t, SMTT(30) DEF NoLostWakeup
    <3>3. QED
      BY <3>1, <3>2
  <2>6. QED
    BY <2>4, <2>5, <1>t DEF IInv
<1>4. ASSUME NEW r \in Receivers, receiving[r] # "claimed", wakeups_ = 0, wakeups_' = wakeups_,
             queue_' = queue_, sending' = sending,
             receiving' = [receiving EXCEPT ![r] = "asleep"]
               \/ receiving' = [receiving EXCEPT ![r] = "idle"]
      PROVE  IInv'
  <2>1. Claimed' = Claimed /\ Pushed' = Pushed /\ Notified' = Notified \ {r}
    BY <1>4, <1>t DEF TypeOK, Pushed, Claimed, Notified
  <2>2. Cardinality(Notified') \in Nat
    BY <2>1, NotifiedWithout
  <2>3. QED
    BY <2>1, <2>2, <1>4, <1>n, <1>t DEF IInv, TokensMatchItems, NoLostWakeup
<1>5. ASSUME NEW r \in Receivers, SpuriousWakeup(r) PROVE IInv'
  <2>1. /\ Claimed' = Claimed /\ Pushed' = Pushed /\ Asleep' \subseteq Asleep
        /\ Notified' = Notified \cup {r} /\ r \notin Notified
        /\ queue_' = queue_ /\ wakeups_' = wakeups_
    BY <1>5, <1>t DEF SpuriousWakeup, TypeOK, Pushed, Claimed, Notified, Asleep
  <2>2. Cardinality(Notified') = Cardinality(Notified) + 1
    BY <2>1, <1>n, FS_AddElement
  <2>3. QED
    BY <2>1, <2>2, <1>n, <1>t DEF IInv, TokensMatchItems, NoLostWakeup
<1>6. ASSUME NEW r \in Receivers, ReceivePop(r) PROVE IInv'
  <2>1. /\ Claimed' = Claimed \ {r} /\ r \in Claimed /\ Pushed' = Pushed
        /\ Notified' = Notified /\ Asleep' = Asleep /\ wakeups_' = wakeups_
    BY <1>6, <1>t DEF ReceivePop, TypeOK, Pushed, Claimed, Notified, Asleep
  <2>2. Cardinality(Claimed') = Cardinality(Claimed) - 1
    BY <2>1, <1>n, FS_RemoveElement
  <2>3. queue_ # <<>>
    BY <2>1, ClaimedHasObject DEF ClaimFindsObject
  <2>4. Len(queue_') = Len(queue_) - 1
    BY <2>3, <1>6, <1>t DEF ReceivePop, TypeOK
  <2>5. QED
    BY <2>1, <2>2, <2>4, <1>n, <1>t DEF IInv, TokensMatchItems, NoLostWakeup
<1>7. CASE UNCHANGED vars
  BY <1>7, <1>t DEF vars, IInv, TokensMatchItems, NoLostWakeup, Pushed, Claimed, Notified, Asleep
<1>8. ASSUME NEW r \in Receivers, ReceiveWait(r) PROVE IInv'
  BY <1>3, <1>4, <1>8 DEF ReceiveWait, Block
<1>9. ASSUME NEW r \in Receivers, Timeout(r) PROVE IInv'
  BY <1>3, <1>4, <1>9 DEF Timeout
<1>10. QED
  BY <1>1, <1>2, <1>5, <1>6, <1>7, <1>8, <1>9 DEF Next

(* Thread_Queue never loses a wakeup and its semaphore never disagrees     *)
(* with its queue, for any finite sets of threads.                         *)
THEOREM Invariant == Spec => []IInv
<1>1. Init => IInv
  <2> SUFFICES ASSUME Init PROVE IInv
    OBVIOUS
  <2>1. Pushed = {} /\ Claimed = {} /\ Asleep = {}
    BY DEF Init, Pushed, Claimed, Asleep
  <2>2. QED
    BY <2>1, FS_EmptySet DEF Init, IInv, TypeOK, TokensMatchItems, NoLostWakeup
<1>2. QED
  BY <1>1, InductiveStep, PTL DEF Spec, Safe

(* The semaphore matches the queue (the invariant TokensMatchItems). *)
THEOREM Tokens == Spec => []TokensMatchItems
  BY Invariant, PTL DEF IInv

(* No wakeup is lost (the invariant NoLostWakeup). *)
THEOREM Wakeups == Spec => []NoLostWakeup
  BY Invariant, PTL DEF IInv

(* Both together: the semaphore and the queue of thread_queue.hpp never     *)
(* disagree about whom to wake, and for what.                               *)
THEOREM SemaphoreServes == Spec => []WakeupsMatch
  BY Tokens, Wakeups, PTL DEF WakeupsMatch

(* receive() never finds the queue empty once it got its wakeup. *)
THEOREM ReceiveFindsObject == Spec => []ClaimFindsObject
  BY Invariant, ClaimedHasObject, PTL

-----------------------------------------------------------------------------
(* Every step of Thread_Queue is a step of the channel or changes neither  *)
(* the queue nor a result: no object is lost, duplicated or overtaken.     *)
LEMMA StepRefines == IInv /\ [Next]_vars => [Channel!Next]_(Channel!vars)
<1> SUFFICES ASSUME IInv, [Next]_vars PROVE [Channel!Next]_(Channel!vars)
  OBVIOUS
<1> USE DEF Channel!Next, Channel!vars
<1>1. ASSUME NEW s \in Senders, NEW o \in Objects, SendPush(s, o) PROVE Channel!Put(o)
  BY <1>1 DEF SendPush, Channel!Put
<1>2. ASSUME NEW r \in Receivers, ReceivePop(r) PROVE Channel!Take(r)
  <2>1. queue_ # <<>>
    BY <1>2, ClaimedHasObject DEF ReceivePop, ClaimFindsObject, Claimed
  <2>2. QED
    BY <2>1, <1>2 DEF ReceivePop, Channel!Take
<1>3. ASSUME NEW r \in Receivers, Timeout(r)
      PROVE  Channel!GiveUp(r) \/ UNCHANGED Channel!vars
  BY <1>3 DEF Timeout, Claim, Channel!GiveUp
<1>4. ASSUME NEW s \in Senders, SendSignal(s) PROVE UNCHANGED Channel!vars
  BY <1>4 DEF SendSignal
<1>5. ASSUME NEW r \in Receivers, ReceiveWait(r) \/ SpuriousWakeup(r)
      PROVE  UNCHANGED Channel!vars
  BY <1>5 DEF ReceiveWait, Claim, Block, SpuriousWakeup
<1>6. CASE UNCHANGED vars
  BY <1>6 DEF vars
<1>7. QED
  BY <1>1, <1>2, <1>3, <1>4, <1>5, <1>6 DEF Next, Channel!TakeSome

(* Thread_Queue implements the safety part of the FIFO channel. *)
THEOREM ChannelRefinement == Spec => Channel!Safe
<1>1. Init => Channel!Init
  BY DEF Init, Channel!Init
<1>2. QED
  BY <1>1, StepRefines, Invariant, PTL DEF Spec, Safe, Channel!Safe

-----------------------------------------------------------------------------
(* The timer.  The loops that erase keep no more than they are to; an      *)
(* action's runs are its full periods and a rest, and what is left of its  *)
(* count is what has not been used, until it is TIME_ACTION_ALWAYS.        *)

LEMMA NatInduction1 ==   \* without an operator for a parameter: through a set
  ASSUME NEW S \in SUBSET Nat, 0 \in S, \A n \in S : n + 1 \in S
  PROVE  S = Nat
  <1> DEFINE T == Nat \ S
             R == OpToRel(<, Nat)
  <1> SUFFICES ASSUME T # {} PROVE FALSE
    OBVIOUS
  <1>1. PICK n \in T : \A m \in T : ~(<<m, n>> \in R)
    <2>1. IsWellFoundedOn(R, Nat) /\ T \subseteq Nat
      BY NatLessThanWellFounded
    <2> HIDE DEF R, T
    <2> QED  BY <2>1, WFMin
  <1>2. n \in Nat /\ n # 0 /\ n - 1 \in Nat /\ n - 1 < n /\ (n - 1) + 1 = n
    <2>1. n \in Nat /\ n \notin S
      OBVIOUS
    <2> QED  BY <2>1
  <1>3. <<n - 1, n>> \in R
    BY <1>2 DEF OpToRel
  <1> HIDE DEF R
  <1>4. n - 1 \in S
    BY <1>1, <1>2, <1>3
  <1> QED  BY <1>1, <1>2, <1>4

\* What a loop that erases has kept, after each index.
LEMMA KeptSteps ==
  ASSUME NEW T, NEW items \in Seq(T), NEW kept
  PROVE  \E u : /\ u[0] = <<>> /\ Kept(items, kept) = u[Len(items)]
                /\ \A i \in 1 .. Len(items) :
                      u[i] = IF i \in kept THEN Append(u[i - 1], items[i]) ELSE u[i - 1]
  <1> DEFINE n       == Len(items)
             At(f, i) == IF i = 0 THEN <<>>
                           ELSE IF i \in kept THEN Append(f[i - 1], items[i]) ELSE f[i - 1]
             Is(f, m) == f = [i \in 0 .. m |-> At(f, i)]
             S       == {m \in Nat : \E f : Is(f, m)}
             upto    == CHOOSE f : f = [i \in 0 .. n |-> At(f, i)]
  <1>1. n \in Nat
    OBVIOUS
  <1>2. 0 \in S
    <2> DEFINE f == [i \in 0 .. 0 |-> <<>>]
    <2>1. \A i \in 0 .. 0 : At(f, i) = <<>>
      OBVIOUS
    <2>2. Is(f, 0)
      BY <2>1
    <2> QED  BY <2>2
  <1>3. ASSUME NEW m \in S PROVE m + 1 \in S
    <2>1. PICK f : Is(f, m)
      OBVIOUS
    <2> DEFINE g == [i \in 0 .. m + 1 |-> IF i <= m THEN f[i] ELSE At(f, m + 1)]
    <2>2. m \in Nat /\ m + 1 \in Nat
      OBVIOUS
    <2>3. ASSUME NEW i \in 0 .. m + 1 PROVE g[i] = At(g, i)
      <3>1. CASE i <= m
        <4>1. i \in 0 .. m /\ f[i] = At(f, i) /\ g[i] = f[i]
          <5>1. i \in 0 .. m
            BY <2>2, <3>1
          <5>2. [j \in 0 .. m |-> At(f, j)][i] = At(f, i)
            BY <5>1
          <5>3. g[i] = f[i]
            BY <2>2, <3>1
          <5> HIDE DEF At, g
          <5> QED  BY <2>1, <5>1, <5>2, <5>3
        <4>2. i # 0 => i - 1 \in 0 .. m + 1 /\ g[i - 1] = f[i - 1]
          BY <2>2, <3>1
        <4> QED  BY <4>1, <4>2
      <3>2. CASE i = m + 1
        <4>1. i # 0 /\ i - 1 = m /\ g[i] = At(f, i) /\ g[i - 1] = f[i - 1]
          BY <2>2, <3>2
        <4> QED  BY <4>1
      <3> QED  BY <2>2, <3>1, <3>2
    <2>4. Is(g, m + 1)
      <3> HIDE DEF At
      <3>1. [i \in 0 .. m + 1 |-> At(g, i)] = [i \in 0 .. m + 1 |-> g[i]]
        BY <2>3
      <3> QED  BY <3>1
    <2> QED  BY <2>2, <2>4
  <1>4. S = Nat
    <2> HIDE DEF S
    <2>1. S \in SUBSET Nat
      BY DEF S
    <2> QED  BY <1>2, <1>3, <2>1, NatInduction1
  <1>5. upto = [i \in 0 .. n |-> At(upto, i)]
    <2>1. \E f : Is(f, n)
      BY <1>1, <1>4
    <2> HIDE DEF At
    <2> QED  BY <2>1
  <1>6. Kept(items, kept) = upto[n]
    BY DEF Kept
  <1> HIDE DEF upto
  <1>7. \A i \in 0 .. n : upto[i] = At(upto, i)
    BY <1>5
  <1> QED  BY <1>1, <1>6, <1>7

\* What is kept is among what was to be kept, and is no more than there was.
LEMMA KeptItems ==
  ASSUME NEW T, NEW items \in Seq(T), NEW kept
  PROVE  /\ Kept(items, kept) \in Seq(T) /\ Len(Kept(items, kept)) <= Len(items)
         /\ \A k \in 1 .. Len(Kept(items, kept)) :
               \E i \in 1 .. Len(items) : i \in kept /\ Kept(items, kept)[k] = items[i]
  <1>1. PICK u : /\ u[0] = <<>> /\ Kept(items, kept) = u[Len(items)]
                 /\ \A i \in 1 .. Len(items) :
                       u[i] = IF i \in kept THEN Append(u[i - 1], items[i]) ELSE u[i - 1]
    BY KeptSteps
  <1> DEFINE Good(m) == /\ u[m] \in Seq(T) /\ Len(u[m]) <= m
                        /\ \A k \in 1 .. Len(u[m]) :
                              \E i \in 1 .. Len(items) : i \in kept /\ u[m][k] = items[i]
             S == {m \in Nat : m <= Len(items) => Good(m)}
  <1>2. 0 \in S
    <2>1. <<>> \in Seq(T) /\ Len(<<>>) = 0 /\ \A k \in 1 .. 0 : FALSE
      OBVIOUS
    <2>2. u[0] = <<>>
      BY <1>1
    <2>3. Good(0)
      BY <2>1, <2>2
    <2> QED  BY <2>3
  <1>3. ASSUME NEW m \in S PROVE m + 1 \in S
    <2> SUFFICES ASSUME m + 1 <= Len(items) PROVE Good(m + 1)
      OBVIOUS
    <2>1. m \in Nat /\ Len(items) \in Nat /\ m + 1 \in 1 .. Len(items) /\ items[m + 1] \in T
          /\ (m + 1) - 1 = m
      OBVIOUS
    <2>2. Good(m)
      <3>1. m <= Len(items)
        BY <2>1
      <3> HIDE DEF Good
      <3> QED  BY <3>1
    <2>3. u[m + 1] = IF m + 1 \in kept THEN Append(u[m], items[m + 1]) ELSE u[m]
      BY <1>1, <2>1
    <2>4. CASE m + 1 \notin kept
      BY <2>1, <2>2, <2>3, <2>4
    <2>5. CASE m + 1 \in kept
      <3> DEFINE s == u[m]
                 t == Append(s, items[m + 1])
      <3>1. /\ s \in Seq(T) /\ t \in Seq(T) /\ Len(s) \in Nat /\ Len(t) = Len(s) + 1
            /\ t[Len(s) + 1] = items[m + 1] /\ \A k \in 1 .. Len(s) : t[k] = s[k]
        BY <2>1, <2>2
      <3>2. u[m + 1] = t
        BY <2>3, <2>5
      <3>3. \A k \in 1 .. Len(s) + 1 : k \in 1 .. Len(s) \/ k = Len(s) + 1
        BY <3>1
      <3>4. Len(t) <= m + 1
        BY <2>1, <2>2, <3>1
      <3>5. ASSUME NEW k \in 1 .. Len(t) PROVE \E i \in 1 .. Len(items) : i \in kept /\ t[k] = items[i]
        <4>1. CASE k = Len(s) + 1
          BY <2>1, <2>5, <3>1, <4>1
        <4>2. CASE k \in 1 .. Len(s)
          BY <2>2, <3>1, <4>2
        <4> QED  BY <3>1, <3>3, <4>1, <4>2
      <3> QED  BY <3>1, <3>2, <3>4, <3>5
    <2> QED  BY <2>4, <2>5
  <1>4. S = Nat
    <2> HIDE DEF S
    <2>1. S \in SUBSET Nat
      BY DEF S
    <2> QED  BY <1>2, <1>3, <2>1, NatInduction1
  <1>5. Good(Len(items))
    <2>1. Len(items) \in S
      BY <1>4
    <2> QED  BY <2>1
  <1> QED  BY <1>1, <1>5

-----------------------------------------------------------------------------
\* The runs an action has seen are its periods and a rest; the count it has left
\* is what it has not used, until that is TIME_ACTION_ALWAYS.
Sched(a) ==
    /\ a.age = Period(a) * a.fired + a.tick_count
    /\ a.count < Always => a.fired <= a.count /\ a.times = a.count - a.fired
    /\ a.count >= Always =>
           a.times = IF a.fired <= a.count - Always THEN a.count - a.fired ELSE Always

\* An action that is still in the vector was registered after its id was removed.
TimerInv == /\ TimerTypeOK
            /\ \A i \in 1 .. Len(vec) : Sched(vec[i])
            /\ RemovedIsGone

Good(a) == a \in ActionType /\ a.tick_count < Period(a) /\ Sched(a)

LEMMA ActionKeepsGood ==
  ASSUME NEW a, Good(a), a.times # 0
  PROVE  Good(Action(a)) /\ Action(a).id = a.id
  <1> DEFINE full == a.tick_count + 1 >= a.time
             b    == Action(a)
  <1>1. /\ a.id \in Ids /\ a.time \in Nat /\ a.times \in Nat /\ a.tick_count \in Nat
        /\ a.count \in Nat /\ a.age \in Nat /\ a.fired \in Nat /\ Always \in Nat
    BY TimerBounds DEF Good, ActionType
  <1>2. /\ b.id = a.id /\ b.time = a.time /\ b.count = a.count /\ b.age = a.age + 1
        /\ b.times = IF full /\ a.times # Always THEN a.times - 1 ELSE a.times
        /\ b.tick_count = IF full THEN 0 ELSE a.tick_count + 1
        /\ b.fired = IF full THEN a.fired + 1 ELSE a.fired
        /\ b \in ActionType
    <2> DEFINE tick  == IF full THEN 0 ELSE a.tick_count + 1
               times == IF full /\ a.times # Always THEN a.times - 1 ELSE a.times
               fired == IF full THEN a.fired + 1 ELSE a.fired
               age   == a.age + 1
    <2>1. b = [a EXCEPT !.tick_count = tick, !.times = times, !.fired = fired, !.age = age]
      BY DEF Action
    <2>2. tick \in Nat /\ times \in Nat /\ fired \in Nat /\ age \in Nat
      BY <1>1
    <2> HIDE DEF b, full, tick, times, fired, age
    <2>3. /\ b \in ActionType /\ b.id = a.id /\ b.time = a.time /\ b.times = times
          /\ b.tick_count = tick /\ b.count = a.count /\ b.age = age /\ b.fired = fired
      <3>1. a \in ActionType
        BY DEF Good
      <3> QED  BY <2>1, <2>2, <3>1 DEF ActionType
    <2> QED  BY <2>3 DEF tick, times, fired, age
  <1> HIDE DEF b
  <1>3. b \in ActionType /\ b.id = a.id
    BY <1>2
  <1>4. Period(b) = Period(a) /\ Period(a) \in Nat \ {0} /\ (full <=> a.tick_count + 1 >= Period(a))
    BY <1>1, <1>2 DEF Period
  <1>5. b.tick_count < Period(b)
    BY <1>1, <1>2, <1>4
  <1>6. b.age = Period(b) * b.fired + b.tick_count
    <2>1. a.age = Period(a) * a.fired + a.tick_count /\ a.tick_count < Period(a)
      BY DEF Good, Sched
    <2>2. CASE full
      <3>1. a.age + 1 = Period(a) * a.fired + Period(a)
        BY <1>1, <1>4, <2>1, <2>2
      <3>2. Period(a) * (a.fired + 1) = Period(a) * a.fired + Period(a)
        BY <1>1, <1>4
      <3> QED  BY <1>1, <1>2, <1>4, <2>2, <3>1, <3>2
    <2>3. CASE ~full
      BY <1>1, <1>2, <1>4, <2>1, <2>3
    <2> QED  BY <2>2, <2>3
  <1>7. ASSUME a.count < Always PROVE b.fired <= b.count /\ b.times = b.count - b.fired
    BY <1>1, <1>2, <1>7 DEF Good, Sched
  <1>8. ASSUME a.count >= Always
        PROVE  b.times = IF b.fired <= b.count - Always THEN b.count - b.fired ELSE Always
    BY <1>1, <1>2, <1>8 DEF Good, Sched
  <1>9. Sched(b)
    BY <1>2, <1>6, <1>7, <1>8 DEF Sched
  <1> QED  BY <1>3, <1>5, <1>9 DEF Good, b

LEMMA AfterRunKeeps ==
  ASSUME NEW v \in Seq(ActionType), \A i \in 1 .. Len(v) : Good(v[i])
  PROVE  /\ AfterRun(v) \in Seq(ActionType) /\ Len(AfterRun(v)) <= Len(v)
         /\ \A k \in 1 .. Len(AfterRun(v)) : /\ Good(AfterRun(v)[k])
                                             /\ \E i \in 1 .. Len(v) : AfterRun(v)[k].id = v[i].id
  <1> DEFINE T  == {Action(v[i]) : i \in DOMAIN v} \cup ActionType
             w  == [i \in DOMAIN v |-> Action(v[i])]
             r  == AfterRun(v)
  <1>1. w \in Seq(T) /\ Len(w) = Len(v) /\ Len(v) \in Nat /\ DOMAIN v = 1 .. Len(v)
    <2>1. Len(v) \in Nat /\ DOMAIN v = 1 .. Len(v)
      OBVIOUS
    <2>2. \A i \in 1 .. Len(v) : Action(v[i]) \in T
      BY <2>1
    <2> HIDE DEF T
    <2> QED  BY <2>1, <2>2
  <1>2. r = Kept(w, Live(v))
    BY DEF AfterRun
  <1> HIDE DEF T, r
  <1>3. /\ r \in Seq(T) /\ Len(r) <= Len(v)
        /\ \A k \in 1 .. Len(r) : \E i \in 1 .. Len(v) : i \in Live(v) /\ r[k] = w[i]
    <2> HIDE DEF w
    <2> QED  BY <1>1, <1>2, KeptItems
  <1>4. ASSUME NEW k \in 1 .. Len(r)
        PROVE  Good(r[k]) /\ \E i \in 1 .. Len(v) : r[k].id = v[i].id
    <2>1. PICK i \in 1 .. Len(v) : i \in Live(v) /\ r[k] = w[i]
      BY <1>3
    <2>2. Good(v[i]) /\ v[i].times # 0 /\ r[k] = Action(v[i])
      BY <1>1, <2>1 DEF Live
    <2> QED  BY <2>2, ActionKeepsGood
  <1>5. r \in Seq(ActionType)
    <2>1. \A k \in 1 .. Len(r) : r[k] \in ActionType
      BY <1>4 DEF Good
    <2>2. Len(r) \in Nat /\ r = [k \in 1 .. Len(r) |-> r[k]]
      BY <1>3
    <2> QED  BY <2>1, <2>2
  <1> QED  BY <1>3, <1>4, <1>5 DEF r

LEMMA WithoutKeeps ==
  ASSUME NEW v \in Seq(ActionType), NEW id
  PROVE  /\ Without(v, id) \in Seq(ActionType) /\ Len(Without(v, id)) <= Len(v)
         /\ \A k \in 1 .. Len(Without(v, id)) :
               \E i \in 1 .. Len(v) : v[i].id # id /\ Without(v, id)[k] = v[i]
  <1> DEFINE kept == {i \in DOMAIN v : v[i].id # id}
  <1>1. Without(v, id) = Kept(v, kept)
    BY DEF Without
  <1>2. \A i \in kept : v[i].id # id
    OBVIOUS
  <1> HIDE DEF kept
  <1> QED  BY <1>1, <1>2, KeptItems

-----------------------------------------------------------------------------
LEMMA TimerInitInv == TimerInit => TimerInv
  <1> SUFFICES ASSUME TimerInit PROVE TimerInv
    OBVIOUS
  <1>1. /\ vec = <<>> /\ Len(vec) = 0 /\ capacity = 0 /\ generation = 1 /\ gone = {}
        /\ stop_loop_ = FALSE /\ thread = "starting" /\ stopping = "no" /\ undefined = FALSE
        /\ ticks_ = 0 /\ registered = 0 /\ removing = [c \in Clients |-> {}]
        /\ iter = [t \in Clients \cup {Run} |-> 0]
    BY DEF TimerInit, NoIterator
  <1>2. vec \in Seq(ActionType) /\ 1 .. Len(vec) = {} /\ Len(vec) <= capacity
    BY <1>1
  <1>3. TimerTypeOK
    <2>1. /\ stop_loop_ \in BOOLEAN /\ undefined \in BOOLEAN /\ gone \subseteq Ids
          /\ thread \in {"starting", "test", "to wait", "waiting", "locking", "ended"}
          /\ stopping \in {"no", "broadcast", "done"}
      BY <1>1
    <2>2. /\ ticks_ \in Nat /\ registered \in Nat /\ capacity \in Nat
          /\ generation \in Nat \ {NoIterator}
          /\ \A i \in 1 .. Len(vec) : vec[i].tick_count < Period(vec[i])
      BY <1>1 DEF NoIterator
    <2>3. iter \in [Clients \cup {Run} -> Nat] /\ removing \in [Clients -> {{}} \cup {{id} : id \in Ids}]
      BY <1>1
    <2> QED  BY <1>2, <2>1, <2>2, <2>3, Zenon DEF TimerTypeOK
  <1> QED  BY <1>2, <1>3 DEF TimerInv, RemovedIsGone

LEMMA TimerStep == TimerInv /\ [TimerNext]_timerVars => TimerInv'
  <1> SUFFICES ASSUME TimerInv, [TimerNext]_timerVars PROVE TimerInv'
    OBVIOUS
  <1>0. vec \in Seq(ActionType) /\ Len(vec) \in Nat /\ capacity \in Nat /\ Len(vec) <= capacity
    <2>1. vec \in Seq(ActionType) /\ capacity \in Nat /\ Len(vec) <= capacity
      BY Zenon DEF TimerInv, TimerTypeOK
    <2> QED  BY <2>1
  <1>1. \A i \in 1 .. Len(vec) : vec[i] \in ActionType /\ Good(vec[i])
    <2>1. \A i \in 1 .. Len(vec) : vec[i] \in ActionType
      BY <1>0
    <2> QED  BY <2>1 DEF TimerInv, TimerTypeOK, Good
  <1>2. /\ stop_loop_ \in BOOLEAN /\ undefined \in BOOLEAN
        /\ thread \in {"starting", "test", "to wait", "waiting", "locking", "ended"}
        /\ stopping \in {"no", "broadcast", "done"}
        /\ ticks_ \in Nat /\ registered \in Nat
        /\ generation \in Nat \ {NoIterator} /\ NoIterator \in Nat
        /\ iter \in [Clients \cup {Run} -> Nat]
        /\ removing \in [Clients -> {{}} \cup {{id} : id \in Ids}]
        /\ gone \subseteq Ids
    BY DEF TimerInv, TimerTypeOK, NoIterator
  <1> DEFINE Rest == /\ stop_loop_ \in BOOLEAN /\ undefined \in BOOLEAN
                     /\ thread \in {"starting", "test", "to wait", "waiting", "locking", "ended"}
                     /\ stopping \in {"no", "broadcast", "done"}
                     /\ ticks_ \in Nat /\ registered \in Nat
                     /\ generation \in Nat \ {NoIterator}
                     /\ iter \in [Clients \cup {Run} -> Nat]
                     /\ removing \in [Clients -> {{}} \cup {{id} : id \in Ids}]
                     /\ gone \subseteq Ids
  <1>3. ASSUME Rest', vec' \in Seq(ActionType), \A i \in 1 .. Len(vec') : Good(vec'[i]),
               capacity' \in Nat, Len(vec') <= capacity',
               ~undefined' => \A i \in 1 .. Len(vec') : vec'[i].id \notin gone'
        PROVE  TimerInv'
    <2>1. TimerTypeOK'
      BY <1>3 DEF TimerTypeOK, Good
    <2> QED  BY <1>3, <2>1 DEF TimerInv, RemovedIsGone, Good
  <1>4. ASSUME UNCHANGED <<vec, capacity, gone>>, undefined => undefined', Rest'
        PROVE  TimerInv'
    <2>1. ~undefined' => \A i \in 1 .. Len(vec') : vec'[i].id \notin gone'
      BY <1>4 DEF TimerInv, RemovedIsGone
    <2> HIDE DEF Rest
    <2> QED  BY <1>0, <1>1, <1>3, <1>4, <2>1
  <1>5. CASE Enter \/ Test \/ Wait \/ Woken \/ StopFlag \/ StopBroadcast \/ UNCHANGED timerVars
    BY <1>2, <1>4, <1>5 DEF Enter, Test, Wait, Woken, StopFlag, StopBroadcast, timerVars, timer,
                            storage
  <1>6. CASE RunBegin
    BY <1>2, <1>4, <1>6 DEF RunBegin, storage
  <1>7. CASE RunLocked
    <2>1. Rest'
      BY <1>2, <1>7 DEF RunLocked
    <2>2. CASE vec' = vec
      <3>1. UNCHANGED <<vec, capacity, gone>> /\ (undefined => undefined')
        BY <1>7, <2>2 DEF RunLocked
      <3> HIDE DEF Rest
      <3> QED  BY <1>4, <2>1, <3>1
    <2>3. CASE vec' = AfterRun(vec) /\ undefined' = undefined
      <3>1. capacity' = capacity /\ gone' = gone
        BY <1>7 DEF RunLocked
      <3>2. /\ vec' \in Seq(ActionType) /\ Len(vec') <= Len(vec) /\ Len(vec') \in Nat
            /\ \A k \in 1 .. Len(vec') : Good(vec'[k]) /\ \E i \in 1 .. Len(vec) : vec'[k].id = vec[i].id
        BY <1>0, <1>1, <2>3, AfterRunKeeps
      <3>3. ~undefined' => \A i \in 1 .. Len(vec') : vec'[i].id \notin gone'
        BY <2>3, <3>1, <3>2 DEF TimerInv, RemovedIsGone
      <3>4. capacity' \in Nat /\ Len(vec') <= capacity'
        BY <1>0, <3>1, <3>2
      <3> HIDE DEF Rest
      <3> QED  BY <1>3, <2>1, <3>2, <3>3, <3>4
    <2> QED  BY <1>7, <2>2, <2>3 DEF RunLocked
  <1>8. ASSUME NEW c \in Clients, NEW r \in Requests, RegisterAction(c, r) PROVE TimerInv'
    <2> DEFINE a == [id |-> r.id, time |-> r.time, times |-> r.count, tick_count |-> 0,
                     count |-> r.count, age |-> 0, fired |-> 0]
    <2>1. /\ vec' = Append(vec, a) /\ gone' = gone \ {r.id} /\ undefined' = undefined
          /\ \/ Len(vec) < capacity /\ UNCHANGED <<capacity, generation>>
             \/ /\ Len(vec) = capacity /\ generation' = generation + 1
                /\ capacity' = IF capacity = 0 THEN 1 ELSE 2 * capacity
          /\ registered' = registered + 1 /\ UNCHANGED <<timer, ticks_, iter, removing>>
      BY <1>8 DEF RegisterAction
    <2>2. r.id \in Ids /\ r.id \in Nat /\ r.time \in Nat /\ r.count \in Nat /\ Always \in Nat
      BY RequestAssumption, TimerBounds DEF Ids
    <2>3. a \in ActionType /\ a.id = r.id
      BY <2>2 DEF ActionType
    <2>4. Period(a) \in Nat \ {0} /\ Period(a) * a.fired = 0 /\ a.tick_count = 0 /\ a.age = 0
      BY <2>2 DEF Period
    <2>5. Good(a)
      <3>1. a.count = r.count /\ a.times = r.count /\ a.fired = 0
        OBVIOUS
      <3> HIDE DEF a
      <3> QED  BY <2>2, <2>3, <2>4, <3>1 DEF Good, Sched
    <2> HIDE DEF a
    <2>6. /\ vec' \in Seq(ActionType) /\ Len(vec') = Len(vec) + 1 /\ vec'[Len(vec) + 1] = a
          /\ \A i \in 1 .. Len(vec) : vec'[i] = vec[i]
      BY <1>0, <2>1, <2>3
    <2>7. \A i \in 1 .. Len(vec') : i \in 1 .. Len(vec) \/ i = Len(vec) + 1
      BY <1>0, <2>6
    <2>8. \A i \in 1 .. Len(vec') : Good(vec'[i])
      BY <1>1, <2>5, <2>6, <2>7
    <2>9. ~undefined' => \A i \in 1 .. Len(vec') : vec'[i].id \notin gone'
      BY <2>1, <2>3, <2>6, <2>7 DEF TimerInv, RemovedIsGone
    <2>10. capacity' \in Nat /\ Len(vec') <= capacity' /\ generation' \in Nat \ {NoIterator}
      <3>1. capacity' \in Nat /\ Len(vec') <= capacity'
        BY <1>0, <2>1, <2>6
      <3>2. generation' \in Nat \ {NoIterator}
        <4>1. generation' = generation \/ generation' = generation + 1
          BY <2>1
        <4>2. generation \in Nat \ {NoIterator}
          BY <1>2
        <4> QED  BY <4>1, <4>2 DEF NoIterator
      <3> QED  BY <3>1, <3>2
    <2>11. Rest'
      <3>1. registered' \in Nat /\ gone' \subseteq Ids
        <4>1. registered \in Nat /\ gone \subseteq Ids
          BY <1>2, Zenon
        <4> QED  BY <2>1, <4>1
      <3>2. UNCHANGED <<stop_loop_, undefined, thread, stopping, ticks_, iter, removing>>
        BY <2>1 DEF timer
      <3> QED  BY <1>2, <2>10, <3>1, <3>2, Zenon
    <2> HIDE DEF Rest
    <2> QED  BY <1>3, <2>6, <2>8, <2>9, <2>10, <2>11
  <1>9. ASSUME NEW c \in Clients, NEW id \in Ids, RemoveBegin(c, id) PROVE TimerInv'
    BY <1>2, <1>4, <1>9 DEF RemoveBegin, storage, timer
  <1>10. ASSUME NEW c \in Clients, RemoveLocked(c) PROVE TimerInv'
    <2>1. PICK id \in Ids : removing[c] = {id}
      BY <1>2, <1>10 DEF RemoveLocked
    <2>2. Rest'
      BY <1>2, <1>10, <2>1 DEF RemoveLocked, timer
    <2>3. CASE vec' = vec /\ gone' = gone /\ undefined' = TRUE
      <3>1. UNCHANGED <<vec, capacity, gone>> /\ (undefined => undefined')
        BY <1>10, <2>3 DEF RemoveLocked
      <3> HIDE DEF Rest
      <3> QED  BY <1>4, <2>2, <3>1
    <2>4. CASE vec' = Without(vec, id) /\ gone' = gone \cup {id} /\ undefined' = undefined
      <3>1. capacity' = capacity
        BY <1>10 DEF RemoveLocked
      <3>2. /\ vec' \in Seq(ActionType) /\ Len(vec') <= Len(vec) /\ Len(vec') \in Nat
            /\ \A k \in 1 .. Len(vec') : \E i \in 1 .. Len(vec) : vec[i].id # id /\ vec'[k] = vec[i]
        BY <1>0, <2>4, WithoutKeeps
      <3>3. ~undefined' => \A i \in 1 .. Len(vec') : vec'[i].id \notin gone'
        BY <2>4, <3>2 DEF TimerInv, RemovedIsGone
      <3>4. capacity' \in Nat /\ Len(vec') <= capacity' /\ \A k \in 1 .. Len(vec') : Good(vec'[k])
        BY <1>0, <1>1, <3>1, <3>2
      <3> HIDE DEF Rest
      <3> QED  BY <1>3, <2>2, <3>2, <3>3, <3>4
    <2> QED  BY <1>10, <2>1, <2>3, <2>4 DEF RemoveLocked
  <1> QED  BY <1>5, <1>6, <1>7, <1>8, <1>9, <1>10 DEF TimerNext, TimerThread

LEMMA TimerInvariant == TimerSpec => []TimerInv
  BY TimerInitInv, TimerStep, PTL DEF TimerSpec

\* What the timer keeps is of its type, and its storage has room for it.
THEOREM TimerTypeCorrect == TimerSpec => []TimerTypeOK
  <1>1. TimerInv => TimerTypeOK
    BY DEF TimerInv
  <1> QED  BY <1>1, TimerInvariant, PTL

\* Every action fires once per full period of its own and not more often than it
\* was asked to, whatever is registered, erased or removed around it.
THEOREM ActionsFireOnSchedule == TimerSpec => []FiresOnSchedule
  <1>1. ASSUME TimerInv PROVE FiresOnSchedule
    <2> SUFFICES ASSUME NEW i \in 1 .. Len(vec)
                 PROVE  vec[i].fired = IF \/ vec[i].count >= Always
                                          \/ vec[i].age \div Period(vec[i]) <= vec[i].count
                                       THEN vec[i].age \div Period(vec[i]) ELSE vec[i].count
      BY DEF FiresOnSchedule
    <2> DEFINE a == vec[i]
    <2>1. a \in ActionType /\ a.tick_count < Period(a) /\ Sched(a)
      <3>1. vec \in Seq(ActionType) /\ a.tick_count < Period(a) /\ Sched(a)
        BY <1>1, Zenon DEF TimerInv, TimerTypeOK
      <3> QED  BY <3>1
    <2> HIDE DEF a
    <2>2. /\ a.fired \in Nat /\ a.tick_count \in Nat /\ a.count \in Nat /\ Always \in Nat
          /\ Period(a) \in Nat \ {0}
      BY <2>1, TimerBounds DEF ActionType, Period
    <2>3. \A P \in Nat \ {0}, q, t \in Nat : t < P => (P * q + t) \div P = q
      OBVIOUS
    <2>4. a.age \div Period(a) = a.fired
      BY <2>1, <2>2, <2>3 DEF Sched
    <2> QED  BY <2>1, <2>2, <2>4 DEF Sched, a
  <1> QED  BY <1>1, TimerInvariant, PTL

\* No action of a removed id is left, or comes back.
THEOREM RemovedStaysGone == TimerSpec => []RemovedIsGone
  <1>1. TimerInv => RemovedIsGone
    BY DEF TimerInv
  <1> QED  BY <1>1, TimerInvariant, PTL
=============================================================================
