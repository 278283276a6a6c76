------------------------------ MODULE BoardProofs ------------------------------
(***************************************************************************)
(* The safety of the devices of Board, for every value of their constants. *)
(* A step of the board is a step of one device or leaves it alone, so what *)
(* is inductive for a device holds of it on the board.                     *)
(***************************************************************************)
EXTENDS Board, SequenceTheorems, FiniteSetTheorems, TLAPS

-----------------------------------------------------------------------------
(* The traffic light.  The inductive invariant says, for every write that  *)
(* a refresh has still to do, which lamps may be lit before it.            *)

(* While the tick is counted it is below the end of the cycle, and a reset *)
(* is all that another thread can have done to it.                         *)
Counting == /\ at = "loaded" => tick \in {seen, 0}
            /\ at = "writing" /\ next = "count" => /\ tick < RED_TICK_TICKCOUNT
                                                   /\ seen < RED_TICK_TICKCOUNT

OneLit == \A l, m \in Lamps : lamps[l] = 1 /\ lamps[m] = 1 => l = m
Only(l) == \A m \in Lamps \ {l} : lamps[m] = 0
AllDark == \A m \in Lamps : lamps[m] = 0

\* What is lit between two refreshes, the next of which finds the tick t.
Settled(t) ==
    /\ t = 0 => OneLit
    /\ t \in 1 .. GREEN_BLINK_TICKCOUNT => Only("green") /\ shown = "green"
    /\ t \in GREEN_BLINK_TICKCOUNT + 1 .. YELLOW_TICKCOUNT => Only("yellow") /\ shown = "yellow"
    /\ t \in YELLOW_TICKCOUNT + 1 .. RED_TICK_TICKCOUNT => Only("red") /\ shown = "red"

\* What is lit inside a refresh, by the writes it has still to do.
Darkening ==
    /\ todo \in {<<Write("red", 0), Write("yellow", 0), Write("green", 0)>>,
                 <<Write("yellow", 0), Write("green", 0)>>, <<Write("green", 0)>>, <<>>}
    /\ OneLit

Greening ==
    /\ tick = 0
    /\ \/ todo = <<Write("red", 0), Write("yellow", 0), Write("green", 1)>> /\ OneLit
       \/ todo = <<Write("yellow", 0), Write("green", 1)>> /\ OneLit /\ lamps["red"] = 0
       \/ todo = <<Write("green", 1)>> /\ Only("green")

Blinking ==
    /\ tick \in 1 .. GREEN_BLINK_TICKCOUNT - 1
    /\ todo \in {<<Write("green", 0)>>, <<Write("green", 1)>>}
    /\ Only("green") /\ shown = "green"

Yellowing ==
    /\ tick = GREEN_BLINK_TICKCOUNT
    /\ \/ /\ todo = <<Write("green", 0), Write("red", 0), Write("yellow", 1), Write("green", 0)>>
          /\ Only("green") /\ shown = "green"
       \/ /\ todo \in {<<Write("red", 0), Write("yellow", 1), Write("green", 0)>>,
                       <<Write("yellow", 1), Write("green", 0)>>}
          /\ AllDark /\ shown = "green"
       \/ todo = <<Write("green", 0)>> /\ Only("yellow") /\ shown = "yellow"

Reddening ==
    /\ tick = YELLOW_TICKCOUNT
    /\ \/ /\ todo = <<Write("yellow", 0), Write("red", 1), Write("yellow", 0), Write("green", 0)>>
          /\ Only("yellow") /\ shown = "yellow"
       \/ /\ todo = <<Write("red", 1), Write("yellow", 0), Write("green", 0)>>
          /\ AllDark /\ shown = "yellow"
       \/ /\ todo \in {<<Write("yellow", 0), Write("green", 0)>>, <<Write("green", 0)>>}
          /\ Only("red") /\ shown = "red"

LampInv ==
    ~raced =>
        \/ at = "idle" /\ Settled(tick)
        \/ at = "loaded" /\ seen = tick /\ Settled(tick)
        \/ at = "writing" /\ next = "keep" /\ tick = 0 /\ Darkening
        \/ at = "writing" /\ next = "zero" /\ Darkening
        \/ /\ at = "writing" /\ next = "count" /\ seen = tick
           /\ \/ todo = <<>> /\ Settled(tick + 1)
              \/ Greening \/ Blinking \/ Yellowing \/ Reddening

LightTypes == TypeOK /\ Counting
LightInv == LightTypes /\ LampInv

-----------------------------------------------------------------------------
(* Short sequences, whose heads and tails the writes of a refresh are. *)

\* The tails of short sequences.
LEMMA Tails ==
    ASSUME NEW a, NEW b, NEW c, NEW d
    PROVE  /\ Tail(<<a>>) = <<>>
           /\ Tail(<<a, b>>) = <<b>>
           /\ Tail(<<a, b, c>>) = <<b, c>>
           /\ Tail(<<a, b, c, d>>) = <<b, c, d>>
  OBVIOUS

\* The heads of short sequences.
LEMMA Heads ==
    ASSUME NEW a, NEW b, NEW c, NEW d
    PROVE  /\ Head(<<a>>) = a
           /\ Head(<<a, b>>) = a
           /\ Head(<<a, b, c>>) = a
           /\ Head(<<a, b, c, d>>) = a
  OBVIOUS

\* A write before the three of write_multi_io.
LEMMA OneBeforeThree ==
    ASSUME NEW S, NEW a \in S, NEW b \in S, NEW c \in S, NEW d \in S
    PROVE  <<a>> \o <<b, c, d>> = <<a, b, c, d>>
<1> DEFINE s == <<a>>
           t == <<b, c, d>>
           u == <<a, b, c, d>>
<1>1. s \in Seq(S) /\ t \in Seq(S) /\ u \in Seq(S)
  OBVIOUS
<1>2. Len(s) = 1 /\ Len(t) = 3 /\ Len(u) = 4
  OBVIOUS
<1>3. s \o t \in Seq(S) /\ Len(s \o t) = 4
  BY <1>1, <1>2
<1>4. \A i \in 1 .. 4 : (s \o t)[i] = u[i]
  BY <1>1, <1>2
<1> HIDE DEF s, t, u
<1>5. s \o t = u
  BY <1>1, <1>2, <1>3, <1>4, SeqEqual
<1>6. QED
  BY <1>5 DEF s, t, u

\* The records of the writes.
LEMMA WriteTyped ==
    ASSUME NEW l \in Lamps, NEW s \in {0, 1}
    PROVE  /\ Write(l, s) \in WriteType
           /\ Write(l, s).lamp = l /\ Write(l, s).status = s
  BY DEF Write, WriteType

-----------------------------------------------------------------------------
(* What a branch leaves to be written. *)

\* The writes and the reaction of each branch, written out.
LEMMA BranchWrites ==
    ASSUME NEW t \in Nat, NEW parity \in {0, 1}, Branch(t, parity)
    PROVE  \/ /\ t = 0 /\ next' = "count"
              /\ todo' = <<Write("red", 0), Write("yellow", 0), Write("green", 1)>>
           \/ /\ t \in GREEN_TICK_TICKCOUNT .. (GREEN_BLINK_TICKCOUNT - 1) /\ next' = "count"
              /\ todo' = <<Write("green", parity)>>
           \/ /\ t = GREEN_BLINK_TICKCOUNT /\ next' = "count"
              /\ todo' = <<Write("green", 0), Write("red", 0), Write("yellow", 1), Write("green", 0)>>
           \/ /\ t = YELLOW_TICKCOUNT /\ next' = "count"
              /\ todo' = <<Write("yellow", 0), Write("red", 1), Write("yellow", 0), Write("green", 0)>>
           \/ /\ t >= RED_TICK_TICKCOUNT /\ next' = "zero"
              /\ todo' = <<Write("red", 0), Write("yellow", 0), Write("green", 0)>>
           \/ /\ t \notin {0, GREEN_BLINK_TICKCOUNT, YELLOW_TICKCOUNT} /\ t < RED_TICK_TICKCOUNT
              /\ next' = "count" /\ todo' = <<>>
<1>1. <<Write("green", 0)>> \o write_multi_io(0, 1, 0)
      = <<Write("green", 0), Write("red", 0), Write("yellow", 1), Write("green", 0)>>
  <2>1. {Write("green", 0), Write("red", 0), Write("yellow", 1)} \subseteq WriteType
    BY WriteTyped DEF Lamps
  <2>2. QED
    BY <2>1, OneBeforeThree DEF write_multi_io
<1>2. <<Write("yellow", 0)>> \o write_multi_io(1, 0, 0)
      = <<Write("yellow", 0), Write("red", 1), Write("yellow", 0), Write("green", 0)>>
  <2>1. {Write("yellow", 0), Write("red", 1), Write("green", 0)} \subseteq WriteType
    BY WriteTyped DEF Lamps
  <2>2. QED
    BY <2>1, OneBeforeThree DEF write_multi_io
<1>3. QED
  BY <1>1, <1>2 DEF Branch, CountOnly, Do, write_multi_io

\* What a branch leaves to be written has its type.
LEMMA BranchTyped ==
    ASSUME NEW t \in Nat, NEW parity \in {0, 1}, Branch(t, parity)
    PROVE  todo' \in Seq(WriteType) /\ Len(todo') <= 4
<1>1. /\ Write("red", 0) \in WriteType /\ Write("red", 1) \in WriteType
      /\ Write("yellow", 0) \in WriteType /\ Write("yellow", 1) \in WriteType
      /\ Write("green", 0) \in WriteType /\ Write("green", 1) \in WriteType
      /\ Write("green", parity) \in WriteType
  BY WriteTyped DEF Lamps
<1>2. \/ todo' = <<Write("red", 0), Write("yellow", 0), Write("green", 1)>>
      \/ todo' = <<Write("green", parity)>>
      \/ todo' = <<Write("green", 0), Write("red", 0), Write("yellow", 1), Write("green", 0)>>
      \/ todo' = <<Write("yellow", 0), Write("red", 1), Write("yellow", 0), Write("green", 0)>>
      \/ todo' = <<Write("red", 0), Write("yellow", 0), Write("green", 0)>>
      \/ todo' = <<>>
  BY BranchWrites
<1>3. CASE todo' = <<Write("red", 0), Write("yellow", 0), Write("green", 1)>>
  <2>1. todo' \in Seq(WriteType)
    BY <1>1, <1>3
  <2>2. Len(todo') <= 4
    BY <1>3
  <2>3. QED
    BY <2>1, <2>2
<1>4. CASE todo' = <<Write("green", parity)>>
  <2>1. todo' \in Seq(WriteType)
    BY <1>1, <1>4
  <2>2. Len(todo') <= 4
    BY <1>4
  <2>3. QED
    BY <2>1, <2>2
<1>5. CASE todo' = <<Write("green", 0), Write("red", 0), Write("yellow", 1), Write("green", 0)>>
  <2>1. todo' \in Seq(WriteType)
    BY <1>1, <1>5
  <2>2. Len(todo') <= 4
    BY <1>5
  <2>3. QED
    BY <2>1, <2>2
<1>6. CASE todo' = <<Write("yellow", 0), Write("red", 1), Write("yellow", 0), Write("green", 0)>>
  <2>1. todo' \in Seq(WriteType)
    BY <1>1, <1>6
  <2>2. Len(todo') <= 4
    BY <1>6
  <2>3. QED
    BY <2>1, <2>2
<1>7. CASE todo' = <<Write("red", 0), Write("yellow", 0), Write("green", 0)>>
  <2>1. todo' \in Seq(WriteType)
    BY <1>1, <1>7
  <2>2. Len(todo') <= 4
    BY <1>7
  <2>3. QED
    BY <2>1, <2>2
<1>8. CASE todo' = <<>>
  <2>1. todo' \in Seq(WriteType)
    BY <1>1, <1>8, EmptySeq
  <2>2. Len(todo') <= 4
    BY <1>8, EmptySeq
  <2>3. QED
    BY <2>1, <2>2
<1>9. QED
  BY <1>2, <1>3, <1>4, <1>5, <1>6, <1>7, <1>8

-----------------------------------------------------------------------------
(* The types. *)

\* The assumption on the phases, one constant at a time.
LEMMA TickFacts ==
    /\ GREEN_TICK_TICKCOUNT \in Nat /\ GREEN_BLINK_TICKCOUNT \in Nat
    /\ YELLOW_TICKCOUNT \in Nat /\ RED_TICK_TICKCOUNT \in Nat /\ MaxCommands \in Nat
    /\ 0 < GREEN_TICK_TICKCOUNT /\ GREEN_TICK_TICKCOUNT < GREEN_BLINK_TICKCOUNT
    /\ GREEN_BLINK_TICKCOUNT < YELLOW_TICKCOUNT /\ YELLOW_TICKCOUNT < RED_TICK_TICKCOUNT
  BY TicksAssumption

\* The types hold at first ...
LEMMA InitTyped == Init => LightTypes
<1> SUFFICES ASSUME Init PROVE LightTypes
  OBVIOUS
<1>1. todo \in Seq(WriteType) /\ Len(todo) <= 4
  BY DEF Init
<1>2. 0 \in 0 .. RED_TICK_TICKCOUNT /\ 0 \in 0 .. MaxCommands
  BY TickFacts
<1>3. lamps \in [Lamps -> {0, 1}]
  BY DEF Init
<1>4. is_loopled_run \in BOOLEAN /\ resetting \in BOOLEAN /\ raced \in BOOLEAN
  BY DEF Init
<1>5. QED
  BY <1>1, <1>2, <1>3, <1>4 DEF Init, LightTypes, TypeOK, Counting

\* ... and after every step.
LEMMA NextTyped == LightTypes /\ [Next]_vars => LightTypes'
<1> SUFFICES ASSUME LightTypes, [Next]_vars PROVE LightTypes'
  OBVIOUS
<1> USE TickFacts
<1>1. CASE RefreshBegin
  <2>1. /\ write_multi_io(0, 0, 0) \in Seq(WriteType)
        /\ Len(write_multi_io(0, 0, 0)) = 3
    BY WriteTyped DEF write_multi_io, Lamps
  <2>2. 0 \in 0 .. RED_TICK_TICKCOUNT
    OBVIOUS
  <2>3. CASE is_loopled_run
    BY <1>1, <2>3 DEF RefreshBegin, LightTypes, TypeOK, Counting
  <2>4. CASE ~is_loopled_run
    <3>1. /\ tick' = 0 /\ at' = "writing" /\ next' = "keep" /\ seen' = seen
          /\ todo' = write_multi_io(0, 0, 0)
          /\ UNCHANGED <<is_loopled_run, lamps, resetting, shown, commands, raced>>
      BY <1>1, <2>4 DEF RefreshBegin
    <3>2. todo' \in Seq(WriteType)
      BY <2>1, <3>1
    <3>3. Len(todo') = 3
      BY <2>1, <3>1, Zenon
    <3>4. QED
      BY <2>2, <3>1, <3>2, <3>3 DEF LightTypes, TypeOK, Counting
  <2>5. QED
    BY <2>3, <2>4
<1>2. CASE RefreshBranch
  <2>1. PICK t \in {seen, tick}, parity \in {seen % 2, tick % 2} :
           seen' = t /\ (Branch(t, parity) \/ (t # seen /\ Do(<<>>, "count")))
    BY <1>2 DEF RefreshBranch
  <2>2. t \in 0 .. RED_TICK_TICKCOUNT /\ parity \in {0, 1}
    BY DEF LightTypes, TypeOK
  <2>3. tick \in {seen, 0} /\ at = "loaded" /\ at' = "writing" /\ tick' = tick
    BY <1>2 DEF RefreshBranch, LightTypes, Counting
  <2>4. /\ todo' \in Seq(WriteType) /\ Len(todo') <= 4
        /\ next' \in {"count", "zero"}
        /\ next' = "count" => tick < RED_TICK_TICKCOUNT /\ t < RED_TICK_TICKCOUNT
    <3>1. CASE Branch(t, parity)
      <4>1. t \in Nat /\ tick \in {t, 0}
        BY <2>2, <2>3
      <4>2. todo' \in Seq(WriteType) /\ Len(todo') <= 4
        BY <2>2, <3>1, <4>1, BranchTyped
      <4>3. next' \in {"count", "zero"} /\ (next' = "count" => t < RED_TICK_TICKCOUNT)
        BY <2>2, <3>1, <4>1, BranchWrites
      <4>4. QED
        BY <2>2, <4>1, <4>2, <4>3
    <3>2. CASE t # seen /\ Do(<<>>, "count")
      BY <2>2, <2>3, <3>2 DEF Do, LightTypes, TypeOK
    <3>3. QED
      BY <2>1, <3>1, <3>2
  <2>5. QED
    BY <1>2, <2>1, <2>2, <2>3, <2>4 DEF RefreshBranch, LightTypes, TypeOK, Counting
<1>3. CASE write_io_status
  <2>1. /\ Head(todo) \in WriteType
        /\ Tail(todo) \in Seq(WriteType)
        /\ Len(Tail(todo)) <= 4
    <3>1. todo # <<>> /\ todo \in Seq(WriteType) /\ Len(todo) <= 4
      BY <1>3 DEF write_io_status, LightTypes, TypeOK
    <3>2. QED
      BY <3>1, HeadTailProperties
  <2>2. lamps' \in [Lamps -> {0, 1}] /\ shown' \in Lamps \cup {"none"}
    BY <1>3, <2>1 DEF write_io_status, WriteType, LightTypes, TypeOK
  <2>3. QED
    BY <1>3, <2>1, <2>2 DEF write_io_status, LightTypes, TypeOK, Counting
<1>4. CASE RefreshEnd
  BY <1>4 DEF RefreshEnd, LightTypes, TypeOK, Counting
<1>5. ASSUME NEW state \in BOOLEAN, SetState(state)
      PROVE  LightTypes'
  BY <1>5 DEF SetState, refresh, LightTypes, TypeOK, Counting
<1>6. CASE ResetTick
  <2>1. raced' \in BOOLEAN
    BY <1>6 DEF ResetTick
  <2>2. tick' = 0 /\ 0 \in 0 .. RED_TICK_TICKCOUNT
    BY <1>6 DEF ResetTick
  <2>5. resetting' \in BOOLEAN
    BY <1>6 DEF ResetTick
  <2>3. UNCHANGED <<is_loopled_run, lamps, at, seen, todo, next, shown, commands>>
    BY <1>6 DEF ResetTick, refresh
  <2>4. QED
    BY <2>1, <2>2, <2>3, <2>5 DEF LightTypes, TypeOK, Counting
<1>7. CASE UNCHANGED vars
  BY <1>7 DEF vars, refresh, LightTypes, TypeOK, Counting
<1>8. QED
  BY <1>1, <1>2, <1>3, <1>4, <1>5, <1>6, <1>7 DEF Next, Refresh

\* The state keeps its type, the tick never leaves the cycle: whatever the
\* resets have done to a refresh, the tick it writes back is below the end.
THEOREM LoopLedTypeCorrect == Spec => []TypeOK
<1>1. Init => LightTypes
  BY InitTyped
<1>2. LightTypes /\ [Next]_vars => LightTypes'
  BY NextTyped
<1>3. LightTypes => TypeOK
  BY DEF LightTypes
<1>4. QED
  BY <1>1, <1>2, <1>3, PTL DEF Spec

-----------------------------------------------------------------------------
(* The lamps. *)

\* The invariant of the lamps holds at first: nothing is lit ...
LEMMA InitLamps == Init => LampInv
  BY TickFacts DEF Init, LampInv, Settled, OneLit, Lamps

\* ... and after every step.
LEMMA NextLamps == LightTypes /\ LampInv /\ [Next]_vars => LampInv'
<1> SUFFICES ASSUME LightTypes, LampInv, [Next]_vars, ~raced'
             PROVE  LampInv'
  BY DEF LampInv
<1> USE TickFacts
<1>1. CASE RefreshBegin
  <2>1. /\ ~raced /\ lamps' = lamps /\ shown' = shown /\ Settled(tick)
        /\ tick \in 0 .. RED_TICK_TICKCOUNT
    BY <1>1 DEF RefreshBegin, LampInv, LightTypes, TypeOK
  <2>2. CASE is_loopled_run
    BY <1>1, <2>1, <2>2 DEF RefreshBegin, LampInv, Settled, OneLit, Only
  <2>3. CASE ~is_loopled_run
    <3>1. OneLit
      BY <2>1 DEF Settled, OneLit, Only, Lamps
    <3>2. /\ tick' = 0 /\ at' = "writing" /\ next' = "keep"
          /\ todo' = <<Write("red", 0), Write("yellow", 0), Write("green", 0)>>
      BY <1>1, <2>3 DEF RefreshBegin, write_multi_io
    <3>3. Darkening'
      BY <2>1, <3>1, <3>2 DEF Darkening, OneLit
    <3>4. QED
      BY <3>2, <3>3 DEF LampInv
  <2>4. QED
    BY <2>2, <2>3
<1>2. CASE RefreshBranch
  <2>1. ~raced /\ seen = tick /\ Settled(tick)
    BY <1>2 DEF RefreshBranch, LampInv
  <2>2. /\ at' = "writing" /\ tick' = tick /\ tick \in 0 .. RED_TICK_TICKCOUNT
        /\ lamps' = lamps /\ shown' = shown /\ seen' = tick
    BY <1>2, <2>1 DEF RefreshBranch, LightTypes, TypeOK
  <2>3. PICK parity \in {0, 1} : Branch(tick, parity)
    BY <1>2, <2>1, <2>2 DEF RefreshBranch
  <2>4. CASE /\ tick = 0 /\ next' = "count"
             /\ todo' = <<Write("red", 0), Write("yellow", 0), Write("green", 1)>>
    <3>1. Greening'
      BY <2>1, <2>2, <2>4 DEF Settled, Greening, OneLit
    <3>2. QED
      BY <2>2, <2>4, <3>1 DEF LampInv
  <2>5. CASE /\ tick \in GREEN_TICK_TICKCOUNT .. (GREEN_BLINK_TICKCOUNT - 1) /\ next' = "count"
             /\ todo' = <<Write("green", parity)>>
    <3>1. Blinking'
      BY <2>1, <2>2, <2>3, <2>5 DEF Settled, Blinking, Only
    <3>2. QED
      BY <2>2, <2>5, <3>1 DEF LampInv
  <2>6. CASE /\ tick = GREEN_BLINK_TICKCOUNT /\ next' = "count"
             /\ todo' = <<Write("green", 0), Write("red", 0), Write("yellow", 1), Write("green", 0)>>
    <3>1. Yellowing'
      BY <2>1, <2>2, <2>6 DEF Settled, Yellowing, Only
    <3>2. QED
      BY <2>2, <2>6, <3>1 DEF LampInv
  <2>7. CASE /\ tick = YELLOW_TICKCOUNT /\ next' = "count"
             /\ todo' = <<Write("yellow", 0), Write("red", 1), Write("yellow", 0), Write("green", 0)>>
    <3>1. Reddening'
      BY <2>1, <2>2, <2>7 DEF Settled, Reddening, Only
    <3>2. QED
      BY <2>2, <2>7, <3>1 DEF LampInv
  <2>8. CASE /\ tick >= RED_TICK_TICKCOUNT /\ next' = "zero"
             /\ todo' = <<Write("red", 0), Write("yellow", 0), Write("green", 0)>>
    <3>1. OneLit
      BY <2>1, <2>2, <2>8 DEF Settled, Only, OneLit, Lamps
    <3>2. Darkening'
      BY <2>2, <2>8, <3>1 DEF Darkening, OneLit
    <3>3. QED
      BY <2>2, <2>8, <3>2 DEF LampInv
  <2>9. CASE /\ tick \notin {0, GREEN_BLINK_TICKCOUNT, YELLOW_TICKCOUNT}
             /\ tick < RED_TICK_TICKCOUNT /\ next' = "count" /\ todo' = <<>>
    <3>1. Settled(tick + 1)'
      BY <2>1, <2>2, <2>9 DEF Settled, Only
    <3>2. QED
      BY <2>2, <2>9, <3>1 DEF LampInv
  <2>10. QED
    BY <2>2, <2>3, <2>4, <2>5, <2>6, <2>7, <2>8, <2>9, BranchWrites
<1>3. CASE write_io_status
  <2>1. /\ todo # <<>> /\ ~raced /\ at = "writing" /\ at' = "writing"
        /\ next' = next /\ seen' = seen /\ tick' = tick
    BY <1>3 DEF write_io_status
  <2>2. ASSUME NEW l \in Lamps, NEW s \in {0, 1}, Head(todo) = Write(l, s)
        PROVE  /\ lamps' = [lamps EXCEPT ![l] = s] /\ todo' = Tail(todo)
               /\ s = 0 => shown' = shown
               /\ s = 1 => shown' = l
    <3>1. Head(todo).lamp = l /\ Head(todo).status = s
      BY <2>2, WriteTyped
    <3>2. /\ lamps' = [lamps EXCEPT ![Head(todo).lamp] = Head(todo).status]
          /\ shown' = IF Head(todo).status = 1 THEN Head(todo).lamp ELSE shown
          /\ todo' = Tail(todo)
      BY <1>3 DEF write_io_status
    <3>3. lamps' = [lamps EXCEPT ![l] = s]
      BY <3>1, <3>2
    <3>4. s = 0 => shown' = shown
      BY <3>1, <3>2
    <3>5. s = 1 => shown' = l
      BY <3>1, <3>2
    <3>6. todo' = Tail(todo)
      BY <3>2
    <3>7. QED
      BY <3>3, <3>4, <3>5, <3>6
  <2>3. CASE next \in {"keep", "zero"} /\ (next = "keep" => tick = 0) /\ Darkening
    <3>1. CASE todo = <<Write("red", 0), Write("yellow", 0), Write("green", 0)>>
      <4>1. Head(todo) = Write("red", 0) /\ Tail(todo) = <<Write("yellow", 0), Write("green", 0)>>
        BY <3>1, Heads, Tails
      <4>2. /\ lamps' = [lamps EXCEPT !["red"] = 0] /\ shown' = shown
            /\ todo' = <<Write("yellow", 0), Write("green", 0)>>
        BY <2>1, <2>2, <4>1 DEF Lamps
      <4>3. Darkening'
        BY <2>3, <3>1, <4>2 DEF Darkening, OneLit
      <4>4. QED
        BY <2>1, <2>3, <4>2, <4>3 DEF LampInv
    <3>2. CASE todo = <<Write("yellow", 0), Write("green", 0)>>
      <4>1. Head(todo) = Write("yellow", 0) /\ Tail(todo) = <<Write("green", 0)>>
        BY <3>2, Heads, Tails
      <4>2. /\ lamps' = [lamps EXCEPT !["yellow"] = 0] /\ shown' = shown
            /\ todo' = <<Write("green", 0)>>
        BY <2>1, <2>2, <4>1 DEF Lamps
      <4>3. Darkening'
        BY <2>3, <3>2, <4>2 DEF Darkening, OneLit
      <4>4. QED
        BY <2>1, <2>3, <4>2, <4>3 DEF LampInv
    <3>3. CASE todo = <<Write("green", 0)>>
      <4>1. Head(todo) = Write("green", 0) /\ Tail(todo) = <<>>
        BY <3>3, Heads, Tails
      <4>2. /\ lamps' = [lamps EXCEPT !["green"] = 0] /\ shown' = shown
            /\ todo' = <<>>
        BY <2>1, <2>2, <4>1 DEF Lamps
      <4>3. Darkening'
        BY <2>3, <3>3, <4>2 DEF Darkening, OneLit
      <4>4. QED
        BY <2>1, <2>3, <4>2, <4>3 DEF LampInv
    <3>4. QED
      BY <2>1, <2>3, <3>1, <3>2, <3>3 DEF Darkening
  <2>4. CASE next = "count" /\ seen = tick /\ Greening
    <3>1. CASE todo = <<Write("red", 0), Write("yellow", 0), Write("green", 1)>>
      <4>1. Head(todo) = Write("red", 0) /\ Tail(todo) = <<Write("yellow", 0), Write("green", 1)>>
        BY <3>1, Heads, Tails
      <4>2. /\ lamps' = [lamps EXCEPT !["red"] = 0] /\ shown' = shown
            /\ todo' = <<Write("yellow", 0), Write("green", 1)>>
        BY <2>1, <2>2, <4>1 DEF Lamps
      <4>3. Greening'
        BY <2>1, <2>4, <3>1, <4>2 DEF Greening, OneLit, Lamps, LightTypes, TypeOK
      <4>4. QED
        BY <2>1, <2>4, <4>2, <4>3 DEF LampInv
    <3>2. CASE todo = <<Write("yellow", 0), Write("green", 1)>>
      <4>1. Head(todo) = Write("yellow", 0) /\ Tail(todo) = <<Write("green", 1)>>
        BY <3>2, Heads, Tails
      <4>2. /\ lamps' = [lamps EXCEPT !["yellow"] = 0] /\ shown' = shown
            /\ todo' = <<Write("green", 1)>>
        BY <2>1, <2>2, <4>1 DEF Lamps
      <4>3. Greening'
        BY <2>1, <2>4, <3>2, <4>2 DEF Greening, Only, Lamps, LightTypes, TypeOK
      <4>4. QED
        BY <2>1, <2>4, <4>2, <4>3 DEF LampInv
    <3>3. CASE todo = <<Write("green", 1)>>
      <4>1. Head(todo) = Write("green", 1) /\ Tail(todo) = <<>>
        BY <3>3, Heads, Tails
      <4>2. /\ lamps' = [lamps EXCEPT !["green"] = 1] /\ shown' = "green"
            /\ todo' = <<>>
        BY <2>1, <2>2, <4>1 DEF Lamps
      <4>3. Settled(tick + 1)'
        BY <2>1, <2>4, <3>3, <4>2 DEF Greening, Only, Settled
      <4>4. QED
        BY <2>1, <2>4, <4>2, <4>3 DEF LampInv
    <3>4. QED
      BY <2>1, <2>4, <3>1, <3>2, <3>3 DEF Greening
  <2>5. CASE next = "count" /\ seen = tick /\ Blinking
    <3>1. CASE todo = <<Write("green", 0)>>
      <4>1. Head(todo) = Write("green", 0) /\ Tail(todo) = <<>>
        BY <3>1, Heads, Tails
      <4>2. /\ lamps' = [lamps EXCEPT !["green"] = 0] /\ shown' = shown
            /\ todo' = <<>>
        BY <2>1, <2>2, <4>1 DEF Lamps
      <4>3. Settled(tick + 1)'
        BY <2>1, <2>5, <3>1, <4>2 DEF Blinking, Only, Settled
      <4>4. QED
        BY <2>1, <2>5, <4>2, <4>3 DEF LampInv
    <3>2. CASE todo = <<Write("green", 1)>>
      <4>1. Head(todo) = Write("green", 1) /\ Tail(todo) = <<>>
        BY <3>2, Heads, Tails
      <4>2. /\ lamps' = [lamps EXCEPT !["green"] = 1] /\ shown' = "green"
            /\ todo' = <<>>
        BY <2>1, <2>2, <4>1 DEF Lamps
      <4>3. Settled(tick + 1)'
        BY <2>1, <2>5, <3>2, <4>2 DEF Blinking, Only, Settled
      <4>4. QED
        BY <2>1, <2>5, <4>2, <4>3 DEF LampInv
    <3>3. QED
      BY <2>1, <2>5, <3>1, <3>2 DEF Blinking
  <2>6. CASE next = "count" /\ seen = tick /\ Yellowing
    <3>1. CASE todo = <<Write("green", 0), Write("red", 0), Write("yellow", 1), Write("green", 0)>>
      <4>1. /\ Head(todo) = Write("green", 0)
            /\ Tail(todo) = <<Write("red", 0), Write("yellow", 1), Write("green", 0)>>
        BY <3>1, Heads, Tails
      <4>2. /\ lamps' = [lamps EXCEPT !["green"] = 0] /\ shown' = shown
            /\ todo' = <<Write("red", 0), Write("yellow", 1), Write("green", 0)>>
        BY <2>1, <2>2, <4>1 DEF Lamps
      <4>3. Yellowing'
        BY <2>1, <2>6, <3>1, <4>2 DEF Yellowing, Only, AllDark, LightTypes, TypeOK
      <4>4. QED
        BY <2>1, <2>6, <4>2, <4>3 DEF LampInv
    <3>2. CASE todo = <<Write("red", 0), Write("yellow", 1), Write("green", 0)>>
      <4>1. Head(todo) = Write("red", 0) /\ Tail(todo) = <<Write("yellow", 1), Write("green", 0)>>
        BY <3>2, Heads, Tails
      <4>2. /\ lamps' = [lamps EXCEPT !["red"] = 0] /\ shown' = shown
            /\ todo' = <<Write("yellow", 1), Write("green", 0)>>
        BY <2>1, <2>2, <4>1 DEF Lamps
      <4>3. Yellowing'
        BY <2>1, <2>6, <3>2, <4>2 DEF Yellowing, AllDark
      <4>4. QED
        BY <2>1, <2>6, <4>2, <4>3 DEF LampInv
    <3>3. CASE todo = <<Write("yellow", 1), Write("green", 0)>>
      <4>1. Head(todo) = Write("yellow", 1) /\ Tail(todo) = <<Write("green", 0)>>
        BY <3>3, Heads, Tails
      <4>2. /\ lamps' = [lamps EXCEPT !["yellow"] = 1] /\ shown' = "yellow"
            /\ todo' = <<Write("green", 0)>>
        BY <2>1, <2>2, <4>1 DEF Lamps
      <4>3. Yellowing'
        BY <2>1, <2>6, <3>3, <4>2 DEF Yellowing, Only, AllDark
      <4>4. QED
        BY <2>1, <2>6, <4>2, <4>3 DEF LampInv
    <3>4. CASE todo = <<Write("green", 0)>>
      <4>1. Head(todo) = Write("green", 0) /\ Tail(todo) = <<>>
        BY <3>4, Heads, Tails
      <4>2. /\ lamps' = [lamps EXCEPT !["green"] = 0] /\ shown' = shown
            /\ todo' = <<>>
        BY <2>1, <2>2, <4>1 DEF Lamps
      <4>3. Settled(tick + 1)'
        BY <2>1, <2>6, <3>4, <4>2 DEF Yellowing, Only, Settled
      <4>4. QED
        BY <2>1, <2>6, <4>2, <4>3 DEF LampInv
    <3>5. QED
      BY <2>1, <2>6, <3>1, <3>2, <3>3, <3>4 DEF Yellowing
  <2>7. CASE next = "count" /\ seen = tick /\ Reddening
    <3>1. CASE todo = <<Write("yellow", 0), Write("red", 1), Write("yellow", 0), Write("green", 0)>>
      <4>1. /\ Head(todo) = Write("yellow", 0)
            /\ Tail(todo) = <<Write("red", 1), Write("yellow", 0), Write("green", 0)>>
        BY <3>1, Heads, Tails
      <4>2. /\ lamps' = [lamps EXCEPT !["yellow"] = 0] /\ shown' = shown
            /\ todo' = <<Write("red", 1), Write("yellow", 0), Write("green", 0)>>
        BY <2>1, <2>2, <4>1 DEF Lamps
      <4>3. Reddening'
        BY <2>1, <2>7, <3>1, <4>2 DEF Reddening, Only, AllDark, LightTypes, TypeOK
      <4>4. QED
        BY <2>1, <2>7, <4>2, <4>3 DEF LampInv
    <3>2. CASE todo = <<Write("red", 1), Write("yellow", 0), Write("green", 0)>>
      <4>1. Head(todo) = Write("red", 1) /\ Tail(todo) = <<Write("yellow", 0), Write("green", 0)>>
        BY <3>2, Heads, Tails
      <4>2. /\ lamps' = [lamps EXCEPT !["red"] = 1] /\ shown' = "red"
            /\ todo' = <<Write("yellow", 0), Write("green", 0)>>
        BY <2>1, <2>2, <4>1 DEF Lamps
      <4>3. Reddening'
        BY <2>1, <2>7, <3>2, <4>2 DEF Reddening, Only, AllDark
      <4>4. QED
        BY <2>1, <2>7, <4>2, <4>3 DEF LampInv
    <3>3. CASE todo = <<Write("yellow", 0), Write("green", 0)>>
      <4>1. Head(todo) = Write("yellow", 0) /\ Tail(todo) = <<Write("green", 0)>>
        BY <3>3, Heads, Tails
      <4>2. /\ lamps' = [lamps EXCEPT !["yellow"] = 0] /\ shown' = shown
            /\ todo' = <<Write("green", 0)>>
        BY <2>1, <2>2, <4>1 DEF Lamps
      <4>3. Reddening'
        BY <2>1, <2>7, <3>3, <4>2 DEF Reddening, Only
      <4>4. QED
        BY <2>1, <2>7, <4>2, <4>3 DEF LampInv
    <3>4. CASE todo = <<Write("green", 0)>>
      <4>1. Head(todo) = Write("green", 0) /\ Tail(todo) = <<>>
        BY <3>4, Heads, Tails
      <4>2. /\ lamps' = [lamps EXCEPT !["green"] = 0] /\ shown' = shown
            /\ todo' = <<>>
        BY <2>1, <2>2, <4>1 DEF Lamps
      <4>3. Settled(tick + 1)'
        BY <2>1, <2>7, <3>4, <4>2 DEF Reddening, Only, Settled
      <4>4. QED
        BY <2>1, <2>7, <4>2, <4>3 DEF LampInv
    <3>5. QED
      BY <2>1, <2>7, <3>1, <3>2, <3>3, <3>4 DEF Reddening
  <2>8. QED
    BY <2>1, <2>3, <2>4, <2>5, <2>6, <2>7 DEF LampInv
<1>4. CASE RefreshEnd
  <2>1. /\ at = "writing" /\ todo = <<>> /\ ~raced
        /\ at' = "idle" /\ lamps' = lamps /\ shown' = shown
    BY <1>4 DEF RefreshEnd
  <2>2. CASE next = "count"
    <3>1. tick' = tick + 1 /\ Settled(tick + 1)
      BY <1>4, <2>1, <2>2 DEF RefreshEnd, LampInv, Greening, Blinking, Yellowing, Reddening
    <3>2. QED
      BY <2>1, <3>1 DEF LampInv, Settled, OneLit, Only
  <2>3. CASE next # "count"
    <3>1. tick' = 0 /\ OneLit
      BY <1>4, <2>1, <2>3 DEF RefreshEnd, LampInv, Darkening
    <3>2. QED
      BY <2>1, <3>1 DEF LampInv, Settled, OneLit
  <2>4. QED
    BY <2>2, <2>3
<1>5. ASSUME NEW state \in BOOLEAN, SetState(state)
      PROVE  LampInv'
  BY <1>5 DEF SetState, refresh, LampInv, Settled, OneLit, Only, AllDark, Darkening, Greening,
              Blinking, Yellowing, Reddening
<1>6. CASE ResetTick
  <2>1. ~raced /\ at = "idle" /\ at' = "idle" /\ tick' = 0 /\ lamps' = lamps /\ shown' = shown
    BY <1>6 DEF ResetTick, refresh
  <2>2. OneLit
    BY <2>1 DEF LampInv, Settled, OneLit, Only, Lamps, LightTypes, TypeOK
  <2>3. QED
    BY <2>1, <2>2 DEF LampInv, Settled, OneLit
<1>7. CASE UNCHANGED vars
  BY <1>7 DEF vars, refresh, LampInv, Settled, OneLit, Only, AllDark, Darkening, Greening,
              Blinking, Yellowing, Reddening
<1>8. QED
  BY <1>1, <1>2, <1>3, <1>4, <1>5, <1>6, <1>7 DEF Next, Refresh

\* Both together are an invariant.
LEMMA LightInvariant == Spec => []LightInv
<1>1. Init => LightInv
  BY InitTyped, InitLamps DEF LightInv
<1>2. LightInv /\ [Next]_vars => LightInv'
  BY NextTyped, NextLamps DEF LightInv
<1>3. QED
  BY <1>1, <1>2, PTL DEF Spec

\* From the form the proof uses to the one of the property.
LEMMA OneLitSuffices == OneLit => Cardinality(Lit) <= 1
<1> SUFFICES ASSUME OneLit PROVE Cardinality(Lit) <= 1
  OBVIOUS
<1>1. CASE Lit = {}
  BY <1>1, FS_EmptySet
<1>2. CASE Lit # {}
  <2>1. PICK l \in Lamps : Lit = {l}
    BY <1>2 DEF Lit, OneLit
  <2>2. QED
    BY <2>1, FS_Singleton
<1>3. QED
  BY <1>1, <1>2

\* The invariant says it of every state.
LEMMA OneLampSuffices == LightInv => OneLamp
<1> SUFFICES ASSUME LightTypes, LampInv, ~raced PROVE OneLit
  BY OneLitSuffices DEF OneLamp, LightInv
<1> USE TickFacts
<1>1. ASSUME NEW t \in 0 .. RED_TICK_TICKCOUNT, Settled(t)
      PROVE  OneLit
  BY <1>1 DEF Settled, OneLit, Only, Lamps
<1>2. tick \in 0 .. RED_TICK_TICKCOUNT
  BY DEF LightTypes, TypeOK
<1>3. CASE Settled(tick) \/ Darkening
  BY <1>1, <1>2, <1>3 DEF Darkening
<1>4. CASE at = "writing" /\ next = "count" /\ Settled(tick + 1)
  <2>1. tick + 1 \in 0 .. RED_TICK_TICKCOUNT
    BY <1>2, <1>4 DEF LightTypes, Counting
  <2>2. QED
    BY <1>1, <1>4, <2>1
<1>5. CASE Greening \/ Blinking \/ Yellowing \/ Reddening
  BY <1>5 DEF Greening, Blinking, Yellowing, Reddening, OneLit, Only, AllDark, Lamps
<1>6. QED
  BY <1>3, <1>4, <1>5 DEF LampInv

\* However the cycle is turned on and off, two lamps are lit at once at most
\* after a reset of the tick has fallen into a refresh.
THEOREM NeverTwoLamps == Spec => []OneLamp
  BY OneLampSuffices, LightInvariant, PTL

\* A write that is to light yellow or red finds the lamp before it shown last.
LEMMA LampToLight ==
    ASSUME LampInv, ~raced, at = "writing", todo # <<>>
    PROVE  /\ Head(todo) = Write("yellow", 1) => shown = "green"
           /\ Head(todo) = Write("red", 1) => shown = "yellow"
<1>1. /\ Write("yellow", 1) \notin {Write("red", 0), Write("yellow", 0), Write("green", 0),
                                   Write("green", 1), Write("red", 1)}
      /\ Write("red", 1) \notin {Write("red", 0), Write("yellow", 0), Write("green", 0),
                                Write("green", 1), Write("yellow", 1)}
  BY DEF Write
<1>2. CASE Darkening
  BY <1>1, <1>2, Heads DEF Darkening
<1>3. CASE Greening
  BY <1>1, <1>3, Heads DEF Greening
<1>4. CASE Blinking
  BY <1>1, <1>4, Heads DEF Blinking
<1>5. CASE Yellowing
  BY <1>1, <1>5, Heads DEF Yellowing
<1>6. CASE Reddening
  BY <1>1, <1>6, Heads DEF Reddening
<1>7. QED
  BY <1>2, <1>3, <1>4, <1>5, <1>6 DEF LampInv

\* A step from the invariant lights the lamps in their order.
LEMMA LightsInOrder ==
    LightInv /\ [Next]_vars
        => [~raced => /\ Lights("yellow") => shown = "green"
                      /\ Lights("red") => shown = "yellow"]_vars
<1> SUFFICES ASSUME LightTypes, LampInv, [Next]_vars, ~raced, vars' # vars,
                    NEW l \in {"yellow", "red"}, Lights(l)
             PROVE  /\ l = "yellow" => shown = "green"
                    /\ l = "red" => shown = "yellow"
  BY DEF LightInv
<1>1. lamps'[l] = 1 /\ lamps[l] = 0 /\ l \in Lamps
  BY DEF Lights, Lit, Lamps, LightTypes, TypeOK
<1>2. write_io_status
  BY <1>1 DEF Next, Refresh, RefreshBegin, RefreshBranch, RefreshEnd, SetState, ResetTick
<1>3. Head(todo) = Write(l, 1)
  <2>1. Head(todo) \in WriteType
    BY <1>2, HeadTailProperties DEF write_io_status, LightTypes, TypeOK
  <2>2. /\ lamps' = [lamps EXCEPT ![Head(todo).lamp] = Head(todo).status]
        /\ lamps \in [Lamps -> {0, 1}]
    BY <1>2 DEF write_io_status, LightTypes, TypeOK
  <2>3. Head(todo).lamp = l /\ Head(todo).status = 1
    BY <1>1, <2>1, <2>2 DEF WriteType
  <2>4. QED
    BY <2>1, <2>3 DEF Write, WriteType
<1>4. QED
  BY <1>2, <1>3, LampToLight DEF write_io_status

\* Under the same condition yellow is lit only after green, red only after
\* yellow, for every length of the phases.
THEOREM PhasesInOrder == Spec => PhaseOrder
  BY LightsInOrder, LightInvariant, PTL DEF Spec, PhaseOrder

\* A step of the board is one of the light or leaves it alone.
LEMMA LightSteps == BoardSpec => Init /\ [][Next]_vars
<1>1. BoardInit => Init
  BY DEF BoardInit
<1>2. [BoardNext]_allVars => [Next]_vars
  BY DEF BoardNext, allVars, AlarmStep, LightStep, ClockStep, TouchStep, KeyStep
<1>3. QED
  BY <1>1, <1>2, PTL DEF BoardSpec

\* Both hold of the light among the other devices.
THEOREM BoardLamps == BoardSpec => []OneLamp /\ PhaseOrder
<1>1. Init => LightInv
  BY InitTyped, InitLamps DEF LightInv
<1>2. LightInv /\ [Next]_vars => LightInv'
  BY NextTyped, NextLamps DEF LightInv
<1>3. QED
  BY <1>1, <1>2, LightSteps, OneLampSuffices, LightsInOrder, PTL DEF PhaseOrder

-----------------------------------------------------------------------------
(* The alarm. *)

(* The alarm: what the interrupt thread holds back is what the register holds, *)
(* unless a call has been raced, and what has been asked for is what a call    *)
(* under way or the register says.                                             *)
AlarmInv ==
    /\ driver = "new" => alarm_handler = "idle" /\ ~alarm_latched /\ mode = "none" /\ ~asked
    /\ mode # "none" => asked = (mode = "on")
    /\ alarm_handler = "write" /\ ~alarm_raced => buf = aie
    /\ ModeAsAsked

AlarmIInv == Alarm!TypeOK /\ AlarmInv

\* A step of the board is one of the alarm or leaves it alone.
LEMMA AlarmSteps == BoardSpec => Alarm!Init /\ [][Alarm!Next]_alarm
<1>1. BoardInit => Alarm!Init
  BY DEF BoardInit
<1>2. [BoardNext]_allVars => [Alarm!Next]_alarm
  BY DEF BoardNext, allVars, AlarmStep, LightStep, ClockStep, TouchStep, KeyStep
<1>3. QED
  BY <1>1, <1>2, PTL DEF BoardSpec

\* The assumptions on the bounds of the alarm, one at a time.
LEMMA AlarmBounds == MaxCalls \in Nat /\ MaxMatches \in Nat
  BY DeviceAssumption DEF DeviceAssumption, Alarm!Assumption

\* The invariant of the alarm holds at first ...
LEMMA AlarmInit == Alarm!Init => AlarmIInv
<1> SUFFICES ASSUME Alarm!Init PROVE AlarmIInv
  OBVIOUS
<1>1. {aie, af, armed, alarm_latched, buf, asked, owed, missed, alarm_raced} \subseteq BOOLEAN
  BY Zenon DEF Alarm!Init
<1>2. alarm_calls \in 0 .. MaxCalls /\ matches \in 0 .. MaxMatches
  BY AlarmBounds DEF Alarm!Init
<1>3. AlarmInv
  BY DEF Alarm!Init, AlarmInv, ModeAsAsked, Alarm!ModeAsAsked
<1>4. QED
  BY <1>1, <1>2, <1>3 DEF Alarm!Init, AlarmIInv, Alarm!TypeOK

\* ... and after every step.
LEMMA AlarmNext == AlarmIInv /\ [Alarm!Next]_alarm => AlarmIInv'
<1> SUFFICES ASSUME AlarmIInv, [Alarm!Next]_alarm PROVE AlarmIInv'
  OBVIOUS
<1> USE DEF AlarmIInv, AlarmInv, Alarm!TypeOK, ModeAsAsked, Alarm!ModeAsAsked
<1> USE DEF Alarm!register, Alarm!Write, Alarm!Pin, Alarm!Falls, Alarm!Requested
<1>1. CASE Alarm!AlarmMatches
  BY AlarmBounds, <1>1 DEF Alarm!AlarmMatches
<1>2. CASE Alarm!Probe
  BY <1>2 DEF Alarm!Probe, Alarm!ProbeClears, Alarm!ProbeRegisters, Alarm!ProbeRequests
<1>3. ASSUME NEW on \in {"on", "off"}, Alarm!SetAlarm(on) \/ Alarm!AlarmIrqEnable(on)
      PROVE  AlarmIInv'
  <2>1. Alarm!Call(on) /\ armed' \in BOOLEAN
    BY <1>3 DEF Alarm!SetAlarm, Alarm!AlarmIrqEnable
  <2>2. alarm_calls' \in 0 .. MaxCalls
    BY <2>1, AlarmBounds DEF Alarm!Call
  <2>3. QED
    BY <1>3, <2>1, <2>2 DEF Alarm!Call
<1>4. CASE Alarm!SetMode
  <2>1. alarm_raced' = (alarm_handler = "write")
    BY <1>4 DEF Alarm!SetMode
  <2>2. alarm_raced' \in BOOLEAN /\ (alarm_handler = "write" => alarm_raced')
    BY <2>1, Zenon
  <2> QED BY <1>4, <2>2 DEF Alarm!SetMode
<1>5. CASE Alarm!Handler
  BY <1>5 DEF Alarm!Handler, Alarm!Interrupt, Alarm!HandlerGetMode, Alarm!ClearReads, Alarm!ClearWrites, Alarm!Report
<1>6. CASE UNCHANGED alarm
  BY <1>6 DEF alarm
<1>7. QED
  BY <1>1, <1>2, <1>3, <1>4, <1>5, <1>6 DEF Alarm!Next

\* Whatever the interrupt thread has read and not yet written back, a call that has
\* ended finds the alarm as it asked, for any number of calls and matches.
THEOREM ModeIsAsAsked == BoardSpec => []ModeAsAsked
<1>1. AlarmIInv => ModeAsAsked
  BY DEF AlarmIInv, AlarmInv
<1>2. QED
  BY <1>1, AlarmSteps, AlarmInit, AlarmNext, PTL

-----------------------------------------------------------------------------
(* The key. *)

\* Who holds the word checked, and undisturbed, still finds it there.
Checked == \A r \in Key!Readers :
              pc[r] = "copy" /\ ~disturbed[r] => probe = "done" /\ status # "KEEP"

\* A change that is in the word, and that no reader is about to reset, is new.
WordIsNew == probe = "done" /\ status # "KEEP" /\ (\A r \in Key!Readers : pc[r] # "reset")
                => change \notin key_seen

KeyInv == key_seen \subseteq 0 .. change /\ Checked /\ WordIsNew /\ ReadIsNew
KeyIInv == Key!TypeOK /\ KeyInv

\* A step of the board is one of the key or leaves it alone.
LEMMA KeySteps == BoardSpec => Key!Init /\ [][Key!Next]_key
<1>1. BoardInit => Key!Init
  BY DEF BoardInit
<1>2. [BoardNext]_allVars => [Key!Next]_key
  BY DEF BoardNext, allVars, AlarmStep, LightStep, ClockStep, TouchStep, KeyStep
<1>3. QED
  BY <1>1, <1>2, PTL DEF BoardSpec

\* The assumptions on the bounds of the key, one at a time.
LEMMA KeyBounds == MaxEdges \in Nat /\ MaxReads \in Nat
  BY DeviceAssumption DEF DeviceAssumption, Key!Assumption

\* The invariant of the key holds at first ...
LEMMA KeyInit == Key!Init => KeyIInv
<1> SUFFICES ASSUME Key!Init PROVE KeyIInv
  OBVIOUS
<1>1. Key!TypeOK
  <2>1. {irq, key_timer, async_queue, sigio, dead, told} \subseteq BOOLEAN
    BY Zenon DEF Key!Init
  <2>2. edges \in 0 .. MaxEdges /\ reads \in 0 .. MaxReads /\ change \in Nat
    BY KeyBounds DEF Key!Init
  <2>3. QED
    BY <2>1, <2>2 DEF Key!Init, Key!TypeOK
<1>2. KeyInv
  BY DEF Key!Init, KeyInv, Checked, WordIsNew, ReadIsNew, Key!ReadIsNew
<1>3. QED
  BY <1>1, <1>2 DEF KeyIInv

\* ... and after every step.
LEMMA KeyNext == KeyIInv /\ [Key!Next]_key => KeyIInv'
<1> SUFFICES ASSUME KeyIInv, [Key!Next]_key PROVE KeyIInv'
  OBVIOUS
<1> USE KeyBounds
<1> USE DEF KeyIInv, KeyInv, Checked, WordIsNew, ReadIsNew, Key!ReadIsNew, Key!TypeOK,
            Key!driver, Key!reader
<1>1. CASE Key!key_device_create
  BY <1>1 DEF Key!key_device_create
<1>2. CASE Key!ProbeEnds
  BY <1>2 DEF Key!ProbeEnds
<1>3. CASE Key!Edge
  BY <1>3 DEF Key!Edge
<1>4. CASE Key!key_handler
  BY <1>4 DEF Key!key_handler
<1>5. CASE Key!key_timer_func
  <2>1. CASE value # key_value
    <3>1. /\ status' \in {"PRESS", "RELEASE"} /\ change' = change + 1
          /\ pc' = Key!Woken /\ UNCHANGED <<key_seen, probe, new, disturbed>>
      BY <1>5, <2>1 DEF Key!key_timer_func, Key!Changed
    <3>2. \A r \in Key!Readers : pc'[r] \in {"copy", "reset"} => pc'[r] = pc[r]
      BY <3>1 DEF Key!Woken
    <3>3. key_seen' \subseteq 0 .. change' /\ change' \notin key_seen'
      BY <3>1
    <3>4. KeyInv'
      BY <3>1, <3>2, <3>3
    <3>5. Key!TypeOK'
      <4>1. pc' \in [Key!Readers -> {"idle", "check", "asleep", "copy", "reset"}]
        BY <3>1 DEF Key!Woken
      <4>2. key_timer' = FALSE /\ protect' = 0 /\ key_value' = value
            /\ UNCHANGED <<value, irq, async_queue, dead, reads, edges>>
        BY <1>5 DEF Key!key_timer_func
      <4>3. sigio' \in BOOLEAN /\ told' \in BOOLEAN
        BY <1>5, <2>1 DEF Key!key_timer_func, Key!Changed
      <4>4. {irq, key_timer, async_queue, sigio, dead, told}' \subseteq BOOLEAN
        BY <4>2, <4>3
      <4>5. QED
        BY <3>1, <4>1, <4>2, <4>4
    <3>6. QED
      BY <3>4, <3>5
  <2>2. CASE value = key_value
    BY <1>5, <2>2 DEF Key!key_timer_func, Key!Unchanged
  <2>3. QED
    BY <2>1, <2>2
<1>6. CASE Key!key_fasync
  BY <1>6 DEF Key!key_fasync
<1>7. CASE Key!sigio_signal_func
  BY <1>7 DEF Key!sigio_signal_func, Key!Enters, Key!Readers
<1>8. ASSUME NEW r \in Others, Key!Read(r)
      PROVE  KeyIInv'
  BY <1>8 DEF Key!Read, Key!Enters, Key!Readers
<1>9. ASSUME NEW r \in Key!Readers, Key!Check(r)
      PROVE  KeyIInv'
  BY <1>9 DEF Key!Check
<1>10. ASSUME NEW r \in Key!Readers, Key!Copy(r)
      PROVE  KeyIInv'
  <2>1. Key!TypeOK' /\ Checked' /\ key_seen' \subseteq 0 .. change'
    BY <1>10 DEF Key!Copy
  <2>2. WordIsNew'
    BY <1>10 DEF Key!Copy
  <2>3. ASSUME ~disturbed'[r]
        PROVE  new'[r]
    BY <1>10, <2>3 DEF Key!Copy, Key!Between
  <2>4. ReadIsNew'
    BY <1>10, <2>3 DEF Key!Copy
  <2>5. QED
    BY <2>1, <2>2, <2>4
<1>11. ASSUME NEW r \in Key!Readers, Key!Reset(r)
      PROVE  KeyIInv'
  BY <1>11 DEF Key!Reset
<1>12. CASE UNCHANGED key
  BY <1>12 DEF key
<1>13. QED
  BY <1>1, <1>2, <1>3, <1>4, <1>5, <1>6, <1>7, <1>8, <1>9, <1>10, <1>11, <1>12
     DEF Key!Next, Key!key_probe, Key!key_read

\* For any number of readers, edges and reads: who reads the word undisturbed gets a
\* change that nobody has been given.
THEOREM ReadersGetNew == BoardSpec => []ReadIsNew
<1>1. KeyIInv => ReadIsNew
  BY DEF KeyIInv, KeyInv
<1>2. QED
  BY <1>1, KeySteps, KeyInit, KeyNext, PTL

-----------------------------------------------------------------------------
(* The touch screen. *)

\* The chip holds the last touch, of c fingers.
OnScreen(c) ==
    /\ touch_status = 128 + c
    /\ \A i \in Touch!Fingers :
          IF i < c THEN /\ last[i] \in Touch!Word \X Touch!Word
                        /\ points[i] = Touch!BytesOf(last[i])
                   ELSE last[i] = Touch!Up

Held == \E c \in 0 .. GOODIX_MAX_CONTACTS : OnScreen(c)

\* The bytes that have been read are those of the points.
BytesRead == \A n \in 0 .. Len(point_data) - 1 : point_data[n + 1] = points[n \div 4][(n % 4) + 1]

\* How far the last touch is on its way to the input device, when nothing has come
\* in between: in the chip and announced, read in part, read, or shown.
OnItsWay ==
    sure => \/ /\ handler \in {"idle", "status"}
               /\ touch_status = 0 \/ Held
               /\ touch_shown = last \/ (Held /\ (latched \/ handler = "status"))
            \/ handler \in {"points", "report"} /\ OnScreen(touch_num) /\ BytesRead
            \/ handler = "clear" /\ Held /\ touch_shown = last
            \/ handler = "dead"

\* The driver knows of every finger that is shown.
SlotsKnown == \A i \in Touch!Fingers : touch_shown[i] = Touch!Up \/ slot_state[i]

\* The bytes that are to come.
Lengths == /\ handler = "points" => Len(point_data) < 4 * touch_num
           /\ handler = "report" => Len(point_data) = 4 * touch_num

Places == {Touch!Up} \cup (Touch!Word \X Touch!Word)

TouchInv == Touch!TypeOK /\ last \in [Touch!Fingers -> Places] /\ Lengths /\ OnItsWay /\ SlotsKnown

\* A step of the board is one of the touch screen or leaves it alone.
LEMMA TouchSteps == BoardSpec => Touch!Init /\ [][Touch!Next]_touch
<1>1. BoardInit => Touch!Init
  BY DEF BoardInit
<1>2. [BoardNext]_allVars => [Touch!Next]_touch
  BY DEF BoardNext, allVars, AlarmStep, LightStep, ClockStep, TouchStep, KeyStep
<1>3. QED
  BY <1>1, <1>2, PTL DEF BoardSpec

\* The assumptions on the touch screen, one at a time.
LEMMA TouchBounds ==
    /\ GOODIX_MAX_CONTACTS \in 1 .. 15 /\ MaxTouches \in Nat /\ MaxFails \in Nat
    /\ Touches \subseteq [point : 0 .. 255, x : Touch!Word, y : Touch!Word]
  BY DeviceAssumption DEF DeviceAssumption, Touch!Assumption

\* The invariant of the touch screen holds at first.
LEMMA TouchInit == Touch!Init => TouchInv
<1> SUFFICES ASSUME Touch!Init PROVE TouchInv
  OBVIOUS
<1>1. points \in [Touch!Fingers -> [1 .. 4 -> 0 .. 255]]
  BY DEF Touch!Init
<1>2. point_data \in Seq(0 .. 255)
  BY DEF Touch!Init
<1>3. /\ touch_num \in 0 .. GOODIX_MAX_CONTACTS /\ touches \in 0 .. MaxTouches
      /\ fails \in 0 .. MaxFails
  BY TouchBounds DEF Touch!Init
<1>4. slot_state \in [Touch!Fingers -> BOOLEAN] /\ DOMAIN touch_shown = Touch!Fingers
  BY DEF Touch!Init
<1>5. Lengths /\ OnItsWay /\ SlotsKnown
  BY DEF Touch!Init, Lengths, OnItsWay, SlotsKnown
<1>6. last \in [Touch!Fingers -> Places]
  BY DEF Touch!Init, Places
<1>7. QED
  BY <1>1, <1>2, <1>3, <1>4, <1>5, <1>6 DEF Touch!Init, TouchInv, Touch!TypeOK

\* The numbers that fit in two bytes.
LEMMA WordIs == \A w : w \in Touch!Word <=> w \in Nat /\ w < 65536
<1>1. \A n \in Int : \A w : w \in 0 .. n <=> w \in Nat /\ w < n + 1
  OBVIOUS
<1>2. Touch!WordMax \in Int /\ Touch!WordMax + 1 = 65536
  BY DEF Touch!WordMax
<1>3. QED
  BY <1>1, <1>2 DEF Touch!Word

\* A coordinate is what its two bytes make.
LEMMA Bytes ==
    ASSUME NEW a \in Touch!Word
    PROVE  /\ a % 256 \in 0 .. 255 /\ a \div 256 \in 0 .. 255
           /\ (a % 256) + 256 * (a \div 256) = a
<1>1. a \in Nat /\ a < 65536
  BY WordIs
<1>2. a % 256 \in Nat /\ a % 256 < 256 /\ a \div 256 \in Nat /\ a \div 256 < 256
  BY <1>1
<1>3. (a % 256) + 256 * (a \div 256) = a
  BY <1>1
<1>4. \A k \in Nat : k < 256 => k \in 0 .. 255
  OBVIOUS
<1>5. QED
  BY <1>2, <1>3, <1>4

\* The bytes of a place.
LEMMA PlaceBytes ==
    ASSUME NEW p \in Touch!Word \X Touch!Word
    PROVE  /\ Touch!BytesOf(p) \in [1 .. 4 -> 0 .. 255]
           /\ p = <<Touch!BytesOf(p)[1] + 256 * Touch!BytesOf(p)[2],
                    Touch!BytesOf(p)[3] + 256 * Touch!BytesOf(p)[4]>>
<1>1. p[1] \in Touch!Word /\ p[2] \in Touch!Word /\ p = <<p[1], p[2]>>
  OBVIOUS
<1> DEFINE x == p[1]
           y == p[2]
<1>2. /\ x % 256 \in 0 .. 255 /\ x \div 256 \in 0 .. 255
      /\ (x % 256) + 256 * (x \div 256) = x
  BY <1>1, Bytes, Zenon
<1>3. /\ y % 256 \in 0 .. 255 /\ y \div 256 \in 0 .. 255
      /\ (y % 256) + 256 * (y \div 256) = y
  BY <1>1, Bytes, Zenon
<1>4. Touch!BytesOf(p) = <<x % 256, x \div 256, y % 256, y \div 256>>
  BY DEF Touch!BytesOf
<1>5. p = <<x, y>>
  BY <1>1
<1> HIDE DEF x, y
<1>6. QED
  BY <1>2, <1>3, <1>4, <1>5

\* Every finger of a touch is on the plane of the screen.
LEMMA PlaceTyped ==
    ASSUME NEW t \in Touches, NEW i \in Nat
    PROVE  Touch!At(t, i) \in Touch!Word \X Touch!Word
<1>1. t.x \in Int /\ t.y \in Int
  <2>1. t \in [point : 0 .. 255, x : Touch!Word, y : Touch!Word]
    BY TouchBounds
  <2>2. t.x \in Touch!Word /\ t.y \in Touch!Word
    BY <2>1
  <2>3. \A w \in Touch!Word : w \in Int
    BY WordIs
  <2>4. QED
    BY <2>2, <2>3
<1>2. i * (i + 1) \in Int /\ 5 * i * (i + 1) \in Int
  <2>1. \A a, b \in Int : a * b \in Int
    OBVIOUS
  <2>2. i \in Int /\ i + 1 \in Int /\ 5 * i \in Int
    OBVIOUS
  <2>3. QED
    BY <2>1, <2>2
<1>3. \A k \in Int : k % 65536 \in Touch!Word
  BY WordIs
<1>4. (i * (i + 1)) \div 2 \in Int
  BY <1>2
<1>5. QED
  BY <1>1, <1>2, <1>3, <1>4 DEF Touch!At

\* A touch is in the chip, of as many fingers as there are.
LEMMA Pressed ==
    ASSUME Touch!TypeOK, NEW t \in Touches, Touch!hmp_touch_press(t)
    PROVE  Touch!TypeOK' /\ last' \in [Touch!Fingers -> Places] /\ Held'
<1> DEFINE c == Touch!Contacts(t)
<1>1. c \in 0 .. GOODIX_MAX_CONTACTS
  BY TouchBounds DEF Touch!Contacts
<1>2. \A i \in Touch!Fingers : /\ Touch!At(t, i) \in Touch!Word \X Touch!Word
                               /\ Touch!BytesOf(Touch!At(t, i)) \in [1 .. 4 -> 0 .. 255]
  BY PlaceTyped, PlaceBytes, TouchBounds DEF Touch!Fingers
<1>3. touches' \in 0 .. MaxTouches
  BY TouchBounds DEF Touch!hmp_touch_press, Touch!TypeOK
<1>4. points' \in [Touch!Fingers -> [1 .. 4 -> 0 .. 255]]
  BY <1>2 DEF Touch!hmp_touch_press, Touch!TypeOK
<1>5. touch_status' \in 128 .. 128 + GOODIX_MAX_CONTACTS
  BY <1>1, TouchBounds DEF Touch!hmp_touch_press
<1>6. Touch!TypeOK'
  BY <1>3, <1>4, <1>5 DEF Touch!hmp_touch_press, Touch!TypeOK, Touch!local
<1>7. OnScreen(c)'
  BY <1>1, <1>2, <1>4 DEF OnScreen, Touch!hmp_touch_press
<1>8. last' \in [Touch!Fingers -> Places]
  BY <1>2 DEF Touch!hmp_touch_press, Places
<1>9. QED
  BY <1>1, <1>6, <1>7, <1>8 DEF Held

\* What is on the screen's chip is there until the next touch.
LEMMA OnScreenKept ==
    ASSUME UNCHANGED <<touch_status, points, last>>, NEW c
    PROVE  OnScreen(c)' <=> OnScreen(c)
  BY DEF OnScreen

\* The status says how many fingers there are.
LEMMA Counted ==
    ASSUME NEW c \in 0 .. GOODIX_MAX_CONTACTS, OnScreen(c)
    PROVE  /\ touch_status >= 128 /\ touch_status % 16 = c
           /\ ~(touch_status % 16 > GOODIX_MAX_CONTACTS)
  BY TouchBounds DEF OnScreen

\* A status that is read says how many bytes are to come ...
LEMMA StatusRead == TouchInv /\ Touch!ReadStatus => TouchInv'
<1> SUFFICES ASSUME TouchInv, Touch!ReadStatus PROVE TouchInv'
  OBVIOUS
<1>1. /\ handler = "status" /\ point_data' = <<>>
      /\ touch_num' = IF touch_status % 16 > GOODIX_MAX_CONTACTS THEN GOODIX_MAX_CONTACTS
                      ELSE touch_status % 16
      /\ handler' = IF touch_status < 128 THEN "idle" ELSE IF touch_num' = 0 THEN "report" ELSE "points"
      /\ UNCHANGED <<touch_status, points, touch_probe, latched, slot_state, touch_shown, touches,
                     fails, last, sure>>
  BY DEF Touch!ReadStatus, Touch!chip
<1>2. touch_num' \in 0 .. GOODIX_MAX_CONTACTS
  BY <1>1, TouchBounds DEF TouchInv, Touch!TypeOK
<1>3. Touch!TypeOK' /\ SlotsKnown' /\ Lengths'
  BY <1>1, <1>2 DEF TouchInv, Touch!TypeOK, SlotsKnown, Lengths
<1>4. ASSUME sure
      PROVE  OnItsWay'
  <2>1. CASE touch_status = 0
    BY <1>1, <1>4, <2>1 DEF TouchInv, OnItsWay, Held, OnScreen
  <2>2. CASE Held
    <3>1. PICK c \in 0 .. GOODIX_MAX_CONTACTS : OnScreen(c)
      BY <2>2 DEF Held
    <3>2. touch_num' = c /\ handler' = IF c = 0 THEN "report" ELSE "points"
      <4>1. touch_status % 16 = c /\ ~(touch_status % 16 > GOODIX_MAX_CONTACTS) /\ ~(touch_status < 128)
        <5>1. touch_status \in Int
          BY TouchBounds DEF TouchInv, Touch!TypeOK
        <5>2. QED
          BY <3>1, <5>1, Counted
      <4>2. QED
        BY <1>1, <4>1
    <3>3. OnScreen(c)' /\ Len(point_data') = 0 /\ BytesRead'
      BY <1>1, <3>1, OnScreenKept DEF BytesRead
    <3>4. OnScreen(touch_num)'
      BY <3>2, <3>3 DEF OnScreen
    <3>5. QED
      BY <3>2, <3>3, <3>4 DEF OnItsWay
  <2>3. QED
    BY <1>1, <1>4, <2>1, <2>2 DEF TouchInv, OnItsWay
<1>5. QED
  BY <1>1, <1>3, <1>4 DEF TouchInv, OnItsWay

\* ... each byte that is read is the next one of the points ...
LEMMA PointsRead == TouchInv /\ Touch!ReadPoints => TouchInv'
<1> SUFFICES ASSUME TouchInv, Touch!ReadPoints PROVE TouchInv'
  OBVIOUS
<1> DEFINE n == Len(point_data)
           b == points[n \div 4][(n % 4) + 1]
<1>1. /\ handler = "points" /\ point_data' = Append(point_data, b)
      /\ handler' = IF n + 1 = 4 * touch_num THEN "report" ELSE "points"
      /\ UNCHANGED <<touch_status, points, touch_probe, latched, touch_num, slot_state, touch_shown,
                     touches, fails, last, sure>>
  BY DEF Touch!ReadPoints, Touch!chip
<1>2. n \in Nat /\ n < 4 * touch_num /\ touch_num \in 0 .. GOODIX_MAX_CONTACTS
  BY <1>1 DEF TouchInv, Touch!TypeOK, Lengths
<1>3. n \div 4 \in Touch!Fingers /\ (n % 4) + 1 \in 1 .. 4
  BY <1>2, TouchBounds DEF Touch!Fingers
<1>4. b \in 0 .. 255
  <2>1. points \in [Touch!Fingers -> [1 .. 4 -> 0 .. 255]]
    BY DEF TouchInv, Touch!TypeOK
  <2>2. points[n \div 4] \in [1 .. 4 -> 0 .. 255]
    BY <1>3, <2>1
  <2>3. QED
    BY <1>3, <2>2
<1>5. /\ point_data' \in Seq(0 .. 255) /\ Len(point_data') = n + 1
      /\ \A k \in 1 .. n : point_data'[k] = point_data[k]
      /\ point_data'[n + 1] = b
  BY <1>1, <1>4, AppendProperties DEF TouchInv, Touch!TypeOK
<1>6. Touch!TypeOK' /\ SlotsKnown' /\ Lengths'
  <2> HIDE DEF n, b
  <2>1. handler' \in {"report", "points"}
    BY <1>1
  <2>2. Touch!TypeOK' /\ SlotsKnown'
    BY <1>1, <1>5, <2>1 DEF TouchInv, Touch!TypeOK, SlotsKnown
  <2>3. Lengths'
    BY <1>1, <1>2, <1>5 DEF Lengths
  <2>4. QED
    BY <2>2, <2>3
<1>7. ASSUME sure
      PROVE  OnScreen(touch_num)' /\ BytesRead'
  <2>1. OnScreen(touch_num) /\ BytesRead
    BY <1>1, <1>7 DEF TouchInv, OnItsWay
  <2>2. OnScreen(touch_num)'
    BY <1>1, <2>1 DEF OnScreen
  <2>3. ASSUME NEW k \in 0 .. Len(point_data') - 1
        PROVE  point_data'[k + 1] = points[k \div 4][(k % 4) + 1]
    <3>1. CASE k = n
      BY <1>5, <3>1
    <3>2. CASE k # n
      <4>1. k \in 0 .. n - 1 /\ k + 1 \in 1 .. n
        BY <1>2, <1>5, <2>3, <3>2
      <4>2. QED
        BY <1>5, <2>1, <4>1 DEF BytesRead
    <3>3. QED
      BY <3>1, <3>2
  <2>4. BytesRead'
    BY <1>1, <2>3 DEF BytesRead
  <2>5. QED
    BY <2>2, <2>4
<1>8. QED
  BY <1>1, <1>6, <1>7 DEF TouchInv, OnItsWay

\* The bytes that have been read make the place of each finger.
LEMMA PlacesRead ==
    ASSUME TouchInv, handler = "report", sure,
           NEW i \in Touch!Fingers, i < touch_num
    PROVE  Touch!Place(i) = last[i]
<1>1. OnScreen(touch_num) /\ BytesRead /\ Len(point_data) = 4 * touch_num
  BY DEF TouchInv, OnItsWay, Lengths
<1>2. last[i] \in Touch!Word \X Touch!Word /\ points[i] = Touch!BytesOf(last[i])
  BY <1>1 DEF OnScreen
<1>3. i \in Nat /\ touch_num \in Nat
  BY TouchBounds DEF Touch!Fingers, TouchInv, Touch!TypeOK
<1>4. \A k \in 0 .. 3 : point_data[4 * i + k + 1] = points[i][k + 1]
  <2> SUFFICES ASSUME NEW k \in 0 .. 3
               PROVE  point_data[4 * i + k + 1] = points[i][k + 1]
    OBVIOUS
  <2>1. /\ 4 * i + k \in 0 .. Len(point_data) - 1
        /\ (4 * i + k) \div 4 = i /\ (4 * i + k) % 4 = k
    BY <1>1, <1>3
  <2>2. \A n \in 0 .. Len(point_data) - 1 : point_data[n + 1] = points[n \div 4][(n % 4) + 1]
    BY <1>1 DEF BytesRead
  <2>3. point_data[(4 * i + k) + 1] = points[(4 * i + k) \div 4][((4 * i + k) % 4) + 1]
    BY <2>1, <2>2
  <2>4. QED
    BY <2>1, <2>3
<1>5. /\ point_data[4 * i + 1] = points[i][1] /\ point_data[4 * i + 2] = points[i][2]
      /\ point_data[4 * i + 3] = points[i][3] /\ point_data[4 * i + 4] = points[i][4]
  <2>1. point_data[4 * i + 0 + 1] = points[i][0 + 1] /\ point_data[4 * i + 1 + 1] = points[i][1 + 1]
        /\ point_data[4 * i + 2 + 1] = points[i][2 + 1] /\ point_data[4 * i + 3 + 1] = points[i][3 + 1]
    BY <1>4
  <2>2. QED
    BY <1>3, <2>1
<1>6. QED
  BY <1>2, <1>5, PlaceBytes DEF Touch!Place

\* ... and with the last of them the input device shows the touch.
LEMMA Reported == TouchInv /\ Touch!Report => TouchInv'
<1> SUFFICES ASSUME TouchInv, Touch!Report PROVE TouchInv'
  OBVIOUS
<1>1. /\ handler = "report"
      /\ UNCHANGED <<touch_status, points, touch_probe, latched, touch_num, point_data, touches,
                     fails, last, sure>>
  BY DEF Touch!Report, Touch!chip, Touch!local
<1>2. CASE touch_probe # "done"
  BY <1>1, <1>2 DEF Touch!Report, TouchInv, Touch!TypeOK, Lengths, OnItsWay, SlotsKnown
<1>3. CASE touch_probe = "done"
  <2>1. /\ handler' = "clear"
        /\ touch_shown' = [i \in Touch!Fingers |-> IF i < touch_num THEN Touch!Place(i)
                                                   ELSE IF slot_state[i] THEN Touch!Up ELSE touch_shown[i]]
        /\ slot_state' = [i \in Touch!Fingers |-> i < touch_num]
    BY <1>3 DEF Touch!Report
  <2>2. \A i \in Touch!Fingers : ~(i < touch_num) => touch_shown'[i] = Touch!Up
    BY <2>1 DEF TouchInv, SlotsKnown
  <2>3. SlotsKnown'
    BY <2>1, <2>2 DEF SlotsKnown
  <2>4. ASSUME sure
        PROVE  touch_shown' = last /\ Held'
    <3>1. OnScreen(touch_num)
      BY <1>1, <2>4 DEF TouchInv, OnItsWay
    <3>2. \A i \in Touch!Fingers : touch_shown'[i] = last[i]
      BY <1>1, <2>1, <2>2, <2>4, <3>1, PlacesRead DEF OnScreen
    <3>3. touch_num \in 0 .. GOODIX_MAX_CONTACTS /\ last \in [Touch!Fingers -> Places]
      BY DEF TouchInv, Touch!TypeOK
    <3>4. touch_shown' = last
      BY <2>1, <3>2, <3>3
    <3>5. Held'
      BY <1>1, <3>1, <3>3, OnScreenKept DEF Held
    <3>6. QED
      BY <3>4, <3>5
  <2>5. QED
    BY <1>1, <2>1, <2>3, <2>4 DEF TouchInv, Touch!TypeOK, Lengths, OnItsWay
<1>4. QED
  BY <1>2, <1>3

\* The invariant of the touch screen is kept by every step.
LEMMA TouchNext == TouchInv /\ [Touch!Next]_touch => TouchInv'
<1> SUFFICES ASSUME TouchInv, [Touch!Next]_touch PROVE TouchInv'
  OBVIOUS
<1>1. ASSUME NEW t \in Touches, Touch!hmp_touch_press(t)
      PROVE  TouchInv'
  <2>1. Touch!TypeOK' /\ last' \in [Touch!Fingers -> Places] /\ Held'
    BY <1>1, Pressed DEF TouchInv
  <2>2. Lengths' /\ SlotsKnown'
    BY <1>1 DEF Touch!hmp_touch_press, Touch!local, TouchInv, Lengths, SlotsKnown
  <2>3. ASSUME sure'
        PROVE  latched' /\ handler' \in {"idle", "status", "dead"}
    BY <1>1, <2>3 DEF Touch!hmp_touch_press, Touch!Window, TouchInv, Touch!TypeOK
  <2>4. QED
    BY <2>1, <2>2, <2>3 DEF TouchInv, OnItsWay
<1>2. CASE Touch!goodix_probe
  <2>1. /\ touch_probe' \in {"requested", "done"}
        /\ UNCHANGED <<touch_status, points, latched, handler, touch_num, point_data, slot_state,
                       touch_shown, touches, fails, last, sure>>
    BY <1>2 DEF Touch!goodix_probe, Touch!ProbeRequests, Touch!goodix_inputdev_create, Touch!chip,
                Touch!local
  <2>2. Touch!TypeOK' /\ Lengths' /\ SlotsKnown'
    BY <2>1 DEF TouchInv, Touch!TypeOK, Lengths, SlotsKnown
  <2>3. OnItsWay'
    BY <2>1 DEF TouchInv, OnItsWay, Held, OnScreen, BytesRead
  <2>4. QED
    BY <2>1, <2>2, <2>3 DEF TouchInv
<1>3. CASE Touch!Fails
  <2>1. /\ handler \in {"status", "points", "clear"}
        /\ handler' = IF handler = "points" THEN "clear" ELSE "idle"
        /\ sure' = (handler = "clear" /\ sure)
        /\ UNCHANGED <<touch_status, points, touch_probe, latched, touch_num, point_data, slot_state,
                       touch_shown, touches, last>>
    BY <1>3 DEF Touch!Fails, Touch!chip, Touch!local
  <2>2. fails' \in 0 .. MaxFails
    BY <1>3, TouchBounds DEF Touch!Fails, TouchInv, Touch!TypeOK
  <2>3. Touch!TypeOK' /\ Lengths' /\ SlotsKnown'
    BY <2>1, <2>2 DEF TouchInv, Touch!TypeOK, Lengths, SlotsKnown
  <2>4. OnItsWay'
    BY <2>1 DEF TouchInv, OnItsWay, Held, OnScreen
  <2>5. QED
    BY <2>1, <2>3, <2>4 DEF TouchInv
<1>4. CASE Touch!Interrupt
  <2>1. /\ latched /\ handler = "idle" /\ latched' = FALSE /\ handler' = "status"
        /\ UNCHANGED <<touch_status, points, touch_probe, touch_num, point_data, slot_state,
                       touch_shown, touches, fails, last, sure>>
    BY <1>4 DEF Touch!Interrupt, Touch!chip, Touch!local
  <2>2. Touch!TypeOK' /\ Lengths' /\ SlotsKnown'
    BY <2>1 DEF TouchInv, Touch!TypeOK, Lengths, SlotsKnown
  <2>3. OnItsWay'
    BY <2>1 DEF TouchInv, OnItsWay, Held, OnScreen
  <2>4. QED
    BY <2>1, <2>2, <2>3 DEF TouchInv
<1>5. CASE Touch!Clear
  BY <1>5 DEF Touch!Clear, Touch!local, TouchInv, Touch!TypeOK, Lengths, OnItsWay, SlotsKnown
<1>6. CASE UNCHANGED touch
  BY <1>6 DEF touch, TouchInv, Touch!TypeOK, Lengths, OnItsWay, Held, OnScreen, BytesRead, SlotsKnown
<1>7. QED
  BY <1>1, <1>2, <1>3, <1>4, <1>5, <1>6, StatusRead, PointsRead, Reported
     DEF Touch!Next, Touch!goodix_irq_handler

\* For any number of fingers and any touches, at any moment of the handler and the
\* probe: at rest the input device shows the last touch, if nothing came in between.
THEOREM LastTouchIsShown == BoardSpec => []ShownIsTouched
<1>1. TouchInv => ShownIsTouched
  BY DEF TouchInv, OnItsWay, ShownIsTouched, Touch!ShownIsTouched
<1>2. QED
  BY <1>1, TouchSteps, TouchInit, TouchNext, PTL

-----------------------------------------------------------------------------
(* The time of the clock.  First the calendar: a second becomes a time of  *)
(* the registers, and what the chip encodes the driver decodes.  The       *)
(* inductive invariant then follows a transfer byte by byte: which register *)
(* is next, and whose second the registers and the bytes received show.    *)

\* Two decimal digits in a byte, and back.
LEMMA Digits ==
    ASSUME NEW v \in 0 .. 99
    PROVE  /\ Clock!to_bcd(v) \in 0 .. 255 /\ Clock!from_bcd(Clock!to_bcd(v)) = v
           /\ v < 80 => Clock!to_bcd(v) < 128
           /\ v < 40 => Clock!to_bcd(v) < 64
           /\ v < 20 => Clock!to_bcd(v) < 32
<1> DEFINE q == v \div 10
           r == v % 10
           b == 16 * q + r
<1>1. q \in 0 .. 9 /\ r \in 0 .. 9 /\ v = 10 * q + r
  OBVIOUS
<1>2. (v < 80 => q < 8) /\ (v < 40 => q < 4) /\ (v < 20 => q < 2)
  OBVIOUS
<1> HIDE DEF q, r
<1>3. b \div 16 = q /\ b % 16 = r
  BY <1>1
<1> QED BY <1>1, <1>2, <1>3 DEF Clock!to_bcd, Clock!from_bcd, q, r

\* What the driver writes is what the chip reads back.
LEMMA Decodes ==
    ASSUME NEW tm \in Clock!Fields
    PROVE  /\ Clock!Decoded(Clock!Encoded(tm)) = tm
           /\ Clock!Encoded(tm) \in Seq(0 .. 255) /\ Len(Clock!Encoded(tm)) = 7
<1> DEFINE b == Clock!Encoded(tm)
<1>1. PICK s \in 0 .. 59, m \in 0 .. 59, h \in 0 .. 23, d \in 1 .. 31, w \in 0 .. 6,
           mon \in 0 .. 11, y \in Clock!Years : tm = <<s, m, h, d, w, mon, y>>
  <2>1. tm \in (0 .. 59) \X (0 .. 59) \X (0 .. 23) \X (1 .. 31) \X (0 .. 6) \X (0 .. 11)
                 \X Clock!Years
    BY DEF Clock!Fields
  <2>2. /\ tm = <<tm[1], tm[2], tm[3], tm[4], tm[5], tm[6], tm[7]>>
        /\ tm[1] \in 0 .. 59 /\ tm[2] \in 0 .. 59 /\ tm[3] \in 0 .. 23 /\ tm[4] \in 1 .. 31
        /\ tm[5] \in 0 .. 6 /\ tm[6] \in 0 .. 11 /\ tm[7] \in Clock!Years
    BY <2>1
  <2> QED BY <2>2
<1>2. y \in 100 .. 199 /\ y % 100 \in 0 .. 99 /\ (y % 100) + 100 = y
  BY DEF Clock!Years
<1> DEFINE sb == Clock!to_bcd(s)
           mb == Clock!to_bcd(m)
           hb == Clock!to_bcd(h)
           db == Clock!to_bcd(d)
           nb == Clock!to_bcd(mon + 1)
           yb == Clock!to_bcd(y % 100)
<1>3. b = <<sb, mb, hb, db, w, nb, yb>>
  <2>1. nb \in 0 .. 255 /\ (IF y >= 100 THEN 0 ELSE 128) = 0
    BY <1>2, Digits
  <2>2. nb + (IF y >= 100 THEN 0 ELSE 128) = nb
    BY <2>1
  <2> HIDE DEF nb
  <2> QED BY <1>1, <2>2 DEF Clock!Encoded, nb
<1>4. /\ sb \in 0 .. 255 /\ Clock!from_bcd(sb) = s /\ sb < 128
      /\ mb \in 0 .. 255 /\ Clock!from_bcd(mb) = m /\ mb < 128
  <2>1. s \in 0 .. 99 /\ s < 80 /\ m \in 0 .. 99 /\ m < 80
    OBVIOUS
  <2>2. sb \in 0 .. 255 /\ Clock!from_bcd(sb) = s /\ sb < 128
    BY <2>1, Digits, Zenon
  <2>3. mb \in 0 .. 255 /\ Clock!from_bcd(mb) = m /\ mb < 128
    BY <2>1, Digits, Zenon
  <2> QED BY <2>2, <2>3, Zenon
<1>5. /\ hb \in 0 .. 255 /\ Clock!from_bcd(hb) = h /\ hb < 64
      /\ db \in 0 .. 255 /\ Clock!from_bcd(db) = d /\ db < 64
  <2>1. h \in 0 .. 99 /\ h < 40 /\ d \in 0 .. 99 /\ d < 40
    OBVIOUS
  <2>2. hb \in 0 .. 255 /\ Clock!from_bcd(hb) = h /\ hb < 64
    BY <2>1, Digits, Zenon
  <2>3. db \in 0 .. 255 /\ Clock!from_bcd(db) = d /\ db < 64
    BY <2>1, Digits, Zenon
  <2> QED BY <2>2, <2>3, Zenon
<1>6. /\ nb \in 0 .. 255 /\ Clock!from_bcd(nb) = mon + 1 /\ nb < 32
      /\ yb \in 0 .. 255 /\ Clock!from_bcd(yb) = y % 100
  <2>1. mon + 1 \in 0 .. 99 /\ mon + 1 < 20
    OBVIOUS
  <2> QED BY <1>2, <2>1, Digits
<1>7. b \in Seq(0 .. 255) /\ Len(b) = 7
  <2> HIDE DEF sb, mb, hb, db, nb, yb, b
  <2>1. w \in 0 .. 255
    OBVIOUS
  <2> QED BY <1>3, <1>4, <1>5, <1>6, <2>1
<1>8. Clock!Decoded(b) = tm
  <2> HIDE DEF sb, mb, hb, db, nb, yb, b
  <2>1. sb % 128 = sb /\ mb % 128 = mb /\ hb % 64 = hb /\ db % 64 = db /\ w % 8 = w /\ nb % 32 = nb
    BY <1>4, <1>5, <1>6
  <2>2. (mon + 1) - 1 = mon /\ (y % 100) + (IF nb >= 128 THEN 0 ELSE 100) = y
    BY <1>2, <1>6
  <2>3. Clock!Decoded(b) = <<Clock!from_bcd(sb % 128), Clock!from_bcd(mb % 128),
                             Clock!from_bcd(hb % 64), Clock!from_bcd(db % 64), w % 8,
                             Clock!from_bcd(nb % 32) - 1,
                             Clock!from_bcd(yb) + (IF nb >= 128 THEN 0 ELSE 100)>>
    BY <1>3 DEF Clock!Decoded
  <2> QED BY <1>1, <1>4, <1>5, <1>6, <2>1, <2>2, <2>3
<1> QED BY <1>7, <1>8

\* Every day before the end of the calendar is in one of its years.
LEMMA YearOfDay ==
    ASSUME NEW days \in Nat, days < Clock!DaysBeforeYear(200)
    PROVE  \E y \in Clock!Years :
              days \in Clock!DaysBeforeYear(y) .. Clock!DaysBeforeYear(y + 1) - 1
<1> DEFINE q == days \div 1461
           r == days % 1461
           k == IF r < 366 THEN 0 ELSE IF r < 731 THEN 1 ELSE IF r < 1096 THEN 2 ELSE 3
           y == 100 + 4 * q + k
<1>1. days < 36525
  <2>1. (200 - 97) \div 4 = 25
    OBVIOUS
  <2> QED BY <2>1 DEF Clock!DaysBeforeYear
<1>2. q \in 0 .. 24 /\ r \in 0 .. 1460 /\ days = 1461 * q + r
  BY <1>1
<1>3. k \in 0 .. 3 /\ y \in 100 .. 199
  BY <1>2
<1> HIDE DEF q, r
<1>4. /\ (y - 97) \div 4 = q + (IF k = 0 THEN 0 ELSE IF k = 1 THEN 1 ELSE 1)
      /\ ((y + 1) - 97) \div 4 = q + 1
  BY <1>2
<1>5. Clock!DaysBeforeYear(y) = 365 * (4 * q + k) + q + (IF k = 0 THEN 0 ELSE 1)
  BY <1>2, <1>3, <1>4 DEF Clock!DaysBeforeYear
<1>6. Clock!DaysBeforeYear(y + 1) = 365 * (4 * q + k + 1) + q + 1
  BY <1>2, <1>3, <1>4 DEF Clock!DaysBeforeYear
<1>7. 365 * k + (IF k = 0 THEN 0 ELSE 1) <= r /\ r < 365 * (k + 1) + 1
  BY <1>2
<1>8. y \in Clock!Years
  BY <1>3 DEF Clock!Years
<1>9. days \in Clock!DaysBeforeYear(y) .. Clock!DaysBeforeYear(y + 1) - 1
  <2> HIDE DEF k, y
  <2> QED BY <1>2, <1>3, <1>5, <1>6, <1>7
<1> QED BY <1>8, <1>9

\* Every day of a year is in one of its months, on one of 31 days.
LEMMA MonthOfDay ==
    ASSUME NEW y \in Clock!Years, NEW yday \in Nat,
           yday < Clock!DaysBeforeYear(y + 1) - Clock!DaysBeforeYear(y)
    PROVE  /\ \E m \in 0 .. 11 :
                 yday \in Clock!DaysBeforeMonth(m, y) .. Clock!DaysBeforeMonth(m + 1, y) - 1
           /\ \A m \in 0 .. 11 :
                 yday \in Clock!DaysBeforeMonth(m, y) .. Clock!DaysBeforeMonth(m + 1, y) - 1
                    => yday - Clock!DaysBeforeMonth(m, y) + 1 \in 1 .. 31
<1> DEFINE leap == IF Clock!Leap(y) THEN 1 ELSE 0
           D(m) == Clock!DaysBeforeMonth(m, y)
<1>1. y \in 100 .. 199 /\ leap \in 0 .. 1
  BY DEF Clock!Years
<1>2. Clock!DaysBeforeYear(y + 1) - Clock!DaysBeforeYear(y) = 365 + leap
  BY <1>1 DEF Clock!DaysBeforeYear, Clock!Leap
<1>3. /\ D(0) = 0 /\ D(1) = 31 /\ D(2) = 59 + leap /\ D(3) = 90 + leap /\ D(4) = 120 + leap
      /\ D(5) = 151 + leap /\ D(6) = 181 + leap /\ D(7) = 212 + leap /\ D(8) = 243 + leap
      /\ D(9) = 273 + leap /\ D(10) = 304 + leap /\ D(11) = 334 + leap /\ D(12) = 365 + leap
  BY DEF Clock!DaysBeforeMonth
<1>4. yday < 365 + leap
  BY <1>2
<1> HIDE DEF D, leap
<1>5. \E m \in 0 .. 11 : yday \in D(m) .. D(m + 1) - 1
  <2>1. \/ yday < 31
        \/ 31 <= yday /\ yday < 59 + leap
        \/ 59 + leap <= yday /\ yday < 90 + leap
        \/ 90 + leap <= yday /\ yday < 120 + leap
        \/ 120 + leap <= yday /\ yday < 151 + leap
        \/ 151 + leap <= yday /\ yday < 181 + leap
        \/ 181 + leap <= yday /\ yday < 212 + leap
        \/ 212 + leap <= yday /\ yday < 243 + leap
        \/ 243 + leap <= yday /\ yday < 273 + leap
        \/ 273 + leap <= yday /\ yday < 304 + leap
        \/ 304 + leap <= yday /\ yday < 334 + leap
        \/ 334 + leap <= yday /\ yday < 365 + leap
    BY <1>1, <1>4
  <2>2. \/ yday \in D(0) .. D(1) - 1 \/ yday \in D(1) .. D(2) - 1 \/ yday \in D(2) .. D(3) - 1
           \/ yday \in D(3) .. D(4) - 1 \/ yday \in D(4) .. D(5) - 1 \/ yday \in D(5) .. D(6) - 1
           \/ yday \in D(6) .. D(7) - 1 \/ yday \in D(7) .. D(8) - 1 \/ yday \in D(8) .. D(9) - 1
           \/ yday \in D(9) .. D(10) - 1 \/ yday \in D(10) .. D(11) - 1
           \/ yday \in D(11) .. D(12) - 1
    BY <1>1, <1>3, <2>1
  <2>3. /\ 0 + 1 = 1 /\ 1 + 1 = 2 /\ 2 + 1 = 3 /\ 3 + 1 = 4 /\ 4 + 1 = 5 /\ 5 + 1 = 6
        /\ 6 + 1 = 7 /\ 7 + 1 = 8 /\ 8 + 1 = 9 /\ 9 + 1 = 10 /\ 10 + 1 = 11 /\ 11 + 1 = 12
        /\ \A i \in {0, 1, 2, 3, 4, 5, 6, 7, 8, 9, 10, 11} : i \in 0 .. 11
    OBVIOUS
  <2> QED BY <2>2, <2>3, Zenon
<1>6. ASSUME NEW m \in 0 .. 11, yday \in D(m) .. D(m + 1) - 1
      PROVE  yday - D(m) + 1 \in 1 .. 31
  <2>1. m \in {0, 1, 2, 3, 4, 5, 6, 7, 8, 9, 10, 11}
    OBVIOUS
  <2>2. D(m) \in Int /\ D(m + 1) \in Int /\ D(m + 1) - D(m) <= 31
    BY <1>1, <1>3, <2>1
  <2> QED BY <1>6, <2>2
<1> QED BY <1>5, <1>6 DEF D

\* The chip's clock always has a time of the calendar.
LEMMA TimeOfClock ==
    ASSUME NEW t, Clock!InCalendar(t)
    PROVE  Clock!localtime(t) \in Clock!Fields
<1> DEFINE days == t \div 86400
           year == CHOOSE y \in Clock!Years :
                     days \in Clock!DaysBeforeYear(y) .. Clock!DaysBeforeYear(y + 1) - 1
           yday == days - Clock!DaysBeforeYear(year)
           mon  == CHOOSE m \in 0 .. 11 :
                     yday \in Clock!DaysBeforeMonth(m, year) .. Clock!DaysBeforeMonth(m + 1, year) - 1
           day  == yday - Clock!DaysBeforeMonth(mon, year) + 1
<1>1. t \in Nat /\ days \in Nat /\ days < Clock!DaysBeforeYear(200)
  BY DEF Clock!InCalendar
<1>2. year \in Clock!Years
      /\ days \in Clock!DaysBeforeYear(year) .. Clock!DaysBeforeYear(year + 1) - 1
  <2>1. \E y \in Clock!Years : days \in Clock!DaysBeforeYear(y) .. Clock!DaysBeforeYear(y + 1) - 1
    BY <1>1, YearOfDay
  <2> HIDE DEF days
  <2> QED BY <2>1
<1> HIDE DEF year
<1>3. yday \in Nat /\ yday < Clock!DaysBeforeYear(year + 1) - Clock!DaysBeforeYear(year)
  <2>1. \A y \in 100 .. 199 : Clock!DaysBeforeYear(y) \in Nat /\ Clock!DaysBeforeYear(y + 1) \in Nat
    BY DEF Clock!DaysBeforeYear
  <2> HIDE DEF days
  <2> QED BY <1>1, <1>2, <2>1 DEF Clock!Years
<1> HIDE DEF yday
<1>4. mon \in 0 .. 11 /\ day \in 1 .. 31
  <2>1. /\ \E m \in 0 .. 11 : yday \in Clock!DaysBeforeMonth(m, year)
                                       .. Clock!DaysBeforeMonth(m + 1, year) - 1
        /\ \A m \in 0 .. 11 :
              yday \in Clock!DaysBeforeMonth(m, year) .. Clock!DaysBeforeMonth(m + 1, year) - 1
                 => yday - Clock!DaysBeforeMonth(m, year) + 1 \in 1 .. 31
    BY <1>2, <1>3, MonthOfDay
  <2> QED BY <2>1
<1> HIDE DEF mon, day
<1>5. /\ t % 60 \in 0 .. 59 /\ (t \div 60) % 60 \in 0 .. 59 /\ (t \div 3600) % 24 \in 0 .. 23
      /\ (days + 6) % 7 \in 0 .. 6
  BY <1>1
<1>6. Clock!localtime(t) = <<t % 60, (t \div 60) % 60, (t \div 3600) % 24, day, (days + 6) % 7,
                             mon, year>>
  BY DEF Clock!localtime, day, mon, yday, year
<1> QED BY <1>2, <1>4, <1>5, <1>6 DEF Clock!Fields

-----------------------------------------------------------------------------
Byte == 0 .. 255

\* A state of the chip; nothing is said of its seconds while a time is being set.
IsChip(s) == s \in [regs : [0 .. 15 -> Byte], reg : Byte, waiting_reg : BOOLEAN,
                    read_update : BOOLEAN, timestamp : {s.timestamp}]

Code(t) == Clock!Encoded(Clock!localtime(t))

LEMMA Updated ==
    ASSUME NEW s, IsChip(s), Clock!InCalendar(s.timestamp)
    PROVE  LET u == Clock!pcf8563_update_time(s)
           IN  /\ IsChip(u) /\ u.timestamp = s.timestamp /\ u.reg = s.reg
               /\ u.waiting_reg = s.waiting_reg /\ u.read_update = s.read_update
               /\ \A i \in 1 .. 7 : u.regs[i + 1] = Code(s.timestamp)[i]
<1> DEFINE code == Code(s.timestamp)
           regs == [r \in 0 .. 15 |-> IF r \in 2 .. 8 THEN code[r - 2 + 1] ELSE s.regs[r]]
           u    == [s EXCEPT !.regs = regs]
<1>1. code \in Seq(Byte) /\ Len(code) = 7
  BY TimeOfClock, Decodes DEF Code, Byte
<1>2. \A i \in 1 .. 7 : code[i] \in Byte
  BY <1>1
<1> HIDE DEF code
<1>3. regs \in [0 .. 15 -> Byte]
  <2> SUFFICES ASSUME NEW r \in 0 .. 15 PROVE regs[r] \in Byte
    OBVIOUS
  <2>1. CASE r \in 2 .. 8
    <3>1. r - 2 + 1 \in 1 .. 7
      BY <2>1
    <3> QED BY <1>2, <2>1, <3>1
  <2>2. CASE r \notin 2 .. 8
    BY <2>2 DEF IsChip
  <2> QED BY <2>1, <2>2
<1>4. \A i \in 1 .. 7 : regs[i + 1] = code[i]
  <2> SUFFICES ASSUME NEW i \in 1 .. 7 PROVE regs[i + 1] = code[i]
    OBVIOUS
  <2>1. i + 1 \in 0 .. 15 /\ i + 1 \in 2 .. 8 /\ (i + 1) - 2 + 1 = i
    OBVIOUS
  <2> QED BY <2>1
<1>5. Clock!pcf8563_update_time(s) = u
  BY DEF Clock!pcf8563_update_time, Clock!REG_SEC, Clock!REG_YEAR, IsChip, code, Code
<1> HIDE DEF regs
<1>6. /\ u.timestamp = s.timestamp /\ u.reg = s.reg /\ u.regs = regs
      /\ u.waiting_reg = s.waiting_reg /\ u.read_update = s.read_update
  BY DEF IsChip
<1>7. IsChip(u)
  BY <1>3, <1>6 DEF IsChip
<1> HIDE DEF u
<1> QED BY <1>4, <1>5, <1>6, <1>7 DEF code

\* A byte that is sent: the first is the register ...
LEMMA RegisterSent ==
    ASSUME NEW s, IsChip(s), s.waiting_reg, NEW data \in Byte
    PROVE  LET t == Clock!pcf8563_send(s, data)
           IN  /\ IsChip(t) /\ t.timestamp = s.timestamp /\ t.reg = data /\ ~t.waiting_reg
               /\ t.regs = s.regs
<1> DEFINE t == [s EXCEPT !.reg = data, !.waiting_reg = FALSE]
<1>1. Clock!pcf8563_send(s, data) = t
  BY DEF Clock!pcf8563_send
<1>2. t.timestamp = s.timestamp /\ t.reg = data /\ t.waiting_reg = FALSE /\ t.regs = s.regs
      /\ t.read_update = s.read_update
  BY DEF IsChip
<1>3. IsChip(t)
  BY <1>2 DEF IsChip
<1> HIDE DEF t
<1> QED BY <1>1, <1>2, <1>3

\* ... the others are stored, and with one of the time the clock is set.
LEMMA DataSent ==
    ASSUME NEW s, IsChip(s), ~s.waiting_reg, NEW data \in Byte
    PROVE  LET t == Clock!pcf8563_send(s, data)
           IN  /\ IsChip(t) /\ t.reg = (s.reg + 1) % 256 /\ ~t.waiting_reg
               /\ t.regs = IF s.reg <= 15 THEN [s.regs EXCEPT ![s.reg] = data] ELSE s.regs
               /\ t.timestamp = IF s.reg \in 2 .. 8
                                THEN Clock!mktime(Clock!Decoded([i \in 1 .. 7 |-> t.regs[2 + i - 1]]))
                                ELSE s.timestamp
<1> DEFINE regs == IF s.reg <= 15 THEN [s.regs EXCEPT ![s.reg] = data] ELSE s.regs
           w == IF s.reg <= 15 THEN [s EXCEPT !.regs[s.reg] = data] ELSE s
           seconds == Clock!mktime(Clock!Decoded([i \in 1 .. 7 |-> w.regs[2 + i - 1]]))
           v == IF s.reg \in 2 .. 8
                THEN [[w EXCEPT !.timestamp = seconds] EXCEPT !.read_update = FALSE]
                ELSE w
           t == [v EXCEPT !.reg = (@ + 1) % 256]
<1>1. Clock!pcf8563_send(s, data) = t
  BY DEF Clock!pcf8563_send, Clock!pcf8563_store_time, Clock!TimeRegs, Clock!REG_SEC,
         Clock!REG_YEAR, Clock!PCF8563_REG_MAX
<1>2. regs \in [0 .. 15 -> Byte]
  BY DEF IsChip
<1>3. /\ w.regs = regs /\ w.timestamp = s.timestamp /\ w.reg = s.reg
      /\ w.waiting_reg = s.waiting_reg /\ w.read_update = s.read_update
  BY DEF IsChip
<1>4. IsChip(w)
  BY <1>2, <1>3 DEF IsChip
<1> HIDE DEF w, seconds, regs
<1>5. /\ v.regs = w.regs /\ v.reg = w.reg /\ v.waiting_reg = w.waiting_reg
      /\ v.timestamp = IF s.reg \in 2 .. 8 THEN seconds ELSE w.timestamp
      /\ v.read_update \in BOOLEAN
  BY <1>4 DEF IsChip
<1>6. IsChip(v)
  BY <1>4, <1>5 DEF IsChip
<1> HIDE DEF v
<1>7. /\ t.regs = v.regs /\ t.reg = (v.reg + 1) % 256 /\ t.waiting_reg = v.waiting_reg
      /\ t.timestamp = v.timestamp /\ t.read_update = v.read_update
  BY <1>6 DEF IsChip
<1>8. (v.reg + 1) % 256 \in Byte
  BY <1>6 DEF IsChip, Byte
<1>9. IsChip(t)
  BY <1>6, <1>7, <1>8 DEF IsChip
<1> HIDE DEF t
<1>10. t.regs = regs /\ t.regs = w.regs /\ t.reg = (s.reg + 1) % 256 /\ ~t.waiting_reg
  BY <1>3, <1>5, <1>7
<1> QED BY <1>1, <1>3, <1>5, <1>7, <1>9, <1>10 DEF regs, seconds

\* A byte that is received, of a time or of something else.
LEMMA ByteReceived ==
    ASSUME NEW s, IsChip(s), s.reg <= 15,
           s.reg \in 2 .. 8 => Clock!InCalendar(s.timestamp)
    PROVE  LET t     == Clock!pcf8563_recv(s)
               fresh == ~s.read_update /\ s.reg \in 2 .. 8
           IN  /\ IsChip(t) /\ t.timestamp = s.timestamp /\ t.reg = (s.reg + 1) % 256
               /\ t.waiting_reg = s.waiting_reg
               /\ s.reg \in 2 .. 8 => t.read_update
               /\ ~fresh => t.regs = s.regs
               /\ fresh => \A i \in 1 .. 7 : t.regs[i + 1] = Code(s.timestamp)[i]
               /\ Clock!Received(s) = t.regs[s.reg] /\ Clock!Received(s) \in Byte
<1> DEFINE u == Clock!pcf8563_update_time(s)
           f == Clock!Fresh(s)
           t == [f EXCEPT !.reg = (@ + 1) % 256]
           fresh == ~s.read_update /\ s.reg \in 2 .. 8
<1>1. Clock!pcf8563_recv(s) = t
  BY DEF Clock!pcf8563_recv
<1>2. /\ IsChip(f) /\ f.timestamp = s.timestamp /\ f.reg = s.reg
      /\ f.waiting_reg = s.waiting_reg /\ (s.reg \in 2 .. 8 => f.read_update)
      /\ (~fresh => f.regs = s.regs)
      /\ (fresh => \A i \in 1 .. 7 : f.regs[i + 1] = Code(s.timestamp)[i])
  <2>1. CASE fresh
    <3>1. /\ IsChip(u) /\ u.timestamp = s.timestamp /\ u.reg = s.reg
          /\ u.waiting_reg = s.waiting_reg
          /\ \A i \in 1 .. 7 : u.regs[i + 1] = Code(s.timestamp)[i]
      BY <2>1, Updated
    <3>2. f = [u EXCEPT !.read_update = TRUE]
      BY <2>1 DEF Clock!Fresh, Clock!REG_SEC, Clock!REG_YEAR
    <3> HIDE DEF u, f
    <3>3. f.timestamp = u.timestamp /\ f.reg = u.reg /\ f.regs = u.regs
          /\ f.waiting_reg = u.waiting_reg /\ f.read_update = TRUE
      BY <3>1, <3>2 DEF IsChip
    <3>4. IsChip(f)
      BY <3>1, <3>2, <3>3 DEF IsChip
    <3> QED BY <2>1, <3>1, <3>3, <3>4
  <2>2. CASE ~fresh
    <3>1. f = s
      BY <2>2 DEF Clock!Fresh, Clock!REG_SEC, Clock!REG_YEAR
    <3>2. s.reg \in 2 .. 8 => s.read_update
      BY <2>2
    <3> HIDE DEF f
    <3> QED BY <2>2, <3>1, <3>2
  <2> QED BY <2>1, <2>2
<1>3. Clock!Received(s) = f.regs[s.reg]
  BY DEF Clock!Received, Clock!PCF8563_REG_MAX
<1> HIDE DEF f
<1>4. (f.reg + 1) % 256 \in Byte /\ f.regs[s.reg] \in Byte
  BY <1>2 DEF IsChip, Byte
<1>5. /\ t.timestamp = f.timestamp /\ t.reg = (f.reg + 1) % 256 /\ t.regs = f.regs
      /\ t.waiting_reg = f.waiting_reg /\ t.read_update = f.read_update
  BY <1>2 DEF IsChip
<1>6. IsChip(t)
  BY <1>2, <1>4, <1>5 DEF IsChip
<1> HIDE DEF t
<1> QED BY <1>1, <1>2, <1>3, <1>4, <1>5, <1>6

\* The first register of each call, and how many bytes follow it.
First == [get_time |-> 2, set_time |-> 2, set_alarm |-> 9, get_mode |-> 1, set_mode |-> 1]
Total == [get_time |-> 7, set_time |-> 7, set_alarm |-> 4, get_mode |-> 1, set_mode |-> 1]

Calls == {"get_time", "get_mode", "set_time", "set_alarm", "set_mode"}
Reads == {"get_time", "get_mode"}

ClockTypes ==
    /\ IsChip(chip)
    /\ bus \in [call : Calls \cup {"none"}, out : Seq(Byte), in : 0 .. 7, got : Seq(Byte)]
    /\ ticks \in 0 .. MaxTicks
    /\ clock \in Nat /\ Clock!InCalendar(clock + (MaxTicks - ticks))
    /\ \A t \in during : Clock!InCalendar(t)

\* The register of the chip goes with the bytes of the call.
Transferring ==
    IF bus.call = "none" THEN bus = Clock!Silence /\ chip.waiting_reg
    ELSE /\ ~chip.waiting_reg
         /\ bus.call \in Reads => bus.out = <<>>
         /\ bus.call \notin Reads => bus.in = 0
         /\ chip.reg = First[bus.call] + Len(bus.got)
         /\ Len(bus.got) + Len(bus.out) + bus.in = Total[bus.call]

\* Only while a new time comes is the chip at another second.
InTime == (bus.call = "set_time" /\ bus.out # <<>>) \/ chip.timestamp = clock

\* From the first byte of a read the registers stand.
Reading ==
    bus.call = "get_time" =>
       /\ clock \in during
       /\ bus.got = <<>> => ~chip.read_update
       /\ bus.got # <<>> =>
             /\ chip.read_update
             /\ \E t \in during : /\ \A i \in 1 .. 7 : chip.regs[i + 1] = Code(t)[i]
                                  /\ \A i \in 1 .. Len(bus.got) : bus.got[i] = Code(t)[i]

\* A new time is in the registers as far as it has come.
Setting ==
    bus.call = "set_time" =>
       /\ \A i \in 1 .. Len(bus.got) : chip.regs[i + 1] = bus.got[i]
       /\ \E tm \in Times :
             /\ \A i \in 1 .. Len(bus.got) : bus.got[i] = Clock!Encoded(tm)[i]
             /\ \A i \in 1 .. Len(bus.out) : bus.out[i] = Clock!Encoded(tm)[Len(bus.got) + i]

ClockInv == ClockTypes /\ Transferring /\ InTime /\ Reading /\ Setting /\ TimeIsNow

\* What Board assumes of the clock.
LEMMA ClockAssumed ==
    /\ MaxTicks \in Nat /\ Times \subseteq Clock!Fields
    /\ AlarmBytes \subseteq Byte \X Byte \X Byte \X Byte
    /\ HostTime \in Nat /\ Clock!InCalendar(HostTime + MaxTicks)
    /\ \A tm \in Times : /\ Clock!mktime(tm) \in Nat
                         /\ Clock!InCalendar(Clock!mktime(tm) + MaxTicks)
  BY DeviceAssumption DEF Clock!Assumption, Byte, Clock!Byte

LEMMA Sooner ==
    ASSUME NEW a \in Nat, NEW b \in Nat, a <= b, Clock!InCalendar(b)
    PROVE  Clock!InCalendar(a)
<1>1. Clock!DaysBeforeYear(200) \in Int
  BY DEF Clock!DaysBeforeYear
<1>2. a \div 86400 <= b \div 86400 /\ a \div 86400 \in Int /\ b \div 86400 \in Int
  OBVIOUS
<1> QED BY <1>1, <1>2 DEF Clock!InCalendar

\* The clock is in the calendar, as long as seconds are left for it to count.
LEMMA ClockInCalendar == ClockTypes => Clock!InCalendar(clock)
<1> SUFFICES ASSUME ClockTypes PROVE Clock!InCalendar(clock)
  OBVIOUS
<1>1. clock \in Nat /\ clock + (MaxTicks - ticks) \in Nat /\ clock <= clock + (MaxTicks - ticks)
      /\ Clock!InCalendar(clock + (MaxTicks - ticks))
  BY ClockAssumed DEF ClockTypes
<1> QED BY <1>1, Sooner

LEMMA ResetChip ==
    LET s == Clock!pcf8563_reset_state
    IN  IsChip(s) /\ s.timestamp = HostTime /\ s.waiting_reg
<1> DEFINE z == [regs |-> [r \in 0 .. 15 |-> 0], reg |-> 0, waiting_reg |-> TRUE,
                 read_update |-> TRUE, timestamp |-> HostTime]
<1>1. Clock!pcf8563_reset_state = Clock!pcf8563_update_time(z)
  BY DEF Clock!pcf8563_reset_state, Clock!PCF8563_REG_MAX
<1>2. 0 \in Byte /\ [r \in 0 .. 15 |-> 0] \in [0 .. 15 -> Byte]
  BY DEF Byte
<1>3. IsChip(z) /\ z.timestamp = HostTime /\ z.waiting_reg
  BY <1>2 DEF IsChip
<1>4. Clock!InCalendar(HostTime)
  <2>1. HostTime \in Nat /\ HostTime + MaxTicks \in Nat /\ HostTime <= HostTime + MaxTicks
    BY ClockAssumed
  <2> QED BY <2>1, ClockAssumed, Sooner
<1> HIDE DEF z
<1> QED BY <1>1, <1>3, <1>4, Updated

\* The bus is silent after a reset, and between the transfers.
LEMMA SilentBus ==
    /\ Clock!Silence \in [call : Calls \cup {"none"}, out : Seq(Byte), in : 0 .. 7, got : Seq(Byte)]
    /\ Clock!Silence.call = "none"
<1>1. <<>> \in Seq(Byte)
  OBVIOUS
<1> QED BY <1>1 DEF Clock!Silence, Clock!Transfer

LEMMA ClockInit == Clock!Init => ClockInv
<1> SUFFICES ASSUME Clock!Init PROVE ClockInv
  OBVIOUS
<1>1. /\ chip = Clock!pcf8563_reset_state /\ bus = Clock!Silence /\ ticks = 0
      /\ time = <<>> /\ clock = HostTime /\ during = {}
  BY DEF Clock!Init
<1>2. IsChip(chip) /\ chip.timestamp = HostTime /\ chip.waiting_reg
  BY <1>1, ResetChip
<1>3. clock + (MaxTicks - ticks) = HostTime + MaxTicks /\ 0 \in 0 .. MaxTicks
  BY <1>1, ClockAssumed
<1>4. ClockTypes
  BY <1>1, <1>2, <1>3, SilentBus, ClockAssumed DEF ClockTypes
<1>5. bus.call = "none"
  BY <1>1, SilentBus
<1> QED BY <1>1, <1>2, <1>4, <1>5 DEF ClockInv, Transferring, InTime, Reading, Setting, TimeIsNow,
                                      Clock!TimeIsNow

LEMMA ClockReset == ClockInv /\ Clock!Reset => ClockInv'
<1> SUFFICES ASSUME ClockInv, Clock!Reset PROVE ClockInv'
  OBVIOUS
<1>1. /\ chip' = Clock!pcf8563_reset_state /\ bus' = Clock!Silence /\ ticks' = ticks
      /\ time' = <<>> /\ clock' = HostTime /\ during' = {}
  BY DEF Clock!Reset
<1>2. IsChip(chip') /\ chip'.timestamp = HostTime /\ chip'.waiting_reg
  BY <1>1, ResetChip
<1>3. /\ ticks \in 0 .. MaxTicks /\ HostTime \in Nat /\ HostTime + (MaxTicks - ticks) \in Nat
      /\ HostTime + MaxTicks \in Nat
      /\ HostTime + (MaxTicks - ticks) <= HostTime + MaxTicks
  BY ClockAssumed DEF ClockInv, ClockTypes
<1>4. Clock!InCalendar(HostTime + (MaxTicks - ticks))
  BY <1>3, ClockAssumed, Sooner
<1>5. ClockTypes'
  BY <1>1, <1>2, <1>3, <1>4, SilentBus DEF ClockTypes
<1>6. bus'.call = "none"
  BY <1>1, SilentBus
<1> QED BY <1>1, <1>2, <1>5, <1>6 DEF ClockInv, Transferring, InTime, Reading, Setting, TimeIsNow,
                                      Clock!TimeIsNow

LEMMA ClockTick == ClockInv /\ Clock!Tick => ClockInv'
<1> SUFFICES ASSUME ClockInv, Clock!Tick PROVE ClockInv'
  OBVIOUS
<1>1. /\ ticks < MaxTicks /\ ticks' = ticks + 1 /\ clock' = clock + 1
      /\ chip' = [chip EXCEPT !.timestamp = @ + 1]
      /\ during' = IF bus.call = "get_time" THEN during \cup {clock'} ELSE during
      /\ UNCHANGED <<bus, time>>
  BY DEF Clock!Tick, Clock!timer_cb
<1>2. /\ chip'.timestamp = chip.timestamp + 1 /\ chip'.reg = chip.reg /\ chip'.regs = chip.regs
      /\ chip'.waiting_reg = chip.waiting_reg /\ chip'.read_update = chip.read_update
  BY <1>1 DEF ClockInv, ClockTypes, IsChip
<1>3. IsChip(chip')
  BY <1>1, <1>2 DEF ClockInv, ClockTypes, IsChip
<1>4. /\ ticks' \in 0 .. MaxTicks /\ clock' \in Nat
      /\ clock' + (MaxTicks - ticks') = clock + (MaxTicks - ticks)
      /\ clock' + (MaxTicks - ticks') \in Nat /\ clock' <= clock' + (MaxTicks - ticks')
  <2>1. MaxTicks \in Nat /\ ticks \in Nat /\ clock \in Nat
    BY ClockAssumed DEF ClockInv, ClockTypes
  <2>2. \A m, k, c \in Nat : k < m =>
           /\ k + 1 \in 0 .. m /\ c + 1 \in Nat /\ (c + 1) + (m - (k + 1)) = c + (m - k)
           /\ (c + 1) + (m - (k + 1)) \in Nat /\ c + 1 <= (c + 1) + (m - (k + 1))
    OBVIOUS
  <2> QED BY <1>1, <2>1, <2>2
<1>5. Clock!InCalendar(clock' + (MaxTicks - ticks'))
  BY <1>4 DEF ClockInv, ClockTypes
<1>6. Clock!InCalendar(clock')
  BY <1>4, <1>5, Sooner
<1>7. ClockTypes'
  BY <1>1, <1>3, <1>4, <1>5, <1>6 DEF ClockInv, ClockTypes
<1>8. during \subseteq during'
  BY <1>1
<1>9. Transferring' /\ Setting'
  BY <1>1, <1>2 DEF ClockInv, Transferring, Setting
<1>10. InTime'
  BY <1>1, <1>2 DEF ClockInv, InTime
<1>11. Reading'
  BY <1>1, <1>2, <1>8 DEF ClockInv, Reading
<1>12. TimeIsNow'
  BY <1>1, <1>8 DEF ClockInv, TimeIsNow, Clock!TimeIsNow
<1> QED BY <1>7, <1>9, <1>10, <1>11, <1>12 DEF ClockInv

\* The driver begins a transfer: it sends the register, and turns the bus round for a read.
Begun(call, out, in) ==
    LET s == Clock!pcf8563_send(chip, First[call])
    IN  /\ call \in Calls /\ First[call] \in Byte
        /\ out \in Seq(Byte) /\ in \in 0 .. 7 /\ Len(out) + in = Total[call]
        /\ call \in Reads => out = <<>>
        /\ call \notin Reads => in = 0
        /\ call = "set_time" => \E tm \in Times : out = Clock!Encoded(tm)
        /\ bus = Clock!Silence /\ bus' = Clock!Transfer(call, out, in)
        /\ chip' = IF call \in Reads THEN Clock!StartRecv(s) ELSE s
        /\ UNCHANGED <<ticks, clock>>
        /\ \/ UNCHANGED <<time, during>> /\ call # "get_time"
           \/ time' = <<>> /\ during' = {clock}

LEMMA ClockCall ==
    ASSUME ClockInv, NEW call, NEW out, NEW in, Begun(call, out, in)
    PROVE  ClockInv'
<1> USE DEF Begun
<1> DEFINE reg == First[call]
<1> DEFINE s == Clock!pcf8563_send(chip, reg)
           r == Clock!StartRecv(s)
<1>1. /\ bus.call = "none" /\ chip.waiting_reg /\ IsChip(chip) /\ chip.timestamp = clock
  BY SilentBus DEF ClockInv, Transferring, InTime, ClockTypes
<1>2. IsChip(s) /\ s.timestamp = clock /\ s.reg = First[call] /\ ~s.waiting_reg
  BY <1>1, RegisterSent
<1> HIDE DEF s
<1>3. r.timestamp = s.timestamp /\ r.reg = s.reg /\ r.regs = s.regs /\ r.waiting_reg = s.waiting_reg
      /\ r.read_update = FALSE
  BY <1>2 DEF Clock!StartRecv, IsChip
<1>4. IsChip(r)
  BY <1>2, <1>3 DEF Clock!StartRecv, IsChip
<1> HIDE DEF r
<1>5. /\ IsChip(chip') /\ chip'.timestamp = clock /\ chip'.reg = First[call] /\ ~chip'.waiting_reg
      /\ call \in Reads => ~chip'.read_update
  BY <1>2, <1>3, <1>4 DEF s, r
<1>6. <<>> \in Seq(Byte) /\ Len(<<>>) = 0
  OBVIOUS
<1>7. bus'.call = call /\ bus'.out = out /\ bus'.in = in /\ bus'.got = <<>>
      /\ bus' \in [call : Calls \cup {"none"}, out : Seq(Byte), in : 0 .. 7, got : Seq(Byte)]
  BY <1>6 DEF Clock!Transfer
<1>8. Clock!InCalendar(clock) /\ \A t \in during : Clock!InCalendar(t)
  BY ClockInCalendar DEF ClockInv, ClockTypes
<1>9. ClockTypes'
  BY <1>5, <1>7, <1>8 DEF ClockInv, ClockTypes
<1>10. Transferring'
  <2>1. First[call] \in Nat /\ First[call] + 0 = First[call] /\ Len(out) \in Nat
        /\ 0 + Len(out) + in = Len(out) + in
    BY DEF First, Calls
  <2>2. call # "none"
    BY DEF Calls
  <2> QED BY <1>5, <1>6, <1>7, <2>1, <2>2 DEF Transferring
<1>11. InTime'
  BY <1>5 DEF InTime
<1>12. Reading'
  <2> SUFFICES ASSUME bus'.call = "get_time"
               PROVE  clock' \in during' /\ bus'.got = <<>> /\ ~chip'.read_update
    BY DEF Reading
  <2> QED BY <1>5, <1>7 DEF Reads
<1>13. Setting'
  <2> SUFFICES ASSUME call = "set_time"
               PROVE  /\ \A i \in 1 .. Len(bus'.got) : chip'.regs[i + 1] = bus'.got[i]
                      /\ \E tm \in Times :
                            /\ \A i \in 1 .. Len(bus'.got) : bus'.got[i] = Clock!Encoded(tm)[i]
                            /\ \A i \in 1 .. Len(bus'.out) :
                                  bus'.out[i] = Clock!Encoded(tm)[Len(bus'.got) + i]
    BY <1>7 DEF Setting
  <2>1. PICK tm \in Times : out = Clock!Encoded(tm)
    OBVIOUS
  <2>2. \A i \in 1 .. Len(out) : out[i] = Clock!Encoded(tm)[0 + i]
    BY <2>1
  <2>3. \A i \in 1 .. 0 : FALSE
    OBVIOUS
  <2> QED BY <1>6, <1>7, <2>2, <2>3
<1>14. TimeIsNow'
  BY DEF ClockInv, TimeIsNow, Clock!TimeIsNow
<1> QED BY <1>9, <1>10, <1>11, <1>12, <1>13, <1>14 DEF ClockInv

LEMMA ClockCalls ==
    ASSUME ClockInv, \/ Clock!pcf8563_get_time \/ Clock!pcf8563_set_time
                     \/ Clock!pcf8563_set_alarm \/ Clock!pcf8563_set_alarm_mode
    PROVE  ClockInv'
<1> USE DEF Clock!ReadBlock, Clock!WriteBlock, Clock!Idle, Clock!REG_SEC, Clock!REG_CTRL2,
            Clock!REG_MIN_ALARM, Calls, Reads
<1>0. /\ First["get_time"] = 2 /\ First["set_time"] = 2 /\ First["set_alarm"] = 9
      /\ First["get_mode"] = 1 /\ First["set_mode"] = 1
      /\ Total["get_time"] = 7 /\ Total["set_time"] = 7 /\ Total["set_alarm"] = 4
      /\ Total["get_mode"] = 1 /\ Total["set_mode"] = 1
      /\ {0, 1, 2, 9} \subseteq Byte
  BY DEF First, Total, Byte
<1>e. <<>> \in Seq(Byte) /\ Len(<<>>) = 0 /\ 0 + 7 = 7 /\ 0 + 1 = 1 /\ 7 + 0 = 7 /\ 4 + 0 = 4
      /\ 1 + 0 = 1 /\ {0, 1, 7} \subseteq 0 .. 7
  OBVIOUS
<1>1. CASE Clock!pcf8563_get_time
  <2>1. /\ bus = Clock!Silence /\ chip' = Clock!StartRecv(Clock!pcf8563_send(chip, 2))
        /\ bus' = Clock!Transfer("get_time", <<>>, 7) /\ during' = {clock} /\ time' = <<>>
        /\ UNCHANGED <<ticks, clock>>
    BY <1>1 DEF Clock!pcf8563_get_time
  <2>2. Begun("get_time", <<>>, 7)
    BY <1>0, <1>e, <2>1 DEF Begun
  <2> QED BY <2>2, ClockCall
<1>2. CASE Clock!pcf8563_set_time
  <2>1. PICK tm \in Times :
           /\ bus = Clock!Silence /\ chip' = Clock!pcf8563_send(chip, 2)
           /\ bus' = Clock!Transfer("set_time", Clock!Encoded(tm), 0)
           /\ UNCHANGED <<ticks, clock, time, during>>
    BY <1>2 DEF Clock!pcf8563_set_time
  <2>2. Clock!Encoded(tm) \in Seq(Byte) /\ Len(Clock!Encoded(tm)) = 7
    BY Decodes, ClockAssumed DEF Byte
  <2>3. Begun("set_time", Clock!Encoded(tm), 0)
    BY <1>0, <1>e, <2>1, <2>2 DEF Begun
  <2> QED BY <2>3, ClockCall
<1>3. CASE Clock!pcf8563_set_alarm
  <2>1. PICK buf_ \in AlarmBytes :
           /\ bus = Clock!Silence /\ chip' = Clock!pcf8563_send(chip, 9)
           /\ bus' = Clock!Transfer("set_alarm", buf_, 0)
           /\ UNCHANGED <<ticks, clock, time, during>>
    BY <1>3 DEF Clock!pcf8563_set_alarm
  <2>2. buf_ \in Seq(Byte) /\ Len(buf_) = 4
    <3>1. buf_ \in Byte \X Byte \X Byte \X Byte
      BY ClockAssumed
    <3>2. PICK a \in Byte, b \in Byte, c \in Byte, d \in Byte : buf_ = <<a, b, c, d>>
      BY <3>1
    <3> QED BY <3>2
  <2>3. Begun("set_alarm", buf_, 0)
    BY <1>0, <1>e, <2>1, <2>2 DEF Begun
  <2> QED BY <2>3, ClockCall
<1>4. CASE Clock!pcf8563_set_alarm_mode
  <2>1. CASE Clock!ReadBlock("get_mode", 1, 1)
    <3>1. /\ bus = Clock!Silence /\ chip' = Clock!StartRecv(Clock!pcf8563_send(chip, 1))
          /\ bus' = Clock!Transfer("get_mode", <<>>, 1)
          /\ UNCHANGED <<ticks, clock, time, during>>
      BY <1>4, <2>1 DEF Clock!pcf8563_set_alarm_mode
    <3>2. Begun("get_mode", <<>>, 1)
      BY <1>0, <1>e, <3>1 DEF Begun
    <3> QED BY <3>2, ClockCall
  <2>2. CASE Clock!WriteBlock("set_mode", 1, <<0>>)
    <3>1. /\ bus = Clock!Silence /\ chip' = Clock!pcf8563_send(chip, 1)
          /\ bus' = Clock!Transfer("set_mode", <<0>>, 0)
          /\ UNCHANGED <<ticks, clock, time, during>>
      BY <1>4, <2>2 DEF Clock!pcf8563_set_alarm_mode
    <3>2. <<0>> \in Seq(Byte) /\ Len(<<0>>) = 1
      BY <1>0
    <3>3. Begun("set_mode", <<0>>, 0)
      BY <1>0, <1>e, <3>1, <3>2 DEF Begun
    <3> QED BY <3>3, ClockCall
  <2> QED BY <1>4, <2>1, <2>2 DEF Clock!pcf8563_set_alarm_mode
<1> QED BY <1>1, <1>2, <1>3, <1>4

\* The driver sends a byte; with the last one of a new time the clock stands at it.
LEMMA ClockSend == ClockInv /\ Clock!SendByte => ClockInv'
<1> SUFFICES ASSUME ClockInv, Clock!SendByte PROVE ClockInv'
  OBVIOUS
<1> DEFINE data == Head(bus.out)
           n    == Len(bus.got)
           m    == Len(bus.out)
           ends == bus.call = "set_time" /\ m = 1
<1>1. /\ bus.out # <<>> /\ chip' = Clock!pcf8563_send(chip, data)
      /\ bus' = [bus EXCEPT !.out = Tail(@), !.got = Append(@, data)]
      /\ clock' = IF ends THEN Clock!mktime(Clock!Decoded(bus'.got)) ELSE clock
      /\ UNCHANGED <<ticks, time, during>>
  BY DEF Clock!SendByte
<1>2. /\ IsChip(chip) /\ bus.out \in Seq(Byte) /\ bus.got \in Seq(Byte)
      /\ bus \in [call : Calls \cup {"none"}, out : Seq(Byte), in : 0 .. 7, got : Seq(Byte)]
  BY DEF ClockInv, ClockTypes
<1>3. /\ data \in Byte /\ data = bus.out[1] /\ m \in Nat \ {0} /\ n \in Nat
      /\ Tail(bus.out) \in Seq(Byte) /\ Len(Tail(bus.out)) = m - 1
      /\ \A i \in 1 .. m - 1 : Tail(bus.out)[i] = bus.out[i + 1]
  BY <1>1, <1>2
<1>4. /\ Append(bus.got, data) \in Seq(Byte) /\ Len(Append(bus.got, data)) = n + 1
      /\ Append(bus.got, data)[n + 1] = data
      /\ \A i \in 1 .. n : Append(bus.got, data)[i] = bus.got[i]
  BY <1>2, <1>3, AppendProperties
<1>5. bus.call # "none"
  <2>1. Clock!Silence.out = <<>>
    BY DEF Clock!Silence, Clock!Transfer
  <2> QED BY <1>1, <2>1 DEF ClockInv, Transferring
<1>6. /\ ~chip.waiting_reg /\ bus.call \in Calls \ Reads /\ bus.in = 0
      /\ chip.reg = First[bus.call] + n /\ n + m = Total[bus.call]
  BY <1>1, <1>2, <1>3, <1>5 DEF ClockInv, Transferring
<1> HIDE DEF data, n, m
<1>7. /\ bus'.call = bus.call /\ bus'.in = bus.in
      /\ bus'.out = Tail(bus.out) /\ bus'.got = Append(bus.got, data)
      /\ bus' \in [call : Calls \cup {"none"}, out : Seq(Byte), in : 0 .. 7, got : Seq(Byte)]
  BY <1>1, <1>2, <1>3, <1>4
<1>8. chip.reg \in 1 .. 12 /\ (chip.reg \in 2 .. 8 <=> bus.call = "set_time")
      /\ (chip.reg + 1) % 256 = chip.reg + 1
  <2>1. n <= Total[bus.call] - 1 /\ Total[bus.call] \in 1 .. 7
    BY <1>3, <1>6 DEF Total, Calls
  <2>2. \/ bus.call = "set_time" /\ First[bus.call] = 2 /\ Total[bus.call] = 7
        \/ bus.call = "set_alarm" /\ First[bus.call] = 9 /\ Total[bus.call] = 4
        \/ bus.call = "set_mode" /\ First[bus.call] = 1 /\ Total[bus.call] = 1
    BY <1>6 DEF First, Total, Calls, Reads
  <2>3. \/ bus.call = "set_time" /\ chip.reg \in 2 .. 8
        \/ bus.call = "set_alarm" /\ chip.reg \in 9 .. 12
        \/ bus.call = "set_mode" /\ chip.reg = 1
    <3>1. n \in Nat /\ n <= Total[bus.call] - 1 /\ chip.reg = First[bus.call] + n
      BY <1>3, <1>6, <2>1
    <3>2. CASE bus.call = "set_time"
      <4>1. First[bus.call] = 2 /\ Total[bus.call] = 7
        BY <2>2, <3>2
      <4>2. chip.reg \in 2 .. 8
        BY <3>1, <4>1
      <4> QED BY <3>2, <4>2
    <3>3. CASE bus.call = "set_alarm"
      <4>1. First[bus.call] = 9 /\ Total[bus.call] = 4
        BY <2>2, <3>3
      <4>2. chip.reg \in 9 .. 12
        BY <3>1, <4>1
      <4> QED BY <3>3, <4>2
    <3>4. CASE bus.call = "set_mode"
      <4>1. First[bus.call] = 1 /\ Total[bus.call] = 1
        BY <2>2, <3>4
      <4>2. chip.reg = 1
        BY <3>1, <4>1
      <4> QED BY <3>4, <4>2
    <3> QED BY <2>2, <3>2, <3>3, <3>4
  <2>4. chip.reg \in 1 .. 12 /\ (chip.reg \in 2 .. 8 <=> bus.call = "set_time")
    BY <2>3
  <2>5. \A r \in 1 .. 12 : (r + 1) % 256 = r + 1
    OBVIOUS
  <2> QED BY <2>4, <2>5
<1>9. /\ IsChip(chip') /\ chip'.reg = chip.reg + 1 /\ ~chip'.waiting_reg
      /\ chip'.regs = [chip.regs EXCEPT ![chip.reg] = data]
      /\ chip'.timestamp = IF bus.call = "set_time"
                           THEN Clock!mktime(Clock!Decoded([i \in 1 .. 7 |-> chip'.regs[2 + i - 1]]))
                           ELSE chip.timestamp
  <2>1. chip.reg <= 15
    BY <1>8
  <2> DEFINE s == Clock!pcf8563_send(chip, data)
  <2>2. /\ IsChip(s) /\ s.reg = (chip.reg + 1) % 256 /\ ~s.waiting_reg
        /\ s.regs = IF chip.reg <= 15 THEN [chip.regs EXCEPT ![chip.reg] = data] ELSE chip.regs
        /\ s.timestamp = IF chip.reg \in 2 .. 8
                         THEN Clock!mktime(Clock!Decoded([i \in 1 .. 7 |-> s.regs[2 + i - 1]]))
                         ELSE chip.timestamp
    <3>1. IsChip(chip) /\ ~chip.waiting_reg /\ data \in Byte
      BY <1>2, <1>3, <1>6
    <3> HIDE DEF IsChip
    <3> QED BY <3>1, DataSent
  <2>3. chip' = s
    BY <1>1
  <2> HIDE DEF s
  <2> QED BY <1>8, <2>1, <2>2, <2>3
<1>10. Transferring'
  <2>1. First[bus.call] \in Nat
    BY <1>6 DEF First, Calls
  <2>2. chip'.reg = First[bus.call] + Len(bus'.got)
    BY <1>3, <1>4, <1>6, <1>7, <1>9, <2>1
  <2>3. Len(bus'.got) + Len(bus'.out) + bus'.in = Total[bus.call]
    <3>1. (n + 1) + (m - 1) + bus.in = n + m
      BY <1>3, <1>6
    <3> QED BY <1>3, <1>4, <1>6, <1>7, <3>1
  <2> QED BY <1>5, <1>6, <1>7, <1>9, <2>2, <2>3 DEF Transferring
\* the new time
<1>11. ASSUME bus.call = "set_time"
       PROVE  /\ \A i \in 1 .. n + 1 : chip'.regs[i + 1] = bus'.got[i]
              /\ \E tm \in Times :
                    /\ \A i \in 1 .. n + 1 : bus'.got[i] = Clock!Encoded(tm)[i]
                    /\ \A i \in 1 .. m - 1 : bus'.out[i] = Clock!Encoded(tm)[(n + 1) + i]
  <2>1. chip.reg = 2 + n /\ n + m = 7
    BY <1>6, <1>11 DEF First, Total
  <2>2. \A i \in 1 .. n : chip.regs[i + 1] = bus.got[i]
    BY <1>11 DEF ClockInv, Setting, n
  <2>3. PICK tm \in Times :
            /\ \A i \in 1 .. n : bus.got[i] = Clock!Encoded(tm)[i]
            /\ \A i \in 1 .. m : bus.out[i] = Clock!Encoded(tm)[n + i]
    BY <1>11 DEF ClockInv, Setting, n, m
  <2>4. ASSUME NEW i \in 1 .. n + 1 PROVE chip'.regs[i + 1] = bus'.got[i]
    <3>1. CASE i = n + 1
      <4>1. i + 1 = chip.reg /\ chip.reg \in 0 .. 15
        BY <1>3, <1>8, <2>1, <3>1
      <4>2. chip'.regs[i + 1] = data
        BY <1>2, <1>9, <4>1 DEF IsChip
      <4> QED BY <1>4, <1>7, <3>1, <4>2
    <3>2. CASE i # n + 1
      <4>1. i \in 1 .. n /\ i + 1 # chip.reg /\ i + 1 \in 0 .. 15
        BY <1>3, <2>1, <3>2
      <4>2. chip'.regs[i + 1] = chip.regs[i + 1]
        BY <1>2, <1>9, <4>1 DEF IsChip
      <4> QED BY <1>4, <1>7, <2>2, <4>1, <4>2
    <3> QED BY <3>1, <3>2
  <2>5. ASSUME NEW i \in 1 .. n + 1 PROVE bus'.got[i] = Clock!Encoded(tm)[i]
    <3>1. CASE i = n + 1
      <4>1. 1 \in 1 .. m
        BY <1>3
      <4> QED BY <1>3, <1>4, <1>7, <2>3, <3>1, <4>1
    <3>2. CASE i # n + 1
      <4>1. i \in 1 .. n
        BY <1>3, <3>2
      <4> QED BY <1>4, <1>7, <2>3, <4>1
    <3> QED BY <3>1, <3>2
  <2>6. ASSUME NEW i \in 1 .. m - 1 PROVE bus'.out[i] = Clock!Encoded(tm)[(n + 1) + i]
    <3>1. i + 1 \in 1 .. m /\ n + (i + 1) = (n + 1) + i
      BY <1>3
    <3> QED BY <1>3, <1>7, <2>3, <3>1
  <2> QED BY <2>4, <2>5, <2>6
<1>12. Setting'
  <2>1. Len(bus'.got) = n + 1 /\ Len(bus'.out) = m - 1
    BY <1>3, <1>4, <1>7
  <2> SUFFICES ASSUME bus.call = "set_time"
               PROVE  /\ \A i \in 1 .. Len(bus'.got) : chip'.regs[i + 1] = bus'.got[i]
                      /\ \E tm \in Times :
                            /\ \A i \in 1 .. Len(bus'.got) : bus'.got[i] = Clock!Encoded(tm)[i]
                            /\ \A i \in 1 .. Len(bus'.out) :
                                  bus'.out[i] = Clock!Encoded(tm)[Len(bus'.got) + i]
    BY <1>7 DEF Setting
  <2> QED BY <1>11, <2>1
<1>13. Reading'
  BY <1>6, <1>7 DEF Reading, Reads
<1>14. TimeIsNow'
  BY <1>1 DEF ClockInv, TimeIsNow, Clock!TimeIsNow
<1>15. /\ InTime' /\ clock' \in Nat /\ Clock!InCalendar(clock' + (MaxTicks - ticks))
  <2>0. /\ ticks \in 0 .. MaxTicks /\ MaxTicks \in Nat
        /\ clock \in Nat /\ Clock!InCalendar(clock + (MaxTicks - ticks))
    BY ClockAssumed DEF ClockInv, ClockTypes
  <2>1. CASE ends
    <3>1. n = 6 /\ m = 1
      BY <1>3, <1>6, <2>1 DEF Total
    <3> DEFINE g == bus'.got
               r == [i \in 1 .. 7 |-> chip'.regs[2 + i - 1]]
    <3>2. g \in Seq(Byte) /\ Len(g) = 7
      BY <1>4, <1>7, <3>1
    <3>3. PICK tm \in Times : \A i \in 1 .. 7 : g[i] = Clock!Encoded(tm)[i]
      BY <1>11, <2>1, <3>1
    <3>4. \A i \in 1 .. 7 : chip'.regs[i + 1] = g[i]
      BY <1>11, <2>1, <3>1
    <3>5. r = g
      <4>1. \A i \in 1 .. 7 : r[i] = g[i]
        <5>1. \A i \in 1 .. 7 : 2 + i - 1 = i + 1
          OBVIOUS
        <5> QED BY <3>4, <5>1
      <4> HIDE DEF g
      <4>2. \A i \in 1 .. 7 : r[i] \in Byte
        BY <3>2, <4>1, ElementOfSeq
      <4>3. r \in Seq(Byte) /\ Len(r) = 7
        BY <4>2
      <4> HIDE DEF r
      <4> QED BY <3>2, <4>1, <4>3, SeqEqual
    <3> HIDE DEF g, r
    <3>6. g = Clock!Encoded(tm)
      <4>1. Clock!Encoded(tm) \in Seq(Byte) /\ Len(Clock!Encoded(tm)) = 7
        BY Decodes, ClockAssumed DEF Byte
      <4> QED BY <3>2, <3>3, <4>1, SeqEqual
    <3>7. clock' = Clock!mktime(tm) /\ chip'.timestamp = clock'
      <4>1. Clock!Decoded(g) = tm
        BY <3>6, Decodes, ClockAssumed
      <4>2. clock' = Clock!mktime(Clock!Decoded(g))
        BY <1>1, <2>1 DEF g
      <4>3. chip'.timestamp = Clock!mktime(Clock!Decoded(r))
        BY <1>9, <2>1 DEF r
      <4> QED BY <3>5, <4>1, <4>2, <4>3
    <3>8. clock' \in Nat /\ Clock!InCalendar(clock' + MaxTicks)
      BY <3>7, ClockAssumed
    <3>9. /\ clock' + (MaxTicks - ticks) \in Nat /\ clock' + MaxTicks \in Nat
          /\ clock' + (MaxTicks - ticks) <= clock' + MaxTicks
      <4>1. MaxTicks \in Nat /\ ticks \in 0 .. MaxTicks
        BY <2>0
      <4>2. \A c, k, x \in Nat : k <= x => /\ c + (x - k) \in Nat /\ c + x \in Nat
                                           /\ c + (x - k) <= c + x
        OBVIOUS
      <4>3. MaxTicks \in Nat /\ ticks \in Nat /\ ticks <= MaxTicks /\ clock' \in Nat
        BY <3>8, <4>1
      <4> QED BY <4>2, <4>3, Zenon
    <3>10. Clock!InCalendar(clock' + (MaxTicks - ticks))
      BY <3>8, <3>9, Sooner
    <3> QED BY <3>7, <3>8, <3>10 DEF InTime
  <2>2. CASE bus.call = "set_time" /\ m # 1
    <3>1. bus'.out # <<>>
      <4>1. Len(bus'.out) # 0
        BY <1>3, <1>7, <2>2
      <4> QED BY <4>1
    <3> QED BY <1>1, <1>7, <2>0, <2>2, <3>1 DEF InTime
  <2>3. CASE bus.call # "set_time"
    <3>1. clock' = clock /\ chip'.timestamp = clock
      BY <1>1, <1>9, <2>3 DEF ClockInv, InTime
    <3> QED BY <2>0, <3>1 DEF InTime
  <2> QED BY <2>1, <2>2, <2>3
<1>16. ClockTypes'
  BY <1>1, <1>7, <1>9, <1>15 DEF ClockInv, ClockTypes
<1> QED BY <1>10, <1>12, <1>13, <1>14, <1>15, <1>16 DEF ClockInv

\* The driver receives a byte: at the first of a time the registers are brought up to date.
LEMMA ClockRecv == ClockInv /\ Clock!RecvByte => ClockInv'
<1> SUFFICES ASSUME ClockInv, Clock!RecvByte PROVE ClockInv'
  OBVIOUS
<1> DEFINE data == Clock!Received(chip)
           n    == Len(bus.got)
<1>1. /\ bus.in > 0 /\ chip' = Clock!pcf8563_recv(chip)
      /\ bus' = [bus EXCEPT !.in = @ - 1, !.got = Append(@, data)]
      /\ UNCHANGED <<ticks, time, clock, during>>
  BY DEF Clock!RecvByte
<1>2. /\ IsChip(chip) /\ bus.got \in Seq(Byte) /\ bus.in \in 1 .. 7
      /\ bus \in [call : Calls \cup {"none"}, out : Seq(Byte), in : 0 .. 7, got : Seq(Byte)]
  BY <1>1 DEF ClockInv, ClockTypes
<1>3. bus.call # "none"
  <2>1. bus.in # 0
    BY <1>2
  <2>2. Clock!Silence.in = 0
    BY DEF Clock!Silence, Clock!Transfer
  <2> QED BY <2>1, <2>2 DEF ClockInv, Transferring
<1>4. /\ ~chip.waiting_reg /\ bus.call \in Reads /\ bus.out = <<>>
      /\ chip.reg = First[bus.call] + n /\ n + Len(bus.out) + bus.in = Total[bus.call]
  <2>1. bus.in # 0
    BY <1>2
  <2> QED BY <1>3, <2>1 DEF ClockInv, Transferring, n
<1>5. /\ n \in Nat /\ n + bus.in = Total[bus.call]
      /\ \/ bus.call = "get_time" /\ First[bus.call] = 2 /\ Total[bus.call] = 7
         \/ bus.call = "get_mode" /\ First[bus.call] = 1 /\ Total[bus.call] = 1
  <2>1. n \in Nat /\ Len(bus.out) = 0
    BY <1>2, <1>4
  <2> QED BY <1>2, <1>4, <2>1 DEF First, Total, Reads
<1>6. \/ bus.call = "get_time" /\ chip.reg = 2 + n /\ n \in 0 .. 6 /\ chip.reg \in 2 .. 8
      \/ bus.call = "get_mode" /\ chip.reg = 1
  <2>1. chip.reg = First[bus.call] + n /\ bus.in \in 1 .. 7
    BY <1>2, <1>4
  <2> HIDE DEF n
  <2>2. CASE bus.call = "get_time" /\ First[bus.call] = 2 /\ Total[bus.call] = 7
    <3>1. n \in 0 .. 6
      BY <1>5, <2>1, <2>2
    <3> QED BY <2>1, <2>2, <3>1
  <2>3. CASE bus.call = "get_mode" /\ First[bus.call] = 1 /\ Total[bus.call] = 1
    <3>1. n = 0
      BY <1>5, <2>1, <2>3
    <3> QED BY <2>1, <2>3, <3>1
  <2> QED BY <1>5, <2>2, <2>3
<1>7. chip.timestamp = clock /\ Clock!InCalendar(clock)
  BY <1>4, ClockInCalendar DEF ClockInv, InTime
<1> HIDE DEF n, data
<1>8. LET fresh == ~chip.read_update /\ chip.reg \in 2 .. 8
      IN  /\ IsChip(chip') /\ chip'.timestamp = clock /\ chip'.reg = (chip.reg + 1) % 256
          /\ ~chip'.waiting_reg
          /\ chip.reg \in 2 .. 8 => chip'.read_update
          /\ ~fresh => chip'.regs = chip.regs
          /\ fresh => \A i \in 1 .. 7 : chip'.regs[i + 1] = Code(clock)[i]
          /\ data = chip'.regs[chip.reg] /\ data \in Byte
  <2>1. IsChip(chip) /\ chip.reg <= 15
    BY <1>2, <1>6
  <2> QED BY <1>1, <1>4, <1>7, <2>1, ByteReceived DEF data
<1>9. /\ Append(bus.got, data) \in Seq(Byte) /\ Len(Append(bus.got, data)) = n + 1
      /\ Append(bus.got, data)[n + 1] = data
      /\ \A i \in 1 .. n : Append(bus.got, data)[i] = bus.got[i]
  BY <1>2, <1>8, AppendProperties DEF n
<1>10. /\ bus'.call = bus.call /\ bus'.in = bus.in - 1 /\ bus'.out = bus.out
       /\ bus'.got = Append(bus.got, data)
       /\ bus' \in [call : Calls \cup {"none"}, out : Seq(Byte), in : 0 .. 7, got : Seq(Byte)]
  <2>1. bus.in - 1 \in 0 .. 7
    BY <1>2
  <2> QED BY <1>1, <1>2, <1>9, <2>1
<1>11. ClockTypes'
  BY <1>1, <1>8, <1>10 DEF ClockInv, ClockTypes
<1>12. Transferring'
  <2>1. (chip.reg + 1) % 256 = chip.reg + 1
    BY <1>6
  <2>2. chip'.reg = First[bus.call] + Len(bus'.got)
    BY <1>4, <1>5, <1>8, <1>9, <1>10, <2>1
  <2>3. Len(bus'.got) + Len(bus'.out) + bus'.in = Total[bus.call]
    <3>1. Len(bus.out) = 0
      BY <1>4
    <3> QED BY <1>2, <1>5, <1>9, <1>10, <3>1
  <2> QED BY <1>3, <1>4, <1>8, <1>10, <2>2, <2>3 DEF Transferring
<1>13. InTime'
  BY <1>1, <1>8 DEF InTime
<1>14. Setting'
  BY <1>4, <1>10 DEF Setting, Reads
<1>15. Reading'
  <2> SUFFICES ASSUME bus.call = "get_time"
               PROVE  /\ clock \in during /\ bus'.got # <<>> /\ chip'.read_update
                      /\ \E t \in during :
                            /\ \A i \in 1 .. 7 : chip'.regs[i + 1] = Code(t)[i]
                            /\ \A i \in 1 .. Len(bus'.got) : bus'.got[i] = Code(t)[i]
    BY <1>1, <1>10 DEF Reading
  <2>1. chip.reg = 2 + n /\ n \in 0 .. 6 /\ chip.reg \in 2 .. 8
    BY <1>6
  <2>2. clock \in during /\ chip'.read_update /\ bus'.got # <<>>
    <3>1. Append(bus.got, data) # <<>>
      BY <1>2, <1>8, AppendProperties
    <3> QED BY <1>8, <1>10, <2>1, <3>1 DEF ClockInv, Reading
  <2>3. PICK t \in during : /\ \A i \in 1 .. 7 : chip'.regs[i + 1] = Code(t)[i]
                            /\ \A i \in 1 .. n : bus.got[i] = Code(t)[i]
    <3>1. CASE bus.got = <<>>
      <4>1. ~chip.read_update /\ n = 0
        BY <3>1 DEF ClockInv, Reading, n
      <4>2. \A i \in 1 .. 7 : chip'.regs[i + 1] = Code(clock)[i]
        BY <1>8, <2>1, <4>1
      <4>3. \A i \in 1 .. n : bus.got[i] = Code(clock)[i]
        BY <4>1
      <4> QED BY <2>2, <4>2, <4>3
    <3>2. CASE bus.got # <<>>
      <4>1. /\ chip.read_update
            /\ \E t \in during : /\ \A i \in 1 .. 7 : chip.regs[i + 1] = Code(t)[i]
                                 /\ \A i \in 1 .. n : bus.got[i] = Code(t)[i]
        BY <3>2 DEF ClockInv, Reading, n
      <4>2. chip'.regs = chip.regs
        BY <1>8, <4>1
      <4> QED BY <4>1, <4>2
    <3> QED BY <3>1, <3>2
  <2>4. ASSUME NEW i \in 1 .. n + 1 PROVE bus'.got[i] = Code(t)[i]
    <3>1. CASE i = n + 1
      <4>1. n + 1 \in 1 .. 7 /\ (n + 1) + 1 = chip.reg
        BY <2>1
      <4>2. chip'.regs[(n + 1) + 1] = Code(t)[n + 1]
        BY <2>3, <4>1
      <4> QED BY <1>8, <1>9, <1>10, <3>1, <4>1, <4>2
    <3>2. CASE i # n + 1
      <4>1. i \in 1 .. n
        BY <1>5, <3>2
      <4> QED BY <1>9, <1>10, <2>3, <4>1
    <3> QED BY <3>1, <3>2
  <2>5. Len(bus'.got) = n + 1
    BY <1>9, <1>10
  <2> QED BY <2>2, <2>3, <2>4, <2>5
<1>16. TimeIsNow'
  BY <1>1 DEF ClockInv, TimeIsNow, Clock!TimeIsNow
<1> QED BY <1>11, <1>12, <1>13, <1>14, <1>15, <1>16 DEF ClockInv

\* A transfer ends: what has been read is a second at which the clock stood.
LEMMA ClockStop == ClockInv /\ Clock!Stop => ClockInv'
<1> SUFFICES ASSUME ClockInv, Clock!Stop PROVE ClockInv'
  OBVIOUS
<1>1. /\ bus.call # "none" /\ bus.out = <<>> /\ bus.in = 0
      /\ chip' = [chip EXCEPT !.waiting_reg = TRUE, !.read_update = FALSE]
      /\ bus' = Clock!Silence
      /\ time' = IF bus.call = "get_time" THEN Clock!Decoded(bus.got) ELSE time
      /\ UNCHANGED <<ticks, clock, during>>
  BY DEF Clock!Stop, Clock!Finish
<1>2. IsChip(chip) /\ bus.got \in Seq(Byte) /\ bus.call \in Calls
  BY <1>1 DEF ClockInv, ClockTypes
<1>3. /\ chip'.waiting_reg = TRUE /\ chip'.read_update = FALSE /\ chip'.reg = chip.reg
      /\ chip'.regs = chip.regs /\ chip'.timestamp = chip.timestamp
  BY <1>1, <1>2 DEF IsChip
<1>4. IsChip(chip')
  BY <1>1, <1>2, <1>3 DEF IsChip
<1>5. ClockTypes'
  BY <1>1, <1>4, SilentBus DEF ClockInv, ClockTypes
<1>6. bus'.call = "none"
  BY <1>1, SilentBus
<1>7. Transferring' /\ Reading' /\ Setting'
  BY <1>1, <1>3, <1>6 DEF Transferring, Reading, Setting
<1>8. InTime'
  BY <1>1, <1>3 DEF ClockInv, InTime
<1>9. TimeIsNow'
  <2>1. CASE bus.call # "get_time"
    BY <1>1, <2>1 DEF ClockInv, TimeIsNow, Clock!TimeIsNow
  <2>2. CASE bus.call = "get_time"
    <3>1. Len(bus.got) = 7
      <4>1. Len(bus.got) + Len(bus.out) + bus.in = 7
        <5>1. Total["get_time"] = 7
          BY DEF Total
        <5>2. Len(bus.got) + Len(bus.out) + bus.in = Total[bus.call]
          BY <1>1 DEF ClockInv, Transferring
        <5> QED BY <2>2, <5>1, <5>2
      <4>2. Len(bus.got) \in Nat /\ Len(bus.out) = 0 /\ bus.in = 0
        BY <1>1, <1>2
      <4> QED BY <4>1, <4>2
    <3>2. PICK t \in during : \A i \in 1 .. 7 : bus.got[i] = Code(t)[i]
      <4>1. bus.got # <<>>
        BY <3>1
      <4> QED BY <2>2, <3>1, <4>1 DEF ClockInv, Reading
    <3>3. Clock!localtime(t) \in Clock!Fields
      BY TimeOfClock DEF ClockInv, ClockTypes
    <3>4. bus.got = Code(t)
      <4>1. Code(t) \in Seq(Byte) /\ Len(Code(t)) = 7
        BY <3>3, Decodes DEF Code, Byte
      <4> QED BY <1>2, <3>1, <3>2, <4>1, SeqEqual
    <3>5. time' = Clock!localtime(t)
      BY <1>1, <2>2, <3>3, <3>4, Decodes DEF Code
    <3> QED BY <1>1, <3>5 DEF TimeIsNow, Clock!TimeIsNow
  <2> QED BY <2>1, <2>2
<1> QED BY <1>5, <1>7, <1>8, <1>9 DEF ClockInv

LEMMA ClockNext == ClockInv /\ [Clock!Next]_rtc => ClockInv'
<1> SUFFICES ASSUME ClockInv, [Clock!Next]_rtc PROVE ClockInv'
  OBVIOUS
<1>1. CASE UNCHANGED rtc
  <2>1. UNCHANGED <<chip, bus, ticks, time, clock, during>>
    BY <1>1 DEF rtc
  <2> QED BY <2>1 DEF ClockInv, ClockTypes, Transferring, InTime, Reading, Setting, TimeIsNow,
                      Clock!TimeIsNow
<1> QED BY <1>1, ClockReset, ClockTick, ClockCalls, ClockSend, ClockRecv, ClockStop DEF Clock!Next

LEMMA ClockSteps == BoardSpec => Clock!Init /\ [][Clock!Next]_rtc
<1>1. BoardInit => Clock!Init
  BY DEF BoardInit
<1>2. [BoardNext]_allVars => [Clock!Next]_rtc
  BY DEF BoardNext, allVars, AlarmStep, LightStep, ClockStep, TouchStep, KeyStep
<1> QED BY <1>1, <1>2, PTL DEF BoardSpec

(* What pcf8563_get_time returns is a second at which the clock stood while it   *)
(* was read: however a tick falls between the bytes, no field is of an earlier   *)
(* second than another.                                                          *)
THEOREM TimeReadIsNow == BoardSpec => []TimeIsNow
<1>1. ClockInv => TimeIsNow
  BY DEF ClockInv
<1> QED BY <1>1, ClockInit, ClockNext, ClockSteps, PTL
=============================================================================
