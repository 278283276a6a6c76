-------------------------- MODULE DesktopToolProofs --------------------------
(***************************************************************************)
(* The ring of the desktop tool is a first-in first-out channel, for every *)
(* number of places and commands: the places in use are those from the     *)
(* read index on, wrapped, and the write index is the first one behind.    *)
(* The tests of the count are made outside the lock; what they found only  *)
(* grows until the one who tested acts, since nobody else posts or takes.  *)
(* And an answer is decoded for the command and the block it answers.      *)
(***************************************************************************)
EXTENDS DesktopTool, SequenceTheorems, WellFoundedInduction, TLAPS

Used     == MAX_QUEUE - m_nFreeList
Place(i) == IF m_nReadIndex + i <= MAX_QUEUE THEN m_nReadIndex + i - 1
            ELSE m_nReadIndex + i - 1 - MAX_QUEUE

Types == /\ qinfo_ptr \in [0 .. MAX_QUEUE - 1 -> Commands \cup {None}]
         /\ m_nFreeList \in 0 .. MAX_QUEUE
         /\ m_nWriteIndex \in 0 .. MAX_QUEUE - 1 /\ m_nReadIndex \in 0 .. MAX_QUEUE - 1

\* A test that succeeded still holds, and the places in use hold commands.
Ring == /\ m_nWriteIndex = IF m_nReadIndex + Used < MAX_QUEUE THEN m_nReadIndex + Used
                           ELSE m_nReadIndex + Used - MAX_QUEUE
        /\ \A i \in 1 .. Used : qinfo_ptr[Place(i)] \in Commands
        /\ ui = "post" => m_nFreeList > 0 /\ posting \in Commands
        /\ app = "take" => m_nFreeList < MAX_QUEUE

IInv == Types /\ Ring

LEMMA Size == MAX_QUEUE \in Nat /\ MAX_QUEUE > 0
  BY SizeAssumption

LEMMA InitInv == Init => IInv
  <1> USE Size
  <1> SUFFICES ASSUME Init PROVE IInv
    OBVIOUS
  <1>1. Types
    BY DEF Init, Types
  <1>2. Used = 0
    BY DEF Init, Used
  <1> QED  BY <1>1, <1>2 DEF Init, IInv, Ring

\* Places of the ring: different for different numbers up to its size.
LEMMA Places ==
  ASSUME Types
  PROVE  /\ Used \in 0 .. MAX_QUEUE
         /\ \A i \in 1 .. MAX_QUEUE : Place(i) \in 0 .. MAX_QUEUE - 1
         /\ \A i, j \in 1 .. MAX_QUEUE : Place(i) = Place(j) => i = j
         /\ Place(1) = m_nReadIndex
         /\ Ring /\ m_nFreeList > 0 => Place(Used + 1) = m_nWriteIndex
  BY Size DEF Types, Used, Place, Ring

LEMMA Posts ==
  ASSUME IInv, QueuePost
  PROVE  IInv' /\ posting \in Commands /\ Queued' = Append(Queued, posting)
  <1> USE Size
  <1>1. /\ ui = "post" /\ ui' = "idle" /\ UNCHANGED <<m_nReadIndex, app>>
        /\ qinfo_ptr' = [qinfo_ptr EXCEPT ![m_nWriteIndex] = posting]
        /\ m_nWriteIndex' = Wrapped(m_nWriteIndex) /\ m_nFreeList' = m_nFreeList - 1
    BY DEF QueuePost
  <1>2. m_nFreeList > 0 /\ posting \in Commands /\ Types /\ Ring
    BY <1>1 DEF IInv, Ring
  <1>3. Used' = Used + 1 /\ Used \in 0 .. MAX_QUEUE - 1
    BY <1>1, <1>2 DEF Types, Used
  <1>4. Types'
    BY <1>1, <1>2 DEF Types, Wrapped
  <1>5. \A i \in 1 .. Used : qinfo_ptr'[Place(i)] = qinfo_ptr[Place(i)]
    BY <1>1, <1>2, <1>3, Places DEF Types
  <1>6. qinfo_ptr'[Place(Used + 1)] = posting
    BY <1>1, <1>2, <1>3, Places DEF Types
  <1>7. \A i : Place(i)' = Place(i)
    BY <1>1 DEF Place
  <1>8. m_nWriteIndex' = IF m_nReadIndex' + Used' < MAX_QUEUE THEN m_nReadIndex' + Used'
                         ELSE m_nReadIndex' + Used' - MAX_QUEUE
    BY <1>1, <1>2, <1>3 DEF Types, Ring, Wrapped
  <1>9. \A i \in 1 .. Used' : qinfo_ptr'[Place(i)] \in Commands
    <2>1. \A i \in 1 .. Used + 1 : i \in 1 .. Used \/ i = Used + 1
      BY <1>3
    <2> QED  BY <1>2, <1>3, <1>5, <1>6, <2>1 DEF Ring
  <1>10. Ring'
    BY <1>1, <1>2, <1>7, <1>8, <1>9 DEF Ring, Types
  <1>11. Queued' = Append(Queued, posting)
    <2>1. PICK n \in Nat : n = Used /\ n + 1 = Used'
      BY <1>3
    <2>2. Queued = [i \in 1 .. n |-> qinfo_ptr[Place(i)]]
      BY <2>1 DEF Queued, Used, Place
    <2>3. Queued' = [i \in 1 .. n + 1 |-> qinfo_ptr'[Place(i)]]
      BY <1>1, <2>1 DEF Queued, Used, Place
    <2>4. /\ \A i \in 1 .. n : qinfo_ptr'[Place(i)] = qinfo_ptr[Place(i)]
          /\ qinfo_ptr'[Place(n + 1)] = posting
      BY <1>5, <1>6, <2>1
    <2> QED  BY <2>2, <2>3, <2>4
  <1> QED  BY <1>2, <1>4, <1>10, <1>11 DEF IInv

LEMMA Takes ==
  ASSUME IInv, QueuePend
  PROVE  /\ IInv' /\ Queued # <<>> /\ Queued' = Tail(Queued)
         /\ taken' = Head(Queued)
  <1> USE Size
  <1>1. /\ app = "take" /\ app' = "send" /\ UNCHANGED <<m_nWriteIndex, ui, posting>>
        /\ taken' = qinfo_ptr[m_nReadIndex]
        /\ qinfo_ptr' = [qinfo_ptr EXCEPT ![m_nReadIndex] = None]
        /\ m_nReadIndex' = Wrapped(m_nReadIndex) /\ m_nFreeList' = m_nFreeList + 1
    BY DEF QueuePend
  <1>2. m_nFreeList < MAX_QUEUE /\ Types /\ Ring
    BY <1>1 DEF IInv, Ring
  <1>3. Used' = Used - 1 /\ Used \in 1 .. MAX_QUEUE
    BY <1>1, <1>2 DEF Types, Used
  <1>4. Types'
    BY <1>1, <1>2 DEF Types, Wrapped
  <1>5. \A i \in 1 .. Used' : Place(i)' = Place(i + 1)
    BY <1>1, <1>2, <1>3 DEF Types, Place, Wrapped
  <1>6. \A i \in 1 .. Used' : qinfo_ptr'[Place(i + 1)] = qinfo_ptr[Place(i + 1)]
    <2>1. \A i \in 1 .. Used' : i + 1 \in 1 .. MAX_QUEUE /\ 1 \in 1 .. MAX_QUEUE /\ i + 1 # 1
      BY <1>3
    <2>2. \A i \in 1 .. Used' : Place(i + 1) \in 0 .. MAX_QUEUE - 1 /\ Place(i + 1) # m_nReadIndex
      BY <1>2, <2>1, Places
    <2> QED  BY <1>1, <1>2, <2>2 DEF Types
  <1>7. m_nWriteIndex' = IF m_nReadIndex' + Used' < MAX_QUEUE THEN m_nReadIndex' + Used'
                         ELSE m_nReadIndex' + Used' - MAX_QUEUE
    BY <1>1, <1>2, <1>3 DEF Types, Ring, Wrapped
  <1>8. \A i \in 1 .. Used' : qinfo_ptr'[Place(i)'] \in Commands
    <2>1. \A i \in 1 .. Used' : i + 1 \in 1 .. Used
      BY <1>3
    <2> QED  BY <1>2, <1>5, <1>6, <2>1 DEF Ring
  <1>9. Ring'
    BY <1>1, <1>2, <1>7, <1>8 DEF Ring, Types
  <1>10. Queued # <<>> /\ Queued' = Tail(Queued) /\ taken' = Head(Queued)
    <2>1. PICK n \in Nat : n > 0 /\ n = Used /\ n - 1 = Used'
      BY <1>3
    <2>2. Queued = [i \in 1 .. n |-> qinfo_ptr[Place(i)]]
      BY <2>1 DEF Queued, Used, Place
    <2>3. Queued' = [i \in 1 .. n - 1 |-> qinfo_ptr'[Place(i)']]
      BY <2>1 DEF Queued, Used, Place
    <2>4. Queued' = [i \in 1 .. n - 1 |-> qinfo_ptr[Place(i + 1)]]
      BY <1>5, <1>6, <2>1, <2>3
    <2>5. Queued # <<>> /\ Head(Queued) = qinfo_ptr[Place(1)] /\ Len(Queued) = n
      BY <2>1, <2>2
    <2>6. Tail(Queued) = [i \in 1 .. n - 1 |-> qinfo_ptr[Place(i + 1)]]
      BY <2>1, <2>2, <2>5
    <2>7. Place(1) = m_nReadIndex
      BY <1>2, Places
    <2> QED  BY <1>1, <2>4, <2>5, <2>6, <2>7
  <1> QED  BY <1>4, <1>9, <1>10 DEF IInv

\* Everything else leaves the ring alone, or tests it.
LEMMA Others ==
  ASSUME IInv, [Next]_vars, ~QueuePost, ~QueuePend
  PROVE  IInv' /\ UNCHANGED <<ring, taken>>
  <1>1. CASE \E c \in Commands : Give(c)
    <2>1. PICK c \in Commands : Give(c)
      BY <1>1
    <2>2. /\ UNCHANGED <<ring, taken, app>>
          /\ \/ UNCHANGED <<ui, posting>>
             \/ m_nFreeList # 0 /\ posting' = c
      BY <2>1 DEF Give
    <2> QED  BY <2>2 DEF ring, IInv, Types, Ring, Used, Place
  <1>2. CASE PendFinds
    <2>1. /\ UNCHANGED <<ring, taken, ui, posting>> /\ m_nFreeList < MAX_QUEUE
      BY <1>2 DEF PendFinds
    <2> QED  BY <2>1 DEF ring, IInv, Types, Ring, Used, Place
  <1>3. ASSUME UNCHANGED <<ring, taken, posting>>, ui' = "post" => ui = "post",
               app' = "take" => app = "take"
        PROVE  IInv' /\ UNCHANGED <<ring, taken>>
    BY <1>3 DEF ring, IInv, Types, Ring, Used, Place
  <1>4. CASE Slot
    <2>1. /\ UNCHANGED <<ring, taken, posting, app>> /\ ui' # "post"
      BY <1>4 DEF Slot, SlotStarts, SlotReads, SlotGivesUp, SlotDecodes, SlotReleases
    <2> QED  BY <1>3, <2>1
  <1>5. CASE \/ \E c \in BOOLEAN : Connect(c)
             \/ SendBlock \/ WaitForBytesWritten \/ WaitForReadyRead \/ Acquire
    <2>1. UNCHANGED <<ring, taken, posting, ui>> /\ app' # "take"
      BY <1>5 DEF Connect, SendBlock, WaitForBytesWritten, WaitForReadyRead, Acquire, NextBlock
    <2> QED  BY <1>3, <2>1
  <1>6. CASE Answers \/ UNCHANGED vars
    <2>1. UNCHANGED <<ring, taken, posting, ui, app>>
      BY <1>6 DEF Answers, vars
    <2> QED  BY <1>3, <2>1
  <1> QED  BY <1>1, <1>2, <1>4, <1>5, <1>6 DEF Next, Window, Application

\* What the ring keeps under every interleaving of the two threads.
THEOREM RingInvariance == Spec => []IInv
  <1>1. IInv /\ [Next]_vars => IInv'
    BY Posts, Takes, Others
  <1> QED  BY InitInv, <1>1, PTL DEF Spec

\* Every step of the tool is a step of the abstract channel or leaves it alone:
\* commands are taken once each and in the order in which CmdSendBuffer accepted
\* them (the safety part of ImplementsChannel).
THEOREM RingIsChannel == Spec => Channel!Safe
  <1>1. Init => Channel!Init
    <2> SUFFICES ASSUME Init PROVE Channel!Init
      OBVIOUS
    <2>1. taken = None /\ m_nFreeList = MAX_QUEUE
      BY DEF Init
    <2>2. Queued = <<>>
      BY <2>1, Size DEF Queued
    <2> QED  BY <2>1, <2>2 DEF Channel!Init
  <1>2. IInv /\ [Next]_vars => [Channel!Next]_(Channel!vars)
    <2> SUFFICES ASSUME IInv, [Next]_vars PROVE [Channel!Next]_(Channel!vars)
      OBVIOUS
    <2>1. CASE QueuePost
      <3>1. taken' = taken
        BY <2>1 DEF QueuePost
      <3>2. Channel!Put(posting)
        BY <2>1, <3>1, Posts DEF Channel!Put
      <3> QED  BY <2>1, <3>2, Posts DEF Channel!Next
    <2>2. CASE QueuePend
      <3>1. Channel!Take("app")
        BY <2>2, Takes DEF Channel!Take
      <3> QED  BY <3>1 DEF Channel!Next, Channel!TakeSome
    <2>3. CASE ~QueuePost /\ ~QueuePend
      <3>1. UNCHANGED <<ring, taken>>
        BY <2>3, Others
      <3> QED  BY <3>1 DEF ring, Queued, Channel!vars
    <2> QED  BY <2>1, <2>2, <2>3
  <1> QED  BY <1>1, <1>2, RingInvariance, PTL DEF Spec, Channel!Safe

-----------------------------------------------------------------------------
(* Answers and exchanges.  While no exchange begins with something left of *)
(* the one before, all that is on the way belongs to the command that is   *)
(* carried out; while moreover none ends without a token, it is the one    *)
(* answer to the block sent last, and it is complete when it is decoded.   *)

Current == <<taken, block>>
First   == [of |-> Current, part |-> "first"]
Last    == [of |-> Current, part |-> "last"]
Entire  == [of |-> Current, part |-> "all"]
Whole   == {<<Entire>>, <<First, Last>>}

\* What has left the other end and is not decoded.
Arriving == got \o rx \o wire

\* The command that was taken has been given a connection, or refused one.
Asking == ~(app = "send" /\ block = 0)

NetTypes == /\ asked \in Seq(Exchange) /\ wire \in Seq(Piece) /\ rx \in Seq(Piece)
            /\ got \in Seq(Piece)
            /\ slots \in Nat /\ m_pSemphore \in Nat
            /\ taken \in Commands \cup {None} /\ block \in 0 .. Blocks

Turns == /\ ui \in {"idle", "post"} => got = <<>>
         /\ ui = "decode" => got # <<>>
         /\ ~left /\ app = "send" => Finished

OwnCommand == ~left /\ Asking =>
                  /\ \A i \in DOMAIN asked : asked[i][1] = taken
                  /\ \A i \in DOMAIN wire : wire[i].of[1] = taken
                  /\ \A i \in DOMAIN rx : rx[i].of[1] = taken
                  /\ \A i \in DOMAIN got : got[i].of[1] = taken

Nothing  == Arriving = <<>> /\ ~half /\ asked = <<>>
Progress == \/ Arriving = <<>> /\ ~half /\ asked \in {<<>>, <<Current>>}
            \/ Arriving = <<First>> /\ half /\ asked = <<Current>>
            \/ Arriving \in Whole /\ ~half /\ asked = <<>>
OwnBlock == ~left /\ ~missed /\ Asking =>
                /\ Progress
                /\ ui \in {"decode", "release"} => got \in Whole
                /\ m_pSemphore > 0 \/ app = "send" => Nothing

StepInv == Turns /\ OwnCommand /\ OwnBlock /\ AnswerInStep

LEMMA Least ==
  ASSUME NEW S \in SUBSET Nat, S # {}
  PROVE  \E n \in S : \A m \in S : n <= m
  <1> DEFINE R == {ss \in Nat \X Nat : ss[1] < ss[2]}
  <1>1. IsWellFoundedOn(R, Nat)
    BY NatLessThanWellFounded DEF OpToRel
  <1> HIDE DEF R
  <1>2. PICK n \in S : \A m \in S : ~(<<m, n>> \in R)
    BY <1>1, WFMin
  <1>3. \A m \in S : ~(m < n)
    BY <1>2 DEF R
  <1> QED  BY <1>3

LEMMA CatNil ==
  ASSUME NEW S, NEW s \in Seq(S), NEW w \in Seq(S), Len(w) = 0
  PROVE  w = <<>> /\ s \o w = s
  OBVIOUS

LEMMA CatAt ==
  ASSUME NEW S, NEW s \in Seq(S), NEW w \in Seq(S)
  PROVE  /\ s \o w \in Seq(S) /\ Len(s \o w) = Len(s) + Len(w)
         /\ \A i \in DOMAIN (s \o w) :
               \/ i \in DOMAIN s /\ (s \o w)[i] = s[i]
               \/ i - Len(s) \in DOMAIN w /\ (s \o w)[i] = w[i - Len(s)]
         /\ \A i \in DOMAIN s : (s \o w)[i] = s[i]
  OBVIOUS

LEMMA AppendAt ==
  ASSUME NEW S, NEW s \in Seq(S), NEW e \in S
  PROVE  /\ Append(s, e) \in Seq(S)
         /\ \A i \in DOMAIN Append(s, e) :
               \/ Append(s, e)[i] = e
               \/ i \in DOMAIN s /\ Append(s, e)[i] = s[i]
  OBVIOUS

LEMMA AppendSecond ==
  ASSUME NEW a, NEW b
  PROVE  Append(<<a>>, b) = <<a, b>>
  <1> DEFINE S == {a, b}
  <1>1. <<a>> \in Seq(S) /\ Append(<<a>>, b) \in Seq(S) /\ <<a, b>> \in Seq(S)
    OBVIOUS
  <1>2. Len(Append(<<a>>, b)) = 2 /\ Len(<<a, b>>) = 2
    OBVIOUS
  <1>3. \A i \in 1 .. 2 : Append(<<a>>, b)[i] = <<a, b>>[i]
    OBVIOUS
  <1> QED  BY <1>1, <1>2, <1>3, SeqEqual

LEMMA Moves ==
  ASSUME NEW S, NEW g \in Seq(S), NEW r \in Seq(S), NEW w \in Seq(S)
  PROVE  /\ g \o (r \o w) \o <<>> = g \o r \o w
         /\ (g \o r) \o <<>> \o w = g \o r \o w
         /\ g \o r \o w = g \o (r \o w)
         /\ \A e \in S : g \o r \o Append(w, e) = Append(g \o r \o w, e)
  <1>1. g \o r \o w = g \o (r \o w)
    OBVIOUS
  <1>2. (g \o r) \o <<>> = g \o r
    OBVIOUS
  <1>3. g \o (r \o w) \o <<>> = g \o (r \o w)
    OBVIOUS
  <1>4. ASSUME NEW e \in S PROVE g \o r \o Append(w, e) = Append(g \o r \o w, e)
    <2> DEFINE q == g \o r
    <2>1. q \in Seq(S)
      OBVIOUS
    <2> HIDE DEF q
    <2>2. q \o Append(w, e) = Append(q \o w, e)
      BY <2>1
    <2> QED  BY <2>2 DEF q
  <1> QED  BY <1>1, <1>2, <1>3, <1>4

\* What is kept of the bytes is a part of them.
LEMMA FromHeadKeeps ==
  ASSUME NEW s \in Seq(Piece)
  PROVE  /\ FromHead(s) \in Seq(Piece)
         /\ \A k \in DOMAIN FromHead(s) : \E j \in DOMAIN s : FromHead(s)[k] = s[j]
  <1> DEFINE heads == {i \in DOMAIN s : s[i].part # "last"}
             h == CHOOSE i \in heads : \A j \in heads : i <= j
  <1>0. Len(s) \in Nat /\ DOMAIN s = 1 .. Len(s)
    OBVIOUS
  <1>1. CASE heads = {}
    <2>1. FromHead(s) = <<>>
      BY <1>1 DEF FromHead
    <2> QED  BY <2>1
  <1>2. CASE heads # {}
    <2>1. h \in heads
      <3>0. heads \in SUBSET Nat
        BY <1>0
      <3>1. \E i \in heads : \A j \in heads : i <= j
        <4> HIDE DEF heads
        <4> QED  BY <1>2, <3>0, Least
      <3> HIDE DEF heads
      <3> QED  BY <3>1
    <2>2. FromHead(s) = SubSeq(s, h, Len(s))
      BY <1>2 DEF FromHead
    <2> HIDE DEF h
    <2>3. h \in 1 .. Len(s)
      BY <1>0, <2>1
    <2>4. SubSeq(s, h, Len(s)) = [k \in 1 .. Len(s) - h + 1 |-> s[k + h - 1]]
      BY <1>0, <2>3
    <2>5. \A k \in 1 .. Len(s) - h + 1 : k + h - 1 \in 1 .. Len(s) /\ s[k + h - 1] \in Piece
      BY <1>0, <2>3
    <2>6. SubSeq(s, h, Len(s)) \in Seq(Piece)
      BY <1>0, <2>3, <2>4, <2>5
    <2> QED  BY <1>0, <2>2, <2>4, <2>5, <2>6
  <1> QED  BY <1>1, <1>2

\* What begins with a head is kept whole.
LEMMA FromHeadAll ==
  ASSUME NEW s \in Seq(Piece), s # <<>>, s[1].part # "last"
  PROVE  FromHead(s) = s
  <1> DEFINE heads == {i \in DOMAIN s : s[i].part # "last"}
             h == CHOOSE i \in heads : \A j \in heads : i <= j
  <1>1. Len(s) \in Nat /\ DOMAIN s = 1 .. Len(s) /\ 1 \in heads
    OBVIOUS
  <1>2. \A j \in heads : 1 <= j /\ j \in Nat
    BY <1>1
  <1>3. FromHead(s) = SubSeq(s, h, Len(s))
    BY <1>1 DEF FromHead
  <1> HIDE DEF heads
  <1>4. h \in heads /\ \A j \in heads : h <= j
    BY <1>1, <1>2
  <1>5. h = 1
    BY <1>1, <1>2, <1>4
  <1> QED  BY <1>3, <1>5, SubSeqFull

\* One answer, cut in two.
LEMMA Cut ==
  ASSUME NEW s \in Seq(Piece), NEW w \in Seq(Piece), s # <<>>,
         s \o w \in Whole \cup {<<First>>}
  PROVE  /\ s[1].part # "last"
         /\ s \in Whole => w = <<>>
         /\ s \notin Whole => s = <<First>>
  <1>0. /\ \A a, b \in Nat : a > 0 /\ a + b = 1 => a = 1 /\ b = 0
        /\ \A a, b \in Nat : a > 0 /\ a + b = 2 => a = 1 \/ (a = 2 /\ b = 0)
    OBVIOUS
  <1>1. /\ Len(s) \in Nat /\ Len(w) \in Nat /\ Len(s) > 0
        /\ Len(s \o w) = Len(s) + Len(w)
        /\ \A i \in 1 .. Len(s) : (s \o w)[i] = s[i]
    OBVIOUS
  <1>2. s[1] = (s \o w)[1]
    BY <1>1
  <1>3. CASE s \o w \in {<<Entire>>, <<First>>}
    <2>0. Len(s \o w) = 1
      BY <1>3
    <2>1. Len(s) = 1 /\ Len(w) = 0
      BY <1>0, <1>1, <2>0
    <2>2. w = <<>> /\ s \o w = s
      BY <2>1, CatNil
    <2> QED  BY <1>2, <1>3, <2>1, <2>2 DEF Whole, First, Entire
  <1>4. CASE s \o w = <<First, Last>>
    <2>0. Len(s \o w) = 2
      BY <1>4
    <2>1. Len(s) = 1 \/ (Len(s) = 2 /\ Len(w) = 0)
      BY <1>0, <1>1, <2>0
    <2>2. s[1] = First
      BY <1>2, <1>4
    <2>3. CASE Len(s) = 1
      <3>1. s = <<First>>
        BY <2>2, <2>3
      <3>2. <<First>> \notin Whole
        BY DEF Whole, First, Last, Entire
      <3> QED  BY <3>1, <3>2 DEF First
    <2>4. CASE Len(s) = 2 /\ Len(w) = 0
      <3>1. w = <<>> /\ s \o w = s
        BY <2>4, CatNil
      <3> QED  BY <1>4, <2>2, <3>1 DEF Whole, First
    <2> QED  BY <2>1, <2>3, <2>4
  <1> QED  BY <1>3, <1>4 DEF Whole

\* Nothing arrives when no place has anything.
LEMMA Places3 ==
  ASSUME NetTypes
  PROVE  Arriving = <<>> <=> got = <<>> /\ rx = <<>> /\ wire = <<>>
  BY DEF NetTypes, Arriving

\* A complete answer is complete for the slot.
LEMMA WholeIsComplete ==
  ASSUME NEW s \in Whole
  PROVE  Complete(s) /\ s # <<>> /\ s[1].of = Current
  BY DEF Whole, Complete, First, Last, Entire
LEMMA FirstIsNot ==
  ~Complete(<<First>>) /\ Len(<<First>>) = 1
  BY DEF Complete, First

LEMMA StepInit == Init => NetTypes /\ StepInv
  <1> SUFFICES ASSUME Init PROVE NetTypes /\ StepInv
    OBVIOUS
  <1>1. /\ ui = "idle" /\ app = "pend" /\ taken = None /\ block = 0
        /\ asked = <<>> /\ half = FALSE /\ wire = <<>> /\ rx = <<>> /\ slots = 0 /\ got = <<>>
        /\ m_pSemphore = 0 /\ decoded = <<>> /\ left = FALSE /\ missed = FALSE
    BY DEF Init
  <1>2. NetTypes
    BY <1>1, SizeAssumption DEF NetTypes
  <1>3. Turns /\ OwnCommand /\ AnswerInStep
    BY <1>1 DEF Turns, OwnCommand, AnswerInStep
  <1>4. OwnBlock
    BY <1>1, <1>2, Places3 DEF OwnBlock, Progress
  <1> QED  BY <1>2, <1>3, <1>4 DEF StepInv

\* Posting does not touch an exchange.
LEMMA PostApart ==
  ASSUME NetTypes, StepInv, (\E c \in Commands : Give(c)) \/ QueuePost \/ UNCHANGED vars
  PROVE  NetTypes' /\ StepInv'
  <1>1. /\ UNCHANGED <<app, taken, block, asked, half, wire, rx, slots, got, m_pSemphore, decoded,
                       left, missed>>
        /\ ui' = ui \/ (ui \in {"idle", "post"} /\ ui' \in {"idle", "post"})
    BY DEF Give, QueuePost, vars, net
  <1>2. NetTypes'
    BY <1>1 DEF NetTypes
  <1>3. Turns'
    BY <1>1 DEF Turns, Finished, StepInv
  <1>4. OwnCommand' /\ AnswerInStep'
    BY <1>1 DEF OwnCommand, Asking, AnswerInStep, StepInv
  <1>5. OwnBlock'
    BY <1>1 DEF OwnBlock, Asking, Progress, Nothing, Arriving, Whole, First, Last, Entire, Current,
                StepInv
  <1> QED  BY <1>2, <1>3, <1>4, <1>5 DEF StepInv

LEMMA StartApart ==
  ASSUME NetTypes, StepInv, SlotStarts
  PROVE  NetTypes' /\ StepInv'
  <1>1. /\ UNCHANGED <<app, taken, block, asked, half, wire, rx, m_pSemphore, decoded, left, missed>>
        /\ ui = "idle" /\ slots > 0 /\ slots' = slots - 1 /\ ui' = "reading" /\ got' = <<>>
    BY DEF SlotStarts, net
  <1>2. got = <<>> /\ (~left => app # "send")
    BY <1>1 DEF StepInv, Turns, Finished, NetTypes
  <1>3. NetTypes'
    BY <1>1 DEF NetTypes
  <1>4. Turns' /\ OwnCommand' /\ AnswerInStep'
    BY <1>1, <1>2 DEF Turns, OwnCommand, Asking, AnswerInStep, StepInv
  <1>5. OwnBlock'
    BY <1>1, <1>2 DEF OwnBlock, Asking, Progress, Nothing, Arriving, Whole, First, Last, Entire,
                      Current, StepInv
  <1> QED  BY <1>3, <1>4, <1>5 DEF StepInv

LEMMA ReadApart ==
  ASSUME NetTypes, StepInv, SlotReads
  PROVE  NetTypes' /\ StepInv'
  <1> DEFINE all == FromHead(got \o rx)
  <1>1. /\ UNCHANGED <<app, taken, block, asked, half, wire, slots, m_pSemphore, decoded, left>>
        /\ ui = "reading" /\ rx # <<>> /\ rx' = <<>> /\ got' = all
        /\ \/ ui' = IF all = <<>> THEN "reading"
                    ELSE IF Complete(all) THEN "decode"
                    ELSE IF Len(all) > 1 THEN "release" ELSE "reading"
           \/ ui' = "reading"
        /\ missed' = (missed \/ ui' = "release")
    BY DEF SlotReads, net
  <1>2. got \in Seq(Piece) /\ rx \in Seq(Piece) /\ got \o rx \in Seq(Piece) /\ wire \in Seq(Piece)
    BY DEF NetTypes
  <1>0. /\ all \in Seq(Piece)
        /\ \A k \in DOMAIN all : \E j \in DOMAIN (got \o rx) : all[k] = (got \o rx)[j]
    BY <1>2, FromHeadKeeps
  <1> HIDE DEF all
  <1>3. NetTypes'
    BY <1>0, <1>1 DEF NetTypes
  <1>4. ~left => app # "send"
    BY <1>1 DEF StepInv, Turns, Finished
  <1>5. Turns'
    BY <1>1, <1>4 DEF Turns
  <1>6. AnswerInStep'
    BY <1>1 DEF AnswerInStep, StepInv
  <1>7. OwnCommand'
    <2> SUFFICES ASSUME ~left, Asking PROVE OwnCommand'
      BY <1>1 DEF OwnCommand, Asking
    <2>1. \A j \in DOMAIN (got \o rx) : (got \o rx)[j].of[1] = taken
      <3>1. \A j \in DOMAIN (got \o rx) : \/ j \in DOMAIN got /\ (got \o rx)[j] = got[j]
                                          \/ j - Len(got) \in DOMAIN rx
                                             /\ (got \o rx)[j] = rx[j - Len(got)]
        BY <1>2
      <3> QED  BY <3>1 DEF OwnCommand, StepInv
    <2>2. \A k \in DOMAIN all : all[k].of[1] = taken
      BY <1>0, <2>1
    <2>3. OwnCommand
      BY DEF StepInv
    <2> QED  BY <1>1, <2>2, <2>3 DEF OwnCommand, Asking
  <1>8. OwnBlock'
    <2> SUFFICES ASSUME ~left, ~missed, Asking PROVE OwnBlock'
      BY <1>1 DEF OwnBlock, Asking
    <2>0. Progress /\ (m_pSemphore > 0 \/ app = "send" => Nothing)
      BY DEF StepInv, OwnBlock
    <2>1. Arriving = (got \o rx) \o wire /\ got \o rx # <<>> /\ Arriving # <<>>
      BY <1>1, <1>2 DEF Arriving
    <2>2. Arriving \in Whole \cup {<<First>>}
      BY <2>0, <2>1 DEF Progress
    <2>3. all = got \o rx
      BY <1>2, <2>1, <2>2, Cut, FromHeadAll DEF all
    <2>4. Arriving' = Arriving
      BY <1>1, <1>2, <2>3 DEF Arriving
    <2>5. ui' # "release" /\ (ui' = "decode" => got' \in Whole)
      <3>1. all \in Whole \/ all = <<First>>
        BY <1>2, <2>1, <2>2, <2>3, Cut
      <3>2. CASE all \in Whole
        <4>1. Complete(all) /\ all # <<>>
          BY <3>2, WholeIsComplete
        <4> QED  BY <1>1, <3>2, <4>1
      <3>3. CASE all = <<First>>
        <4>1. ~Complete(all) /\ ~(Len(all) > 1)
          BY <3>3, FirstIsNot
        <4> QED  BY <1>1, <4>1
      <3> QED  BY <3>1, <3>2, <3>3
    <2>7. Progress' /\ (m_pSemphore' > 0 \/ app' = "send" => Nothing')
      BY <1>1, <2>0, <2>4 DEF Progress, Nothing, Whole, First, Last, Entire, Current
    <2>8. Whole' = Whole
      BY <1>1 DEF Whole, First, Last, Entire, Current
    <2> QED  BY <2>5, <2>7, <2>8 DEF OwnBlock
  <1> QED  BY <1>3, <1>5, <1>6, <1>7, <1>8 DEF StepInv

LEMMA GiveUpApart ==
  ASSUME NetTypes, StepInv, SlotGivesUp
  PROVE  NetTypes' /\ StepInv'
  <1>1. /\ UNCHANGED <<app, taken, block, asked, half, wire, rx, slots, got, m_pSemphore, decoded,
                       left>>
        /\ ui = "reading" /\ ui' = "release" /\ missed' = TRUE
    BY DEF SlotGivesUp, net
  <1>2. NetTypes'
    BY <1>1 DEF NetTypes
  <1>3. Turns' /\ OwnCommand' /\ OwnBlock' /\ AnswerInStep'
    BY <1>1 DEF Turns, Finished, OwnCommand, Asking, OwnBlock, AnswerInStep, StepInv
  <1> QED  BY <1>2, <1>3 DEF StepInv

LEMMA DecodeApart ==
  ASSUME NetTypes, StepInv, SlotDecodes
  PROVE  NetTypes' /\ StepInv'
  <1>1. /\ UNCHANGED <<app, taken, block, asked, half, wire, rx, slots, got, m_pSemphore, left,
                       missed>>
        /\ ui = "decode" /\ ui' = "release" /\ decoded' = <<got[1].of, <<taken, block>>>>
    BY DEF SlotDecodes, net
  <1>2. NetTypes'
    BY <1>1 DEF NetTypes
  <1>3. ~left => app # "send"
    BY <1>1 DEF StepInv, Turns, Finished
  <1>4. Turns' /\ OwnCommand'
    BY <1>1, <1>3 DEF Turns, OwnCommand, Asking, StepInv
  <1>5. OwnBlock'
    BY <1>1 DEF OwnBlock, Asking, Progress, Nothing, Arriving, Whole, First, Last, Entire, Current,
                StepInv
  <1>6. got # <<>> /\ 1 \in DOMAIN got
    BY <1>1 DEF StepInv, Turns, NetTypes
  <1>7. ~left => got[1].of[1] = taken
    BY <1>3, <1>6 DEF StepInv, OwnCommand, Asking
  <1>8. ~left /\ ~missed => got[1].of = Current
    BY <1>1, <1>3, WholeIsComplete DEF StepInv, OwnBlock, Asking
  <1>9. AnswerInStep'
    BY <1>1, <1>7, <1>8 DEF AnswerInStep, Current
  <1> QED  BY <1>2, <1>4, <1>5, <1>9 DEF StepInv

LEMMA ReleaseApart ==
  ASSUME NetTypes, StepInv, SlotReleases
  PROVE  NetTypes' /\ StepInv'
  <1>1. /\ UNCHANGED <<app, taken, block, asked, half, wire, rx, slots, decoded, left, missed>>
        /\ ui = "release" /\ ui' = "idle" /\ got' = <<>> /\ m_pSemphore' = m_pSemphore + 1
    BY DEF SlotReleases, net
  <1>2. NetTypes'
    BY <1>1 DEF NetTypes
  <1>3. ~left => app # "send"
    BY <1>1 DEF StepInv, Turns, Finished
  <1>4. Turns' /\ OwnCommand' /\ AnswerInStep'
    BY <1>1, <1>3 DEF Turns, OwnCommand, Asking, AnswerInStep, StepInv
  <1>5. OwnBlock'
    <2> SUFFICES ASSUME ~left, ~missed, Asking PROVE OwnBlock'
      BY <1>1 DEF OwnBlock, Asking
    <2>1. got \in Whole /\ Progress
      BY <1>1 DEF StepInv, OwnBlock
    <2>2. Arriving = got \o (rx \o wire) /\ rx \o wire \in Seq(Piece) /\ got \in Seq(Piece)
      BY DEF Arriving, NetTypes
    <2>3. Arriving \in Whole \cup {<<First>>}
      <3>1. got # <<>> /\ Arriving # <<>>
        BY <2>1, <2>2, WholeIsComplete
      <3> QED  BY <2>1, <3>1 DEF Progress
    <2>4. rx \o wire = <<>>
      BY <2>1, <2>2, <2>3, WholeIsComplete, Cut
    <2>5. rx = <<>> /\ wire = <<>>
      BY <2>4 DEF NetTypes
    <2>6. Arriving = got
      BY <2>5 DEF Arriving, NetTypes
    <2>7. ~half /\ asked = <<>>
      <3>1. got # <<>> /\ got # <<First>>
        BY <2>1, WholeIsComplete, FirstIsNot
      <3> QED  BY <2>1, <2>6, <3>1 DEF Progress
    <2>8. Nothing'
      BY <1>1, <2>5, <2>7 DEF Nothing, Arriving
    <2> QED  BY <1>1, <2>8 DEF OwnBlock, Progress, Nothing
  <1> QED  BY <1>2, <1>4, <1>5 DEF StepInv

\* Testing the count, and what the application thread takes.
LEMMA PendApart ==
  ASSUME NetTypes, StepInv, PendFinds
  PROVE  NetTypes' /\ StepInv'
  <1>1. /\ UNCHANGED <<ui, taken, block, asked, half, wire, rx, slots, got, m_pSemphore, decoded,
                       left, missed>>
        /\ app = "pend" /\ app' = "take"
    BY DEF PendFinds, net
  <1>2. NetTypes'
    BY <1>1 DEF NetTypes
  <1>3. Turns' /\ OwnCommand' /\ AnswerInStep'
    BY <1>1 DEF Turns, OwnCommand, Asking, AnswerInStep, StepInv
  <1>4. OwnBlock'
    BY <1>1 DEF OwnBlock, Asking, Progress, Nothing, Arriving, Whole, First, Last, Entire, Current,
                StepInv
  <1> QED  BY <1>2, <1>3, <1>4 DEF StepInv

LEMMA TakeApart ==
  ASSUME IInv, NetTypes, StepInv, QueuePend
  PROVE  NetTypes' /\ StepInv'
  <1>1. /\ UNCHANGED <<ui, asked, half, wire, rx, slots, got, m_pSemphore, decoded, missed>>
        /\ app' = "send" /\ taken' = qinfo_ptr[m_nReadIndex] /\ block' = 0
        /\ left' = (left \/ ~Finished)
    BY DEF QueuePend, net
  <1>2. NetTypes'
    <2>1. taken' \in Commands \cup {None}
      BY <1>1, Size DEF IInv, Types
    <2>2. block' \in 0 .. Blocks
      BY <1>1, SizeAssumption
    <2> QED  BY <1>1, <2>1, <2>2 DEF NetTypes
  <1>3. Turns'
    BY <1>1 DEF Turns, Finished, StepInv
  <1>4. OwnCommand' /\ OwnBlock'
    BY <1>1 DEF OwnCommand, OwnBlock, Asking
  <1>5. AnswerInStep'
    BY <1>1 DEF AnswerInStep, StepInv, NetTypes
  <1> QED  BY <1>2, <1>3, <1>4, <1>5 DEF StepInv

\* After an exchange: nothing is left of it, or `left' says so.
LEMMA NextBlockIs ==
  ASSUME NetTypes, NextBlock
  PROVE  /\ block' \in 0 .. Blocks
         /\ \/ app' = "send" /\ block' > 0 /\ left' = (left \/ ~Finished')
            \/ app' = "pend" /\ UNCHANGED <<block, left>>
  BY SizeAssumption DEF NetTypes, NextBlock

LEMMA ConnectApart ==
  ASSUME NetTypes, StepInv, NEW connected \in BOOLEAN, Connect(connected)
  PROVE  NetTypes' /\ StepInv'
  <1>1. /\ UNCHANGED <<ui, taken, slots, got, m_pSemphore, decoded, missed>>
        /\ app = "send" /\ block = 0 /\ half' = FALSE /\ wire' = <<>> /\ rx' = <<>>
        /\ asked' = IF connected THEN <<<<taken, block>>>> ELSE <<>>
        /\ IF connected THEN app' = "written" /\ UNCHANGED <<block, left>> ELSE NextBlock
    BY DEF Connect
  <1>2. /\ \/ app' = "send" /\ block' > 0 /\ left' = (left \/ ~Finished') /\ ~connected
           \/ app' # "send" /\ UNCHANGED <<block, left>>
        /\ block' \in 0 .. Blocks
    BY <1>1, NextBlockIs DEF NetTypes
  <1>3. ~left => Finished /\ got = <<>>
    BY <1>1 DEF StepInv, Turns, Finished
  <1>4. left => left'
    BY <1>2
  <1>5. NetTypes'
    <2>1. <<taken, block>> \in Exchange
      BY DEF NetTypes, Exchange
    <2>2. asked' \in Seq(Exchange)
      BY <1>1, <2>1
    <2> QED  BY <1>1, <1>2, <2>2 DEF NetTypes
  <1>6. Turns'
    BY <1>1, <1>2 DEF Turns, StepInv
  <1>7. AnswerInStep'
    BY <1>1, <1>4 DEF AnswerInStep, StepInv
  <1>8. OwnCommand'
    BY <1>1, <1>3, <1>4 DEF OwnCommand
  <1>9. OwnBlock'
    <2> SUFFICES ASSUME ~left', ~missed', Asking' PROVE OwnBlock'
      BY DEF OwnBlock
    <2>1. got' = <<>> /\ m_pSemphore' = 0 /\ ui' \in {"idle", "post"}
      BY <1>1, <1>3, <1>4 DEF Finished
    <2>2. Arriving' = <<>>
      BY <1>1, <2>1 DEF Arriving
    <2>3. CASE connected
      <3>1. app' = "written" /\ asked' = <<Current'>>
        BY <1>1, <2>3 DEF Current
      <3> QED  BY <1>1, <2>1, <2>2, <3>1 DEF OwnBlock, Progress
    <2>4. CASE ~connected
      <3>1. asked' = <<>>
        BY <1>1, <2>4
      <3> QED  BY <1>1, <2>1, <2>2, <3>1 DEF OwnBlock, Progress, Nothing
    <2> QED  BY <2>3, <2>4
  <1> QED  BY <1>5, <1>6, <1>7, <1>8, <1>9 DEF StepInv

LEMMA SendApart ==
  ASSUME NetTypes, StepInv, SendBlock
  PROVE  NetTypes' /\ StepInv'
  <1>1. /\ UNCHANGED <<ui, taken, block, half, wire, rx, slots, got, m_pSemphore, decoded, left,
                       missed>>
        /\ app = "send" /\ block > 0 /\ app' = "written"
        /\ asked' = Append(asked, Current) \/ asked' = asked
    BY DEF SendBlock, Current
  <1>2. Current \in Exchange /\ Asking
    BY <1>1 DEF NetTypes, Exchange, Current, Asking
  <1>3. NetTypes'
    BY <1>1, <1>2 DEF NetTypes
  <1>4. Turns' /\ AnswerInStep'
    BY <1>1 DEF Turns, AnswerInStep, StepInv
  <1>5. OwnCommand'
    <2> SUFFICES ASSUME ~left PROVE OwnCommand'
      BY <1>1 DEF OwnCommand
    <2>1. OwnCommand
      BY DEF StepInv
    <2>2. \A i \in DOMAIN asked' : asked'[i][1] = taken
      <3>1. CASE asked' = asked
        BY <1>2, <2>1, <3>1 DEF OwnCommand
      <3>2. CASE asked' = Append(asked, Current)
        <4>1. \A i \in DOMAIN asked' : \/ asked'[i] = Current
                                       \/ i \in DOMAIN asked /\ asked'[i] = asked[i]
          BY <3>2 DEF NetTypes
        <4> QED  BY <1>2, <2>1, <4>1 DEF OwnCommand, Current
      <3> QED  BY <1>1, <3>1, <3>2
    <2> QED  BY <1>1, <1>2, <2>1, <2>2 DEF OwnCommand
  <1>6. OwnBlock'
    <2> SUFFICES ASSUME ~left, ~missed PROVE OwnBlock'
      BY <1>1 DEF OwnBlock
    <2>1. Nothing /\ Finished
      BY <1>1, <1>2 DEF OwnBlock, Turns, StepInv
    <2>2. /\ Arriving' = <<>> /\ ~half' /\ asked' \in {<<>>, <<Current'>>}
      BY <1>1, <2>1 DEF Nothing, Arriving, Current
    <2>3. m_pSemphore' = 0 /\ ui' \in {"idle", "post"} /\ app' # "send"
      BY <1>1, <2>1 DEF Finished
    <2> QED  BY <2>2, <2>3 DEF OwnBlock, Progress
  <1> QED  BY <1>3, <1>4, <1>5, <1>6 DEF StepInv

LEMMA WaitApart ==
  ASSUME NetTypes, StepInv, WaitForBytesWritten \/ WaitForReadyRead
  PROVE  NetTypes' /\ StepInv'
  <1>1. /\ UNCHANGED <<ui, taken, block, asked, half, got, m_pSemphore, decoded, left, missed>>
        /\ app # "send" /\ app' # "send"
        /\ \/ UNCHANGED <<wire, rx, slots>>
           \/ wire' = <<>> /\ rx' = rx \o wire /\ slots' = slots + 1
    BY DEF WaitForBytesWritten, WaitForReadyRead, SocketReads, SocketRests, net
  <1>2. NetTypes'
    <2>1. rx \o wire \in Seq(Piece) /\ slots + 1 \in Nat
      BY DEF NetTypes
    <2>2. wire' \in Seq(Piece) /\ rx' \in Seq(Piece) /\ slots' \in Nat
      <3>1. CASE UNCHANGED <<wire, rx, slots>>
        BY <3>1 DEF NetTypes
      <3>2. CASE wire' = <<>> /\ rx' = rx \o wire /\ slots' = slots + 1
        BY <2>1, <3>2
      <3> QED  BY <1>1, <3>1, <3>2
    <2> QED  BY <1>1, <2>2 DEF NetTypes
  <1>3. Turns' /\ AnswerInStep'
    BY <1>1 DEF Turns, AnswerInStep, StepInv
  <1>4. OwnCommand'
    <2> SUFFICES ASSUME ~left PROVE OwnCommand'
      BY <1>1 DEF OwnCommand
    <2>1. /\ \A i \in DOMAIN asked : asked[i][1] = taken
          /\ \A i \in DOMAIN wire : wire[i].of[1] = taken
          /\ \A i \in DOMAIN rx : rx[i].of[1] = taken
          /\ \A i \in DOMAIN got : got[i].of[1] = taken
      BY <1>1 DEF StepInv, OwnCommand, Asking
    <2>2. \A j \in DOMAIN (rx \o wire) : (rx \o wire)[j].of[1] = taken
      <3>1. \A j \in DOMAIN (rx \o wire) : \/ j \in DOMAIN rx /\ (rx \o wire)[j] = rx[j]
                                           \/ j - Len(rx) \in DOMAIN wire
                                              /\ (rx \o wire)[j] = wire[j - Len(rx)]
        BY CatAt DEF NetTypes
      <3> QED  BY <2>1, <3>1
    <2>3. CASE UNCHANGED <<wire, rx, slots>>
      BY <1>1, <2>1, <2>3 DEF OwnCommand
    <2>4. CASE wire' = <<>> /\ rx' = rx \o wire
      <3>1. \A i \in DOMAIN wire' : wire'[i].of[1] = taken
        BY <2>4
      <3> QED  BY <1>1, <2>1, <2>2, <2>4, <3>1 DEF OwnCommand
    <2> QED  BY <1>1, <2>3, <2>4
  <1>5. Arriving' = Arriving
    <2>1. got \in Seq(Piece) /\ rx \in Seq(Piece) /\ wire \in Seq(Piece)
      BY DEF NetTypes
    <2>2. CASE UNCHANGED <<wire, rx, slots>>
      BY <1>1, <2>2 DEF Arriving
    <2>3. CASE wire' = <<>> /\ rx' = rx \o wire
      <3>1. got \o (rx \o wire) \o <<>> = got \o rx \o wire
        BY <2>1, Moves
      <3>2. got' = got
        BY <1>1
      <3> QED  BY <2>3, <3>1, <3>2 DEF Arriving
    <2> QED  BY <1>1, <2>2, <2>3
  <1>6. OwnBlock'
    BY <1>1, <1>5 DEF OwnBlock, Asking, Progress, Nothing, Whole, First, Last, Entire, Current, StepInv
  <1> QED  BY <1>2, <1>3, <1>4, <1>6 DEF StepInv

LEMMA AcquireApart ==
  ASSUME NetTypes, StepInv, Acquire
  PROVE  NetTypes' /\ StepInv'
  <1>1. /\ UNCHANGED <<ui, taken, asked, half, wire, rx, slots, got, decoded>>
        /\ app = "acquire" /\ NextBlock
        /\ \/ m_pSemphore > 0 /\ m_pSemphore' = m_pSemphore - 1 /\ missed' = missed
           \/ missed' = TRUE /\ m_pSemphore' = m_pSemphore
    BY DEF Acquire, net
  <1>2. /\ \/ app' = "send" /\ block' > 0 /\ left' = (left \/ ~Finished')
           \/ app' = "pend" /\ UNCHANGED <<block, left>>
        /\ block' \in 0 .. Blocks
    BY <1>1, NextBlockIs
  <1>3. (left => left') /\ (missed => missed')
    <2>1. left => left'
      BY <1>2
    <2>2. missed => missed'
      BY <1>1
    <2> QED  BY <2>1, <2>2
  <1>4. NetTypes'
    <2>1. m_pSemphore' \in Nat
      BY <1>1 DEF NetTypes
    <2> QED  BY <1>1, <1>2, <2>1 DEF NetTypes
  <1>5. Turns'
    BY <1>1, <1>2 DEF Turns, StepInv
  <1>6. AnswerInStep'
    BY <1>1, <1>3 DEF AnswerInStep, StepInv
  <1>7. OwnCommand'
    BY <1>1, <1>3 DEF OwnCommand, Asking, StepInv
  <1>8. OwnBlock'
    <2> SUFFICES ASSUME ~left', ~missed' PROVE OwnBlock'
      BY DEF OwnBlock
    <2>1. m_pSemphore > 0 /\ ~left /\ ~missed /\ Asking
      BY <1>1, <1>3 DEF Asking
    <2>2. Nothing
      BY <2>1 DEF StepInv, OwnBlock
    <2>3. Nothing' /\ Progress'
      BY <1>1, <2>2 DEF Nothing, Arriving, Progress
    <2>4. ui' \notin {"decode", "release"}
      <3>1. ui \in {"decode", "release"} => got \in Whole
        BY <2>1 DEF StepInv, OwnBlock
      <3>2. got = <<>>
        BY <2>2, Places3 DEF Nothing
      <3> QED  BY <1>1, <3>1, <3>2, WholeIsComplete
    <2> QED  BY <2>3, <2>4 DEF OwnBlock
  <1> QED  BY <1>4, <1>5, <1>6, <1>7, <1>8 DEF StepInv

LEMMA AnswerApart ==
  ASSUME NetTypes, StepInv, Answers
  PROVE  NetTypes' /\ StepInv'
  <1>1. /\ UNCHANGED <<ui, app, taken, block, rx, slots, got, m_pSemphore, decoded, left, missed>>
        /\ asked # <<>>
    BY DEF Answers
  <1>2. PICK part \in Parts :
           /\ wire' = Append(wire, [of |-> Head(asked), part |-> part])
           /\ \/ part = "all" /\ ~half /\ asked' = Tail(asked) /\ ~half'
              \/ part = "first" /\ ~half /\ asked' = asked /\ half'
              \/ part = "last" /\ half /\ asked' = Tail(asked) /\ ~half'
    BY DEF Answers, Arrives, Parts, NetTypes
  <1> DEFINE piece == [of |-> Head(asked), part |-> part]
  <1>3. Head(asked) \in Exchange /\ piece \in Piece /\ 1 \in DOMAIN asked /\ Head(asked) = asked[1]
    BY <1>1 DEF NetTypes, Piece
  <1>5. NetTypes'
    <2>1. wire' \in Seq(Piece)
      BY <1>2, <1>3 DEF NetTypes
    <2>2. Tail(asked) \in Seq(Exchange)
      BY <1>1 DEF NetTypes
    <2>3. asked' \in Seq(Exchange)
      BY <1>2, <2>2 DEF NetTypes
    <2> QED  BY <1>1, <2>1, <2>3 DEF NetTypes
  <1>6. Turns' /\ AnswerInStep'
    BY <1>1 DEF Turns, Finished, AnswerInStep, StepInv
  <1>7. OwnCommand'
    <2> SUFFICES ASSUME ~left, Asking PROVE OwnCommand'
      BY <1>1 DEF OwnCommand, Asking
    <2>1. /\ \A i \in DOMAIN asked : asked[i][1] = taken
          /\ \A i \in DOMAIN wire : wire[i].of[1] = taken
          /\ \A i \in DOMAIN rx : rx[i].of[1] = taken
          /\ \A i \in DOMAIN got : got[i].of[1] = taken
      BY DEF StepInv, OwnCommand
    <2>2. \A i \in DOMAIN asked' : asked'[i][1] = taken
      <3>1. \A i \in DOMAIN Tail(asked) : i + 1 \in DOMAIN asked /\ Tail(asked)[i] = asked[i + 1]
        BY <1>1 DEF NetTypes
      <3>2. \A i \in DOMAIN Tail(asked) : Tail(asked)[i][1] = taken
        BY <2>1, <3>1
      <3>3. CASE asked' = asked
        BY <2>1, <3>3
      <3>4. CASE asked' = Tail(asked)
        BY <3>2, <3>4
      <3> QED  BY <1>2, <3>3, <3>4
    <2>3. piece.of[1] = taken
      BY <1>3, <2>1
    <2>4. \A i \in DOMAIN wire' : \/ wire'[i] = piece
                                  \/ i \in DOMAIN wire /\ wire'[i] = wire[i]
      BY <1>2 DEF NetTypes
    <2>5. \A i \in DOMAIN wire' : wire'[i].of[1] = taken
      BY <2>1, <2>3, <2>4
    <2> QED  BY <1>1, <2>1, <2>2, <2>5 DEF OwnCommand
  <1>8. OwnBlock'
    <2> SUFFICES ASSUME ~left, ~missed, Asking PROVE OwnBlock'
      BY <1>1 DEF OwnBlock, Asking
    <2>1. /\ Progress /\ (ui \in {"decode", "release"} => got \in Whole)
          /\ (m_pSemphore > 0 \/ app = "send" => Nothing)
      BY DEF StepInv, OwnBlock
    <2>2. Arriving' = Append(Arriving, piece)
      <3>1. got \in Seq(Piece) /\ rx \in Seq(Piece) /\ wire \in Seq(Piece)
        BY DEF NetTypes
      <3> HIDE DEF piece
      <3>2. got \o rx \o Append(wire, piece) = Append(got \o rx \o wire, piece)
        BY <1>3, <3>1, Moves
      <3>3. wire' = Append(wire, piece)
        BY <1>2 DEF piece
      <3> QED  BY <1>1, <3>2, <3>3 DEF Arriving
    <2>3. asked = <<Current>> /\ ((Arriving = <<>> /\ ~half) \/ (Arriving = <<First>> /\ half))
      BY <1>1, <2>1 DEF Progress
    <2>4. piece = [of |-> Current, part |-> part] /\ Tail(asked) = <<>>
      BY <2>3
    <2> DEFINE Now == \/ Arriving' = <<First>> /\ half' /\ asked' = <<Current>>
                      \/ Arriving' \in Whole /\ ~half' /\ asked' = <<>>
    <2>6. Now
      <3>1. CASE part = "all"
        <4>1. ~half /\ ~half' /\ asked' = <<>> /\ piece = Entire
          BY <1>2, <2>4, <3>1 DEF Entire
        <4>2. Arriving = <<>>
          BY <2>3, <4>1
        <4>3. Arriving' = <<Entire>>
          BY <2>2, <4>1, <4>2
        <4> QED  BY <4>1, <4>3 DEF Whole
      <3>2. CASE part = "first"
        <4>1. ~half /\ half' /\ asked' = asked /\ piece = First
          BY <1>2, <2>4, <3>2 DEF First
        <4>2. Arriving = <<>>
          BY <2>3, <4>1
        <4>3. Arriving' = <<First>>
          BY <2>2, <4>1, <4>2
        <4> QED  BY <2>3, <4>1, <4>3
      <3>3. CASE part = "last"
        <4>1. half /\ ~half' /\ asked' = <<>> /\ piece = Last
          BY <1>2, <2>4, <3>3 DEF Last
        <4>2. Arriving = <<First>>
          BY <2>3, <4>1
        <4>3. Append(<<First>>, Last) = <<First, Last>>
          BY AppendSecond
        <4>4. Arriving' = <<First, Last>>
          BY <2>2, <4>1, <4>2, <4>3
        <4> QED  BY <4>1, <4>4 DEF Whole
      <3> QED  BY <1>2, <3>1, <3>2, <3>3
    <2>7. Progress'
      BY <1>1, <2>6 DEF Progress, Whole, First, Last, Entire, Current
    <2>8. ui' \in {"decode", "release"} => got' \in Whole'
      BY <1>1, <2>1 DEF Whole, First, Last, Entire, Current
    <2>9. ~(m_pSemphore' > 0 \/ app' = "send")
      BY <1>1, <2>1 DEF Nothing
    <2> QED  BY <2>7, <2>8, <2>9 DEF OwnBlock
  <1> QED  BY <1>5, <1>6, <1>7, <1>8 DEF StepInv

LEMMA StepByStep == IInv /\ NetTypes /\ StepInv /\ [Next]_vars => NetTypes' /\ StepInv'
  BY PostApart, StartApart, ReadApart, GiveUpApart, DecodeApart, ReleaseApart, PendApart, TakeApart,
     ConnectApart, SendApart, WaitApart, AcquireApart, AnswerApart
     DEF Next, Window, Slot, Application

\* An answer is decoded for the command it answers, and for the block sent last, as
\* long as every exchange ended with its answer and nothing was left of the one before.
THEOREM AnswersInStep == Spec => []AnswerInStep
  <1>1. IInv /\ NetTypes /\ StepInv => AnswerInStep
    BY DEF StepInv
  <1> QED  BY StepInit, StepByStep, RingInvariance, <1>1, PTL DEF Spec
=============================================================================
