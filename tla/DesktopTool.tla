----------------------------- MODULE DesktopTool -----------------------------
(***************************************************************************)
(* The desktop tool (src/desktop/manage_tool) when it talks TCP.  The      *)
(* window posts commands to a ring (CProtocolQueue of protocol.h), the     *)
(* application thread (appthread.cpp) takes one, sends it and waits for    *)
(* the answer (tcpclient.cpp).  The answer is read and decoded by the slot *)
(* dataReceived, which Qt queues to the thread of the window, because the  *)
(* object it belongs to is a widget made there; a semaphore tells the      *)
(* application thread that a slot has ended.  Bytes move from the          *)
(* connection to the socket's buffer only while the application thread     *)
(* waits in one of the socket's calls: it runs no event loop.              *)
(***************************************************************************)
EXTENDS Naturals, Sequences

CONSTANTS Commands,    \* commands the user gives, each once
          Uploads,     \* those that upload a file
          Blocks,      \* blocks of a file
          MAX_QUEUE,   \* places in the ring
          None         \* no command

ASSUME CommandAssumption == Uploads \subseteq Commands /\ None \notin Commands
ASSUME SizeAssumption == MAX_QUEUE \in Nat \ {0} /\ Blocks \in Nat

\* One exchange: the command, and the block for an upload (0: its first message).
Exchange == (Commands \cup {None}) \X (0 .. Blocks)
\* An answer comes whole or in two parts.
Parts    == {"all", "first", "last"}
Piece    == [of : Exchange, part : Parts]

VARIABLES qinfo_ptr, m_nFreeList, m_nWriteIndex, m_nReadIndex,   \* the ring
          ui,           \* what the thread of the window does
          posting,      \* the command it posts
          posted,       \* commands given so far
          app,          \* where the application thread is
          taken,        \* SendBufferInfo: the command, which names m_pFunc
          block,        \* the block being sent
          is_connect, asked, half, wire,   \* the connection and its other end
          rx,           \* the buffer of the socket
          slots,        \* calls of dataReceived that wait for the window's thread
          got,          \* what the running slot has of an answer
          m_pSemphore,
          decoded,      \* history: the last <<answer, exchange>> when it was decoded
          left,         \* history: an exchange began with a slot or a token left
          missed        \* history: an exchange ended without a token, or a slot without an answer

ring == <<qinfo_ptr, m_nFreeList, m_nWriteIndex, m_nReadIndex>>
net  == <<is_connect, asked, half, wire>>
vars == <<ring, ui, posting, posted, app, taken, block, net, rx, slots, got, m_pSemphore,
          decoded, left, missed>>

Init == /\ qinfo_ptr = [i \in 0 .. MAX_QUEUE - 1 |-> None]
        /\ m_nFreeList = MAX_QUEUE /\ m_nWriteIndex = 0 /\ m_nReadIndex = 0
        /\ ui = "idle" /\ posting = None /\ posted = {}
        /\ app = "pend" /\ taken = None /\ block = 0
        /\ is_connect = FALSE /\ asked = <<>> /\ half = FALSE /\ wire = <<>>
        /\ rx = <<>> /\ slots = 0 /\ got = <<>> /\ m_pSemphore = 0
        /\ decoded = <<>> /\ left = FALSE /\ missed = FALSE

Wrapped(index) == IF index + 1 = MAX_QUEUE THEN 0 ELSE index + 1

-----------------------------------------------------------------------------
(* The thread of the window: posts, and runs the slots, one at a time.     *)

\* CmdSendBuffer: a full ring refuses; the count is read without the lock.
Give(c) ==
    /\ ui = "idle" /\ c \notin posted
    /\ posted' = posted \cup {c}
    /\ IF m_nFreeList = 0 THEN UNCHANGED <<ui, posting>> ELSE ui' = "post" /\ posting' = c
    /\ UNCHANGED <<ring, app, taken, block, net, rx, slots, got, m_pSemphore, decoded, left,
                   missed>>

\* Mutant: the index is not wrapped.
QueuePostStuck ==
    /\ ui = "post" /\ ui' = "idle" /\ posting' = None
    /\ qinfo_ptr' = [qinfo_ptr EXCEPT ![m_nWriteIndex] = posting]
    /\ m_nWriteIndex' = IF m_nWriteIndex + 1 = MAX_QUEUE THEN m_nWriteIndex ELSE m_nWriteIndex + 1
    /\ m_nFreeList' = m_nFreeList - 1
    /\ UNCHANGED <<m_nReadIndex, posted, app, taken, block, net, rx, slots, got, m_pSemphore,
                   decoded, left, missed>>

QueuePost ==
    /\ ui = "post" /\ ui' = "idle" /\ posting' = None
    /\ qinfo_ptr' = [qinfo_ptr EXCEPT ![m_nWriteIndex] = posting]
    /\ m_nWriteIndex' = Wrapped(m_nWriteIndex)
    /\ m_nFreeList' = m_nFreeList - 1
    /\ UNCHANGED <<m_nReadIndex, posted, app, taken, block, net, rx, slots, got, m_pSemphore,
                   decoded, left, missed>>

SlotStarts ==
    /\ ui = "idle" /\ slots > 0
    /\ slots' = slots - 1 /\ ui' = "reading" /\ got' = <<>>
    /\ UNCHANGED <<ring, posting, posted, app, taken, block, net, rx, m_pSemphore, decoded, left,
                   missed>>

\* From the first head on, CheckReceiveData takes all that is there and looks at
\* the first frame of it; the end of another one in its place fails the CRC.
FromHead(pieces) ==
    LET heads == {i \in DOMAIN pieces : pieces[i].part # "last"}
    IN  IF heads = {} THEN <<>>
        ELSE SubSeq(pieces, CHOOSE i \in heads : \A j \in heads : i <= j, Len(pieces))

Complete(pieces) == \/ pieces[1].part = "all"
                    \/ Len(pieces) > 1 /\ pieces[2] = [of |-> pieces[1].of, part |-> "last"]

\* A read of fewer than three bytes is kept, but what there is is not looked at.
FewBytes == Len(rx) = 1 /\ rx[1].part = "last"

SlotReads ==
    LET all == FromHead(got \o rx)
    IN  /\ ui = "reading" /\ rx # <<>>
        /\ rx' = <<>> /\ got' = all
        /\ \/ ui' = IF all = <<>> THEN "reading"
                    ELSE IF Complete(all) THEN "decode"
                    ELSE IF Len(all) > 1 THEN "release" ELSE "reading"
           \/ FewBytes /\ ui' = "reading"
        /\ missed' = (missed \/ ui' = "release")
        /\ UNCHANGED <<ring, posting, posted, app, taken, block, net, slots, m_pSemphore, decoded,
                       left>>

\* RT_TIMEOUT, after three seconds without a byte.
SlotGivesUp ==
    /\ ui = "reading" /\ rx = <<>>
    /\ ui' = "release" /\ missed' = TRUE
    /\ UNCHANGED <<ring, posting, posted, app, taken, block, net, rx, slots, got, m_pSemphore,
                   decoded, left>>

\* pSendBufferInfo points to what the application thread has taken last.
SlotDecodes ==
    /\ ui = "decode" /\ ui' = "release"
    /\ decoded' = <<got[1].of, <<taken, block>>>>
    /\ UNCHANGED <<ring, posting, posted, app, taken, block, net, rx, slots, got, m_pSemphore,
                   left, missed>>

SlotReleases ==
    /\ ui = "release" /\ ui' = "idle" /\ got' = <<>>
    /\ m_pSemphore' = m_pSemphore + 1
    /\ UNCHANGED <<ring, posting, posted, app, taken, block, net, rx, slots, decoded, left,
                   missed>>

-----------------------------------------------------------------------------
(* The application thread.                                                 *)

Finished == ui \in {"idle", "post"} /\ slots = 0 /\ m_pSemphore = 0

PendFinds ==
    /\ app = "pend" /\ m_nFreeList < MAX_QUEUE
    /\ app' = "take"
    /\ UNCHANGED <<ring, ui, posting, posted, taken, block, net, rx, slots, got, m_pSemphore,
                   decoded, left, missed>>

QueuePend ==
    /\ app = "take" /\ app' = "send"
    /\ taken' = qinfo_ptr[m_nReadIndex] /\ block' = 0
    /\ qinfo_ptr' = [qinfo_ptr EXCEPT ![m_nReadIndex] = None]
    /\ m_nReadIndex' = Wrapped(m_nReadIndex)
    /\ m_nFreeList' = m_nFreeList + 1
    /\ left' = (left \/ ~Finished)
    /\ UNCHANGED <<m_nWriteIndex, ui, posting, posted, net, rx, slots, got, m_pSemphore, decoded,
                   missed>>

\* FileUpdateProcess sends on whatever became of the block before.
NextBlock == IF taken \in Uploads /\ block < Blocks
             THEN app' = "send" /\ block' = block + 1 /\ left' = (left \/ ~Finished')
             ELSE app' = "pend" /\ UNCHANGED <<block, left>>

\* Mutant: the old connection is kept.
ConnectKeeping(connected) ==
    /\ app = "send" /\ block = 0
    /\ is_connect' = connected
    /\ asked' = IF connected THEN Append(asked, <<taken, block>>) ELSE asked
    /\ UNCHANGED <<ring, ui, posting, posted, taken, half, wire, rx, slots, got, m_pSemphore,
                   decoded, missed>>
    /\ IF connected THEN app' = "written" /\ UNCHANGED <<block, left>> ELSE NextBlock

\* A new connection for every command: abort() throws the old one away with all
\* that came over it; it may not come about within 300 ms.
Connect(connected) ==
    /\ app = "send" /\ block = 0
    /\ is_connect' = connected /\ half' = FALSE /\ wire' = <<>> /\ rx' = <<>>
    /\ asked' = IF connected THEN <<<<taken, block>>>> ELSE <<>>
    /\ UNCHANGED <<ring, ui, posting, posted, taken, slots, got, m_pSemphore, decoded, missed>>
    /\ IF connected THEN app' = "written" /\ UNCHANGED <<block, left>> ELSE NextBlock

\* A block goes over the connection there is.
SendBlock ==
    /\ app = "send" /\ block > 0 /\ app' = "written"
    /\ asked' = IF is_connect THEN Append(asked, <<taken, block>>) ELSE asked
    /\ UNCHANGED <<ring, ui, posting, posted, taken, block, is_connect, half, wire, rx, slots, got,
                   m_pSemphore, decoded, left, missed>>

\* The socket reads what has come, and readyRead queues a slot.
SocketReads == /\ wire # <<>> /\ wire' = <<>> /\ rx' = rx \o wire /\ slots' = slots + 1
               /\ UNCHANGED <<is_connect, asked, half>>
SocketRests == UNCHANGED <<net, rx, slots>>

WaitForBytesWritten ==
    /\ app = "written" /\ app' = "read"
    /\ SocketReads \/ SocketRests
    /\ UNCHANGED <<ring, ui, posting, posted, taken, block, got, m_pSemphore, decoded, left,
                   missed>>

WaitForReadyRead ==
    /\ app = "read" /\ app' = "acquire"
    /\ SocketReads \/ (wire = <<>> /\ SocketRests)
    /\ UNCHANGED <<ring, ui, posting, posted, taken, block, got, m_pSemphore, decoded, left,
                   missed>>

\* Mutant: no slot is waited for.
AcquireNothing ==
    /\ app = "acquire"
    /\ m_pSemphore' = (IF m_pSemphore > 0 THEN m_pSemphore - 1 ELSE 0) /\ UNCHANGED missed
    /\ UNCHANGED <<ring, ui, posting, posted, taken, net, rx, slots, got, decoded>>
    /\ NextBlock

\* tryAcquire, ten seconds.
Acquire ==
    /\ app = "acquire"
    /\ \/ m_pSemphore > 0 /\ m_pSemphore' = m_pSemphore - 1 /\ UNCHANGED missed
       \/ m_pSemphore = 0 /\ missed' = TRUE /\ UNCHANGED m_pSemphore
    /\ UNCHANGED <<ring, ui, posting, posted, taken, net, rx, slots, got, decoded>>
    /\ NextBlock

-----------------------------------------------------------------------------
(* The other end answers in order, in its own time, or never.              *)

Arrives(part) == wire' = Append(wire, [of |-> Head(asked), part |-> part])

Answers ==
    /\ asked # <<>>
    /\ \/ ~half /\ Arrives("all") /\ asked' = Tail(asked) /\ UNCHANGED half
       \/ ~half /\ Arrives("first") /\ half' = TRUE /\ UNCHANGED asked
       \/ half /\ Arrives("last") /\ half' = FALSE /\ asked' = Tail(asked)
    /\ UNCHANGED <<ring, ui, posting, posted, app, taken, block, is_connect, rx, slots, got,
                   m_pSemphore, decoded, left, missed>>

Slot == SlotStarts \/ SlotReads \/ SlotGivesUp \/ SlotDecodes \/ SlotReleases
Window == QueuePost \/ Slot
Application == \/ PendFinds \/ QueuePend \/ (\E c \in BOOLEAN : Connect(c)) \/ SendBlock
               \/ WaitForBytesWritten \/ WaitForReadyRead \/ Acquire

Next == (\E c \in Commands : Give(c)) \/ Window \/ Application \/ Answers

\* Both threads run; neither the user nor the other end has to do anything.
Spec == Init /\ [][Next]_vars /\ WF_vars(Window) /\ WF_vars(Application)

-----------------------------------------------------------------------------
TypeOK ==
    /\ qinfo_ptr \in [0 .. MAX_QUEUE - 1 -> Commands \cup {None}]
    /\ m_nFreeList \in 0 .. MAX_QUEUE
    /\ {m_nWriteIndex, m_nReadIndex} \subseteq 0 .. MAX_QUEUE - 1
    /\ ui \in {"idle", "post", "reading", "decode", "release"}
    /\ app \in {"pend", "take", "send", "written", "read", "acquire"}
    /\ {posting, taken} \subseteq Commands \cup {None} /\ posted \subseteq Commands
    /\ block \in 0 .. Blocks
    /\ {is_connect, half, left, missed} \subseteq BOOLEAN
    /\ asked \in Seq(Exchange) /\ {wire, rx, got} \subseteq Seq(Piece)
    /\ {slots, m_pSemphore} \subseteq Nat
    /\ decoded \in {<<>>} \cup Exchange \X Exchange

\* An answer is decoded with the function of its own command, unless an exchange
\* began while a slot of the one before was still to run or had left a token.  If
\* moreover no exchange ended without a token and no slot without an answer, what
\* is decoded is the answer to the block sent last.
AnswerInStep == ~left /\ decoded # <<>> =>
                    /\ decoded[1][1] = decoded[2][1]
                    /\ ~missed => decoded[1] = decoded[2]

\* The ring is a first-in first-out channel between the two threads, though the
\* count is tested outside its lock, and every accepted command is taken: no
\* exchange keeps the application thread for ever.
Queued == [i \in 1 .. MAX_QUEUE - m_nFreeList |->
               qinfo_ptr[IF m_nReadIndex + i <= MAX_QUEUE THEN m_nReadIndex + i - 1
                         ELSE m_nReadIndex + i - 1 - MAX_QUEUE]]
Channel == INSTANCE FifoChannel WITH
               Items <- Commands, Takers <- {"app"}, Nothing <- None, chan <- Queued,
               result <- [t \in {"app"} |-> taken]
ImplementsChannel == Channel!Spec
=============================================================================
