------------------------------ MODULE ModbusRtu ------------------------------
(***************************************************************************)
(* The Modbus slave of main_process: the receive and transmit machines of  *)
(* mb/rtu/mbrtu.c, the threads and the signal handler of mb/port that run  *)
(* them, and eMBPoll of mb/mb.c, which the thread of mb_app.cpp calls.     *)
(*                                                                         *)
(* The receive thread calls the receive machine for every byte, and the    *)
(* handler of SIGALRM, which takes the end of a frame 200 microseconds     *)
(* after the last byte, may run at any of its steps. The thread of eMBPoll *)
(* checks, executes and answers what has been received, one event every    *)
(* 100 milliseconds, and the transmit thread sends the answer.  They share *)
(* one frame buffer and the states of both machines; nothing but           *)
(* eMBRTUSend and the signal handler takes the mutex.  A failed assert     *)
(* aborts the process.                                                     *)
(***************************************************************************)
EXTENDS ModbusRegisters, FiniteSets

CONSTANTS Frames,               \* frames that masters send, their CRC right
          Noise,                \* what else comes over the line
          MB_SER_PDU_SIZE_MAX,  \* bytes in the frame buffer
          ucMBAddress,          \* the address of this slave
          MaxBytes,             \* bound on the bytes that come, but for a first frame; a gap
                                \* counts as the shortest frame
          MaxGaps               \* bound on ends of frame in the middle of one

MB_SER_PDU_SIZE_MIN == 4
MB_ADDRESS_BROADCAST == 0
Lines == Frames \cup Noise

ASSUME FrameAssumption ==
    /\ Lines \subseteq Seq(Byte) /\ IsFiniteSet(Lines) /\ Frames # {}
    /\ MB_SER_PDU_SIZE_MAX \in Nat /\ MB_SER_PDU_SIZE_MAX > MB_SER_PDU_SIZE_MIN
    /\ ucMBAddress \in 1 .. 247
ASSUME BoundAssumption == {MaxBytes, MaxGaps} \subseteq Nat

VARIABLES line,              \* bytes of the frame on the line, still to come
          rx, ucByte,        \* where the receive machine is, and the byte it has read
          eRcvState, eSndState, ucRTUBuf, usRcvBufferPos, usSndBufferCount,
          timer,             \* the interval timer is running
          handler,           \* where the signal handler is
          queue,             \* the event queue
          ucRcvAddress, usLength,   \* eMBPoll: of the frame it accepted
          regs,              \* the register tables
          tx_check_semaphore, tty_tx_index,
          tx,                \* where the transmit thread is
          written,           \* bytes of each write to the tty
          aborted,           \* an assert has failed
          bytes, gaps,       \* bounds: bytes of the frames begun, gaps made so far
          expected,          \* history: whole frames for us at their end
          executed,          \* history: PDUs executed, as the buffer had them
          overrun            \* history: a byte came while a frame was handled, or the
                             \* timer was seen to while the receive machine was at work

line_vars  == <<line, bytes, gaps, rx, ucByte>>
buffer     == <<ucRTUBuf, usRcvBufferPos>>
poll_vars  == <<ucRcvAddress, usLength, regs, executed>>
tx_vars    == <<usSndBufferCount, tx_check_semaphore, tty_tx_index, tx, written>>
vars == <<line_vars, eRcvState, eSndState, buffer, timer, handler, queue, poll_vars, tx_vars,
          aborted, expected, overrun>>

Received == [i \in 1 .. usRcvBufferPos |-> ucRTUBuf[i - 1]]
Run == ~aborted

\* eMBRTUStart, after the port's threads have started.
Init == /\ line = <<>> /\ bytes = 0 /\ gaps = 0 /\ rx = "no" /\ ucByte = 0
        /\ eRcvState = "INIT" /\ eSndState = "TX_IDLE"
        /\ ucRTUBuf = [i \in 0 .. MB_SER_PDU_SIZE_MAX - 1 |-> 0]
        /\ usRcvBufferPos = 0 /\ usSndBufferCount = 0
        /\ timer = TRUE /\ handler = "no"
        /\ queue = <<>>
        /\ ucRcvAddress = 0 /\ usLength = 0
        /\ regs = [coils |-> usRegCoilBuf, holding |-> usRegHoldingBuf]
        /\ tx_check_semaphore = 0 /\ tty_tx_index = 0 /\ tx = "wait" /\ written = <<>>
        /\ aborted = FALSE
        /\ expected = <<>> /\ executed = <<>> /\ overrun = FALSE

Aborts == aborted' = TRUE /\ UNCHANGED <<eRcvState, eSndState, buffer, timer, handler, queue,
                                         poll_vars, tx_vars, expected>>

-----------------------------------------------------------------------------
(* The receive thread: xMBRTUReceiveFSM, for one byte.                     *)

\* Nothing of an earlier frame is left to do but to note that it was sent.
Quiet == /\ handler = "no" /\ tx = "wait" /\ tx_check_semaphore = 0
         /\ \A i \in DOMAIN queue : queue[i] \in {"READY", "FRAME_SENT"}

\* Between two calls, and no byte still to come.
Silent == line = <<>> /\ rx = "no"

\* The assert, the byte, and the switch.
Reads(byte) ==
    /\ eSndState = "TX_IDLE" /\ ucByte' = byte
    /\ rx' = CASE eRcvState \in {"INIT", "ERROR"} -> "enable"
               [] eRcvState = "IDLE" -> "first"
               [] eRcvState = "RCV"  -> "store"
    /\ UNCHANGED <<eRcvState, eSndState, buffer, timer, handler, queue, poll_vars, tx_vars, aborted,
                   expected>>

NextByte(rest) ==
    /\ rx = "no"
    /\ line' = Tail(rest)
    /\ overrun' = (overrun \/ ~Quiet)
    /\ \/ Reads(Head(rest))
       \/ eSndState # "TX_IDLE" /\ Aborts /\ UNCHANGED <<rx, ucByte>>

Receive == /\ Run
           /\ line # <<>> /\ NextByte(line)
           /\ UNCHANGED <<bytes, gaps>>

Spent == bytes + MB_SER_PDU_SIZE_MIN * gaps

BeginFrame(f) == /\ Run
                 /\ line = <<>> /\ (bytes = 0 \/ Spent + Len(f) <= MaxBytes)
                 /\ NextByte(f)
                 /\ bytes' = bytes + Len(f) /\ UNCHANGED gaps

Moves(at, to) == rx = at /\ rx' = to

Store(at) == /\ ucRTUBuf' = [ucRTUBuf EXCEPT ![at] = ucByte]
             /\ usRcvBufferPos' = at + 1

\* What the machine does with the byte, a step at a time.
xMBRTUReceiveFSM ==
    /\ Run
    /\ \/ Moves("first", "begin") /\ Store(0) /\ UNCHANGED <<eRcvState, timer>>
       \/ Moves("begin", "enable") /\ eRcvState' = "RCV" /\ UNCHANGED <<buffer, timer>>
       \/ /\ Moves("store", "enable") /\ usRcvBufferPos < MB_SER_PDU_SIZE_MAX
          /\ Store(usRcvBufferPos) /\ UNCHANGED <<eRcvState, timer>>
       \/ /\ Moves("store", "enable") /\ usRcvBufferPos >= MB_SER_PDU_SIZE_MAX
          /\ eRcvState' = "ERROR" /\ UNCHANGED <<buffer, timer>>
       \/ Moves("enable", "no") /\ timer' = TRUE /\ UNCHANGED <<eRcvState, buffer>>
    /\ UNCHANGED <<line, bytes, gaps, ucByte, eSndState, handler, queue, poll_vars, tx_vars, aborted,
                   expected, overrun>>

Receiver == Receive \/ xMBRTUReceiveFSM

-----------------------------------------------------------------------------
(* vTimerCallback, the handler of SIGALRM: xMBRTUTimerT35Expired posts,    *)
(* stops the timer and makes the receiver idle, in this order.             *)

Ours(address) == address \in {ucMBAddress, MB_ADDRESS_BROADCAST}
Request(s)    == <<s[1], SubSeq(s, 2, Len(s) - 2)>>

\* The frame in the buffer has the right CRC.
Intact == usRcvBufferPos >= MB_SER_PDU_SIZE_MIN /\ Received \in Frames

TimerExpires ==
    /\ Run /\ timer /\ handler = "no"
    /\ \/ Silent /\ UNCHANGED gaps
       \/ ~Silent /\ gaps < MaxGaps /\ Spent + MB_SER_PDU_SIZE_MIN <= MaxBytes /\ gaps' = gaps + 1
    /\ overrun' = (overrun \/ rx # "no")
    /\ UNCHANGED <<line, bytes, rx, ucByte>>
    /\ \/ /\ eRcvState # "IDLE"
          /\ timer' = FALSE /\ handler' = "posted"
          /\ queue' = CASE eRcvState = "INIT"  -> Append(queue, "READY")
                        [] eRcvState = "RCV"   -> Append(queue, "FRAME_RECEIVED")
                        [] eRcvState = "ERROR" -> queue
          /\ expected' = IF eRcvState = "RCV" /\ Intact /\ Ours(ucRTUBuf[0])
                         THEN Append(expected, Request(Received)) ELSE expected
          /\ UNCHANGED <<eRcvState, eSndState, buffer, poll_vars, tx_vars, aborted>>
       \/ eRcvState = "IDLE" /\ Aborts

HandlerStops ==
    /\ Run /\ handler = "posted"
    /\ timer' = FALSE /\ handler' = "stopped"
    /\ UNCHANGED <<line_vars, eRcvState, eSndState, buffer, queue, poll_vars, tx_vars, aborted,
                   expected, overrun>>

HandlerIdles ==
    /\ Run /\ handler = "stopped"
    /\ eRcvState' = "IDLE" /\ handler' = "no"
    /\ UNCHANGED <<line_vars, eSndState, buffer, timer, queue, poll_vars, tx_vars, aborted,
                   expected, overrun>>

-----------------------------------------------------------------------------
(* eMBPoll: one event a call.  The signal handler holds the mutex that     *)
(* eMBRTUReceive and eMBRTUSend take.                                      *)

PollNothing ==
    /\ Run /\ queue # <<>> /\ Head(queue) \in {"READY", "FRAME_SENT"}
    /\ queue' = Tail(queue)
    /\ UNCHANGED <<line_vars, eRcvState, eSndState, buffer, timer, handler, poll_vars, tx_vars,
                   aborted, expected, overrun>>

\* Mutant: the address is not looked at.
PollReceivedAny ==
    /\ Run /\ handler = "no" /\ queue # <<>> /\ Head(queue) = "FRAME_RECEIVED"
    /\ UNCHANGED <<line_vars, overrun>>
    /\ \/ /\ usRcvBufferPos < MB_SER_PDU_SIZE_MAX
          /\ IF Intact THEN /\ ucRcvAddress' = ucRTUBuf[0] /\ usLength' = usRcvBufferPos - 3
                       ELSE UNCHANGED <<ucRcvAddress, usLength>>
          /\ queue' = IF Intact THEN Append(Tail(queue), "EXECUTE") ELSE Tail(queue)
          /\ UNCHANGED <<eRcvState, eSndState, buffer, timer, handler, regs, executed, tx_vars,
                         aborted, expected>>
       \/ usRcvBufferPos >= MB_SER_PDU_SIZE_MAX /\ Aborts

\* Mutant: a broadcast is taken for a frame of another slave.
PollReceivedOwn ==
    /\ Run /\ handler = "no" /\ queue # <<>> /\ Head(queue) = "FRAME_RECEIVED"
    /\ UNCHANGED <<line_vars, overrun>>
    /\ \/ /\ usRcvBufferPos < MB_SER_PDU_SIZE_MAX
          /\ IF Intact THEN /\ ucRcvAddress' = ucRTUBuf[0] /\ usLength' = usRcvBufferPos - 3
                       ELSE UNCHANGED <<ucRcvAddress, usLength>>
          /\ queue' = IF Intact /\ ucRTUBuf[0] = ucMBAddress THEN Append(Tail(queue), "EXECUTE")
                      ELSE Tail(queue)
          /\ UNCHANGED <<eRcvState, eSndState, buffer, timer, handler, regs, executed, tx_vars,
                         aborted, expected>>
       \/ usRcvBufferPos >= MB_SER_PDU_SIZE_MAX /\ Aborts

\* eMBRTUReceive, and the look at the address.
PollReceived ==
    /\ Run /\ handler = "no" /\ queue # <<>> /\ Head(queue) = "FRAME_RECEIVED"
    /\ UNCHANGED <<line_vars, overrun>>
    /\ \/ /\ usRcvBufferPos < MB_SER_PDU_SIZE_MAX
          /\ IF Intact THEN /\ ucRcvAddress' = ucRTUBuf[0] /\ usLength' = usRcvBufferPos - 3
                       ELSE UNCHANGED <<ucRcvAddress, usLength>>
          /\ queue' = IF Intact /\ Ours(ucRTUBuf[0]) THEN Append(Tail(queue), "EXECUTE")
                      ELSE Tail(queue)
          /\ UNCHANGED <<eRcvState, eSndState, buffer, timer, handler, regs, executed, tx_vars,
                         aborted, expected>>
       \/ usRcvBufferPos >= MB_SER_PDU_SIZE_MAX /\ Aborts

\* The CRC of an answer that repeats its request is that of the request; any
\* other is of no account to what follows.
CrcOf(buf, n) ==
    LET same == {f \in Frames : Len(f) = n + 2 /\ \A i \in 1 .. n : f[i] = buf[i - 1]}
    IN  IF same = {} THEN <<0, 0>>
        ELSE SubSeq(CHOOSE f \in same : TRUE, n + 1, n + 2)

\* eMBRTUSend, with the answer of len bytes in buf.
eMBRTUSend(buf, len) ==
    IF eRcvState = "IDLE"
    THEN LET addressed == [buf EXCEPT ![0] = ucMBAddress]
         IN  /\ ucRTUBuf' = Put(addressed, len + 1, CrcOf(addressed, len + 1))
             /\ usSndBufferCount' = len + 3
             /\ eSndState' = "TX_XMIT"
             /\ tty_tx_index' = 0 /\ tx_check_semaphore' = tx_check_semaphore + 1
    ELSE ucRTUBuf' = buf /\ UNCHANGED <<usSndBufferCount, eSndState, tty_tx_index, tx_check_semaphore>>

\* The error frame, when the handler returns an exception.
Answer(result) ==
    IF result.exception = NONE THEN result
    ELSE [result EXCEPT !.len = 2,
             !.buf = Put(@, 1, <<128 + (ucRTUBuf[1] % 128), result.exception>>)]

Executing == Run /\ handler = "no" /\ queue # <<>> /\ Head(queue) = "EXECUTE"

\* The handler of the function.
Executes(result) ==
    /\ queue' = Tail(queue)
    /\ executed' = Append(executed, <<ucRcvAddress, [i \in 1 .. usLength |-> ucRTUBuf[i]]>>)
    /\ regs' = result.regs
    /\ UNCHANGED <<line_vars, eRcvState, usRcvBufferPos, timer, handler, ucRcvAddress, tx,
                   written, aborted, expected, overrun>>

\* A broadcast.
Unanswered(result) ==
    /\ ucRcvAddress = MB_ADDRESS_BROADCAST
    /\ usLength' = result.len /\ ucRTUBuf' = result.buf
    /\ UNCHANGED <<usSndBufferCount, eSndState, tty_tx_index, tx_check_semaphore>>

Answered(answer) == ucRcvAddress # MB_ADDRESS_BROADCAST /\ usLength' = answer.len

PollExecute ==
    /\ Executing
    /\ \E result \in {Handle(ucRTUBuf, usLength, regs)} :
           /\ Executes(result)
           /\ \/ Unanswered(result)
              \/ \E answer \in {Answer(result)} :
                     Answered(answer) /\ eMBRTUSend(answer.buf, answer.len)

-----------------------------------------------------------------------------
(* The transmit thread: port_tty_tx_thread around xMBRTUTransmitFSM.       *)

TxWake ==
    /\ Run /\ tx = "wait" /\ tx_check_semaphore > 0
    /\ tx_check_semaphore' = tx_check_semaphore - 1 /\ tx' = "loop"
    /\ UNCHANGED <<line_vars, eRcvState, eSndState, buffer, timer, handler, queue, poll_vars,
                   usSndBufferCount, tty_tx_index, written, aborted, expected, overrun>>

TxByte ==
    /\ Run /\ tx = "loop" /\ eRcvState = "IDLE"
    /\ eSndState = "TX_XMIT" /\ usSndBufferCount # 0
    /\ usSndBufferCount' = usSndBufferCount - 1 /\ tty_tx_index' = tty_tx_index + 1
    /\ UNCHANGED <<line_vars, eRcvState, eSndState, buffer, timer, handler, queue, poll_vars,
                   tx_check_semaphore, tx, written, aborted, expected, overrun>>

\* The event is posted before the transmitter is idle.
TxPosts ==
    /\ Run /\ tx = "loop" /\ eRcvState = "IDLE"
    /\ eSndState = "TX_XMIT" /\ usSndBufferCount = 0
    /\ queue' = Append(queue, "FRAME_SENT") /\ tx' = "posted"
    /\ UNCHANGED <<line_vars, eRcvState, eSndState, buffer, timer, handler, poll_vars,
                   usSndBufferCount, tx_check_semaphore, tty_tx_index, written, aborted,
                   expected, overrun>>

\* Mutant: the transmitter is not made idle.
TxIdlesBusy ==
    /\ Run /\ tx = "posted"
    /\ tty_tx_index' = 0 /\ tx' = "write"
    /\ UNCHANGED <<line_vars, eRcvState, eSndState, buffer, timer, handler, queue, poll_vars,
                   usSndBufferCount, tx_check_semaphore, written, aborted, expected, overrun>>

\* vMBPortSerialEnable(TRUE, FALSE) clears the index.
TxIdles ==
    /\ Run /\ tx = "posted"
    /\ tty_tx_index' = 0 /\ eSndState' = "TX_IDLE" /\ tx' = "write"
    /\ UNCHANGED <<line_vars, eRcvState, buffer, timer, handler, queue, poll_vars,
                   usSndBufferCount, tx_check_semaphore, written, aborted, expected, overrun>>

TxWrites ==
    /\ Run /\ tx = "write"
    /\ written' = Append(written, tty_tx_index) /\ tx' = "wait"
    /\ UNCHANGED <<line_vars, eRcvState, eSndState, buffer, timer, handler, queue, poll_vars,
                   usSndBufferCount, tx_check_semaphore, tty_tx_index, aborted, expected, overrun>>

\* Woken with nothing to send, the thread never leaves its loop.
TxSpins ==
    /\ Run /\ tx = "loop" /\ eRcvState = "IDLE" /\ eSndState = "TX_IDLE"
    /\ tty_tx_index' = 0
    /\ UNCHANGED <<line_vars, eRcvState, eSndState, buffer, timer, handler, queue, poll_vars,
                   usSndBufferCount, tx_check_semaphore, tx, written, aborted, expected, overrun>>

TxAborts ==
    /\ Run /\ tx = "loop" /\ eRcvState # "IDLE"
    /\ Aborts /\ UNCHANGED <<line_vars, overrun>>

Tx == TxWake \/ TxByte \/ TxPosts \/ TxIdles \/ TxWrites \/ TxSpins \/ TxAborts
Handler == TimerExpires \/ HandlerStops \/ HandlerIdles
Poll == PollNothing \/ PollReceived \/ PollExecute

Next == Receiver \/ (\E f \in Lines : BeginFrame(f)) \/ Handler \/ Poll \/ Tx

\* The threads run, the rest of a frame follows, the timer expires when the
\* line is silent.
Fairness == /\ WF_vars(Receiver) /\ WF_vars(TimerExpires /\ Silent)
            /\ WF_vars(HandlerStops \/ HandlerIdles) /\ WF_vars(Poll) /\ WF_vars(Tx)
Spec == Init /\ [][Next]_vars /\ Fairness

-----------------------------------------------------------------------------
Events == {"READY", "FRAME_RECEIVED", "EXECUTE", "FRAME_SENT"}

TypeOK ==
    /\ eRcvState \in {"INIT", "IDLE", "RCV", "ERROR"} /\ eSndState \in {"TX_IDLE", "TX_XMIT"}
    /\ ucRTUBuf \in [0 .. MB_SER_PDU_SIZE_MAX - 1 -> Byte]
    /\ usRcvBufferPos \in 0 .. MB_SER_PDU_SIZE_MAX
    /\ usSndBufferCount \in 0 .. MB_SER_PDU_SIZE_MAX + 3
    /\ timer \in BOOLEAN /\ aborted \in BOOLEAN /\ overrun \in BOOLEAN
    /\ handler \in {"no", "posted", "stopped"} /\ tx \in {"wait", "loop", "posted", "write"}
    /\ queue \in Seq(Events) /\ written \in Seq(Nat) /\ line \in Seq(Byte)
    /\ rx \in {"no", "first", "begin", "store", "enable"} /\ ucByte \in Byte
    /\ ucRcvAddress \in Byte /\ usLength \in Nat /\ regs \in Regs
    /\ {tx_check_semaphore, tty_tx_index, bytes, gaps} \subseteq Nat

\* While no byte comes before the frame in front of it is done with, nor the
\* timer expires in the middle of the receive machine, the PDUs
\* that eMBPoll executes are those of the whole frames for this slave, each
\* once and in order, as they were in the buffer when they ended.
ExecutedInOrder ==
    ~overrun => /\ Len(executed) <= Len(expected)
                /\ executed = SubSeq(expected, 1, Len(executed))

\* The asserts of mbrtu.c fail only when a byte comes while a frame is handled,
\* when the timer expires while the receive machine is at work on a byte, which
\* starts it again, or when a frame fills the buffer to its last byte.
AbortsOnlyEarly == aborted => overrun \/ usRcvBufferPos = MB_SER_PDU_SIZE_MAX

\* An executed request leaves in the tables and in the answer what the master
\* asked for; one outside the tables leaves them alone, but for the write of a
\* read and write; no broadcast is answered.
CarriesOut ==
    LET req == [i \in 1 .. usLength |-> ucRTUBuf[i]]
    IN  IF req[1] = 17 \/ (req[1] \in {1, 2, 3, 4, 5, 6, 15, 16, 23} /\ Inside(req))
        THEN CarriedOut(req, regs, regs', ucRTUBuf')
        ELSE /\ req[1] # 23 => regs' = regs
             /\ ucRcvAddress # MB_ADDRESS_BROADCAST => ucRTUBuf'[1] >= 128
ExecutesAsAsked ==
    [][ executed' # executed /\ ~overrun
        => /\ CarriesOut
           /\ (eSndState' # "TX_IDLE") = (ucRcvAddress # MB_ADDRESS_BROADCAST) ]_vars

\* Every whole frame for this slave is executed, and every answer is taken to
\* its write, unless a byte came too early.
Answers(n) == Len(SelectSeq(SubSeq(executed, 1, n), LAMBDA r : r[1] = ucMBAddress))
RequestsFinished ==
    \A n \in 1 .. MaxBytes \div MB_SER_PDU_SIZE_MIN :
        Len(expected) >= n ~> \/ overrun \/ aborted
                              \/ Len(executed) >= n /\ Len(written) >= Answers(n)

\* EV_FRAME_SENT: "Frame sent" (mbport.h).
SentIsWritten == \A i \in DOMAIN written : written[i] > 0
=============================================================================
