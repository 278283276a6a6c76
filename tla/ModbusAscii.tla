----------------------------- MODULE ModbusAscii -----------------------------
(***************************************************************************)
(* The Modbus slave in its ASCII mode (mb/ascii/mbascii.c).  The port, the *)
(* event queue, the frame buffer and eMBPoll are those of ModbusRtu.  A    *)
(* frame is a text, ':', two digits a byte, CR and LF; it ends with its LF, *)
(* and the timer gives up one in which a character is missing.             *)
(*                                                                         *)
(* A character is its value if it is a digit, or one of the four below.    *)
(***************************************************************************)
EXTENDS ModbusRtu

CONSTANTS Texts,      \* what comes over the line
          MaxChars    \* bound on the characters that come, but for a first text; a gap
                      \* counts as MB_ASCII_PDU_SIZE_MIN of them

Digit == 0 .. 15
COLON == 16
CR    == 17
LF    == 18
STRAY == 19
MB_ASCII_PDU_SIZE_MIN == 3

ASSUME TextAssumption == /\ Texts \subseteq Seq(Digit \cup {COLON, CR, LF, STRAY})
                         /\ IsFiniteSet(Texts) /\ <<>> \notin Texts /\ MaxChars \in Nat

\* The longest answer, with address and checksum, is no longer than the frame buffer.
ASSUME AnswerAssumption == \/ MB_SER_PDU_SIZE_MAX >= 254
                           \/ {4 + BIT_NREGS, 4 + 2 * WORD_NREGS} \subseteq 0 .. MB_SER_PDU_SIZE_MAX

VARIABLES eBytePos, pucSndBufferCur, tty_tx_buffer,
          text,      \* history: the characters since the last ':', unless timed out
          mishaps    \* history: "stray", a CR was followed by anything but LF or ':';
                     \* "late", the receive machine was at work on a character between
                     \* the timeout and its handling;
                     \* "misread", the checksum did not give away what is no digit

ascii     == <<eBytePos, pucSndBufferCur, tty_tx_buffer, text, mishaps>>
asciiVars == <<vars, ascii>>

TextInit == /\ eBytePos = "HIGH" /\ pucSndBufferCur = 0 /\ tty_tx_buffer = <<>>
            /\ text = <<>> /\ mishaps = {}

\* eMBASCIIStart.
AsciiInit == /\ line = <<>> /\ bytes = 0 /\ gaps = 0 /\ rx = "no" /\ ucByte = 0
             /\ eRcvState = "IDLE" /\ eSndState = "TX_IDLE"
             /\ ucRTUBuf = [i \in 0 .. MB_SER_PDU_SIZE_MAX - 1 |-> 0]
             /\ usRcvBufferPos = 0 /\ usSndBufferCount = 0
             /\ timer = FALSE /\ handler = "no"
             /\ queue = <<"READY">>
             /\ ucRcvAddress = 0 /\ usLength = 0
             /\ regs = [coils |-> usRegCoilBuf, holding |-> usRegHoldingBuf]
             /\ tx_check_semaphore = 0 /\ tty_tx_index = 0 /\ tx = "wait" /\ written = <<>>
             /\ aborted = FALSE
             /\ expected = <<>> /\ executed = <<>> /\ overrun = FALSE
             /\ TextInit

Sum(s) == LET sum[n \in 0 .. Len(s)] == IF n = 0 THEN 0 ELSE (sum[n - 1] + s[n]) % 256
          IN  sum[Len(s)]
\* Appended to the bytes it makes their sum zero.
prvucMBLRC(s) == (256 - Sum(s)) % 256
prvucMBCHAR2BIN(char) == IF char \in Digit THEN char ELSE 255

\* |, of bytes.
Or(a, b) == LET bit(k) == IF 1 \in {(a \div 2^k) % 2, (b \div 2^k) % 2} THEN 2^k ELSE 0
            IN  bit(0) + bit(1) + bit(2) + bit(3) + bit(4) + bit(5) + bit(6) + bit(7)

\* What a text between ':' and LF says: the digits in pairs, a last odd one is ignored.
BytesOf(t) == [i \in 1 .. (Len(t) - 3) \div 2 |-> 16 * t[2 * i] + t[2 * i + 1]]
IsFrame(t) ==
    /\ Len(t) \in 9 .. 2 * MB_SER_PDU_SIZE_MAX + 3 /\ t[1] = COLON /\ t[Len(t) - 1] = CR /\ t[Len(t)] = LF
    /\ \A i \in 2 .. Len(t) - 2 : t[i] \in Digit
    /\ Sum(BytesOf(t)) = 0
AsciiRequest(t) == <<BytesOf(t)[1], SubSeq(BytesOf(t), 2, Len(BytesOf(t)) - 1)>>

-----------------------------------------------------------------------------
(* The receive thread: xMBASCIIReceiveFSM, for one character.              *)

\* eMBASCIIReceive will find the checksum right.
Accepted == usRcvBufferPos >= MB_ASCII_PDU_SIZE_MIN /\ prvucMBLRC(Received) = 0

\* The history of a character that the machine is done with.
Ends(char) ==
    /\ text' = IF char = COLON THEN <<COLON>> ELSE IF text = <<>> THEN <<>> ELSE Append(text, char)
    /\ expected' = IF IsFrame(text') /\ Ours(BytesOf(text')[1])
                   THEN Append(expected, AsciiRequest(text')) ELSE expected
Misread == Accepted /\ \E i \in 2 .. Len(text) - 1 : text[i] \notin Digit

\* The assert, the character, and the switch: between two frames all but ':' is ignored.
ReadsChar(char) ==
    /\ eSndState = "TX_IDLE" /\ ucByte' = char
    /\ mishaps' = mishaps \cup (IF handler = "called" THEN {"late"} ELSE {})
    /\ rx' = CASE eRcvState = "RCV" -> "enable"
               [] eRcvState = "WAIT_EOF" /\ char = LF -> "disable"
               [] eRcvState = "WAIT_EOF" /\ char = COLON -> "clear"
               [] eRcvState = "WAIT_EOF" /\ char \notin {LF, COLON} -> "delete"
               [] eRcvState = "IDLE" /\ char = COLON -> "start"
               [] eRcvState = "IDLE" /\ char # COLON -> "no"
    /\ IF rx' = "no" THEN Ends(char) ELSE UNCHANGED <<text, expected>>
    /\ UNCHANGED <<eRcvState, eSndState, buffer, timer, handler, queue, poll_vars, tx_vars, aborted,
                   eBytePos, pucSndBufferCur, tty_tx_buffer>>

Clears == usRcvBufferPos' = 0 /\ eBytePos' = "HIGH" /\ UNCHANGED ucRTUBuf

\* A digit, unless the buffer is full.
StoresDigit(value) ==
    \/ /\ eBytePos = "HIGH" /\ usRcvBufferPos < MB_SER_PDU_SIZE_MAX
       /\ ucRTUBuf' = [ucRTUBuf EXCEPT ![usRcvBufferPos] = (16 * value) % 256]
       /\ eBytePos' = "LOW" /\ UNCHANGED usRcvBufferPos
    \/ /\ eBytePos = "LOW"
       /\ ucRTUBuf' = [ucRTUBuf EXCEPT ![usRcvBufferPos] = Or(@, value)]
       /\ usRcvBufferPos' = usRcvBufferPos + 1 /\ eBytePos' = "HIGH"
TooMany == eBytePos = "HIGH" /\ usRcvBufferPos >= MB_SER_PDU_SIZE_MAX

\* RCV: the timer, then the character.
Receives ==
    \/ /\ Moves("enable", "store") /\ timer' = TRUE
       /\ UNCHANGED <<eRcvState, buffer, eBytePos, queue>>
    \/ /\ Moves("store", "no") /\ ucByte = COLON /\ Clears
       /\ UNCHANGED <<eRcvState, timer, queue>>
    \/ /\ Moves("store", "no") /\ ucByte = CR /\ eRcvState' = "WAIT_EOF"
       /\ UNCHANGED <<buffer, eBytePos, timer, queue>>
    \/ /\ Moves("store", "no") /\ ucByte \notin {COLON, CR} /\ StoresDigit(prvucMBCHAR2BIN(ucByte))
       /\ UNCHANGED <<eRcvState, timer, queue>>
    \/ /\ Moves("store", "overflow") /\ ucByte \notin {COLON, CR} /\ TooMany /\ eRcvState' = "IDLE"
       /\ UNCHANGED <<buffer, eBytePos, timer, queue>>
    \/ /\ Moves("overflow", "no") /\ timer' = FALSE
       /\ UNCHANGED <<eRcvState, buffer, eBytePos, queue>>

\* WAIT_EOF: LF ends the frame, ':' begins another; anything else deletes it
\* and leaves the timer on.
WaitsForEnd ==
    \/ /\ Moves("disable", "idle") /\ timer' = FALSE
       /\ UNCHANGED <<eRcvState, buffer, eBytePos, queue>>
    \/ /\ Moves("idle", "post") /\ eRcvState' = "IDLE"
       /\ UNCHANGED <<buffer, eBytePos, timer, queue>>
    \/ /\ Moves("post", "no") /\ queue' = Append(queue, "FRAME_RECEIVED")
       /\ UNCHANGED <<eRcvState, buffer, eBytePos, timer>>
    \/ /\ Moves("clear", "begin") /\ Clears /\ UNCHANGED <<eRcvState, timer, queue>>
    \/ /\ Moves("begin", "time") /\ eRcvState' = "RCV"
       /\ UNCHANGED <<buffer, eBytePos, timer, queue>>
    \/ /\ Moves("time", "no") /\ timer' = TRUE
       /\ UNCHANGED <<eRcvState, buffer, eBytePos, queue>>
    \/ /\ Moves("delete", "no") /\ eRcvState' = "IDLE"
       /\ UNCHANGED <<buffer, eBytePos, timer, queue>>

\* IDLE: ':' begins a frame.
BeginsFrame ==
    \/ /\ Moves("start", "reset") /\ timer' = TRUE
       /\ UNCHANGED <<eRcvState, buffer, eBytePos, queue>>
    \/ /\ Moves("reset", "receive") /\ Clears /\ UNCHANGED <<eRcvState, timer, queue>>
    \/ /\ Moves("receive", "no") /\ eRcvState' = "RCV"
       /\ UNCHANGED <<buffer, eBytePos, timer, queue>>

\* What the machine does with the character, a step at a time.
xMBASCIIReceiveFSM ==
    /\ Run /\ (Receives \/ WaitsForEnd \/ BeginsFrame)
    /\ IF rx' = "no" THEN Ends(ucByte) ELSE UNCHANGED <<text, expected>>
    /\ mishaps' = mishaps \cup (IF rx = "delete" THEN {"stray"} ELSE {})
                           \cup (IF rx = "post" /\ Misread THEN {"misread"} ELSE {})
    /\ UNCHANGED <<line, bytes, gaps, ucByte, eSndState, handler, poll_vars, tx_vars, aborted, overrun,
                   pucSndBufferCur, tty_tx_buffer>>

\* Nothing of an earlier frame is left to do but to note that it was sent.
Ready == /\ tx = "wait" /\ tx_check_semaphore = 0
         /\ \A i \in DOMAIN queue : queue[i] \in {"READY", "FRAME_SENT"}

NextChar(rest) ==
    /\ rx = "no"
    /\ line' = Tail(rest)
    /\ overrun' = (overrun \/ ~Ready)
    /\ \/ ReadsChar(Head(rest))
       \/ eSndState # "TX_IDLE" /\ Aborts /\ UNCHANGED <<rx, ucByte, ascii>>

AsciiReceive == Run /\ line # <<>> /\ NextChar(line) /\ UNCHANGED <<bytes, gaps>>

CharsSpent == bytes + MB_ASCII_PDU_SIZE_MIN * gaps

BeginText(t) == /\ Run
                /\ line = <<>> /\ (bytes = 0 \/ CharsSpent + Len(t) <= MaxChars)
                /\ NextChar(t)
                /\ bytes' = bytes + Len(t) /\ UNCHANGED gaps

AsciiReceiver == AsciiReceive \/ xMBASCIIReceiveFSM

-----------------------------------------------------------------------------
(* The handler of SIGALRM: it is called, takes the mutex and looks at the  *)
(* state (xMBASCIITimerT1SExpired), and stops the timer.                   *)

AsciiExpires ==
    /\ Run /\ timer /\ handler = "no"
    /\ timer' = FALSE /\ handler' = "called"
    /\ \/ Silent /\ UNCHANGED gaps
       \/ /\ ~Silent /\ gaps < MaxGaps /\ CharsSpent + MB_ASCII_PDU_SIZE_MIN <= MaxChars
          /\ gaps' = gaps + 1
    /\ mishaps' = IF rx = "no" THEN mishaps ELSE mishaps \cup {"late"}
    /\ UNCHANGED <<line, bytes, rx, ucByte, eRcvState, eSndState, buffer, queue, poll_vars, tx_vars,
                   aborted, expected, overrun, eBytePos, pucSndBufferCur, tty_tx_buffer, text>>

GivesUp ==
    /\ Run /\ handler = "called"
    /\ overrun' = (overrun \/ rx # "no")
    /\ UNCHANGED line_vars
    /\ \/ /\ eRcvState \in {"RCV", "WAIT_EOF"} /\ eRcvState' = "IDLE" /\ handler' = "stopping"
          /\ text' = <<>>
          /\ UNCHANGED <<eSndState, buffer, timer, queue, poll_vars, tx_vars, aborted, expected,
                         eBytePos, pucSndBufferCur, tty_tx_buffer, mishaps>>
       \/ eRcvState = "IDLE" /\ Aborts /\ UNCHANGED ascii

AsciiStops ==
    /\ Run /\ handler = "stopping"
    /\ timer' = FALSE /\ handler' = "no"
    /\ UNCHANGED <<line_vars, eRcvState, eSndState, buffer, queue, poll_vars, tx_vars, aborted,
                   expected, overrun, ascii>>

AsciiHandler == GivesUp \/ AsciiStops

-----------------------------------------------------------------------------
(* eMBPoll, with eMBASCIIReceive and eMBASCIISend.                         *)

\* eMBASCIIReceive, and the look at the address.
AsciiPollReceived ==
    /\ Run /\ handler = "no" /\ queue # <<>> /\ Head(queue) = "FRAME_RECEIVED"
    /\ UNCHANGED <<line_vars, overrun, ascii>>
    /\ \/ /\ usRcvBufferPos < MB_SER_PDU_SIZE_MAX
          /\ IF Accepted THEN ucRcvAddress' = ucRTUBuf[0] /\ usLength' = usRcvBufferPos - 2
                         ELSE UNCHANGED <<ucRcvAddress, usLength>>
          /\ queue' = IF Accepted /\ Ours(ucRTUBuf[0]) THEN Append(Tail(queue), "EXECUTE")
                      ELSE Tail(queue)
          /\ UNCHANGED <<eRcvState, eSndState, buffer, timer, handler, regs, executed, tx_vars,
                         aborted, expected>>
       \/ usRcvBufferPos >= MB_SER_PDU_SIZE_MAX /\ Aborts

\* Mutant: the checksum leaves out the last byte.
eMBASCIISendShort(buf, len) ==
    IF eRcvState = "IDLE"
    THEN LET addressed == [buf EXCEPT ![0] = ucMBAddress]
         IN  /\ ucRTUBuf' = [addressed EXCEPT ![len + 1] =
                                 prvucMBLRC([i \in 1 .. len |-> addressed[i - 1]])]
             /\ usSndBufferCount' = len + 2
             /\ eSndState' = "TX_START"
             /\ tty_tx_index' = 0 /\ tx_check_semaphore' = tx_check_semaphore + 1
    ELSE ucRTUBuf' = buf /\ UNCHANGED <<usSndBufferCount, eSndState, tty_tx_index, tx_check_semaphore>>

\* eMBASCIISend, with the answer of len bytes in buf.
eMBASCIISend(buf, len) ==
    IF eRcvState = "IDLE"
    THEN LET addressed == [buf EXCEPT ![0] = ucMBAddress]
         IN  /\ ucRTUBuf' = [addressed EXCEPT ![len + 1] =
                                 prvucMBLRC([i \in 1 .. len + 1 |-> addressed[i - 1]])]
             /\ usSndBufferCount' = len + 2
             /\ eSndState' = "TX_START"
             /\ tty_tx_index' = 0 /\ tx_check_semaphore' = tx_check_semaphore + 1
    ELSE ucRTUBuf' = buf /\ UNCHANGED <<usSndBufferCount, eSndState, tty_tx_index, tx_check_semaphore>>

AsciiPollExecute ==
    /\ Executing
    /\ \E result \in {Handle(ucRTUBuf, usLength, regs)} :
           /\ Executes(result)
           /\ \/ Unanswered(result)
              \/ \E answer \in {Answer(result)} :
                     Answered(answer) /\ eMBASCIISend(answer.buf, answer.len)
    /\ pucSndBufferCur' = IF eSndState' = "TX_START" THEN 0 ELSE pucSndBufferCur
    /\ UNCHANGED <<eBytePos, tty_tx_buffer, text, mishaps>>

AsciiPoll == \/ AsciiPollReceived \/ AsciiPollExecute
             \/ PollNothing /\ UNCHANGED ascii

-----------------------------------------------------------------------------
(* The transmit thread: port_tty_tx_thread around xMBASCIITransmitFSM.     *)

\* xMBPortSerialPutByte.
Puts(char) ==
    /\ tty_tx_buffer' = Append(SubSeq(tty_tx_buffer, 1, tty_tx_index), char)
    /\ tty_tx_index' = tty_tx_index + 1

\* TX_DATA: the digits of a byte, the high one first.
PutsDigit ==
    \/ /\ eBytePos = "HIGH" /\ Puts(ucRTUBuf[pucSndBufferCur] \div 16)
       /\ eBytePos' = "LOW" /\ UNCHANGED <<pucSndBufferCur, usSndBufferCount>>
    \/ /\ eBytePos = "LOW" /\ Puts(ucRTUBuf[pucSndBufferCur] % 16)
       /\ eBytePos' = "HIGH" /\ pucSndBufferCur' = pucSndBufferCur + 1
       /\ usSndBufferCount' = usSndBufferCount - 1

xMBASCIITransmitFSM ==
    /\ Run /\ tx = "loop" /\ eRcvState = "IDLE"
    /\ \/ /\ eSndState = "TX_START" /\ Puts(COLON)
          /\ eSndState' = "TX_DATA" /\ eBytePos' = "HIGH"
          /\ UNCHANGED <<usSndBufferCount, pucSndBufferCur>>
       \/ /\ eSndState = "TX_DATA" /\ usSndBufferCount > 0 /\ PutsDigit
          /\ UNCHANGED eSndState
       \/ /\ eSndState = "TX_DATA" /\ usSndBufferCount = 0 /\ Puts(CR)
          /\ eSndState' = "TX_END" /\ UNCHANGED <<eBytePos, usSndBufferCount, pucSndBufferCur>>
       \/ /\ eSndState = "TX_END" /\ Puts(LF)
          /\ eSndState' = "TX_NOTIFY" /\ UNCHANGED <<eBytePos, usSndBufferCount, pucSndBufferCur>>
    /\ UNCHANGED <<line_vars, eRcvState, buffer, timer, handler, queue, poll_vars,
                   tx_check_semaphore, tx, written, aborted, expected, overrun, text, mishaps>>

\* TX_NOTIFY: the transmitter is idle before the event is posted.
Notifies ==
    /\ Run /\ tx = "loop" /\ eRcvState = "IDLE" /\ eSndState = "TX_NOTIFY"
    /\ eSndState' = "TX_IDLE" /\ queue' = Append(queue, "FRAME_SENT") /\ tx' = "posted"
    /\ UNCHANGED <<line_vars, eRcvState, buffer, timer, handler, poll_vars, usSndBufferCount,
                   tx_check_semaphore, tty_tx_index, written, aborted, expected, overrun, ascii>>

AsciiTx == \/ xMBASCIITransmitFSM \/ Notifies
           \/ (TxWake \/ TxIdles \/ TxWrites \/ TxSpins \/ TxAborts) /\ UNCHANGED ascii

AsciiNext == \/ AsciiReceiver \/ (\E t \in Texts : BeginText(t))
             \/ AsciiExpires \/ AsciiHandler \/ AsciiPoll \/ AsciiTx

\* As in the RTU mode.
AsciiFairness ==
    /\ WF_asciiVars(AsciiReceiver) /\ WF_asciiVars(AsciiExpires /\ Silent)
    /\ WF_asciiVars(AsciiHandler) /\ WF_asciiVars(AsciiPoll) /\ WF_asciiVars(AsciiTx)
AsciiSpec == AsciiInit /\ [][AsciiNext]_asciiVars /\ AsciiFairness

-----------------------------------------------------------------------------
AsciiTypeOK ==
    /\ eRcvState \in {"IDLE", "RCV", "WAIT_EOF"}
    /\ eSndState \in {"TX_IDLE", "TX_START", "TX_DATA", "TX_END", "TX_NOTIFY"}
    /\ ucRTUBuf \in [0 .. MB_SER_PDU_SIZE_MAX - 1 -> Byte]
    /\ usRcvBufferPos \in Nat /\ (~overrun => usRcvBufferPos <= MB_SER_PDU_SIZE_MAX)
    /\ rx \in {"no", "enable", "store", "overflow", "disable", "idle", "post", "clear", "begin",
               "time", "delete", "start", "reset", "receive"} /\ ucByte \in 0 .. STRAY
    /\ handler \in {"no", "called", "stopping"} /\ eBytePos \in {"HIGH", "LOW"}
    /\ tx \in {"wait", "loop", "posted", "write"} /\ queue \in Seq(Events)
    /\ {text, tty_tx_buffer} \subseteq Seq(0 .. STRAY) /\ mishaps \subseteq {"stray", "late", "misread"}
    /\ {pucSndBufferCur, usSndBufferCount, tty_tx_index} \subseteq 0 .. 2 * MB_SER_PDU_SIZE_MAX + 3

\* The asserts of mbascii.c fail only when a character comes while a frame is handled,
\* when the receive machine is at work on one between the timeout and its handling,
\* when a frame fills the buffer to its last byte, or when a CR is followed by neither
\* LF nor ':', which leaves the timer on.
AsciiAborts ==
    aborted => \/ overrun \/ mishaps \cap {"late", "stray"} # {}
               \/ usRcvBufferPos = MB_SER_PDU_SIZE_MAX

\* What has been put together when the transmitter is done is a frame, and says
\* what eMBPoll answered, unless a character came too early.
AsciiAnswerIsFrame ==
    eSndState = "TX_NOTIFY" /\ ~overrun =>
        LET sent == SubSeq(tty_tx_buffer, 1, tty_tx_index)
        IN  /\ IsFrame(sent) /\ BytesOf(sent)[1] = ucMBAddress
            /\ AsciiRequest(sent)[2] = [i \in 1 .. usLength |-> ucRTUBuf[i]]
=============================================================================
