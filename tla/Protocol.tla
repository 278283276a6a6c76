------------------------------- MODULE Protocol -------------------------------
(***************************************************************************)
(* protocol_info (embed/main_process/remote/protocol.cpp) and the loop     *)
(* that feeds it, tcp_thread_manage::tcp_rx_run: bytes that the TCP server *)
(* wrote to the receive FIFO are read one by one, assembled to frames      *)
(*     head0 head1 seq seq func len payload crc crc                        *)
(* and every frame of function 0 is answered with an ACK of its sequence   *)
(* number.  The FIFO is a stream; the chunks it is made of here only keep  *)
(* the bounds between what the peer sent, which the code does not see.     *)
(***************************************************************************)
EXTENDS Integers, Sequences

CONSTANTS MaxByte,       \* 255: the largest value of a byte
          Head0, Head1,  \* PACKED_HEAD
          FunctionAck,   \* FUNCTION_ACK
          Crc(_),        \* the two bytes of calculate_crc over some bytes
          RxBufferSize,  \* RX_BUFFER_SIZE
          Frames,        \* the frames that the peer sends
          Fragments,     \* what else may arrive: beginnings of frames, noise
          MaxArrivals,   \* bound on the chunks that arrive
          MaxTime        \* bound on the clock

Byte == 0 .. MaxByte
FrameLength == 8         \* PROTOCOL_FRAME_LENGHT: a frame without its payload

ASSUME ByteAssumption == MaxByte \in Nat
ASSUME HeadAssumption == {Head0, Head1} \subseteq Byte /\ Head0 # Head1
ASSUME BufferAssumption == RxBufferSize \in Nat /\ RxBufferSize > MaxByte + FrameLength
ASSUME ChunkAssumption == Frames \cup Fragments \subseteq Seq(Byte) \ {<<>>}
ASSUME BoundAssumption == MaxArrivals \in Nat /\ MaxTime \in Nat

VARIABLES rx_fifo,          \* the chunks in the receive FIFO
          rx_buffer_,
          rx_buffer_size_,
          rx_status_,
          rx_timeout_,      \* the time at which the frame in work began
          now,              \* xGetCurrentTimes(), in seconds
          outbox,           \* the sequence numbers handed to handler_ with ACK
          arrived,          \* history: the chunks that ever arrived
          aligned           \* history: the parser began the chunk in work,
                            \* a whole frame, with no other frame begun

link == <<rx_fifo, arrived>>
rx   == <<rx_buffer_, rx_buffer_size_, rx_status_, rx_timeout_>>
vars == <<link, rx, now, outbox, aligned>>

(* A frame of function func with a sequence number and a payload, as       *)
(* create_output_frame and send_func_data lay it out.                      *)
BodyOf(seq, func, payload) == seq \o <<func, Len(payload)>> \o payload

FrameOf(seq, func, payload) ==
    LET body == BodyOf(seq, func, payload)
    IN  <<Head0, Head1>> \o body \o Crc(body)

ASSUME FrameAssumption ==
    \A f \in Frames :
       LET seq     == SubSeq(f, 3, 4)
           payload == SubSeq(f, 7, Len(f) - 2)
       IN  /\ Len(f) >= FrameLength
           /\ f = FrameOf(seq, f[5], payload)
           /\ Crc(BodyOf(seq, f[5], payload)) \in Byte \X Byte

Init == /\ rx_fifo = <<>> /\ arrived = <<>>
        /\ rx_buffer_ = [i \in 0 .. RxBufferSize - 1 |-> 0]
        /\ rx_buffer_size_ = 0
        /\ rx_status_ = "EMPTY"
        /\ rx_timeout_ = 0
        /\ now = 0
        /\ outbox = <<>>
        /\ aligned = FALSE

-----------------------------------------------------------------------------
(* The handler of the TCP server: write_rx_fifo of what a read returned.   *)
WriteRxFifo(chunk) ==
    /\ Len(arrived) < MaxArrivals
    /\ rx_fifo' = Append(rx_fifo, chunk)
    /\ arrived' = Append(arrived, chunk)
    /\ UNCHANGED <<rx, now, outbox, aligned>>

\* read_rx_fifo(&data, 1)
ReadRxFifo(data) ==
    /\ rx_fifo # <<>>
    /\ data = Head(Head(rx_fifo))
    /\ rx_fifo' = IF Len(Head(rx_fifo)) = 1
                  THEN Tail(rx_fifo)
                  ELSE <<Tail(Head(rx_fifo))>> \o Tail(rx_fifo)
    /\ aligned' = IF Len(Head(rx_fifo)) = 1
                  THEN FALSE
                  ELSE aligned \/ (rx_status_ # "DATA_RX" /\ Head(rx_fifo) \in Frames)
    /\ UNCHANGED <<arrived, now>>

\* Mutant: the count of received bytes is not reset.
ClearRxStatus == rx_status_' = "EMPTY" /\ UNCHANGED rx_buffer_size_

ClearRxInfo == rx_status_' = "EMPTY" /\ rx_buffer_size_' = 0

\* check_rx_frame without a head, and the loop's reaction to its status.
RxEmpty(data) ==
    /\ rx_status_ = "EMPTY"
    /\ IF data = Head0
       THEN /\ rx_buffer_' = [rx_buffer_ EXCEPT ![0] = data]
            /\ rx_buffer_size_' = 1
            /\ rx_status_' = "HEAD_RX"
            /\ rx_timeout_' = now
       ELSE ClearRxInfo /\ UNCHANGED <<rx_buffer_, rx_timeout_>>
    /\ UNCHANGED outbox

\* Mutant: the first byte of a head must be followed by the second.
RxHeadOnce(data) ==
    /\ rx_status_ = "HEAD_RX"
    /\ IF data = Head1
       THEN /\ rx_buffer_' = [rx_buffer_ EXCEPT ![rx_buffer_size_] = data]
            /\ rx_buffer_size_' = rx_buffer_size_ + 1
            /\ rx_status_' = "DATA_RX"
       ELSE ClearRxInfo /\ UNCHANGED rx_buffer_
    /\ UNCHANGED <<rx_timeout_, outbox>>

\* check_rx_frame with the first byte of a head, which may come repeatedly.
RxHead(data) ==
    /\ rx_status_ = "HEAD_RX"
    /\ \/ data = Head0 /\ UNCHANGED rx
       \/ /\ data = Head1
          /\ rx_buffer_' = [rx_buffer_ EXCEPT ![rx_buffer_size_] = data]
          /\ rx_buffer_size_' = rx_buffer_size_ + 1
          /\ rx_status_' = "DATA_RX"
          /\ UNCHANGED rx_timeout_
       \/ /\ data \notin {Head0, Head1}
          /\ ClearRxInfo
          /\ UNCHANGED <<rx_buffer_, rx_timeout_>>
    /\ UNCHANGED outbox

CrcMatches(buffer, size) ==
    <<buffer[size - 2], buffer[size - 1]>> = Crc([i \in 1 .. size - 4 |-> buffer[i + 1]])

\* Mutant: the frame is taken as complete one byte too late.
CompleteLate(buffer, size) == size >= 5 /\ size = buffer[5] + FrameLength + 1

(* The length byte is looked at from size 5 on, when index 5 still holds a *)
(* byte of an earlier frame.                                               *)
Complete(buffer, size) == size >= 5 /\ size = buffer[5] + FrameLength

\* Mutant: an ACK is acknowledged as well.
ProcessAnyFrame(buffer) == outbox' = Append(outbox, <<buffer[2], buffer[3]>>)

(* process_rx_frame: function 0 is acknowledged, with and without payload; *)
(* an ACK and any other function are not.                                  *)
ProcessRxFrame(buffer) ==
    outbox' = IF buffer[4] = 0 THEN Append(outbox, <<buffer[2], buffer[3]>>) ELSE outbox

\* check_rx_frame after a head, and the loop's reaction to its status.
RxData(data) ==
    LET buffer == [rx_buffer_ EXCEPT ![rx_buffer_size_] = data]
        size   == rx_buffer_size_ + 1
    IN  /\ rx_status_ = "DATA_RX"
        /\ rx_buffer_' = buffer
        /\ UNCHANGED rx_timeout_
        /\ \/ /\ ~Complete(buffer, size)
              /\ rx_buffer_size_' = size
              /\ UNCHANGED <<rx_status_, outbox>>
           \/ /\ Complete(buffer, size) /\ CrcMatches(buffer, size)
              /\ ProcessRxFrame(buffer)
              /\ ClearRxInfo
           \/ /\ Complete(buffer, size) /\ ~CrcMatches(buffer, size)
              /\ ClearRxInfo
              /\ UNCHANGED outbox

\* One turn of tcp_rx_run, the only thread that touches the parser.
TcpRxRun == \E data \in Byte : ReadRxFifo(data) /\ (RxEmpty(data) \/ RxHead(data) \/ RxData(data))

\* Seconds pass.
Tick == now < MaxTime /\ now' = now + 1 /\ UNCHANGED <<link, rx, outbox, aligned>>

Next == \/ \E chunk \in Frames \cup Fragments : WriteRxFifo(chunk)
        \/ TcpRxRun
        \/ Tick

(* tcp_rx_run loops for ever on a blocking read: a byte in the FIFO is     *)
(* read.  Neither the peer nor the clock owes anything.                    *)
Spec == Init /\ [][Next]_vars /\ WF_vars(TcpRxRun)

-----------------------------------------------------------------------------
TypeOK == /\ rx_fifo \in Seq(Seq(Byte) \ {<<>>})
          /\ rx_buffer_ \in [0 .. RxBufferSize - 1 -> Byte]
          /\ rx_buffer_size_ \in 0 .. RxBufferSize
          /\ rx_status_ \in {"EMPTY", "HEAD_RX", "DATA_RX"}
          /\ rx_timeout_ \in Nat /\ now \in Nat
          /\ outbox \in Seq(Seq(Byte))
          /\ arrived \in Seq(Seq(Byte) \ {<<>>})
          /\ aligned \in BOOLEAN

(* Whatever bytes arrive, in whatever pieces, check_rx_frame stores inside *)
(* rx_buffer_: a frame in work is shorter than the length byte it holds    *)
(* says, and shorter than six bytes while it holds none.                   *)
FrameInBuffer ==
    CASE rx_status_ = "EMPTY"   -> rx_buffer_size_ = 0
      [] rx_status_ = "HEAD_RX" -> rx_buffer_size_ = 1
      [] rx_status_ = "DATA_RX" ->
            /\ rx_buffer_size_ >= 2
            /\ rx_buffer_size_ >= 6 => rx_buffer_size_ < rx_buffer_[5] + FrameLength

IInv == TypeOK /\ FrameInBuffer

\* The bytes of the frame in work.
Received == [i \in 1 .. rx_buffer_size_ |-> rx_buffer_[i - 1]]

(* A whole frame that begins while the parser has no frame in work is      *)
(* assembled byte for byte: what is stored and what is left of the chunk   *)
(* are the frame, also after a stray first head byte.                      *)
AlignedFrame == aligned => Received \o Head(rx_fifo) \in Frames

\* What the peer waits for: the sequence numbers of its frames of function 0.
AcksOf(frames) ==
    LET acks[n \in 0 .. Len(frames)] ==
            IF n = 0 THEN <<>>
            ELSE IF frames[n][5] = 0 THEN Append(acks[n - 1], SubSeq(frames[n], 3, 4))
                 ELSE acks[n - 1]
    IN  acks[Len(frames)]

(* On a stream of whole frames each request read to its end is acknowledged *)
(* once, in the order of arrival, whatever the payloads contain, and an    *)
(* ACK never is: two ends running this code do not ping-pong.              *)
CleanStreamAcked ==
    (\A i \in 1 .. Len(arrived) : arrived[i] \in Frames)
        => outbox = AcksOf(SubSeq(arrived, 1, Len(arrived) - Len(rx_fifo)))

(* Once the peer stops sending, all the requests of a clean stream have    *)
(* been acknowledged: the parser never keeps the end of a frame back.      *)
RequestsAnswered ==
    <>[]((\A i \in 1 .. Len(arrived) : arrived[i] \in Frames) => outbox = AcksOf(arrived))
=============================================================================
