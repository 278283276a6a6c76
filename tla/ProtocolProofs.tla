---------------------------- MODULE ProtocolProofs ----------------------------
(***************************************************************************)
(* Proofs about Protocol for every size of a byte, every receive buffer    *)
(* that can hold a longest frame, every crc and every stream of bytes.     *)
(*                                                                         *)
(* TypeOK alone is not inductive: that the index stays in the buffer needs *)
(* FrameInBuffer, which bounds the bytes received by the length byte among *)
(* them, and that needs TypeOK to know that the length byte is a byte.     *)
(* The second half adds what the parser has assembled (StreamInv), on the  *)
(* assumption that the peer lays its frames out as FrameOf does.           *)
(***************************************************************************)
EXTENDS Protocol, TLAPS, SequenceTheorems, WellFoundedInduction

Chunk == Seq(Byte) \ {<<>>}

\* The bytes of a chunk that has been read from are still a chunk.
LEMMA ReadKeepsChunks ==
    ASSUME NEW data \in Byte, rx_fifo \in Seq(Chunk), ReadRxFifo(data)
    PROVE  rx_fifo' \in Seq(Chunk) /\ aligned' \in BOOLEAN
<1> DEFINE c == Head(rx_fifo)
<1>1. rx_fifo # <<>>
  BY DEF ReadRxFifo
<1>2. c \in Chunk /\ Tail(rx_fifo) \in Seq(Chunk)
  BY <1>1
<1>3. c \in Seq(Byte) /\ c # <<>> /\ Tail(c) \in Seq(Byte) /\ Len(Tail(c)) = Len(c) - 1
  BY <1>2 DEF Chunk
<1>4. CASE Len(c) = 1
  BY <1>2, <1>4 DEF ReadRxFifo
<1>5. CASE Len(c) # 1
  <2>1. Len(c) \in Nat /\ Len(c) # 0
    BY <1>3
  <2>2. Tail(c) # <<>>
    <3>1. Len(Tail(c)) # 0
      BY <1>3, <1>5, <2>1
    <3>2. Len(<<>>) = 0
      OBVIOUS
    <3> QED BY <3>1, <3>2, Zenon
  <2>3. <<Tail(c)>> \in Seq(Chunk)
    BY <1>3, <2>2 DEF Chunk
  <2>4. <<Tail(c)>> \o Tail(rx_fifo) \in Seq(Chunk)
    BY <1>2, <2>3
  <2>5. rx_fifo' = <<Tail(c)>> \o Tail(rx_fifo)
    BY <1>5 DEF ReadRxFifo
  <2>6. aligned' \in BOOLEAN
    BY <1>5 DEF ReadRxFifo
  <2> QED BY <2>4, <2>5, <2>6
<1> QED BY <1>4, <1>5

\* The parser's part of the invariant.
RxOK == /\ rx_buffer_ \in [0 .. RxBufferSize - 1 -> Byte]
        /\ rx_buffer_size_ \in 0 .. RxBufferSize
        /\ rx_status_ \in {"EMPTY", "HEAD_RX", "DATA_RX"}
        /\ rx_timeout_ \in Nat
        /\ FrameInBuffer

\* FrameInBuffer, one status at a time.
LEMMA InBufferByStatus ==
    ASSUME rx_status_ \in {"EMPTY", "HEAD_RX", "DATA_RX"}
    PROVE  FrameInBuffer <=>
             /\ rx_status_ = "EMPTY" => rx_buffer_size_ = 0
             /\ rx_status_ = "HEAD_RX" => rx_buffer_size_ = 1
             /\ rx_status_ = "DATA_RX" =>
                   /\ rx_buffer_size_ >= 2
                   /\ rx_buffer_size_ >= 6 => rx_buffer_size_ < rx_buffer_[5] + FrameLength
  BY DEF FrameInBuffer

\* One turn of the parser keeps its state in order, whatever byte it gets.
LEMMA EmptyStep == ASSUME RxOK, now \in Nat, NEW data \in Byte, RxEmpty(data) PROVE RxOK'
<1> USE BufferAssumption, ByteAssumption DEF FrameLength
<1>1. CASE data = Head0
  <2>1. rx_buffer_' \in [0 .. RxBufferSize - 1 -> Byte]
    BY <1>1 DEF RxEmpty, RxOK
  <2>2. rx_status_' = "HEAD_RX" /\ rx_buffer_size_' = 1 /\ rx_timeout_' \in Nat
    BY <1>1 DEF RxEmpty
  <2>3. 1 \in 0 .. RxBufferSize
    OBVIOUS
  <2> QED BY <2>1, <2>2, <2>3 DEF RxOK, FrameInBuffer
<1>2. CASE data # Head0
  <2>1. rx_status_' = "EMPTY" /\ rx_buffer_size_' = 0 /\ UNCHANGED <<rx_buffer_, rx_timeout_>>
    BY <1>2 DEF RxEmpty, ClearRxInfo
  <2>2. 0 \in 0 .. RxBufferSize
    OBVIOUS
  <2> QED BY <2>1, <2>2 DEF RxOK, FrameInBuffer
<1> QED BY <1>1, <1>2

LEMMA HeadStep == ASSUME RxOK, NEW data \in Byte, RxHead(data) PROVE RxOK'
<1> USE BufferAssumption, ByteAssumption DEF FrameLength
<1>1. rx_status_ = "HEAD_RX" /\ rx_buffer_size_ = 1
  BY DEF RxHead, RxOK, FrameInBuffer
<1>2. CASE UNCHANGED rx
  BY <1>2 DEF rx, RxOK, FrameInBuffer
<1>3. CASE /\ rx_buffer_' = [rx_buffer_ EXCEPT ![rx_buffer_size_] = data]
           /\ rx_buffer_size_' = rx_buffer_size_ + 1
           /\ rx_status_' = "DATA_RX" /\ UNCHANGED rx_timeout_
  <2>1. rx_buffer_' \in [0 .. RxBufferSize - 1 -> Byte]
    BY <1>3 DEF RxOK
  <2>2. rx_buffer_size_' = 2 /\ 2 \in 0 .. RxBufferSize
    BY <1>1, <1>3
  <2> QED BY <1>3, <2>1, <2>2 DEF RxOK, FrameInBuffer
<1>4. CASE ClearRxInfo /\ UNCHANGED <<rx_buffer_, rx_timeout_>>
  <2>1. 0 \in 0 .. RxBufferSize
    OBVIOUS
  <2> QED BY <1>4, <2>1 DEF ClearRxInfo, RxOK, FrameInBuffer
<1> QED BY <1>2, <1>3, <1>4 DEF RxHead

\* A frame in work leaves room for the next byte, whatever it is.
LEMMA RoomForNext ==
    ASSUME RxOK, rx_status_ = "DATA_RX"
    PROVE  rx_buffer_size_ \in 2 .. RxBufferSize - 2
<1> USE BufferAssumption, ByteAssumption DEF FrameLength, Byte, RxOK
<1>1. rx_buffer_size_ >= 2 /\ rx_buffer_size_ \in Nat
  BY DEF FrameInBuffer
<1>2. CASE rx_buffer_size_ < 6
  BY <1>1, <1>2
<1>3. CASE rx_buffer_size_ >= 6
  <2>1. rx_buffer_[5] \in 0 .. MaxByte
    OBVIOUS
  <2>2. rx_buffer_size_ < rx_buffer_[5] + 8
    BY <1>3 DEF FrameInBuffer
  <2> QED BY <1>1, <2>1, <2>2
<1> QED BY <1>1, <1>2, <1>3

LEMMA DataStep == ASSUME RxOK, NEW data \in Byte, RxData(data) PROVE RxOK'
<1> USE BufferAssumption, ByteAssumption DEF FrameLength
<1> DEFINE buffer == [rx_buffer_ EXCEPT ![rx_buffer_size_] = data]
           size == rx_buffer_size_ + 1
<1>1. rx_status_ = "DATA_RX"
  BY DEF RxData
<1>2. rx_buffer_size_ \in 2 .. RxBufferSize - 2
  BY <1>1, RoomForNext
<1>3. /\ buffer \in [0 .. RxBufferSize - 1 -> Byte]
      /\ rx_buffer_' = buffer /\ rx_timeout_' \in Nat
  BY DEF RxData, RxOK
<1>4. CASE ~Complete(buffer, size) /\ rx_buffer_size_' = size /\ UNCHANGED rx_status_
  <2>1. size \in 0 .. RxBufferSize /\ size >= 2
    BY <1>2
  <2>2. ASSUME size >= 6 PROVE size < buffer[5] + FrameLength
    <3>1. buffer[5] \in 0 .. MaxByte
      BY <1>3 DEF Byte
    <3>2. size # buffer[5] + FrameLength
      BY <1>4, <2>2 DEF Complete
    <3>3. CASE rx_buffer_size_ = 5
      BY <1>2, <3>1, <3>2, <3>3
    <3>4. CASE rx_buffer_size_ >= 6
      <4>1. rx_buffer_size_ < rx_buffer_[5] + FrameLength
        BY <1>1, <3>4 DEF RxOK, FrameInBuffer
      <4>2. buffer[5] = rx_buffer_[5]
        BY <1>2, <3>4 DEF RxOK
      <4> QED BY <1>2, <3>1, <3>2, <4>1, <4>2
    <3> QED BY <1>2, <2>2, <3>3, <3>4
  <2> QED BY <1>1, <1>3, <1>4, <2>1, <2>2 DEF RxOK, FrameInBuffer
<1>5. CASE ClearRxInfo
  <2>1. 0 \in 0 .. RxBufferSize
    OBVIOUS
  <2> QED BY <1>3, <1>5, <2>1 DEF ClearRxInfo, RxOK, FrameInBuffer
<1> QED BY <1>4, <1>5 DEF RxData

\* What process_rx_frame hands over is a sequence number of two bytes.
LEMMA AcksAreTyped ==
    ASSUME RxOK, outbox \in Seq(Seq(Byte)), NEW data \in Byte,
           RxEmpty(data) \/ RxHead(data) \/ RxData(data)
    PROVE  outbox' \in Seq(Seq(Byte))
<1> DEFINE buffer == [rx_buffer_ EXCEPT ![rx_buffer_size_] = data]
<1>1. CASE UNCHANGED outbox
  BY <1>1
<1>2. CASE ProcessRxFrame(buffer)
  <2>1. buffer[2] \in Byte /\ buffer[3] \in Byte
    BY BufferAssumption, ByteAssumption DEF RxOK, FrameLength
  <2>2. <<buffer[2], buffer[3]>> \in Seq(Byte)
    BY <2>1
  <2> QED BY <1>2, <2>2 DEF ProcessRxFrame
<1> QED BY <1>1, <1>2 DEF RxEmpty, RxHead, RxData

LEMMA TypedInvariant ==
    IInv <=> /\ RxOK
             /\ rx_fifo \in Seq(Chunk) /\ arrived \in Seq(Chunk)
             /\ now \in Nat /\ outbox \in Seq(Seq(Byte)) /\ aligned \in BOOLEAN
  BY DEF IInv, TypeOK, RxOK, Chunk

LEMMA Begins == Init => IInv
<1> SUFFICES ASSUME Init PROVE IInv
  OBVIOUS
<1>1. RxOK
  BY BufferAssumption, ByteAssumption DEF Init, RxOK, FrameInBuffer, Byte, FrameLength
<1>2. /\ rx_fifo \in Seq(Chunk) /\ arrived \in Seq(Chunk)
      /\ now \in Nat /\ outbox \in Seq(Seq(Byte)) /\ aligned \in BOOLEAN
  <2>1. <<>> \in Seq(Chunk) /\ <<>> \in Seq(Seq(Byte))
    BY EmptySeq
  <2> QED BY <2>1 DEF Init
<1> QED BY <1>1, <1>2, TypedInvariant

LEMMA Step == IInv /\ [Next]_vars => IInv'
<1> SUFFICES ASSUME IInv, [Next]_vars PROVE IInv'
  OBVIOUS
<1>0. /\ RxOK
      /\ rx_fifo \in Seq(Chunk) /\ arrived \in Seq(Chunk)
      /\ now \in Nat /\ outbox \in Seq(Seq(Byte)) /\ aligned \in BOOLEAN
  BY TypedInvariant
<1> SUFFICES /\ RxOK'
             /\ rx_fifo' \in Seq(Chunk) /\ arrived' \in Seq(Chunk)
             /\ now' \in Nat /\ outbox' \in Seq(Seq(Byte)) /\ aligned' \in BOOLEAN
  BY DEF IInv, TypeOK, RxOK, Chunk
<1>k. ASSUME UNCHANGED rx PROVE RxOK'
  BY <1>0, <1>k DEF rx, RxOK, FrameInBuffer
<1>1. ASSUME NEW chunk \in Frames \cup Fragments, WriteRxFifo(chunk)
      PROVE  /\ UNCHANGED <<rx, now, outbox, aligned>>
             /\ rx_fifo' \in Seq(Chunk) /\ arrived' \in Seq(Chunk)
  <2>1. chunk \in Chunk
    BY ChunkAssumption DEF Chunk
  <2> QED BY <1>0, <1>1, <2>1 DEF WriteRxFifo
<1>2. ASSUME NEW data \in Byte, ReadRxFifo(data), RxEmpty(data) \/ RxHead(data) \/ RxData(data)
      PROVE  /\ RxOK' /\ rx_fifo' \in Seq(Chunk) /\ aligned' \in BOOLEAN
             /\ UNCHANGED <<arrived, now>> /\ outbox' \in Seq(Seq(Byte))
  <2>1. RxOK'
    BY <1>0, <1>2, EmptyStep, HeadStep, DataStep
  <2>2. rx_fifo' \in Seq(Chunk) /\ aligned' \in BOOLEAN
    BY <1>0, <1>2, ReadKeepsChunks
  <2>3. outbox' \in Seq(Seq(Byte))
    BY <1>0, <1>2, AcksAreTyped
  <2> QED BY <1>2, <2>1, <2>2, <2>3 DEF ReadRxFifo
<1>3. ASSUME Tick PROVE UNCHANGED <<link, rx, outbox, aligned>> /\ now' \in Nat
  BY <1>0, <1>3 DEF Tick
<1>4. CASE UNCHANGED vars
  BY <1>0, <1>4, <1>k DEF vars, link
<1> QED BY <1>0, <1>k, <1>1, <1>2, <1>3, <1>4 DEF Next, TcpRxRun, link

\* The state of the parser is well typed and its frame fits its length byte.
THEOREM ProtocolInvariant == Spec => []IInv
<1>1. Init => IInv
  BY Begins
<1>2. IInv /\ [Next]_vars => IInv'
  BY Step
<1> QED BY <1>1, <1>2, PTL DEF Spec

(* Type correctness: in particular rx_buffer_size_, at which check_rx_frame *)
(* stores, never exceeds RX_BUFFER_SIZE, whatever bytes arrive.            *)
THEOREM ProtocolTypeCorrect == Spec => []TypeOK
<1>1. IInv => TypeOK
  BY DEF IInv
<1> QED BY <1>1, ProtocolInvariant, PTL

(* What check_rx_frame has stored is never longer than the frame its       *)
(* length byte announces.                                                  *)
THEOREM FrameStaysInBuffer == Spec => []FrameInBuffer
<1>1. IInv => FrameInBuffer
  BY DEF IInv
<1> QED BY <1>1, ProtocolInvariant, PTL

-----------------------------------------------------------------------------
(* A frame that begins between frames is assembled whole, and on a clean    *)
(* stream answered once.  AlignedFrame and CleanStreamAcked say what the    *)
(* parser shows; inductive they become with the first byte of a head that   *)
(* it keeps (HeadStored), with a parser that is at work while the chunk is  *)
(* in work (Assembled), and with the chunks not yet read being the last     *)
(* that arrived (InOrder).                                                  *)
HeadStored == rx_status_ # "EMPTY" => rx_buffer_[0] = Head0

Assembled == aligned => /\ rx_fifo # <<>> /\ rx_status_ # "EMPTY"
                        /\ Received \o Head(rx_fifo) \in Frames

\* The chunks read to their end.
Gone == Len(arrived) - Len(rx_fifo)

Clean == \A i \in 1 .. Len(arrived) : arrived[i] \in Frames

InOrder ==
    /\ Gone \in Nat
    /\ Clean => /\ outbox = AcksOf(SubSeq(arrived, 1, Gone))
                /\ \A i \in 2 .. Len(rx_fifo) : rx_fifo[i] = arrived[Gone + i]
                /\ ~aligned => /\ rx_status_ = "EMPTY"
                               /\ rx_fifo # <<>> => rx_fifo[1] = arrived[Gone + 1]
                /\ aligned => Received \o rx_fifo[1] = arrived[Gone + 1]

StreamInv == IInv /\ HeadStored /\ Assembled /\ InOrder

\* Appending the first of some bytes and then the others appends them.
LEMMA OneByOne ==
    ASSUME NEW S, NEW r \in Seq(S), NEW c \in Seq(S), c # <<>>
    PROVE  /\ Append(r, c[1]) \o Tail(c) = r \o c
           /\ Len(c) = 1 => Append(r, c[1]) = r \o c
           /\ <<c[1]>> \o Tail(c) = c
<1> DEFINE h == <<c[1]>>
           t == Tail(c)
<1>1. c[1] \in S /\ Len(c) \in Nat \ {0}
  OBVIOUS
<1>2. h \in Seq(S) /\ Len(h) = 1 /\ h[1] = c[1]
  BY <1>1
<1>3. t \in Seq(S) /\ Len(t) = Len(c) - 1 /\ \A i \in 1 .. Len(c) - 1 : t[i] = c[i + 1]
  BY HeadTailProperties
<1>4. Append(r, c[1]) = r \o h
  BY <1>1, AppendIsConcat
<1> HIDE DEF h, t
<1>a. h \in Seq(S)
  BY <1>2
<1>b. t \in Seq(S)
  BY <1>3
<1>5. h \o t = c
  <2>0. /\ h \o t \in Seq(S) /\ Len(h \o t) = Len(h) + Len(t)
        /\ \A i \in 1 .. Len(h) + Len(t) :
              (h \o t)[i] = IF i <= Len(h) THEN h[i] ELSE t[i - Len(h)]
    BY <1>a, <1>b, ConcatProperties, Zenon
  <2>1. /\ h \o t \in Seq(S) /\ Len(h \o t) = Len(c)
        /\ \A i \in 1 .. Len(c) : (h \o t)[i] = IF i <= 1 THEN h[i] ELSE t[i - 1]
    <3>1. Len(h) = 1 /\ Len(t) = Len(c) - 1 /\ Len(h) + Len(t) = Len(c)
      BY <1>1, <1>2, <1>3
    <3> QED BY <2>0, <3>1, Zenon
  <2>2. ASSUME NEW i \in 1 .. Len(c) PROVE (h \o t)[i] = c[i]
    <3>1. CASE i = 1
      BY <1>2, <2>1, <3>1
    <3>2. CASE i # 1
      <4>1. i - 1 \in 1 .. Len(c) - 1 /\ (i - 1) + 1 = i /\ ~(i <= 1)
        BY <1>1, <3>2
      <4>2. t[i - 1] = c[(i - 1) + 1]
        BY <1>3, <4>1
      <4> QED BY <2>1, <4>1, <4>2
    <3> QED BY <3>1, <3>2
  <2> QED BY <2>1, <2>2, SeqEqual
<1>6. (r \o h) \o t = r \o c
  <2>1. r \in Seq(S)
    OBVIOUS
  <2>2. (r \o h) \o t = r \o (h \o t)
    BY <1>a, <1>b, <2>1, ConcatAssociative, SMTT(30)
  <2> QED BY <1>5, <2>2, Zenon
<1>7. Len(c) = 1 => r \o h = r \o c
  <2> SUFFICES ASSUME Len(c) = 1 PROVE r \o h = r \o c
    OBVIOUS
  <2>1. \A i \in 1 .. Len(c) : h[i] = c[i]
    BY <1>2
  <2>2. h = c
    BY <1>2, <2>1, SeqEqual
  <2> QED BY <2>2
<1> QED BY <1>4, <1>5, <1>6, <1>7 DEF h, t

\* The body of a frame, and a frame around it.
LEMMA Between ==
    ASSUME NEW a \in Seq(Int), Len(a) = 2, NEW k \in Int, NEW l \in Int, NEW b \in Seq(Int)
    PROVE  LET body == a \o <<k, l>> \o b
           IN  body \in Seq(Int) /\ Len(body) = 4 + Len(b) /\ body[4] = l
<1> DEFINE m == <<k, l>>
           c == a \o m
<1>0. Len(b) \in Nat
  OBVIOUS
<1>1. m \in Seq(Int) /\ Len(m) = 2 /\ m[2] = l
  OBVIOUS
<1> HIDE DEF m
<1>2. /\ c \in Seq(Int) /\ Len(c) = 2 + 2
      /\ \A i \in 1 .. 2 + 2 : c[i] = IF i <= 2 THEN a[i] ELSE m[i - 2]
  <2>1. /\ a \o m \in Seq(Int) /\ Len(a \o m) = Len(a) + Len(m)
        /\ \A i \in 1 .. Len(a) + Len(m) :
              (a \o m)[i] = IF i <= Len(a) THEN a[i] ELSE m[i - Len(a)]
    BY <1>1, ConcatProperties, Zenon
  <2> QED BY <1>1, <2>1, Zenon
<1>3. Len(c) = 4 /\ c[4] = l
  BY <1>1, <1>2
<1> HIDE DEF c
<1>4. /\ c \o b \in Seq(Int) /\ Len(c \o b) = 4 + Len(b)
      /\ \A i \in 1 .. 4 + Len(b) : (c \o b)[i] = IF i <= 4 THEN c[i] ELSE b[i - 4]
  <2>1. /\ c \o b \in Seq(Int) /\ Len(c \o b) = Len(c) + Len(b)
        /\ \A i \in 1 .. Len(c) + Len(b) :
              (c \o b)[i] = IF i <= Len(c) THEN c[i] ELSE b[i - Len(c)]
    BY <1>2, ConcatProperties, Zenon
  <2> QED BY <1>3, <2>1, Zenon
<1>5. (c \o b)[4] = l
  BY <1>0, <1>3, <1>4
<1> QED BY <1>4, <1>5 DEF c, m

LEMMA Around ==
    ASSUME NEW body \in Seq(Int), NEW g \in Int, NEW h \in Int, NEW j \in Int, NEW k \in Int
    PROVE  LET f == <<g, h>> \o body \o <<j, k>>
           IN  /\ Len(f) = Len(body) + 4 /\ f[1] = g /\ f[2] = h
               /\ \A i \in 1 .. Len(body) : f[i + 2] = body[i]
               /\ f[Len(body) + 3] = j /\ f[Len(body) + 4] = k
<1> DEFINE n == Len(body)
           m == <<g, h>>
           e == <<j, k>>
           c == m \o body
           f == c \o e
<1>0. n \in Nat
  OBVIOUS
<1>1. m \in Seq(Int) /\ Len(m) = 2 /\ m[1] = g /\ m[2] = h
      /\ e \in Seq(Int) /\ Len(e) = 2 /\ e[1] = j /\ e[2] = k
  OBVIOUS
<1> HIDE DEF m, e
<1>2. /\ c \in Seq(Int) /\ Len(c) = 2 + n
      /\ \A i \in 1 .. 2 + n : c[i] = IF i <= 2 THEN m[i] ELSE body[i - 2]
  <2>1. /\ m \o body \in Seq(Int) /\ Len(m \o body) = Len(m) + Len(body)
        /\ \A i \in 1 .. Len(m) + Len(body) :
              (m \o body)[i] = IF i <= Len(m) THEN m[i] ELSE body[i - Len(m)]
    BY <1>1, ConcatProperties, Zenon
  <2> QED BY <1>1, <2>1, Zenon
<1> HIDE DEF c
<1>3. /\ Len(f) = (2 + n) + 2
      /\ \A i \in 1 .. (2 + n) + 2 : f[i] = IF i <= 2 + n THEN c[i] ELSE e[i - (2 + n)]
  <2>1. /\ c \o e \in Seq(Int) /\ Len(c \o e) = Len(c) + Len(e)
        /\ \A i \in 1 .. Len(c) + Len(e) :
              (c \o e)[i] = IF i <= Len(c) THEN c[i] ELSE e[i - Len(c)]
    BY <1>1, <1>2, ConcatProperties, Zenon
  <2> QED BY <1>1, <1>2, <2>1, Zenon
<1> HIDE DEF f, n
<1>4. Len(f) = n + 4 /\ f[1] = g /\ f[2] = h
  BY <1>0, <1>1, <1>2, <1>3
<1>5. ASSUME NEW i \in 1 .. n PROVE f[i + 2] = body[i]
  <2>1. i + 2 \in 1 .. 2 + n /\ i + 2 \in 1 .. (2 + n) + 2 /\ i + 2 <= 2 + n
        /\ ~(i + 2 <= 2) /\ (i + 2) - 2 = i
    BY <1>0
  <2> QED BY <1>2, <1>3, <2>1
<1>6. f[n + 3] = j /\ f[n + 4] = k
  <2>1. /\ n + 3 \in 1 .. (2 + n) + 2 /\ ~(n + 3 <= 2 + n) /\ (n + 3) - (2 + n) = 1
        /\ n + 4 \in 1 .. (2 + n) + 2 /\ ~(n + 4 <= 2 + n) /\ (n + 4) - (2 + n) = 2
    BY <1>0
  <2> QED BY <1>1, <1>3, <2>1
<1> QED BY <1>4, <1>5, <1>6 DEF f, c, m, e, n

\* What the layout of a frame means, byte by byte.
LEMMA FrameBytes ==
    ASSUME NEW f \in Frames
    PROVE  /\ f \in Seq(Byte) /\ Len(f) \in Nat /\ Len(f) >= 8
           /\ f[1] = Head0 /\ f[2] = Head1 /\ Len(f) = f[6] + 8
           /\ <<f[Len(f) - 1], f[Len(f)]>> = Crc([i \in 1 .. Len(f) - 4 |-> f[i + 2]])
<1> DEFINE n       == Len(f)
           seq     == SubSeq(f, 3, 4)
           payload == SubSeq(f, 7, n - 2)
           body    == BodyOf(seq, f[5], payload)
           flat    == [i \in 1 .. n - 4 |-> f[i + 2]]
<1>1. f \in Seq(Byte) /\ n \in Nat /\ Byte \subseteq Int
  BY ChunkAssumption, ByteAssumption DEF Byte
<1>2. n >= 8 /\ f = FrameOf(seq, f[5], payload) /\ Crc(body) \in Byte \X Byte
  BY FrameAssumption DEF FrameLength
<1>3. seq \in Seq(Int) /\ Len(seq) = 2 /\ f[5] \in Int
  <2>1. \A i \in 1 .. n : f[i] \in Int
    BY <1>1, ElementOfSeq
  <2>2. SubSeq(f, 3, 4) \in Seq(Int) /\ Len(SubSeq(f, 3, 4)) = 2
    BY <1>1, <1>2, <2>1
  <2> QED BY <1>1, <1>2, <2>1, <2>2
<1>4. payload \in Seq(Int) /\ Len(payload) = n - 8
  <2>1. \A i \in 1 .. n : f[i] \in Int
    BY <1>1, ElementOfSeq
  <2>2. \A i \in 7 .. n - 2 : f[i] \in Int
    BY <1>1, <2>1
  <2>3. /\ payload \in Seq(Int)
        /\ Len(payload) = IF 7 <= n - 2 THEN n - 2 - 7 + 1 ELSE 0
    BY <1>1, <2>2, SubSeqProperties
  <2>4. payload \in Seq(Int) /\ n \in Nat /\ n >= 8
    BY <1>1, <1>2, <2>3
  <2>5. \A m \in Nat : m >= 8 => (IF 7 <= m - 2 THEN m - 2 - 7 + 1 ELSE 0) = m - 8
    OBVIOUS
  <2>6. (IF 7 <= n - 2 THEN n - 2 - 7 + 1 ELSE 0) = n - 8
    BY <2>4, <2>5, Zenon
  <2> HIDE DEF payload, n
  <2> QED BY <2>3, <2>4, <2>6
<1>5. PICK j \in Byte, k \in Byte : Crc(body) = <<j, k>>
  <2> HIDE DEF body
  <2> QED BY <1>2
<1>6. body \in Seq(Int) /\ Len(body) = n - 4 /\ body[4] = n - 8
  <2>1. Len(payload) \in Int /\ 4 + Len(payload) = n - 4
    BY <1>1, <1>4
  <2> HIDE DEF seq, payload
  <2> QED BY <1>3, <1>4, <2>1, Between DEF BodyOf
<1>7. Head0 \in Int /\ Head1 \in Int /\ j \in Int /\ k \in Int
  BY <1>1, HeadAssumption
<1>8. f = <<Head0, Head1>> \o body \o <<j, k>>
  BY <1>2, <1>5 DEF FrameOf
<1>9. /\ f[1] = Head0 /\ f[2] = Head1 /\ \A i \in 1 .. Len(body) : f[i + 2] = body[i]
      /\ f[Len(body) + 3] = j /\ f[Len(body) + 4] = k
  <2> HIDE DEF body
  <2>1. body \in Seq(Int)
    BY <1>6
  <2> QED BY <1>7, <1>8, <2>1, Around, SMTT(30)
<1>10. body = flat
  <2> HIDE DEF body
  <2> QED BY <1>6, <1>9
<1>11. f[6] = n - 8 /\ f[n - 1] = j /\ f[n] = k
  <2> HIDE DEF body
  <2>1. 4 \in 1 .. Len(body) /\ Len(body) + 3 = n - 1 /\ Len(body) + 4 = n
    BY <1>1, <1>2, <1>6
  <2>2. f[4 + 2] = body[4]
    BY <1>9, <2>1
  <2> QED BY <1>6, <1>9, <2>1, <2>2
<1>12. <<f[n - 1], f[n]>> = Crc(flat)
  <2> HIDE DEF body
  <2> QED BY <1>5, <1>10, <1>11
<1> QED BY <1>1, <1>2, <1>9, <1>11, <1>12
LEMMA NatInduction1 ==   \* without an operator for a parameter: through a set
  ASSUME NEW S \in SUBSET Nat, 0 \in S, \A n \in S : n + 1 \in S
  PROVE  S = Nat
  <1> DEFINE T == Nat \ S
             R == OpToRel(<, Nat)
  <1> SUFFICES ASSUME T # {} PROVE FALSE
    OBVIOUS
  <1>1. PICK n \in T : \A m \in T : ~(<<m, n>> \in R)
    <2>1. IsWellFoundedOn(R, Nat) /\ T \subseteq Nat
      BY NatLessThanWellFounded
    <2> HIDE DEF R, T
    <2> QED  BY <2>1, WFMin
  <1>2. n \in Nat /\ n # 0 /\ n - 1 \in Nat /\ n - 1 < n /\ (n - 1) + 1 = n
    <2>1. n \in Nat /\ n \notin S
      OBVIOUS
    <2> QED  BY <2>1
  <1>3. <<n - 1, n>> \in R
    BY <1>2 DEF OpToRel
  <1> HIDE DEF R
  <1>4. n - 1 \in S
    BY <1>1, <1>2, <1>3
  <1> QED  BY <1>1, <1>2, <1>4

\* What the peer waits for, after each of its frames.
LEMMA AcksSteps ==
  ASSUME NEW T, NEW frames \in Seq(T)
  PROVE  \E u : /\ u[0] = <<>> /\ AcksOf(frames) = u[Len(frames)]
                /\ \A i \in 1 .. Len(frames) :
                      u[i] = IF frames[i][5] = 0 THEN Append(u[i - 1], SubSeq(frames[i], 3, 4)) ELSE u[i - 1]
  <1> DEFINE n       == Len(frames)
             At(f, i) == IF i = 0 THEN <<>>
                           ELSE IF frames[i][5] = 0 THEN Append(f[i - 1], SubSeq(frames[i], 3, 4)) ELSE f[i - 1]
             Is(f, m) == f = [i \in 0 .. m |-> At(f, i)]
             S       == {m \in Nat : \E f : Is(f, m)}
             upto    == CHOOSE f : f = [i \in 0 .. n |-> At(f, i)]
  <1>1. n \in Nat
    OBVIOUS
  <1>2. 0 \in S
    <2> DEFINE f == [i \in 0 .. 0 |-> <<>>]
    <2>1. \A i \in 0 .. 0 : At(f, i) = <<>>
      OBVIOUS
    <2>2. Is(f, 0)
      BY <2>1
    <2> QED  BY <2>2
  <1>3. ASSUME NEW m \in S PROVE m + 1 \in S
    <2>1. PICK f : Is(f, m)
      OBVIOUS
    <2> DEFINE g == [i \in 0 .. m + 1 |-> IF i <= m THEN f[i] ELSE At(f, m + 1)]
    <2>2. m \in Nat /\ m + 1 \in Nat
      OBVIOUS
    <2>3. ASSUME NEW i \in 0 .. m + 1 PROVE g[i] = At(g, i)
      <3>1. CASE i <= m
        <4>1. i \in 0 .. m /\ f[i] = At(f, i) /\ g[i] = f[i]
          <5>1. i \in 0 .. m
            BY <2>2, <3>1
          <5>2. [j \in 0 .. m |-> At(f, j)][i] = At(f, i)
            BY <5>1
          <5>3. g[i] = f[i]
            BY <2>2, <3>1
          <5> HIDE DEF At, g
          <5> QED  BY <2>1, <5>1, <5>2, <5>3
        <4>2. i # 0 => i - 1 \in 0 .. m + 1 /\ g[i - 1] = f[i - 1]
          BY <2>2, <3>1
        <4> QED  BY <4>1, <4>2
      <3>2. CASE i = m + 1
        <4>1. i # 0 /\ i - 1 = m /\ g[i] = At(f, i) /\ g[i - 1] = f[i - 1]
          BY <2>2, <3>2
        <4> QED  BY <4>1
      <3> QED  BY <2>2, <3>1, <3>2
    <2>4. Is(g, m + 1)
      <3> HIDE DEF At
      <3>1. [i \in 0 .. m + 1 |-> At(g, i)] = [i \in 0 .. m + 1 |-> g[i]]
        BY <2>3
      <3> QED  BY <3>1
    <2> QED  BY <2>2, <2>4
  <1>4. S = Nat
    <2> HIDE DEF S
    <2>1. S \in SUBSET Nat
      BY DEF S
    <2> QED  BY <1>2, <1>3, <2>1, NatInduction1
  <1>5. upto = [i \in 0 .. n |-> At(upto, i)]
    <2>1. \E f : Is(f, n)
      BY <1>1, <1>4
    <2> HIDE DEF At
    <2> QED  BY <2>1
  <1>6. AcksOf(frames) = upto[n]
    BY DEF AcksOf
  <1> HIDE DEF upto
  <1>7. \A i \in 0 .. n : upto[i] = At(upto, i)
    BY <1>5
  <1> QED  BY <1>1, <1>6, <1>7

\* A frame more is its acknowledgement more, if it is a request.
LEMMA AcksGrow ==
    ASSUME NEW T, NEW s \in Seq(T), NEW c \in T
    PROVE  AcksOf(Append(s, c)) = IF c[5] = 0 THEN Append(AcksOf(s), SubSeq(c, 3, 4))
                                  ELSE AcksOf(s)
<1> DEFINE n == Len(s)
           t == Append(s, c)
<1>1. n \in Nat /\ t \in Seq(T) /\ Len(t) = n + 1 /\ t[n + 1] = c
      /\ \A i \in 1 .. n : t[i] = s[i]
  OBVIOUS
<1>2. PICK u : /\ u[0] = <<>> /\ AcksOf(s) = u[n]
               /\ \A i \in 1 .. n : u[i] = IF s[i][5] = 0
                                           THEN Append(u[i - 1], SubSeq(s[i], 3, 4))
                                           ELSE u[i - 1]
  BY AcksSteps
<1> HIDE DEF t
<1>3. PICK w : /\ w[0] = <<>> /\ AcksOf(t) = w[Len(t)]
               /\ \A i \in 1 .. Len(t) : w[i] = IF t[i][5] = 0
                                                THEN Append(w[i - 1], SubSeq(t[i], 3, 4))
                                                ELSE w[i - 1]
  BY <1>1, AcksSteps
<1> DEFINE R == {m \in Nat : m <= n => u[m] = w[m]}
<1>4. R = Nat
  <2>1. 0 \in R
    BY <1>2, <1>3
  <2>2. ASSUME NEW m \in R PROVE m + 1 \in R
    <3>1. m \in Nat /\ m + 1 \in Nat /\ (m <= n => u[m] = w[m])
      OBVIOUS
    <3>2. ASSUME m + 1 <= n PROVE u[m + 1] = w[m + 1]
      <4>1. m + 1 \in 1 .. n /\ m + 1 \in 1 .. Len(t) /\ (m + 1) - 1 = m /\ m <= n
        BY <1>1, <3>1, <3>2
      <4>2. t[m + 1] = s[m + 1]
        BY <1>1, <4>1
      <4>3. u[m + 1] = IF s[m + 1][5] = 0 THEN Append(u[m], SubSeq(s[m + 1], 3, 4)) ELSE u[m]
        BY <1>2, <4>1
      <4>4. w[m + 1] = IF t[m + 1][5] = 0 THEN Append(w[m], SubSeq(t[m + 1], 3, 4)) ELSE w[m]
        BY <1>3, <4>1
      <4> QED BY <3>1, <4>1, <4>2, <4>3, <4>4
    <3> QED BY <3>1, <3>2
  <2> HIDE DEF R
  <2>3. R \in SUBSET Nat
    BY DEF R
  <2> QED BY <2>1, <2>2, <2>3, NatInduction1
<1>5. u[n] = w[n]
  <2>1. n \in R /\ n <= n
    BY <1>1, <1>4
  <2> QED BY <2>1
<1>6. w[n + 1] = IF c[5] = 0 THEN Append(w[n], SubSeq(c, 3, 4)) ELSE w[n]
  <2>1. n + 1 \in 1 .. Len(t) /\ (n + 1) - 1 = n
    BY <1>1
  <2>2. w[n + 1] = IF t[n + 1][5] = 0 THEN Append(w[(n + 1) - 1], SubSeq(t[n + 1], 3, 4))
                   ELSE w[(n + 1) - 1]
    BY <1>3, <2>1
  <2> QED BY <1>1, <2>1, <2>2
<1>7. AcksOf(t) = w[n + 1] /\ AcksOf(s) = w[n]
  BY <1>1, <1>2, <1>3, <1>5
<1> QED BY <1>6, <1>7 DEF t

LEMMA NoAcksYet == AcksOf(<<>>) = <<>>
<1>1. <<>> \in Seq(Nat) /\ Len(<<>>) = 0
  OBVIOUS
<1>2. PICK u : u[0] = <<>> /\ AcksOf(<<>>) = u[Len(<<>>)]
  BY <1>1, AcksSteps
<1> QED BY <1>1, <1>2

\* One byte read: the rest of its chunk, if there is one, comes next.
LEMMA ReadParts ==
    ASSUME NEW data \in Byte, rx_fifo \in Seq(Chunk), ReadRxFifo(data)
    PROVE  LET c == Head(rx_fifo)
           IN  /\ rx_fifo # <<>> /\ c = rx_fifo[1] /\ data = c[1] /\ UNCHANGED <<arrived, now>>
               /\ c \in Seq(Byte) /\ c # <<>> /\ Len(c) \in Nat \ {0}
               /\ Len(c) = 1 => /\ ~aligned' /\ Len(rx_fifo') = Len(rx_fifo) - 1
                                /\ \A i \in 1 .. Len(rx_fifo') : rx_fifo'[i] = rx_fifo[i + 1]
               /\ Len(c) # 1 => /\ aligned' = (aligned \/ (rx_status_ # "DATA_RX" /\ c \in Frames))
                                /\ Len(rx_fifo') = Len(rx_fifo) /\ rx_fifo' # <<>>
                                /\ rx_fifo'[1] = Tail(c) /\ Head(rx_fifo') = Tail(c)
                                /\ \A i \in 2 .. Len(rx_fifo) : rx_fifo'[i] = rx_fifo[i]
<1> DEFINE c == Head(rx_fifo)
           t == Tail(rx_fifo)
<1>1. rx_fifo # <<>> /\ c = rx_fifo[1] /\ UNCHANGED <<arrived, now>> /\ data = Head(c)
  BY DEF ReadRxFifo
<1>2. c \in Chunk /\ Len(rx_fifo) \in Nat \ {0}
  BY <1>1
<1>3. c \in Seq(Byte) /\ c # <<>> /\ Len(c) \in Nat \ {0} /\ data = c[1]
  BY <1>1, <1>2 DEF Chunk
<1>4. /\ t \in Seq(Chunk) /\ Len(t) = Len(rx_fifo) - 1
      /\ \A i \in 1 .. Len(t) : t[i] = rx_fifo[i + 1]
  BY <1>1, HeadTailProperties
<1>5. ASSUME Len(c) = 1
      PROVE  /\ ~aligned' /\ Len(rx_fifo') = Len(rx_fifo) - 1
             /\ \A i \in 1 .. Len(rx_fifo') : rx_fifo'[i] = rx_fifo[i + 1]
  <2>1. rx_fifo' = t /\ ~aligned'
    BY <1>5 DEF ReadRxFifo
  <2> HIDE DEF t
  <2> QED BY <1>4, <2>1
<1>6. ASSUME Len(c) # 1
      PROVE  /\ aligned' = (aligned \/ (rx_status_ # "DATA_RX" /\ c \in Frames))
             /\ Len(rx_fifo') = Len(rx_fifo) /\ rx_fifo' # <<>>
             /\ rx_fifo'[1] = Tail(c) /\ Head(rx_fifo') = Tail(c)
             /\ \A i \in 2 .. Len(rx_fifo) : rx_fifo'[i] = rx_fifo[i]
  <2> DEFINE h == <<Tail(c)>>
             g == h \o t
  <2>1. rx_fifo' = g /\ aligned' = (aligned \/ (rx_status_ # "DATA_RX" /\ c \in Frames))
    BY <1>6 DEF ReadRxFifo
  <2>2. Tail(c) \in Seq(Byte)
    BY <1>3
  <2>3. h \in Seq(Seq(Byte)) /\ Len(h) = 1 /\ h[1] = Tail(c)
    BY <2>2
  <2>4. t \in Seq(Seq(Byte))
    BY <1>4 DEF Chunk
  <2> HIDE DEF h, t
  <2>5. /\ h \o t \in Seq(Seq(Byte)) /\ Len(h \o t) = Len(h) + Len(t)
        /\ \A i \in 1 .. Len(h) + Len(t) :
              (h \o t)[i] = IF i <= Len(h) THEN h[i] ELSE t[i - Len(h)]
    BY <2>3, <2>4, ConcatProperties, Zenon
  <2>6. g \in Seq(Seq(Byte)) /\ Len(g) = Len(rx_fifo)
        /\ \A i \in 1 .. Len(rx_fifo) : g[i] = IF i <= 1 THEN h[i] ELSE t[i - 1]
    <3>1. Len(h) = 1 /\ Len(h) + Len(t) = Len(rx_fifo)
      BY <1>2, <1>4, <2>3
    <3> QED BY <2>5, <3>1, Zenon
  <2> HIDE DEF g
  <2>7. g # <<>> /\ g[1] = Tail(c) /\ Head(g) = g[1]
    BY <1>2, <2>3, <2>6
  <2>8. ASSUME NEW i \in 2 .. Len(rx_fifo) PROVE g[i] = rx_fifo[i]
    <3>1. i \in 1 .. Len(rx_fifo) /\ ~(i <= 1) /\ i - 1 \in 1 .. Len(t) /\ (i - 1) + 1 = i
      BY <1>2, <1>4
    <3> QED BY <1>4, <2>6, <3>1
  <2> QED BY <2>1, <2>6, <2>7, <2>8
<1> QED BY <1>1, <1>3, <1>5, <1>6

\* One more byte stored.
LEMMA Extend ==
    ASSUME RxOK, rx_buffer_size_ < RxBufferSize, NEW data \in Byte,
           rx_buffer_' = [rx_buffer_ EXCEPT ![rx_buffer_size_] = data],
           rx_buffer_size_' = rx_buffer_size_ + 1
    PROVE  Received' = Append(Received, data)
<1> DEFINE n == rx_buffer_size_
           r == Received
           q == [i \in 1 .. n + 1 |-> rx_buffer_'[i - 1]]
<1>1. /\ n \in Nat /\ n < RxBufferSize /\ RxBufferSize \in Nat
      /\ rx_buffer_ \in [0 .. RxBufferSize - 1 -> Byte]
  BY BufferAssumption DEF RxOK
<1>2. \A i \in 1 .. n : i - 1 \in 0 .. RxBufferSize - 1 /\ rx_buffer_[i - 1] \in Byte
  BY <1>1
<1>3. r \in Seq(Byte) /\ Len(r) = n /\ \A i \in 1 .. n : r[i] = rx_buffer_[i - 1]
  BY <1>1, <1>2 DEF Received
<1>4. \A i \in 1 .. n + 1 : rx_buffer_'[i - 1] = IF i = n + 1 THEN data ELSE rx_buffer_[i - 1]
  BY <1>1
<1>5. q \in Seq(Byte) /\ Len(q) = n + 1 /\ \A i \in 1 .. n + 1 : q[i] = rx_buffer_'[i - 1]
  <2>1. \A i \in 1 .. n + 1 : rx_buffer_'[i - 1] \in Byte
    BY <1>1, <1>2, <1>4
  <2> QED BY <1>1, <2>1
<1>6. Received' = q
  BY DEF Received
<1> HIDE DEF r, q
<1>7. /\ Append(r, data) \in Seq(Byte) /\ Len(Append(r, data)) = n + 1
      /\ \A i \in 1 .. n : Append(r, data)[i] = r[i]
      /\ Append(r, data)[n + 1] = data
  BY <1>3, AppendProperties
<1>8. \A i \in 1 .. n + 1 : q[i] = Append(r, data)[i]
  <2> SUFFICES ASSUME NEW i \in 1 .. n + 1 PROVE q[i] = Append(r, data)[i]
    OBVIOUS
  <2>1. CASE i = n + 1
    BY <1>4, <1>5, <1>7, <2>1
  <2>2. CASE i # n + 1
    <3>1. i \in 1 .. n
      BY <1>1, <2>2
    <3> QED BY <1>3, <1>4, <1>5, <1>7, <2>2, <3>1
  <2> QED BY <2>1, <2>2
<1>9. q = Append(r, data)
  BY <1>5, <1>7, <1>8, SeqEqual
<1> QED BY <1>6, <1>9 DEF r

\* What is stored and what is left, taken together, byte by byte.
LEMMA Together ==
    ASSUME RxOK, NEW c \in Seq(Byte), c # <<>>
    PROVE  LET f == Received \o c
           IN  /\ Received \in Seq(Byte) /\ Len(Received) = rx_buffer_size_
               /\ Len(f) = rx_buffer_size_ + Len(c)
               /\ \A i \in 1 .. rx_buffer_size_ : f[i] = rx_buffer_[i - 1]
               /\ f[rx_buffer_size_ + 1] = c[1]
<1> DEFINE n == rx_buffer_size_
           r == Received
           f == r \o c
<1>1. /\ n \in Nat /\ n <= RxBufferSize /\ RxBufferSize \in Nat
      /\ rx_buffer_ \in [0 .. RxBufferSize - 1 -> Byte]
  BY BufferAssumption DEF RxOK
<1>2. \A i \in 1 .. n : i - 1 \in 0 .. RxBufferSize - 1 /\ rx_buffer_[i - 1] \in Byte
  BY <1>1
<1>3. r \in Seq(Byte) /\ Len(r) = n /\ \A i \in 1 .. n : r[i] = rx_buffer_[i - 1]
  BY <1>1, <1>2 DEF Received
<1>4. Len(c) \in Nat \ {0}
  OBVIOUS
<1> HIDE DEF r
<1>5. /\ Len(f) = Len(r) + Len(c)
      /\ \A i \in 1 .. Len(r) + Len(c) : f[i] = IF i <= Len(r) THEN r[i] ELSE c[i - Len(r)]
  BY <1>3, ConcatProperties, Zenon
<1> HIDE DEF f
<1>6. \A i \in 1 .. n : f[i] = r[i]
  BY <1>1, <1>3, <1>4, <1>5
<1>7. f[n + 1] = c[1]
  <2>1. n + 1 \in 1 .. Len(r) + Len(c) /\ ~(n + 1 <= Len(r)) /\ (n + 1) - Len(r) = 1
    BY <1>1, <1>3, <1>4
  <2> QED BY <1>5, <2>1
<1> QED BY <1>3, <1>5, <1>6, <1>7 DEF f, r

Parse(data) == RxEmpty(data) \/ RxHead(data) \/ RxData(data)

\* Between frames the first byte of a frame is taken as such, after a stray one too.
LEMMA FrameStarts ==
    ASSUME RxOK, HeadStored, NEW data \in Byte, data = Head0, rx_status_ # "DATA_RX", Parse(data)
    PROVE  /\ rx_status_' # "EMPTY" /\ rx_buffer_[0]' = Head0 /\ rx_buffer_size_' = 1
           /\ Received' = <<data>> /\ UNCHANGED outbox
<1>1. 0 \in 0 .. RxBufferSize - 1 /\ DOMAIN rx_buffer_ = 0 .. RxBufferSize - 1
  BY BufferAssumption, ByteAssumption DEF RxOK, FrameLength
<1>2. rx_status_' # "EMPTY" /\ rx_buffer_'[0] = Head0 /\ rx_buffer_size_' = 1 /\ UNCHANGED outbox
  <2>1. CASE RxEmpty(data)
    BY <1>1, <2>1 DEF RxEmpty
  <2>2. CASE RxHead(data)
    <3>1. UNCHANGED rx /\ rx_status_ = "HEAD_RX" /\ UNCHANGED outbox
      BY <2>2, HeadAssumption DEF RxHead
    <3> QED BY <3>1 DEF rx, HeadStored, RxOK, FrameInBuffer
  <2>3. CASE RxData(data)
    BY <2>3 DEF RxData
  <2> QED BY <2>1, <2>2, <2>3 DEF Parse
<1>3. Received' = [i \in 1 .. 1 |-> rx_buffer_'[i - 1]]
  BY <1>2 DEF Received
<1>4. [i \in 1 .. 1 |-> rx_buffer_'[i - 1]] = <<data>>
  <2>1. \A i \in 1 .. 1 : rx_buffer_'[i - 1] = data
    BY <1>2
  <2> QED BY <2>1
<1> QED BY <1>2, <1>3, <1>4

\* Inside a frame the next byte of it is stored, and the parser stays at work.
LEMMA FrameGoesOn ==
    ASSUME RxOK, HeadStored, NEW data \in Byte, NEW c \in Seq(Byte), c # <<>>, Len(c) # 1,
           data = c[1], rx_status_ # "EMPTY", Received \o c \in Frames, Parse(data)
    PROVE  /\ rx_status_' # "EMPTY" /\ Received' = Append(Received, data)
           /\ rx_buffer_[0]' = rx_buffer_[0] /\ UNCHANGED outbox
<1> DEFINE f == Received \o c
           n == rx_buffer_size_
           buffer == [rx_buffer_ EXCEPT ![n] = data]
<1>1. /\ Len(f) = n + Len(c) /\ f[n + 1] = data
      /\ \A i \in 1 .. n : f[i] = rx_buffer_[i - 1]
  BY Together
<1>2. /\ f \in Seq(Byte) /\ Len(f) \in Nat /\ Len(f) >= 8 /\ f[2] = Head1 /\ Len(f) = f[6] + 8
  BY FrameBytes
<1>3. /\ n \in Nat /\ RxBufferSize \in Nat /\ RxBufferSize > 8 /\ Len(c) \in Nat /\ Len(c) > 1
      /\ rx_buffer_ \in [0 .. RxBufferSize - 1 -> Byte]
  BY BufferAssumption, ByteAssumption DEF RxOK, FrameLength
<1> HIDE DEF f
<1>4. /\ rx_buffer_' = buffer /\ rx_buffer_size_' = n + 1 /\ rx_status_' = "DATA_RX"
      /\ UNCHANGED outbox /\ 1 <= n /\ n < RxBufferSize
  <2>1. CASE RxEmpty(data)
    BY <2>1 DEF RxEmpty
  <2>2. CASE RxHead(data)
    <3>1. n = 1
      BY <2>2 DEF RxHead, RxOK, FrameInBuffer
    <3>2. data = Head1
      BY <1>1, <1>2, <3>1
    <3>3. data # Head0 /\ data \in {Head0, Head1}
      BY <3>2, HeadAssumption
    <3> QED BY <1>3, <2>2, <3>1, <3>2, <3>3 DEF RxHead
  <2>3. CASE RxData(data)
    <3>1. n \in 2 .. RxBufferSize - 2
      BY <2>3, RoomForNext DEF RxData
    <3>2. ~Complete(buffer, n + 1)
      <4> SUFFICES ASSUME n + 1 >= 5, n + 1 = buffer[5] + 8 PROVE FALSE
        BY DEF Complete, FrameLength
      <4>1. buffer[5] \in 0 .. MaxByte
        BY <1>3 DEF Byte
      <4>2. n >= 5
        <5>1. buffer[5] >= 0 /\ buffer[5] \in Int
          BY <4>1, ByteAssumption
        <5> QED BY <1>3, <5>1
      <4>3. buffer[5] = f[6]
        <5>1. CASE n = 5
          BY <1>1, <1>3, <5>1
        <5>2. CASE n > 5
          <6>1. buffer[5] = rx_buffer_[5] /\ 6 \in 1 .. n /\ 6 - 1 = 5
            BY <1>3, <5>2
          <6> QED BY <1>1, <6>1
        <5> QED BY <1>3, <4>2, <5>1, <5>2
      <4> QED BY <1>1, <1>2, <1>3, <4>3
    <3>3. rx_buffer_size_' = n + 1 /\ UNCHANGED <<rx_status_, outbox>> /\ rx_buffer_' = buffer
      BY <2>3, <3>2 DEF RxData
    <3> QED BY <1>3, <2>3, <3>1, <3>3 DEF RxData
  <2> QED BY <2>1, <2>2, <2>3 DEF Parse
<1>5. Received' = Append(Received, data)
  BY <1>4, Extend
<1>6. rx_buffer_'[0] = rx_buffer_[0]
  BY <1>3, <1>4
<1> QED BY <1>4, <1>5, <1>6

\* The last byte of a frame completes it: its request is acknowledged.
LEMMA FrameEnds ==
    ASSUME RxOK, HeadStored, NEW data \in Byte, NEW c \in Seq(Byte), Len(c) = 1,
           data = c[1], rx_status_ # "EMPTY", Received \o c \in Frames, Parse(data)
    PROVE  LET f == Received \o c
           IN  /\ rx_status_' = "EMPTY"
               /\ outbox' = IF f[5] = 0 THEN Append(outbox, SubSeq(f, 3, 4)) ELSE outbox
<1> DEFINE f == Received \o c
           n == rx_buffer_size_
           buffer == [rx_buffer_ EXCEPT ![n] = data]
<1>1. /\ Len(f) = n + 1 /\ f[n + 1] = data
      /\ \A i \in 1 .. n : f[i] = rx_buffer_[i - 1]
  <2>1. c # <<>>
    OBVIOUS
  <2> QED BY <2>1, Together
<1>2. /\ f \in Seq(Byte) /\ Len(f) >= 8 /\ Len(f) = f[6] + 8
      /\ <<f[Len(f) - 1], f[Len(f)]>> = Crc([i \in 1 .. Len(f) - 4 |-> f[i + 2]])
  BY FrameBytes
<1>3. /\ n \in Nat /\ RxBufferSize \in Nat /\ rx_buffer_ \in [0 .. RxBufferSize - 1 -> Byte]
  BY BufferAssumption DEF RxOK
<1> HIDE DEF f
<1>4. n >= 7
  BY <1>1, <1>2, <1>3
<1>5. rx_status_ = "DATA_RX" /\ RxData(data)
  <2>1. rx_status_ \in {"EMPTY", "HEAD_RX", "DATA_RX"} /\ FrameInBuffer
    BY DEF RxOK
  <2>2. rx_status_ # "HEAD_RX"
    BY <1>4, <2>1, InBufferByStatus
  <2>3. rx_status_ = "DATA_RX"
    BY <2>1, <2>2
  <2> QED BY <2>3 DEF Parse, RxEmpty, RxHead
<1>6. n + 1 <= RxBufferSize
  BY <1>3, <1>5, RoomForNext
<1>7. ASSUME NEW i \in 1 .. n + 1 PROVE f[i] = buffer[i - 1]
  <2>1. CASE i = n + 1
    BY <1>1, <1>3, <1>6, <2>1
  <2>2. CASE i # n + 1
    BY <1>1, <1>3, <1>6, <2>2
  <2> QED BY <2>1, <2>2
<1> HIDE DEF buffer
<1>8. /\ f[6] = buffer[5] /\ f[5] = buffer[4] /\ f[3] = buffer[2] /\ f[4] = buffer[3]
      /\ f[n] = buffer[n - 1] /\ f[n + 1] = buffer[n]
  <2>1. /\ 6 \in 1 .. n + 1 /\ 5 \in 1 .. n + 1 /\ 3 \in 1 .. n + 1 /\ 4 \in 1 .. n + 1
        /\ n \in 1 .. n + 1 /\ n + 1 \in 1 .. n + 1 /\ (n + 1) - 1 = n
    BY <1>3, <1>4
  <2>2. f[6] = buffer[6 - 1] /\ f[5] = buffer[5 - 1] /\ f[3] = buffer[3 - 1] /\ f[4] = buffer[4 - 1]
    BY <1>7, <2>1
  <2>3. f[n] = buffer[n - 1] /\ f[n + 1] = buffer[(n + 1) - 1]
    BY <1>7, <2>1
  <2> QED BY <2>1, <2>2, <2>3
<1>9. Complete(buffer, n + 1)
  BY <1>1, <1>2, <1>3, <1>4, <1>8 DEF Complete, FrameLength
<1>10. CrcMatches(buffer, n + 1)
  <2> DEFINE body == [i \in 1 .. (n + 1) - 4 |-> buffer[i + 1]]
             flat == [i \in 1 .. Len(f) - 4 |-> f[i + 2]]
  <2>1. \A i \in 1 .. (n + 1) - 4 : i + 2 \in 1 .. n + 1 /\ (i + 2) - 1 = i + 1
    BY <1>3, <1>4
  <2>2. \A i \in 1 .. (n + 1) - 4 : f[i + 2] = buffer[i + 1]
    BY <1>7, <2>1
  <2>3. body = flat
    BY <1>1, <2>2
  <2>4. Len(f) - 1 = n /\ Len(f) = n + 1 /\ (n + 1) - 2 = n - 1 /\ (n + 1) - 1 = n
    BY <1>1, <1>3
  <2> HIDE DEF body, flat
  <2>5. <<buffer[(n + 1) - 2], buffer[(n + 1) - 1]>> = Crc(body)
    BY <1>2, <1>8, <2>3, <2>4 DEF flat
  <2> QED BY <2>5 DEF CrcMatches, body
<1>11. SubSeq(f, 3, 4) = <<buffer[2], buffer[3]>>
  <2> DEFINE q == SubSeq(f, 3, 4)
  <2>1. q \in Seq(Byte) /\ Len(q) = 2 /\ q[1] = f[3] /\ q[2] = f[4]
    BY <1>1, <1>2, <1>3, <1>4
  <2> HIDE DEF q
  <2>2. q = <<q[1], q[2]>>
    BY <2>1
  <2> QED BY <1>8, <2>1, <2>2 DEF q
<1>12. ProcessRxFrame(buffer) /\ ClearRxInfo
  BY <1>5, <1>9, <1>10 DEF RxData, buffer
<1> QED BY <1>8, <1>11, <1>12 DEF ProcessRxFrame, ClearRxInfo, f

\* The first byte of a head is kept for as long as there is one.
LEMMA HeadKept ==
    ASSUME RxOK, HeadStored, NEW data \in Byte, Parse(data)
    PROVE  HeadStored'
<1>1. /\ rx_buffer_ \in [0 .. RxBufferSize - 1 -> Byte] /\ rx_buffer_size_ \in Nat
      /\ 0 \in 0 .. RxBufferSize - 1
  BY BufferAssumption, ByteAssumption DEF RxOK, FrameLength
<1>2. CASE RxEmpty(data)
  BY <1>1, <1>2 DEF RxEmpty, HeadStored, ClearRxInfo
<1>3. CASE RxHead(data)
  <2>1. rx_buffer_size_ = 1 /\ rx_status_ = "HEAD_RX"
    BY <1>3 DEF RxHead, RxOK, FrameInBuffer
  <2>2. rx_buffer_' = rx_buffer_ \/ rx_buffer_' = [rx_buffer_ EXCEPT ![1] = data]
    BY <1>3, <2>1 DEF RxHead, rx
  <2>3. rx_buffer_'[0] = rx_buffer_[0]
    <3>1. CASE rx_buffer_' = rx_buffer_
      BY <3>1
    <3>2. CASE rx_buffer_' = [rx_buffer_ EXCEPT ![1] = data]
      <4>1. [rx_buffer_ EXCEPT ![1] = data][0] = rx_buffer_[0]
        BY <1>1
      <4> QED BY <3>2, <4>1
    <3> QED BY <2>2, <3>1, <3>2
  <2> QED BY <2>1, <2>3 DEF HeadStored
<1>4. CASE RxData(data)
  <2>1. rx_buffer_size_ >= 2 /\ rx_status_ = "DATA_RX"
    BY <1>4 DEF RxData, RxOK, FrameInBuffer
  <2> QED BY <1>1, <1>4, <2>1 DEF RxData, HeadStored
<1> QED BY <1>2, <1>3, <1>4 DEF Parse

LEMMA SamePrefix ==
    ASSUME NEW T, NEW s \in Seq(T), NEW t \in Seq(T), NEW n \in Nat, n <= Len(s), n <= Len(t),
           \A i \in 1 .. n : s[i] = t[i]
    PROVE  SubSeq(s, 1, n) = SubSeq(t, 1, n)
  OBVIOUS

LEMMA OneMore ==
    ASSUME NEW T, NEW s \in Seq(T), NEW n \in Nat, n < Len(s)
    PROVE  /\ SubSeq(s, 1, n) \in Seq(T) /\ s[n + 1] \in T
           /\ SubSeq(s, 1, n + 1) = Append(SubSeq(s, 1, n), s[n + 1])
<1> DEFINE p == SubSeq(s, 1, n)
           q == SubSeq(s, 1, n + 1)
           a == Append(p, s[n + 1])
<1>0. Len(s) \in Nat /\ \A i \in 1 .. n + 1 : s[i] \in T
  OBVIOUS
<1>1. p \in Seq(T) /\ Len(p) = n /\ \A i \in 1 .. n : p[i] = s[i]
  BY <1>0
<1>2. q \in Seq(T) /\ Len(q) = n + 1 /\ \A i \in 1 .. n + 1 : q[i] = s[i]
  BY <1>0
<1> HIDE DEF p, q
<1>3. s[n + 1] \in T
  BY <1>0
<1>4. a \in Seq(T) /\ Len(a) = n + 1 /\ a[n + 1] = s[n + 1] /\ \A i \in 1 .. n : a[i] = p[i]
  BY <1>1, <1>3, AppendProperties
<1> HIDE DEF a
<1>5. \A i \in 1 .. n + 1 : a[i] = q[i]
  BY <1>1, <1>2, <1>4
<1>6. a = q
  BY <1>2, <1>4, <1>5, SeqEqual
<1> QED BY <1>1, <1>3, <1>6 DEF a, p, q

\* A turn of tcp_rx_run.
LEMMA ReadStep ==
    ASSUME StreamInv, NEW data \in Byte, ReadRxFifo(data), Parse(data)
    PROVE  HeadStored' /\ Assembled' /\ InOrder'
<1> DEFINE c == Head(rx_fifo)
           f == Received \o c
           g == Gone
<1>1. /\ RxOK /\ rx_fifo \in Seq(Chunk) /\ arrived \in Seq(Chunk)
      /\ outbox \in Seq(Seq(Byte)) /\ aligned \in BOOLEAN
      /\ HeadStored /\ Assembled /\ InOrder
  BY TypedInvariant DEF StreamInv
<1>2. /\ rx_fifo # <<>> /\ c = rx_fifo[1] /\ data = c[1] /\ UNCHANGED arrived
      /\ c \in Seq(Byte) /\ c # <<>> /\ Len(c) \in Nat \ {0}
      /\ Len(c) = 1 => /\ ~aligned' /\ Len(rx_fifo') = Len(rx_fifo) - 1
                       /\ \A i \in 1 .. Len(rx_fifo') : rx_fifo'[i] = rx_fifo[i + 1]
      /\ Len(c) # 1 => /\ aligned' = (aligned \/ (rx_status_ # "DATA_RX" /\ c \in Frames))
                       /\ Len(rx_fifo') = Len(rx_fifo) /\ rx_fifo' # <<>>
                       /\ rx_fifo'[1] = Tail(c) /\ Head(rx_fifo') = Tail(c)
                       /\ \A i \in 2 .. Len(rx_fifo) : rx_fifo'[i] = rx_fifo[i]
  BY <1>1, ReadParts
<1>3. HeadStored'
  BY <1>1, HeadKept
<1> HIDE DEF c
\* a frame in work goes on, or ends
<1>4. ASSUME aligned, Len(c) # 1
      PROVE  /\ aligned' /\ rx_status_' # "EMPTY" /\ UNCHANGED outbox
             /\ Received' \o Head(rx_fifo') = f /\ f \in Frames
  <2>1. f \in Frames /\ rx_status_ # "EMPTY"
    BY <1>1, <1>4 DEF Assembled, c
  <2>2. rx_status_' # "EMPTY" /\ Received' = Append(Received, data) /\ UNCHANGED outbox
    BY <1>1, <1>2, <1>4, <2>1, FrameGoesOn
  <2>3. Received \in Seq(Byte)
    BY <1>1, <1>2, Together
  <2>4. Append(Received, c[1]) \o Tail(c) = f
    <3>1. c \in Seq(Byte) /\ c # <<>>
      BY <1>2
    <3> QED BY <2>3, <3>1, OneByOne, Zenon
  <2> QED BY <1>2, <1>4, <2>1, <2>2, <2>4
<1>5. ASSUME aligned, Len(c) = 1
      PROVE  /\ ~aligned' /\ rx_status_' = "EMPTY" /\ f \in Frames
             /\ outbox' = IF f[5] = 0 THEN Append(outbox, SubSeq(f, 3, 4)) ELSE outbox
  <2>1. f \in Frames /\ rx_status_ # "EMPTY"
    BY <1>1, <1>5 DEF Assembled, c
  <2> QED BY <1>1, <1>2, <1>5, <2>1, FrameEnds
\* a frame begins
<1>6. ASSUME ~aligned, rx_status_ # "DATA_RX", c \in Frames
      PROVE  /\ aligned' /\ rx_status_' # "EMPTY" /\ UNCHANGED outbox /\ Len(c) # 1
             /\ Received' \o Head(rx_fifo') = c
  <2>0. Len(c) >= 8 /\ c[1] = Head0
    BY <1>6, FrameBytes
  <2>1. Len(c) # 1 /\ data = Head0
    <3>1. data = c[1]
      BY <1>2
    <3>2. Len(c) # 1
      <4>1. Len(c) \in Nat
        BY <1>2
      <4>2. \A k \in Nat : k >= 8 => k # 1
        OBVIOUS
      <4> QED BY <2>0, <4>1, <4>2, Zenon
    <3> QED BY <2>0, <3>1, <3>2
  <2>2. rx_status_' # "EMPTY" /\ Received' = <<data>> /\ UNCHANGED outbox
    BY <1>1, <1>6, <2>1, FrameStarts
  <2>3. <<c[1]>> \o Tail(c) = c
    BY <1>2, OneByOne
  <2> QED BY <1>2, <1>6, <2>1, <2>2, <2>3
<1>7. Assembled'
  <2> SUFFICES ASSUME aligned'
               PROVE  /\ rx_fifo' # <<>> /\ rx_status_' # "EMPTY"
                      /\ Received' \o Head(rx_fifo') \in Frames
    BY DEF Assembled
  <2>1. Len(c) # 1
    BY <1>2
  <2>2. CASE aligned
    BY <1>2, <1>4, <2>1, <2>2
  <2>3. CASE ~aligned
    BY <1>2, <1>6, <2>1, <2>3
  <2> QED BY <2>2, <2>3
<1>8. /\ g \in Nat /\ Len(arrived) \in Nat /\ Len(rx_fifo) \in Nat \ {0}
      /\ g + Len(rx_fifo) = Len(arrived) /\ g + 1 \in 1 .. Len(arrived)
  <2>1. Len(arrived) \in Nat /\ Len(rx_fifo) \in Nat \ {0}
    BY <1>1, <1>2
  <2>2. g \in Nat
    BY <1>1 DEF InOrder
  <2> QED BY <2>1, <2>2 DEF Gone
<1>9. Gone' = IF Len(c) = 1 THEN g + 1 ELSE g
  <2>1. Gone' = Len(arrived') - Len(rx_fifo')
    BY DEF Gone
  <2>2. Len(arrived') = Len(arrived)
    BY <1>2
  <2> HIDE DEF f, g, c
  <2>3. CASE Len(c) = 1
    <3>1. Len(rx_fifo') = Len(rx_fifo) - 1
      BY <1>2, <2>3
    <3> QED BY <1>8, <2>1, <2>2, <2>3, <3>1
  <2>4. CASE Len(c) # 1
    <3>1. Len(rx_fifo') = Len(rx_fifo)
      BY <1>2, <2>4
    <3> QED BY <1>8, <2>1, <2>2, <2>4, <3>1
  <2> QED BY <2>3, <2>4
<1> HIDE DEF f, g
<1>10. ASSUME Clean
       PROVE  /\ outbox = AcksOf(SubSeq(arrived, 1, g))
              /\ \A i \in 2 .. Len(rx_fifo) : rx_fifo[i] = arrived[g + i]
              /\ ~aligned => rx_status_ = "EMPTY" /\ c = arrived[g + 1]
              /\ aligned => f = arrived[g + 1]
  BY <1>1, <1>2, <1>10 DEF InOrder, g, f
<1>11. ASSUME Clean'
       PROVE  /\ outbox' = AcksOf(SubSeq(arrived', 1, Gone'))
              /\ \A i \in 2 .. Len(rx_fifo') : rx_fifo'[i] = arrived'[Gone' + i]
              /\ ~aligned' => /\ rx_status_' = "EMPTY"
                              /\ rx_fifo' # <<>> => rx_fifo'[1] = arrived'[Gone' + 1]
              /\ aligned' => Received' \o rx_fifo'[1] = arrived'[Gone' + 1]
  <2>1. Clean
    BY <1>2, <1>11 DEF Clean
  <2>2. CASE ~aligned
    <3>1. c \in Frames /\ rx_status_ = "EMPTY" /\ c = arrived[g + 1]
      BY <1>8, <1>10, <2>1, <2>2 DEF Clean
    <3>2. /\ aligned' /\ UNCHANGED outbox /\ Len(c) # 1 /\ Received' \o Head(rx_fifo') = c
      BY <1>6, <2>2, <3>1
    <3>3. Gone' = g /\ rx_fifo'[1] = Head(rx_fifo')
      BY <1>2, <1>9, <3>2
    <3> QED BY <1>2, <1>10, <2>1, <3>1, <3>2, <3>3
  <2>3. CASE aligned /\ Len(c) # 1
    <3>1. aligned' /\ UNCHANGED outbox /\ Received' \o Head(rx_fifo') = f
      BY <1>4, <2>3 DEF f
    <3>2. Gone' = g /\ rx_fifo'[1] = Head(rx_fifo')
      BY <1>2, <1>9, <2>3
    <3> QED BY <1>2, <1>10, <2>1, <2>3, <3>1, <3>2
  <2>4. CASE aligned /\ Len(c) = 1
    <3>1. /\ ~aligned' /\ rx_status_' = "EMPTY"
          /\ outbox' = IF f[5] = 0 THEN Append(outbox, SubSeq(f, 3, 4)) ELSE outbox
      BY <1>5, <2>4 DEF f
    <3>2. Gone' = g + 1 /\ f = arrived[g + 1] /\ outbox = AcksOf(SubSeq(arrived, 1, g))
      BY <1>9, <1>10, <2>1, <2>4
    <3>3. outbox' = AcksOf(SubSeq(arrived, 1, g + 1))
      <4>1. /\ SubSeq(arrived, 1, g) \in Seq(Chunk) /\ arrived[g + 1] \in Chunk
            /\ SubSeq(arrived, 1, g + 1) = Append(SubSeq(arrived, 1, g), arrived[g + 1])
        BY <1>1, <1>8, OneMore
      <4>2. AcksOf(Append(SubSeq(arrived, 1, g), arrived[g + 1])) =
               IF f[5] = 0 THEN Append(outbox, SubSeq(f, 3, 4)) ELSE outbox
        BY <3>2, <4>1, AcksGrow
      <4> QED BY <3>1, <4>1, <4>2
    <3>4. \A i \in 1 .. Len(rx_fifo') : rx_fifo'[i] = arrived[(g + 1) + i]
      <4> SUFFICES ASSUME NEW i \in 1 .. Len(rx_fifo')
                   PROVE  rx_fifo'[i] = arrived[(g + 1) + i]
        OBVIOUS
      <4>1. i + 1 \in 2 .. Len(rx_fifo) /\ g + (i + 1) = (g + 1) + i
        BY <1>2, <1>8, <2>4
      <4>2. rx_fifo'[i] = rx_fifo[i + 1] /\ rx_fifo[i + 1] = arrived[g + (i + 1)]
        BY <1>2, <1>10, <2>1, <2>4, <4>1
      <4> QED BY <4>1, <4>2
    <3>5. rx_fifo' # <<>> => 1 \in 1 .. Len(rx_fifo')
      <4>1. rx_fifo' \in Seq(Chunk)
        BY <1>1, ReadKeepsChunks
      <4> QED BY <4>1
    <3>6. \A i \in 1 .. Len(rx_fifo') : rx_fifo'[i] = arrived'[Gone' + i]
      BY <1>2, <3>2, <3>4
    <3>7. outbox' = AcksOf(SubSeq(arrived', 1, Gone'))
      BY <1>2, <3>2, <3>3
    <3>8. \A i \in 2 .. Len(rx_fifo') : i \in 1 .. Len(rx_fifo')
      OBVIOUS
    <3> QED BY <3>1, <3>5, <3>6, <3>7, <3>8, Zenon
  <2> QED BY <2>2, <2>3, <2>4
<1>12. Gone' \in Nat
  BY <1>8, <1>9
<1> QED BY <1>3, <1>7, <1>11, <1>12 DEF InOrder

LEMMA StreamBegins == Init => StreamInv
<1> SUFFICES ASSUME Init PROVE StreamInv
  OBVIOUS
<1>1. IInv
  BY Begins
<1>2. HeadStored /\ Assembled
  BY DEF Init, HeadStored, Assembled
<1>3. rx_fifo = <<>> /\ arrived = <<>> /\ outbox = <<>> /\ ~aligned /\ rx_status_ = "EMPTY"
  BY DEF Init
<1>4. Len(<<>>) = 0 /\ SubSeq(<<>>, 1, 0) = <<>>
  OBVIOUS
<1>5. Gone = 0
  BY <1>3, <1>4 DEF Gone
<1>6. outbox = AcksOf(SubSeq(arrived, 1, Gone))
  BY <1>3, <1>4, <1>5, NoAcksYet
<1> QED BY <1>1, <1>2, <1>3, <1>4, <1>5, <1>6 DEF StreamInv, InOrder

\* A chunk that arrives waits behind the others.
LEMMA ArrivalStep ==
    ASSUME StreamInv, NEW chunk \in Frames \cup Fragments, WriteRxFifo(chunk)
    PROVE  HeadStored' /\ Assembled' /\ InOrder'
<1> DEFINE m == Len(rx_fifo)
           n == Len(arrived)
           g == Gone
<1>1. /\ rx_fifo \in Seq(Chunk) /\ arrived \in Seq(Chunk) /\ aligned \in BOOLEAN
      /\ HeadStored /\ Assembled /\ InOrder
  BY TypedInvariant DEF StreamInv
<1>2. chunk \in Chunk
  BY ChunkAssumption DEF Chunk
<1>3. /\ rx_fifo' = Append(rx_fifo, chunk) /\ arrived' = Append(arrived, chunk)
      /\ UNCHANGED <<rx, outbox, aligned>>
  BY DEF WriteRxFifo
<1>4. UNCHANGED <<rx_buffer_, rx_buffer_size_, rx_status_>> /\ UNCHANGED Received
  BY <1>3 DEF rx, Received
<1>5. m \in Nat /\ n \in Nat /\ g \in Nat /\ g + m = n
  BY <1>1 DEF InOrder, Gone
<1>6. /\ Len(rx_fifo') = m + 1 /\ rx_fifo'[m + 1] = chunk
      /\ \A i \in 1 .. m : rx_fifo'[i] = rx_fifo[i]
      /\ Len(arrived') = n + 1 /\ arrived'[n + 1] = chunk
      /\ \A i \in 1 .. n : arrived'[i] = arrived[i]
  BY <1>1, <1>2, <1>3, AppendProperties
<1>7. Gone' = g
  BY <1>5, <1>6 DEF Gone
<1>8. HeadStored'
  BY <1>1, <1>4 DEF HeadStored
<1>9. rx_fifo # <<>> => rx_fifo' # <<>> /\ Head(rx_fifo') = Head(rx_fifo) /\ m >= 1
  BY <1>1, <1>2, <1>3
<1>10. Assembled'
  BY <1>1, <1>3, <1>4, <1>9 DEF Assembled
<1>11. SubSeq(arrived', 1, g) = SubSeq(arrived, 1, g)
  <2>1. \A i \in 1 .. g : i \in 1 .. n
    BY <1>5
  <2> HIDE DEF g, n
  <2>2. \A i \in 1 .. g : arrived'[i] = arrived[i]
    BY <1>6, <2>1
  <2>3. g <= Len(arrived) /\ g <= Len(arrived') /\ arrived' \in Seq(Chunk)
    BY <1>1, <1>2, <1>3, <1>5, <1>6 DEF n
  <2> QED BY <1>1, <1>5, <2>2, <2>3, SamePrefix
<1> HIDE DEF m, n, g
<1>12. ASSUME Clean'
       PROVE  /\ outbox' = AcksOf(SubSeq(arrived', 1, Gone'))
              /\ \A i \in 2 .. Len(rx_fifo') : rx_fifo'[i] = arrived'[Gone' + i]
              /\ ~aligned' => /\ rx_status_' = "EMPTY"
                              /\ rx_fifo' # <<>> => rx_fifo'[1] = arrived'[Gone' + 1]
              /\ aligned' => Received' \o rx_fifo'[1] = arrived'[Gone' + 1]
  <2>1. Clean
    <3>1. \A i \in 1 .. n : i \in 1 .. n + 1
      BY <1>5
    <3> QED BY <1>6, <1>12, <3>1 DEF Clean, n
  <2>2. /\ outbox = AcksOf(SubSeq(arrived, 1, g))
        /\ \A i \in 2 .. m : rx_fifo[i] = arrived[g + i]
        /\ ~aligned => /\ rx_status_ = "EMPTY"
                       /\ rx_fifo # <<>> => rx_fifo[1] = arrived[g + 1]
        /\ aligned => Received \o rx_fifo[1] = arrived[g + 1]
    BY <1>1, <2>1 DEF InOrder, g, m
  <2>3. \A i \in 1 .. m : g + i \in 1 .. n
    BY <1>5
  <2>4. ASSUME NEW i \in 2 .. m + 1 PROVE rx_fifo'[i] = arrived'[g + i]
    <3>1. CASE i = m + 1
      <4>1. g + i = n + 1
        BY <1>5, <3>1
      <4> QED BY <1>6, <3>1, <4>1
    <3>2. CASE i # m + 1
      <4>1. i \in 2 .. m /\ i \in 1 .. m
        BY <1>5, <3>2
      <4> QED BY <1>6, <2>2, <2>3, <4>1
    <3> QED BY <3>1, <3>2
  <2>5. CASE rx_fifo = <<>>
    <3>1. m = 0 /\ g + 1 = n + 1 /\ ~aligned
      BY <1>1, <1>5, <2>5 DEF m, Assembled
    <3>2. rx_fifo'[1] = arrived'[g + 1]
      BY <1>6, <3>1
    <3> QED BY <1>3, <1>4, <1>6, <1>7, <1>11, <2>2, <2>4, <3>1, <3>2
  <2>6. CASE rx_fifo # <<>>
    <3>1. 1 \in 1 .. m
      BY <1>5, <1>9, <2>6
    <3>2. rx_fifo'[1] = rx_fifo[1] /\ arrived'[g + 1] = arrived[g + 1]
      BY <1>6, <2>3, <3>1
    <3> QED BY <1>3, <1>4, <1>6, <1>7, <1>11, <2>2, <2>4, <2>6, <3>2
  <2> QED BY <2>5, <2>6
<1> QED BY <1>5, <1>7, <1>8, <1>10, <1>12 DEF InOrder

LEMMA StreamStep == StreamInv /\ [Next]_vars => StreamInv'
<1> SUFFICES ASSUME StreamInv, [Next]_vars PROVE StreamInv'
  OBVIOUS
<1>1. IInv'
  BY Step DEF StreamInv
<1>2. ASSUME UNCHANGED <<link, rx, outbox, aligned>> PROVE HeadStored' /\ Assembled' /\ InOrder'
  <2>1. /\ UNCHANGED <<rx_fifo, arrived, outbox, aligned>>
        /\ UNCHANGED <<rx_buffer_, rx_buffer_size_, rx_status_>>
    BY <1>2 DEF link, rx
  <2>2. UNCHANGED Received /\ UNCHANGED Gone /\ Clean' = Clean
    BY <2>1 DEF Received, Gone, Clean
  <2> QED BY <2>1, <2>2 DEF StreamInv, HeadStored, Assembled, InOrder
<1>3. CASE \E chunk \in Frames \cup Fragments : WriteRxFifo(chunk)
  BY <1>1, <1>3, ArrivalStep DEF StreamInv
<1>4. CASE TcpRxRun
  BY <1>1, <1>4, ReadStep DEF TcpRxRun, Parse, StreamInv
<1>5. CASE Tick
  BY <1>1, <1>2, <1>5 DEF Tick, StreamInv
<1>6. CASE UNCHANGED vars
  BY <1>1, <1>2, <1>6 DEF vars, StreamInv
<1> QED BY <1>3, <1>4, <1>5, <1>6 DEF Next

THEOREM StreamInvariant == Spec => []StreamInv
<1>1. Init => StreamInv
  BY StreamBegins
<1>2. StreamInv /\ [Next]_vars => StreamInv'
  BY StreamStep
<1> QED BY <1>1, <1>2, PTL DEF Spec

(* A frame that begins while no other is in work is assembled byte for byte *)
(* by check_rx_frame, whatever its payload and whatever came before it.    *)
THEOREM FramesAssembled == Spec => []AlignedFrame
<1>1. StreamInv => AlignedFrame
  BY DEF StreamInv, Assembled, AlignedFrame
<1> QED BY <1>1, StreamInvariant, PTL

(* On a stream of whole frames process_rx_frame answers each request read  *)
(* to its end, once, in the order of arrival, and never an ACK.            *)
THEOREM RequestsAckedOnce == Spec => []CleanStreamAcked
<1>1. StreamInv => CleanStreamAcked
  BY DEF StreamInv, InOrder, CleanStreamAcked, Clean, Gone
<1> QED BY <1>1, StreamInvariant, PTL
=============================================================================
