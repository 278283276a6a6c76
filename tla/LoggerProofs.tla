---------------------------- MODULE LoggerProofs ----------------------------
(***************************************************************************)
(* What print_log and its reader keep for every number of threads and      *)
(* processes, every length of line and every size of buffer and FIFO.  The *)
(* buffer of a process holds the line of a thread that has no peer in that *)
(* process from the moment it is formatted until it is written, and a FIFO *)
(* whose lines are whole ends with an end of line.  After that: commands   *)
(* on their way from the logger to the processes.                          *)
(***************************************************************************)
EXTENDS LogManage, CommandRoute, SequenceTheorems, TLAPS

Alone(t) == \A u \in Threads \ {t} : Process[u] # Process[t]

\* A thread at work has a line that fits, with its end once that is in place.
Fits == \A t \in Threads :
            /\ pc[t] = "end_line" => length[t] < BufferSize
            /\ pc[t] = "send" => length[t] + 2 <= BufferSize

\* Nobody writes to the buffer of a thread that has its process for itself.
Own == \A t \in Threads : Alone(t) =>
           /\ pc[t] \in {"end_line", "send"} =>
                 \A i \in 1 .. length[t] : i \in Cells => buffer[Process[t]][i] = Text(t, i)
           /\ pc[t] = "send" => /\ buffer[Process[t]][length[t] + 1] = CR
                                /\ buffer[Process[t]][length[t] + 2] = LF

\* What the reader has left ends where a line ends.
Ended == torn = {} => /\ fifo # <<>> => fifo[Len(fifo)] = LF
                      /\ \A l \in lost : l.full

Types == /\ buffer \in [Processes -> [Cells -> Byte]]
         /\ pc \in [Threads -> {"idle", "end_line", "send"}]
         /\ length \in [Threads -> Nat]
         /\ fifo \in Seq(Byte)
         /\ torn \subseteq Threads

IInv == Types /\ Fits /\ Own /\ Ended /\ TornOnlyByPeers

LEMMA Sizes ==
  BufferSize \in Nat \ {0} /\ ReadSize \in Nat \ {0} /\ Cells = 1 .. BufferSize
  BY SizeAssumption DEF Cells

LEMMA Bytes ==
  /\ CR \in Byte /\ LF \in Byte /\ NUL \in Byte
  /\ \A t \in Threads, i \in Cells : Text(t, i) \in Byte
  BY DEF Byte

LEMMA Buffers == \A t \in Threads : Process[t] \in Processes
  BY DEF Processes

LEMMA InitInv == Init => IInv
  <1> SUFFICES ASSUME Init PROVE IInv
    OBVIOUS
  <1>1. Types
    BY Bytes DEF Init, Types
  <1> QED  BY <1>1 DEF Init, IInv, Fits, Own, Ended, TornOnlyByPeers

LEMMA FormatStep ==
  ASSUME IInv, NEW t \in Threads, NEW n \in Lengths, Format(t, n)
  PROVE  IInv'
  <1> USE Buffers
  <1>1. n \in Nat \ {0} /\ BufferSize \in Nat
    BY LengthAssumption, Sizes
  <1> DEFINE cells == [i \in Cells |-> CASE i <= n /\ i < BufferSize  -> Text(t, i)
                                         [] i = n + 1 \/ (i = BufferSize /\ n >= i) -> NUL
                                         [] OTHER -> buffer[Process[t]][i]]
  <1>2. buffer' = [buffer EXCEPT ![Process[t]] = cells]
    BY DEF Format, IInv, Types
  <1>3. cells \in [Cells -> Byte]
    <2> SUFFICES ASSUME NEW i \in Cells PROVE cells[i] \in Byte
      OBVIOUS
    <2>1. buffer[Process[t]][i] \in Byte
      BY DEF IInv, Types
    <2> QED  BY <2>1, Bytes
  <1>4. \A i \in Cells : i <= n /\ i < BufferSize => cells[i] = Text(t, i)
    <2> SUFFICES ASSUME NEW i \in Cells, i <= n, i < BufferSize PROVE cells[i] = Text(t, i)
      OBVIOUS
    <2> QED  BY <1>1, Sizes
  <1> HIDE DEF cells
  <1>5. Types'
    BY <1>1, <1>2, <1>3 DEF Format, IInv, Types
  <1>4a. /\ pc'[t] = IF n >= BufferSize THEN "idle" ELSE "end_line"
         /\ length'[t] = IF n >= BufferSize THEN 0 ELSE n
         /\ \A u \in Threads : u # t => pc'[u] = pc[u] /\ length'[u] = length[u]
    BY DEF Format, IInv, Types
  <1>6. Fits'
    BY <1>1, <1>4a DEF IInv, Fits
  <1>7. ASSUME NEW u \in Threads, Alone(u)
        PROVE  /\ pc'[u] \in {"end_line", "send"} =>
                    \A i \in 1 .. length'[u] : i \in Cells => buffer'[Process[u]][i] = Text(u, i)
               /\ pc'[u] = "send" => /\ buffer'[Process[u]][length'[u] + 1] = CR
                                     /\ buffer'[Process[u]][length'[u] + 2] = LF
    <2>1. CASE u = t
      <3>1. pc'[t] # "send" /\ (pc'[t] = "end_line" => length'[t] = n /\ n < BufferSize)
        BY <1>1, <1>4a
      <3>2. buffer'[Process[t]] = cells
        BY <1>2 DEF IInv, Types
      <3>3. ASSUME n < BufferSize, NEW i \in 1 .. n, i \in Cells  PROVE cells[i] = Text(t, i)
        BY <1>1, <1>4, <3>3
      <3> QED  BY <2>1, <3>1, <3>2, <3>3
    <2>2. CASE u # t
      <3>1. Process[u] # Process[t]
        BY <1>7, <2>2 DEF Alone
      <3>2. buffer'[Process[u]] = buffer[Process[u]] /\ pc'[u] = pc[u] /\ length'[u] = length[u]
        BY <1>2, <2>2, <3>1 DEF Format, IInv, Types
      <3> QED  BY <1>7, <3>2 DEF IInv, Own
    <2> QED  BY <2>1, <2>2
  <1>8. Own'
    BY <1>7 DEF Own, Alone
  <1>9. Ended' /\ TornOnlyByPeers'
    BY DEF Format, IInv, Ended, TornOnlyByPeers
  <1> QED  BY <1>5, <1>6, <1>8, <1>9 DEF IInv

LEMMA EndLineStep ==
  ASSUME IInv, NEW t \in Threads, EndLine(t)
  PROVE  IInv'
  <1> USE Buffers
  <1>1. PICK n \in Nat : n = length[t] /\ pc[t] = "end_line" /\ n < BufferSize /\ BufferSize \in Nat
    BY Sizes DEF EndLine, IInv, Types, Fits
  <1>2. CASE BufferSize - n < 3
    <2>1. pc' = [pc EXCEPT ![t] = "idle"] /\ UNCHANGED <<buffer, length, fifo, torn, lost>>
      BY <1>1, <1>2 DEF EndLine
    <2>2. pc'[t] = "idle" /\ \A u \in Threads : u # t => pc'[u] = pc[u]
      BY <2>1 DEF IInv, Types
    <2>3. Types' /\ Fits'
      BY <2>1, <2>2 DEF IInv, Types, Fits
    <2>4. Own'
      BY <2>1, <2>2 DEF IInv, Own, Alone
    <2> QED  BY <2>1, <2>3, <2>4 DEF IInv, Ended, TornOnlyByPeers
  <1>3. CASE ~(BufferSize - n < 3)
    <2>1. n + 1 \in Cells /\ n + 2 \in Cells /\ n + 2 <= BufferSize
      BY <1>1, <1>3, Sizes
    <2>2. /\ pc' = [pc EXCEPT ![t] = "send"] /\ UNCHANGED <<length, fifo, torn, lost>>
          /\ buffer' = [buffer EXCEPT ![Process[t]][n + 1] = CR, ![Process[t]][n + 2] = LF]
      BY <1>1, <1>3 DEF EndLine
    <2>3. pc'[t] = "send" /\ \A u \in Threads : u # t => pc'[u] = pc[u]
      BY <2>2 DEF IInv, Types
    <2>4. /\ buffer' \in [Processes -> [Cells -> Byte]]
          /\ buffer'[Process[t]][n + 1] = CR /\ buffer'[Process[t]][n + 2] = LF
          /\ \A i \in Cells : i <= n => buffer'[Process[t]][i] = buffer[Process[t]][i]
          /\ \A p \in Processes : p # Process[t] => buffer'[p] = buffer[p]
      <3>1. buffer \in [Processes -> [Cells -> Byte]]
        BY DEF IInv, Types
      <3> QED  BY <1>1, <2>1, <2>2, <3>1, Bytes
    <2>5. Types'
      BY <2>2, <2>4 DEF IInv, Types
    <2>6. Fits'
      BY <1>1, <2>1, <2>2, <2>3 DEF IInv, Fits
    <2>7. ASSUME NEW u \in Threads, Alone(u)
          PROVE  /\ pc'[u] \in {"end_line", "send"} =>
                      \A i \in 1 .. length'[u] : i \in Cells => buffer'[Process[u]][i] = Text(u, i)
                 /\ pc'[u] = "send" => /\ buffer'[Process[u]][length'[u] + 1] = CR
                                       /\ buffer'[Process[u]][length'[u] + 2] = LF
      <3>1. CASE u = t
        <4>1. \A i \in 1 .. n : i \in Cells => buffer[Process[t]][i] = Text(t, i)
          BY <1>1, <2>7, <3>1 DEF IInv, Own
        <4>2. length'[t] = n
          BY <1>1, <2>2
        <4> QED  BY <1>1, <2>3, <2>4, <3>1, <4>1, <4>2
      <3>2. CASE u # t
        <4>1. Process[u] # Process[t]
          BY <2>7, <3>2 DEF Alone
        <4>2. buffer'[Process[u]] = buffer[Process[u]] /\ pc'[u] = pc[u] /\ length'[u] = length[u]
          BY <2>2, <2>3, <2>4, <3>2, <4>1
        <4> QED  BY <2>7, <4>2 DEF IInv, Own
      <3> QED  BY <3>1, <3>2
    <2>8. Own'
      BY <2>7 DEF Own, Alone
    <2> QED  BY <2>2, <2>5, <2>6, <2>8 DEF IInv, Ended, TornOnlyByPeers
  <1> QED  BY <1>2, <1>3

\* What is written is the line of the thread, or the thread has a peer.
LEMMA SendStep ==
  ASSUME IInv, NEW t \in Threads, Send(t)
  PROVE  IInv'
  <1> USE Buffers
  <1>1. PICK n \in Nat : /\ n = length[t] /\ pc[t] = "send" /\ n + 2 <= BufferSize
                        /\ BufferSize \in Nat /\ Cells = 1 .. BufferSize
    BY Sizes DEF Send, IInv, Types, Fits
  <1> DEFINE line == [i \in 1 .. n + 2 |-> buffer[Process[t]][i]]
  <1>2. /\ fifo' = fifo \o line /\ pc' = [pc EXCEPT ![t] = "idle"]
        /\ torn' = IF line = Line(t, n) THEN torn ELSE torn \cup {t}
        /\ UNCHANGED <<buffer, length, lost>>
    BY <1>1 DEF Send
  <1>3. /\ line \in [1 .. n + 2 -> Byte] /\ line \in Seq(Byte) /\ Len(line) = n + 2
        /\ line[n + 2] = buffer[Process[t]][n + 2]
    <2>1. buffer[Process[t]] \in [Cells -> Byte]
      BY DEF IInv, Types
    <2>2. line \in [1 .. n + 2 -> Byte] /\ n + 2 \in Nat
      BY <1>1, <2>1
    <2>3. line \in Seq(Byte)
      BY <2>2, SeqDef
    <2>4. DOMAIN line = 1 .. n + 2 /\ line[n + 2] = buffer[Process[t]][n + 2]
      BY <1>1
    <2>5. Len(line) \in Nat /\ DOMAIN line = 1 .. Len(line)
      BY <2>3, LenProperties
    <2> HIDE DEF line
    <2> QED  BY <2>2, <2>3, <2>4, <2>5
  <1>4. Alone(t) => line = Line(t, n)
    <2> SUFFICES ASSUME Alone(t) PROVE line = Line(t, n)
      OBVIOUS
    <2>1. /\ \A i \in 1 .. n : buffer[Process[t]][i] = Text(t, i)
          /\ buffer[Process[t]][n + 1] = CR /\ buffer[Process[t]][n + 2] = LF
      BY <1>1 DEF IInv, Own
    <2>2. /\ Line(t, n) \in Seq({Text(t, i) : i \in 1 .. n} \cup {CR, LF})
          /\ Len(Line(t, n)) = n + 2
          /\ \A i \in 1 .. n : Line(t, n)[i] = Text(t, i)
          /\ Line(t, n)[n + 1] = CR /\ Line(t, n)[n + 2] = LF
      <3> DEFINE S == {Text(t, i) : i \in 1 .. n} \cup {CR, LF}
                 text == [i \in 1 .. n |-> Text(t, i)]
                 end == <<CR, LF>>
      <3>1. text \in [1 .. n -> S]  OBVIOUS
      <3>2. text \in Seq(S)  BY <3>1, SeqDef
      <3>3. Len(text) = n /\ \A i \in 1 .. n : text[i] = Text(t, i)  BY <3>1, <3>2
      <3>4. end \in Seq(S) /\ Len(end) = 2 /\ end[1] = CR /\ end[2] = LF
        <4> HIDE DEF CR, LF
        <4> QED  OBVIOUS
      <3>5. Line(t, n) = text \o end  BY DEF Line
      <3> HIDE DEF S, text, end
      <3>6. /\ text \o end \in Seq(S) /\ Len(text \o end) = n + 2
            /\ \A i \in 1 .. n + 2 : (text \o end)[i] = IF i <= n THEN text[i] ELSE end[i - n]
        <4>1. /\ text \o end \in Seq(S) /\ Len(text \o end) = Len(text) + Len(end)
              /\ \A i \in 1 .. Len(text) + Len(end) :
                    (text \o end)[i] = IF i <= Len(text) THEN text[i] ELSE end[i - Len(text)]
          BY <3>2, <3>4, ConcatProperties
        <4> QED  BY <3>3, <3>4, <4>1
      <3>7. \A i \in 1 .. n : (text \o end)[i] = Text(t, i)
        BY <3>3, <3>6
      <3>8. (text \o end)[n + 1] = CR /\ (text \o end)[n + 2] = LF
        <4>1. n + 1 \in 1 .. n + 2 /\ n + 2 \in 1 .. n + 2 /\ n + 1 - n = 1 /\ n + 2 - n = 2
              /\ ~(n + 1 <= n) /\ ~(n + 2 <= n)
          OBVIOUS
        <4>2. (text \o end)[n + 1] = end[n + 1 - n]
          BY <3>6, <4>1, SMTT(30)
        <4>3. (text \o end)[n + 2] = end[n + 2 - n]
          BY <3>6, <4>1, SMTT(30)
        <4>4. (text \o end)[n + 1] = end[1] /\ (text \o end)[n + 2] = end[2]
          BY <4>1, <4>2, <4>3, Zenon
        <4> QED  BY <3>4, <4>4, Zenon
      <3> QED  BY <3>5, <3>6, <3>7, <3>8 DEF S
    <2>3. Line(t, n) = [i \in 1 .. n + 2 |-> Line(t, n)[i]]
      BY <2>2, LenProperties
    <2>4. \A i \in 1 .. n + 2 : line[i] = Line(t, n)[i]
      <3> SUFFICES ASSUME NEW i \in 1 .. n + 2 PROVE buffer[Process[t]][i] = Line(t, n)[i]
        OBVIOUS
      <3>1. i \in 1 .. n \/ i = n + 1 \/ i = n + 2
        OBVIOUS
      <3> QED  BY <2>1, <2>2, <3>1
    <2> QED  BY <2>3, <2>4
  <1>5. line = Line(t, n) => line[n + 2] = LF
    <2> SUFFICES ASSUME line = Line(t, n) PROVE Line(t, n)[n + 2] = LF
      OBVIOUS
    <2> DEFINE text == [i \in 1 .. n |-> Text(t, i)]
               S == {Text(t, i) : i \in 1 .. n} \cup {CR, LF}
    <2>1. text \in [1 .. n -> S]  OBVIOUS
    <2>2. text \in Seq(S)  BY <2>1, SeqDef
    <2>3. Len(text) = n  BY <2>1, <2>2
    <2>4. <<CR, LF>> \in Seq(S) /\ Len(<<CR, LF>>) = 2 /\ <<CR, LF>>[2] = LF
      <3> HIDE DEF CR, LF
      <3> QED  OBVIOUS
    <2>5. Line(t, n) = text \o <<CR, LF>>  BY DEF Line
    <2> HIDE DEF text, S
    <2> QED  BY <2>2, <2>3, <2>4, <2>5, ConcatProperties
  <1> HIDE DEF line
  <1>6. Types'
    BY <1>2, <1>3, ConcatProperties DEF IInv, Types
  <1>7. pc'[t] = "idle" /\ \A u \in Threads : u # t => pc'[u] = pc[u]
    BY <1>2 DEF IInv, Types
  <1>8. Fits'
    BY <1>2, <1>7 DEF IInv, Fits
  <1>9. Own'
    BY <1>2, <1>7 DEF IInv, Own, Alone
  <1>10. Ended'
    <2> SUFFICES ASSUME torn' = {} PROVE fifo'[Len(fifo')] = LF /\ \A l \in lost' : l.full
      BY DEF Ended
    <2>1. torn = {} /\ line = Line(t, n)
      BY <1>2
    <2>2. fifo \in Seq(Byte)
      BY DEF IInv, Types
    <2>3. Len(fifo') = Len(fifo) + n + 2 /\ fifo'[Len(fifo) + n + 2] = line[n + 2]
      <3>1. /\ Len(fifo \o line) = Len(fifo) + Len(line) /\ Len(fifo) \in Nat
            /\ \A i \in 1 .. Len(fifo) + Len(line) :
                  (fifo \o line)[i] = IF i <= Len(fifo) THEN fifo[i] ELSE line[i - Len(fifo)]
        BY <1>3, <2>2, ConcatProperties, LenProperties
      <3>2. Len(fifo) + n + 2 \in 1 .. Len(fifo) + Len(line) /\ ~(Len(fifo) + n + 2 <= Len(fifo))
            /\ Len(fifo) + n + 2 - Len(fifo) = n + 2
        BY <1>3, <3>1
      <3> QED  BY <1>2, <1>3, <3>1, <3>2
    <2> QED  BY <1>2, <1>5, <2>1, <2>3 DEF IInv, Ended
  <1>11. TornOnlyByPeers'
    BY <1>2, <1>4 DEF IInv, TornOnlyByPeers, Alone
  <1> QED  BY <1>6, <1>8, <1>9, <1>10, <1>11 DEF IInv

\* A read that does not fill the reader's buffer takes all there is.
LEMMA ReadStep ==
  ASSUME IInv, Read
  PROVE  IInv'
  <1>1. PICK n \in Nat : n = IF Len(fifo) < ReadSize THEN Len(fifo) ELSE ReadSize
    BY Sizes DEF IInv, Types
  <1>2. /\ fifo # <<>> /\ fifo' = SubSeq(fifo, n + 1, Len(fifo))
        /\ lost' = IF fifo[n] = LF THEN lost ELSE lost \cup {[byte |-> fifo[n], full |-> n = ReadSize]}
        /\ UNCHANGED <<buffer, pc, length, torn>>
    BY <1>1 DEF Read
  <1>3. fifo \in Seq(Byte) /\ Len(fifo) \in Nat \ {0} /\ n \in 1 .. Len(fifo)
    <2>1. fifo \in Seq(Byte) /\ ReadSize \in Nat \ {0}
      BY Sizes DEF IInv, Types
    <2>2. Len(fifo) \in Nat \ {0}
      BY <1>2, <2>1, EmptySeq
    <2> QED  BY <1>1, <2>1, <2>2
  <1>4. fifo' \in Seq(Byte) /\ Len(fifo') = Len(fifo) - n
        /\ (fifo' # <<>> => fifo'[Len(fifo')] = fifo[Len(fifo)])
    <2>1. /\ SubSeq(fifo, n + 1, Len(fifo)) \in Seq(Byte)
          /\ Len(SubSeq(fifo, n + 1, Len(fifo))) = Len(fifo) - n
      BY <1>3
    <2>2. ASSUME fifo' # <<>>  PROVE fifo'[Len(fifo')] = fifo[Len(fifo)]
      <3>1. Len(fifo) - n \in 1 .. Len(fifo) - n
        BY <1>2, <1>3, <2>1, <2>2, EmptySeq
      <3>2. SubSeq(fifo, n + 1, Len(fifo))[Len(fifo) - n] = fifo[n + 1 + (Len(fifo) - n) - 1]
        BY <1>3, <3>1
      <3>3. n + 1 + (Len(fifo) - n) - 1 = Len(fifo)
        BY <1>3
      <3> QED  BY <1>2, <2>1, <3>2, <3>3
    <2> QED  BY <1>2, <2>1, <2>2
  <1>5. Types'
    BY <1>2, <1>4 DEF IInv, Types
  <1>6. Fits' /\ Own' /\ TornOnlyByPeers'
    BY <1>2 DEF IInv, Fits, Own, Alone, TornOnlyByPeers
  <1>7. Ended'
    <2> SUFFICES ASSUME torn' = {}
                 PROVE  (fifo' # <<>> => fifo'[Len(fifo')] = LF) /\ \A l \in lost' : l.full
      BY DEF Ended
    <2>1. fifo[Len(fifo)] = LF /\ \A l \in lost : l.full
      BY <1>2 DEF IInv, Ended
    <2>2. fifo[n] # LF => n = ReadSize
      BY <1>1, <1>3, <2>1
    <2>3. ASSUME NEW l \in lost'  PROVE l.full
      <3>1. CASE l \in lost
        BY <2>1, <3>1
      <3>2. CASE l \notin lost
        <4>1. fifo[n] # LF /\ l = [byte |-> fifo[n], full |-> n = ReadSize]
          BY <1>2, <2>3, <3>2
        <4>2. n = ReadSize
          BY <2>2, <4>1
        <4>3. l.full = (n = ReadSize)
          BY <4>1
        <4> QED  BY <4>2, <4>3
      <3> QED  BY <3>1, <3>2
    <2> QED  BY <1>4, <2>1, <2>3
  <1> QED  BY <1>5, <1>6, <1>7 DEF IInv

\* A thread whose process it has alone owns the buffer from print_log's formatting
\* to its write, and the pieces in the FIFO are whole lines or torn ones.
THEOREM Invariance == Spec => []IInv
  <1>1. IInv /\ [Next]_vars => IInv'
    <2> SUFFICES ASSUME IInv, [Next]_vars PROVE IInv'
      OBVIOUS
    <2>1. CASE UNCHANGED vars
      BY <2>1 DEF vars, IInv, Types, Fits, Own, Alone, Ended, TornOnlyByPeers
    <2> QED  BY <2>1, FormatStep, EndLineStep, SendStep, ReadStep DEF Next
  <1> QED  BY InitInv, <1>1, PTL DEF Spec

\* logger_manage.cpp:101: the room for the end of line is there when it is needed.
THEOREM LinesFit == Spec => []LineInBuffer
  <1>1. IInv => LineInBuffer
    BY DEF IInv, Fits, LineInBuffer
  <1> QED  BY Invariance, <1>1, PTL

\* logger_manage.cpp:99: giving the mutex back early hurts threads of one process
\* only, however many processes write to the FIFO.
THEOREM TornByPeers == Spec => []TornOnlyByPeers
  <1>1. IInv => TornOnlyByPeers
    BY DEF IInv
  <1> QED  BY Invariance, <1>1, PTL

\* log_process.cpp:70: the reader's zero hits the end of a line unless the read
\* was as long as its buffer.
THEOREM LossWhenFull == Spec => []LossOnlyWhenFull
  <1>1. IInv => LossOnlyWhenFull
    BY DEF IInv, Ended, LossOnlyWhenFull
  <1> QED  BY Invariance, <1>1, PTL

-----------------------------------------------------------------------------
(* The way of a command.  Who may act is seen from what login() has heard: *)
(* a login lasts while heard continues a chain that begins with the        *)
(* password.  What a process carries out is the first line of a chunk, and *)
(* lines keep their order over all places, whichever life of the logger    *)
(* the FIFO belongs to that they wait in.                                  *)

Top == Len(heard)

\* Times that login() took, from a password to the n-th, with nothing that ends the login.
Chain(n) == \E i \in 1 .. n :
                /\ heard[i] # <<>> /\ Len(heard[i][1]) = 1 /\ heard[i][1][1].kind = "passwd"
                /\ \A k \in i .. n - 1 : /\ heard[k + 1] # <<>> /\ Gap(k) <= LOGIN_TIMEOUT
                                         /\ heard[k + 1][1][1].kind # "logout"

Allowed(line) == \E j \in DOMAIN heard :
                     heard[j] # <<>> /\ heard[j][1][1] = line /\ LoggedIn(j)
Fine(d, line) == line.kind = "command" /\ line.to = d /\ (~AllowNoPasswd => Allowed(line))

DeviceType == [at : {"read", "log", "fail", "down"}, of : Lives, got : Seq(CommandLine)]
Calls == {<<>>} \cup (Seq(CommandLine) \X Nat)   \* what heard holds

RouteTypes ==
    /\ now \in Nat /\ last_login_timers \in Nat /\ typed \in Nat
    /\ inbox \in Seq(Seq(CommandLine))
    /\ io \in [at : {"read", "expire", "renew", "refuse", "announce", "act", "confirm"},
                chunk : Seq(CommandLine)]
    /\ life \in Nat /\ life >= 1 /\ deaths \in 0 .. MaxDeaths
    /\ up => life <= deaths + 1
    /\ ~up => life <= deaths
    /\ cmd_fifo \in [Lives -> [Devices -> Seq(CommandLine)]]
    /\ device \in [Devices -> DeviceType]
    /\ ran \in [Devices -> Seq(CommandLine)]
    /\ heard \in Seq(Calls)

IoInv ==
    /\ io.at # "read" => up
    /\ ~up => ~is_login_
    /\ io.at # "read" => io.chunk # <<>>
    /\ io.at \in {"expire", "renew"} => ~AllowNoPasswd /\ ~is_login_
    /\ io.at \notin {"read", "expire", "renew"} =>
           Top > 0 /\ heard[Top] = <<io.chunk, last_login_timers>>
    /\ io.at \in {"announce", "act"} /\ io.chunk[1].kind = "command" /\ ~AllowNoPasswd =>
           LoggedIn(Top)
    /\ \A i \in DOMAIN inbox : inbox[i] # <<>>

LoginInv ==
    ~AllowNoPasswd /\ is_login_ =>
        /\ Top > 0 /\ heard[Top] # <<>> /\ heard[Top][2] = last_login_timers
        /\ \/ Chain(Top)
           \/ io.at \in {"announce", "act"} /\ io.chunk[1].kind = "logout"

HeadInv ==
    \A d \in Devices :
        /\ \A g \in Lives : cmd_fifo[g][d] # <<>> => Fine(d, cmd_fifo[g][d][1])
        /\ device[d].at = "log" => device[d].got # <<>>
        /\ device[d].got # <<>> => Fine(d, device[d].got[1])
        /\ \A i \in DOMAIN ran[d] : Fine(d, ran[d][i])

Lines(s)    == {s[i] : i \in DOMAIN s}
Below(S, T) == \A x \in S, y \in T : x.n < y.n
Rising(s)   == \A i, j \in DOMAIN s : i < j => s[i].n < s[j].n

Had(d) == Lines(ran[d]) \cup Lines(device[d].got)
Given  == {x \in CommandLine : \/ \E d \in Devices : x \in Had(d)
                               \/ \E g \in Lives, d \in Devices : x \in Lines(cmd_fifo[g][d])}
Chunk  == IF io.at \in {"expire", "renew", "announce", "act"} THEN Lines(io.chunk) ELSE {}

\* Lines are in order in every place, and from each place to those before it.
DeviceOrder(d) ==
    /\ Rising(ran[d]) /\ Rising(device[d].got)
    /\ Below(Lines(ran[d]), Lines(device[d].got))
    /\ device[d].of <= life
FifoOrder(d) ==
    \A g \in Lives :
        /\ Rising(cmd_fifo[g][d])
        /\ g >= device[d].of => Below(Had(d), Lines(cmd_fifo[g][d]))
        /\ \A h \in Lives : g < h => Below(Lines(cmd_fifo[g][d]), Lines(cmd_fifo[h][d]))
        /\ g > life => cmd_fifo[g][d] = <<>>
InboxOrder ==
    \A i \in DOMAIN inbox :
        /\ Rising(inbox[i]) /\ Below(Given \cup Chunk, Lines(inbox[i]))
        /\ \A k \in DOMAIN inbox : i < k => Below(Lines(inbox[i]), Lines(inbox[k]))
        /\ \A x \in Lines(inbox[i]) : x.n <= typed
OrderInv ==
    /\ \A d \in Devices : DeviceOrder(d) /\ FifoOrder(d)
    /\ Chunk # {} => Rising(io.chunk)
    /\ Below(Given, Chunk)
    /\ InboxOrder
    /\ \A x \in Given \cup Chunk : x.n <= typed

RouteInv == RouteTypes /\ IoInv /\ LoginInv /\ HeadInv /\ OrderInv

-----------------------------------------------------------------------------
(* Facts on lines, sequences of lines and sets of lines.                   *)

LEMMA LineNumbers == \A x \in CommandLine : x.n \in Nat
  BY RouteBounds DEF CommandLine

LEMMA LinesOf ==
  ASSUME NEW S, NEW s \in Seq(S)
  PROVE  /\ Lines(s) \subseteq S
         /\ \A x : x \in Lines(s) <=> \E i \in 1 .. Len(s) : x = s[i]
         /\ s = <<>> <=> Lines(s) = {}
         /\ s # <<>> => s[1] \in Lines(s)
  <1>1. Len(s) \in Nat /\ DOMAIN s = 1 .. Len(s) /\ \A i \in 1 .. Len(s) : s[i] \in S
    OBVIOUS
  <1>2. s # <<>> => 1 \in DOMAIN s
    OBVIOUS
  <1>3. s = <<>> => DOMAIN s = {}
    OBVIOUS
  <1> QED  BY <1>1, <1>2, <1>3 DEF Lines

LEMMA LinesAppend ==
  ASSUME NEW S, NEW s \in Seq(S), NEW e \in S
  PROVE  Lines(Append(s, e)) = Lines(s) \cup {e}
  <1>1. /\ Len(s) \in Nat /\ DOMAIN s = 1 .. Len(s) /\ DOMAIN Append(s, e) = 1 .. Len(s) + 1
        /\ \A i \in 1 .. Len(s) : Append(s, e)[i] = s[i]
        /\ Append(s, e)[Len(s) + 1] = e
    OBVIOUS
  <1>2. \A i \in 1 .. Len(s) + 1 : i \in 1 .. Len(s) \/ i = Len(s) + 1
    BY <1>1
  <1>3. Len(s) + 1 \in 1 .. Len(s) + 1 /\ \A i \in 1 .. Len(s) : i \in 1 .. Len(s) + 1
    BY <1>1
  <1>4. Lines(Append(s, e)) \subseteq Lines(s) \cup {e}
    BY <1>1, <1>2 DEF Lines
  <1>5. Lines(s) \cup {e} \subseteq Lines(Append(s, e))
    BY <1>1, <1>3 DEF Lines
  <1> QED  BY <1>4, <1>5

LEMMA LinesConcat ==
  ASSUME NEW S, NEW s \in Seq(S), NEW t \in Seq(S)
  PROVE  Lines(s \o t) = Lines(s) \cup Lines(t)
  <1>1. /\ Len(s) \in Nat /\ Len(t) \in Nat /\ DOMAIN s = 1 .. Len(s) /\ DOMAIN t = 1 .. Len(t)
        /\ DOMAIN (s \o t) = 1 .. Len(s) + Len(t)
        /\ \A i \in 1 .. Len(s) : (s \o t)[i] = s[i]
        /\ \A i \in 1 .. Len(t) : (s \o t)[Len(s) + i] = t[i]
    OBVIOUS
  <1>2. \A i \in 1 .. Len(s) + Len(t) : i \in 1 .. Len(s) \/ \E k \in 1 .. Len(t) : i = Len(s) + k
    <2> SUFFICES ASSUME NEW i \in 1 .. Len(s) + Len(t), i \notin 1 .. Len(s)
                 PROVE  \E k \in 1 .. Len(t) : i = Len(s) + k
      OBVIOUS
    <2>1. i - Len(s) \in 1 .. Len(t) /\ i = Len(s) + (i - Len(s))
      BY <1>1
    <2> QED  BY <2>1
  <1>3. /\ \A i \in 1 .. Len(s) : i \in 1 .. Len(s) + Len(t)
        /\ \A i \in 1 .. Len(t) : Len(s) + i \in 1 .. Len(s) + Len(t)
    BY <1>1
  <1>4. Lines(s \o t) \subseteq Lines(s) \cup Lines(t)
    <2> SUFFICES ASSUME NEW i \in 1 .. Len(s) + Len(t)
                 PROVE  (s \o t)[i] \in Lines(s) \cup Lines(t)
      BY <1>1 DEF Lines
    <2>1. CASE i \in 1 .. Len(s)
      BY <1>1, <2>1 DEF Lines
    <2>2. ASSUME NEW k \in 1 .. Len(t), i = Len(s) + k
          PROVE  (s \o t)[i] \in Lines(s) \cup Lines(t)
      BY <1>1, <2>2 DEF Lines
    <2> QED  BY <1>2, <2>1, <2>2
  <1>5. Lines(s) \cup Lines(t) \subseteq Lines(s \o t)
    BY <1>1, <1>3 DEF Lines
  <1> QED  BY <1>4, <1>5

LEMMA RisingAppend ==
  ASSUME NEW s \in Seq(CommandLine), NEW e \in CommandLine, Rising(s), Below(Lines(s), {e})
  PROVE  Rising(Append(s, e))
  <1>1. /\ Len(s) \in Nat /\ DOMAIN s = 1 .. Len(s) /\ DOMAIN Append(s, e) = 1 .. Len(s) + 1
        /\ \A i \in 1 .. Len(s) : Append(s, e)[i] = s[i]
        /\ Append(s, e)[Len(s) + 1] = e
    OBVIOUS
  <1>2. \A i \in 1 .. Len(s) : s[i].n < e.n
    BY <1>1 DEF Below, Lines
  <1> SUFFICES ASSUME NEW i \in 1 .. Len(s) + 1, NEW j \in 1 .. Len(s) + 1, i < j
               PROVE  Append(s, e)[i].n < Append(s, e)[j].n
    BY <1>1 DEF Rising
  <1>3. i \in 1 .. Len(s)
    BY <1>1
  <1>4. CASE j = Len(s) + 1
    BY <1>1, <1>2, <1>3, <1>4
  <1>5. CASE j \in 1 .. Len(s)
    BY <1>1, <1>3, <1>5 DEF Rising
  <1> QED  BY <1>1, <1>4, <1>5

LEMMA RisingConcat ==
  ASSUME NEW s \in Seq(CommandLine), NEW t \in Seq(CommandLine), Rising(s), Rising(t),
         Below(Lines(s), Lines(t))
  PROVE  Rising(s \o t)
  <1>1. /\ Len(s) \in Nat /\ Len(t) \in Nat /\ DOMAIN s = 1 .. Len(s) /\ DOMAIN t = 1 .. Len(t)
        /\ DOMAIN (s \o t) = 1 .. Len(s) + Len(t)
        /\ \A i \in 1 .. Len(s) : (s \o t)[i] = s[i]
        /\ \A i \in 1 .. Len(s) + Len(t) : i > Len(s) => (s \o t)[i] = t[i - Len(s)]
    OBVIOUS
  <1>2. \A i \in 1 .. Len(s), j \in 1 .. Len(t) : s[i].n < t[j].n
    BY <1>1 DEF Below, Lines
  <1> SUFFICES ASSUME NEW i \in 1 .. Len(s) + Len(t), NEW j \in 1 .. Len(s) + Len(t), i < j
               PROVE  (s \o t)[i].n < (s \o t)[j].n
    BY <1>1 DEF Rising
  <1>3. CASE j <= Len(s)
    <2>1. i \in 1 .. Len(s) /\ j \in 1 .. Len(s)
      BY <1>1, <1>3
    <2> QED  BY <1>1, <2>1 DEF Rising
  <1>4. CASE i <= Len(s) /\ j > Len(s)
    <2>1. i \in 1 .. Len(s) /\ j - Len(s) \in 1 .. Len(t)
      BY <1>1, <1>4
    <2> QED  BY <1>1, <1>2, <1>4, <2>1
  <1>5. CASE i > Len(s)
    <2>1. i - Len(s) \in 1 .. Len(t) /\ j - Len(s) \in 1 .. Len(t) /\ i - Len(s) < j - Len(s)
      BY <1>1, <1>5
    <2>2. (s \o t)[i] = t[i - Len(s)] /\ (s \o t)[j] = t[j - Len(s)]
      BY <1>1, <1>5
    <2> QED  BY <1>1, <2>1, <2>2 DEF Rising
  <1> QED  BY <1>1, <1>3, <1>4, <1>5

LEMMA RisingEmpty == Rising(<<>>) /\ Lines(<<>>) = {}
  BY DEF Rising, Lines

LEMMA BelowSets ==
  /\ \A S, T, U : Below(S \cup T, U) <=> Below(S, U) /\ Below(T, U)
  /\ \A S, T, U : Below(S, T \cup U) <=> Below(S, T) /\ Below(S, U)
  /\ \A S, T, U, W : Below(S, T) /\ U \subseteq S /\ W \subseteq T => Below(U, W)
  BY DEF Below

-----------------------------------------------------------------------------
(* What login() has heard only grows, and a chain stays one.               *)

LEMMA HeardGrows ==
  ASSUME RouteTypes, heard' = heard \/ \E e \in Calls : heard' = Append(heard, e)
  PROVE  /\ \A j \in 1 .. Top : j \in 1 .. Top' /\ heard'[j] = heard[j]
         /\ \A j \in 1 .. Top : LoggedIn(j) => LoggedIn(j)'
         /\ \A j \in 1 .. Top : Chain(j) => Chain(j)'
         /\ \A line : Allowed(line) => Allowed(line)'
         /\ \A d, line : Fine(d, line) => Fine(d, line)'
  <1>0. Top \in Nat /\ Top' \in Nat /\ DOMAIN heard = 1 .. Top /\ DOMAIN heard' = 1 .. Top'
    BY DEF RouteTypes, Top
  <1>1. \A j \in 1 .. Top : j \in 1 .. Top' /\ heard'[j] = heard[j]
    <2>1. CASE heard' = heard
      BY <1>0, <2>1 DEF Top
    <2>2. ASSUME NEW e \in Calls, heard' = Append(heard, e)
          PROVE  \A j \in 1 .. Top : j \in 1 .. Top' /\ heard'[j] = heard[j]
      BY <2>2 DEF RouteTypes, Top
    <2> QED  BY <2>1, <2>2
  <1>2. \A j \in 1 .. Top : \A k \in 1 .. j - 1 : k + 1 \in 1 .. Top /\ k \in 1 .. Top
    BY <1>0
  <1>3. \A j \in 1 .. Top : \A i \in 1 .. j : \A k \in i .. j - 1 : k \in 1 .. j - 1
    BY <1>0
  <1>4. \A j \in 1 .. Top : \A k \in 1 .. j - 1 :
           heard'[k + 1] = heard[k + 1] /\ Gap(k)' = Gap(k)
    BY <1>1, <1>2 DEF Gap
  <1>5. ASSUME NEW j \in 1 .. Top, NEW i \in 1 .. j,
               /\ heard[i] # <<>> /\ Len(heard[i][1]) = 1 /\ heard[i][1][1].kind = "passwd"
               /\ \A k \in i .. j - 1 : /\ heard[k + 1] # <<>> /\ Gap(k) <= LOGIN_TIMEOUT
                                        /\ heard[k + 1][1][1].kind # "logout"
        PROVE  /\ heard'[i] # <<>> /\ Len(heard'[i][1]) = 1 /\ heard'[i][1][1].kind = "passwd"
               /\ \A k \in i .. j - 1 : /\ heard'[k + 1] # <<>> /\ Gap(k)' <= LOGIN_TIMEOUT
                                        /\ heard'[k + 1][1][1].kind # "logout"
    <2>1. i \in 1 .. Top
      BY <1>0
    <2>2. heard'[i] = heard[i]
      BY <1>1, <2>1
    <2>3. \A k \in i .. j - 1 : heard'[k + 1] = heard[k + 1] /\ Gap(k)' = Gap(k)
      BY <1>3, <1>4
    <2> QED  BY <1>5, <2>2, <2>3
  <1>6. \A j \in 1 .. Top : Chain(j) => Chain(j)'
    BY <1>5 DEF Chain
  <1>7. \A j \in 1 .. Top : LoggedIn(j) => LoggedIn(j)'
    <2> SUFFICES ASSUME NEW j \in 1 .. Top, LoggedIn(j) PROVE LoggedIn(j)'
      OBVIOUS
    <2>1. PICK i \in 1 .. j - 1 :
             /\ heard[i] # <<>> /\ Len(heard[i][1]) = 1 /\ heard[i][1][1].kind = "passwd"
             /\ \A k \in i .. j - 1 : /\ heard[k + 1] # <<>> /\ Gap(k) <= LOGIN_TIMEOUT
                                      /\ heard[k + 1][1][1].kind # "logout"
      BY DEF LoggedIn
    <2>2. i \in 1 .. j
      BY <1>0
    <2> QED  BY <1>5, <2>1, <2>2 DEF LoggedIn
  <1>8. \A line : Allowed(line) => Allowed(line)'
    BY <1>0, <1>1, <1>7 DEF Allowed
  <1>9. \A d, line : Fine(d, line) => Fine(d, line)'
    BY <1>8 DEF Fine
  <1> QED  BY <1>1, <1>6, <1>7, <1>8, <1>9

\* A message in time continues the chain.
LEMMA ChainGoesOn ==
  ASSUME RouteTypes, Top > 0, Chain(Top), NEW e \in Calls, heard' = Append(heard, e), e # <<>>,
         e[2] - heard[Top][2] <= LOGIN_TIMEOUT, e[1][1].kind # "logout"
  PROVE  Chain(Top)' /\ LoggedIn(Top)'
  <1>0. Top \in Nat /\ Top' = Top + 1 /\ heard'[Top + 1] = e /\ heard'[Top] = heard[Top]
    BY DEF RouteTypes, Top
  <1>1. PICK i \in 1 .. Top :
           /\ heard[i] # <<>> /\ Len(heard[i][1]) = 1 /\ heard[i][1][1].kind = "passwd"
           /\ \A k \in i .. Top - 1 : /\ heard[k + 1] # <<>> /\ Gap(k) <= LOGIN_TIMEOUT
                                      /\ heard[k + 1][1][1].kind # "logout"
    BY DEF Chain
  <1>2. \A j \in 1 .. Top : heard'[j] = heard[j]
    BY HeardGrows
  <1>3. ASSUME NEW k \in i .. Top
        PROVE  /\ heard'[k + 1] # <<>> /\ Gap(k)' <= LOGIN_TIMEOUT
               /\ heard'[k + 1][1][1].kind # "logout"
    <2>1. CASE k = Top
      BY <1>0, <2>1 DEF Gap
    <2>2. CASE k # Top
      <3>1. k \in i .. Top - 1 /\ k \in 1 .. Top /\ k + 1 \in 1 .. Top
        BY <1>0, <2>2
      <3>2. heard'[k + 1] = heard[k + 1] /\ Gap(k)' = Gap(k)
        BY <1>2, <3>1 DEF Gap
      <3> QED  BY <1>1, <3>1, <3>2
    <2> QED  BY <2>1, <2>2
  <1>4. /\ heard'[i] # <<>> /\ Len(heard'[i][1]) = 1 /\ heard'[i][1][1].kind = "passwd"
    BY <1>1, <1>2
  <1>5. i \in 1 .. Top' /\ i \in 1 .. Top' - 1 /\ i .. Top' - 1 = i .. Top
    BY <1>0
  <1> QED  BY <1>3, <1>4, <1>5 DEF Chain, LoggedIn

-----------------------------------------------------------------------------
LEMMA RouteInitInv == RouteInit => RouteInv
  <1> SUFFICES ASSUME RouteInit PROVE RouteInv
    OBVIOUS
  <1>1. /\ now = 0 /\ is_login_ = FALSE /\ last_login_timers = 0 /\ typed = 0 /\ inbox = <<>>
        /\ io = [at |-> "read", chunk |-> <<>>] /\ life = 1 /\ up = TRUE /\ deaths = 0
        /\ cmd_fifo = [g \in Lives |-> [d \in Devices |-> <<>>]]
        /\ device = [d \in Devices |-> [at |-> "read", of |-> 1, got |-> <<>>]]
        /\ ran = [d \in Devices |-> <<>>] /\ heard = <<>>
    BY DEF RouteInit, Empty
  <1>2. 1 \in Lives /\ 0 \in 0 .. MaxDeaths /\ Lives \subseteq Nat
    BY RouteBounds DEF Lives
  <1>3. RouteTypes
    BY <1>1, <1>2 DEF RouteTypes, DeviceType
  <1>4. IoInv /\ LoginInv
    BY <1>1 DEF IoInv, LoginInv
  <1>5. HeadInv
    BY <1>1 DEF HeadInv
  <1>6. /\ Given = {} /\ Chunk = {}
        /\ \A d \in Devices : Had(d) = {}
    BY <1>1, RisingEmpty DEF Given, Chunk, Had
  <1>7. \A d \in Devices : DeviceOrder(d)
    BY <1>1, RisingEmpty DEF DeviceOrder, Below
  <1>8. \A d \in Devices : FifoOrder(d)
    BY <1>1, <1>6, RisingEmpty DEF FifoOrder, Below
  <1>9. OrderInv
    BY <1>1, <1>6, <1>7, <1>8 DEF OrderInv, InboxOrder, Below
  <1> QED  BY <1>3, <1>4, <1>5, <1>9 DEF RouteInv

-----------------------------------------------------------------------------
(* Types.                                                                  *)

LEMMA DeviceExcept ==
  ASSUME NEW f \in [Devices -> DeviceType], NEW d \in Devices,
         NEW a \in {"read", "log", "fail", "down"}, NEW g \in Seq(CommandLine)
  PROVE  /\ [f EXCEPT ![d].at = a, ![d].got = g] \in [Devices -> DeviceType]
         /\ [f EXCEPT ![d].at = a, ![d].got = g][d] = [at |-> a, of |-> f[d].of, got |-> g]
         /\ \A e \in Devices : e # d => [f EXCEPT ![d].at = a, ![d].got = g][e] = f[e]
  <1> DEFINE both == [[f EXCEPT ![d].at = a] EXCEPT ![d].got = g]
  <1>1. [f EXCEPT ![d].at = a, ![d].got = g] = both
    OBVIOUS
  <1>2. /\ both \in [Devices -> DeviceType]
        /\ both[d] = [at |-> a, of |-> f[d].of, got |-> g]
        /\ \A e \in Devices : e # d => both[e] = f[e]
    BY DEF DeviceType
  <1> HIDE DEF both
  <1> QED  BY <1>1, <1>2

LEMMA RouteTypesStep ==
  ASSUME RouteTypes, IoInv, HeadInv, [RouteNext]_routeVars
  PROVE  RouteTypes'
  <1> USE DEF RouteTypes
  <1>0. Lives = 1 .. MaxDeaths + 1 /\ MaxDeaths \in Nat
    BY RouteBounds DEF Lives
  <1>00. life \in Lives
    BY <1>0
  <1>1. CASE Tick
    BY <1>1 DEF Tick, login, logger
  <1>2. ASSUME NEW line \in CommandLine, Type(line) PROVE RouteTypes'
    <2>1. inbox' \in Seq(Seq(CommandLine))
      <3>1. <<line>> \in Seq(CommandLine)
        OBVIOUS
      <3>2. CASE inbox' = Append(inbox, <<line>>)
        BY <3>1, <3>2
      <3>3. CASE inbox # <<>> /\ inbox' = [inbox EXCEPT ![Len(inbox)] = Append(@, line)]
        <4>1. Len(inbox) \in 1 .. Len(inbox) /\ inbox[Len(inbox)] \in Seq(CommandLine)
          BY <3>3
        <4>2. Append(inbox[Len(inbox)], line) \in Seq(CommandLine)
          BY <4>1
        <4> QED  BY <3>3, <4>1, <4>2, ExceptSeq
      <3> QED  BY <1>2, <3>2, <3>3 DEF Type
    <2>2. typed' \in Nat
      BY <1>2, LineNumbers DEF Type
    <2> QED  BY <1>2, <2>1, <2>2 DEF Type, login, logger
  <1>3. CASE Login
    <2>1. /\ inbox # <<>> /\ inbox' = Tail(inbox) /\ last_login_timers' \in {last_login_timers, now}
          /\ io'.chunk = Head(inbox) /\ io' = [at |-> io'.at, chunk |-> Head(inbox)]
          /\ io'.at \in {"read", "expire", "renew", "refuse", "announce", "act", "confirm"}
          /\ heard' = Append(heard, <<Head(inbox), now>>)
          /\ UNCHANGED <<now, typed, life, up, cmd_fifo, device, deaths, ran>>
      BY <1>3 DEF Login, Judged
    <2>2. Head(inbox) \in Seq(CommandLine) /\ Tail(inbox) \in Seq(Seq(CommandLine))
      BY <2>1
    <2>3. heard' \in Seq(Calls)
      BY <2>1, <2>2 DEF Calls
    <2> QED  BY <2>1, <2>2, <2>3
  <1>4. CASE Announce
    <2>1. /\ io' = [io EXCEPT !.at = io'.at]
          /\ io'.at \in {"read", "expire", "renew", "refuse", "announce", "act", "confirm"}
      BY <1>4 DEF Announce, Go, Judged
    <2> QED  BY <1>4, <2>1 DEF Announce, login
  <1>12. CASE Renew
    <2>1. /\ io' = [io EXCEPT !.at = io'.at]
          /\ io'.at \in {"read", "expire", "renew", "refuse", "announce", "act", "confirm"}
      BY <1>12 DEF Renew, Go, Judged
    <2>2. io.chunk \in Seq(CommandLine) /\ io' \in [at : {io'.at}, chunk : Seq(CommandLine)]
      BY <2>1
    <2>3. heard' \in Seq(Calls) /\ last_login_timers' \in Nat
      BY <1>12, <2>2 DEF Renew, Calls
    <2> QED  BY <1>12, <2>1, <2>3 DEF Renew
  <1>5. CASE Dispatch
    <2>1. PICK d \in Devices : d = io.chunk[1].to /\
             cmd_fifo' = [cmd_fifo EXCEPT ![life][d] = @ \o io.chunk]
      <3>1. io.chunk # <<>> /\ io.chunk[1] \in CommandLine /\ io.chunk[1].kind = "command"
        BY <1>5 DEF Dispatch, IoInv
      <3>2. io.chunk[1].to \in Devices
        BY <3>1 DEF CommandLine
      <3> QED  BY <1>5, <3>2 DEF Dispatch
    <2>2. cmd_fifo[life][d] \o io.chunk \in Seq(CommandLine)
      BY <1>00
    <2>3. cmd_fifo' \in [Lives -> [Devices -> Seq(CommandLine)]]
      BY <1>00, <2>1, <2>2
    <2>4. io' = [io EXCEPT !.at = "read"]
      BY <1>5 DEF Dispatch, Go
    <2> QED  BY <1>5, <2>3, <2>4 DEF Dispatch, login
  <1>6. CASE Passwd \/ Logout
    <2>1. \E w \in {"read", "confirm"} : io' = [io EXCEPT !.at = w]
      BY <1>6 DEF Passwd, Logout, Go
    <2> QED  BY <1>6, <2>1 DEF Passwd, Logout
  <1>7. CASE Forward
    BY <1>7 DEF Forward, login, logger
  <1>8. ASSUME NEW d \in Devices, DeviceStep(d) \/ DeviceDies(d) \/ DeviceStarts(d)
        PROVE  RouteTypes'
    <2>0. device[d].of \in Lives
      BY DEF DeviceType
    <2>1. CASE DeviceRead(d)
      <3>1. cmd_fifo[device[d].of][d] \in Seq(CommandLine)
        BY <2>0
      <3>2. device' \in [Devices -> DeviceType]
        <4>1. PICK g \in Seq(CommandLine) : device' = [device EXCEPT ![d].at = "log", ![d].got = g]
          BY <2>1, <3>1 DEF DeviceRead
        <4>2. "log" \in {"read", "log", "fail", "down"} /\ device \in [Devices -> DeviceType]
          OBVIOUS
        <4> HIDE DEF RouteTypes
        <4> QED  BY <4>1, <4>2, DeviceExcept
      <3>3. cmd_fifo' \in [Lives -> [Devices -> Seq(CommandLine)]]
        BY <2>0, <2>1 DEF DeviceRead
      <3> QED  BY <2>1, <3>2, <3>3 DEF DeviceRead, login, logger
    <2>2. CASE DeviceRun(d)
      <3>1. device[d].got # <<>> /\ device[d].got[1] \in CommandLine
        BY <2>2 DEF DeviceRun, HeadInv, DeviceType
      <3>2. ran' \in [Devices -> Seq(CommandLine)]
        BY <2>2, <3>1 DEF DeviceRun
      <3>3. <<>> \in Seq(CommandLine)
        OBVIOUS
      <3>4. \E a \in {"read", "fail"} : device' = [device EXCEPT ![d].at = a, ![d].got = <<>>]
        BY <2>2 DEF DeviceRun
      <3>5. device' \in [Devices -> DeviceType]
        <4>1. PICK a \in {"read", "fail"} : device' = [device EXCEPT ![d].at = a, ![d].got = <<>>]
          BY <3>4
        <4>2. a \in {"read", "log", "fail", "down"} /\ device \in [Devices -> DeviceType]
          BY <4>1
        <4> HIDE DEF RouteTypes
        <4> QED  BY <3>3, <4>1, <4>2, DeviceExcept
      <3> QED  BY <2>2, <3>2, <3>5 DEF DeviceRun, login, logger
    <2>3. CASE DeviceFails(d)
      BY <2>3 DEF DeviceFails, login, logger, DeviceType
    <2>4. CASE DeviceDies(d)
      <3>1. <<>> \in Seq(CommandLine)
        OBVIOUS
      <3>2. device' \in [Devices -> DeviceType]
        <4>1. device' = [device EXCEPT ![d].at = "down", ![d].got = <<>>]
          BY <2>4 DEF DeviceDies
        <4> QED  BY <3>1, <4>1, DeviceExcept
      <3> QED  BY <1>0, <2>4, <3>2 DEF DeviceDies, login, logger
    <2>5. CASE DeviceStarts(d)
      BY <1>00, <2>5 DEF DeviceStarts, login, logger, DeviceType
    <2> QED  BY <1>8, <2>1, <2>2, <2>3, <2>4, <2>5 DEF DeviceStep
  <1>9. CASE LoggerDies
    BY <1>0, <1>9 DEF LoggerDies
  <1>10. CASE LoggerStarts
    <2>1. heard' \in Seq(Calls)
      BY <1>10 DEF LoggerStarts, Calls
    <2> QED  BY <1>0, <1>10, <2>1 DEF LoggerStarts, login
  <1>11. CASE UNCHANGED routeVars
    BY <1>11 DEF routeVars, login, logger
  <1> QED  BY <1>1, <1>2, <1>3, <1>4, <1>5, <1>6, <1>7, <1>8, <1>9, <1>10, <1>11, <1>12
           DEF RouteNext, IoThread

-----------------------------------------------------------------------------
(* Who is logged in.                                                       *)

LEMMA SameHeard ==
  ASSUME heard' = heard
  PROVE  /\ Top' = Top /\ (LoggedIn(Top) => LoggedIn(Top)') /\ (Chain(Top) => Chain(Top)')
         /\ \A d, line : Fine(d, line) => Fine(d, line)'
  BY DEF Top, LoggedIn, Chain, Gap, Fine, Allowed

\* A step that touches none of what login() keeps.
LEMMA LoginLeftAlone ==
  ASSUME IoInv, LoginInv, UNCHANGED <<is_login_, last_login_timers, io, up, heard>>,
         \A i \in DOMAIN inbox' : inbox'[i] # <<>>
  PROVE  IoInv' /\ LoginInv'
  <1>1. IoInv'
    BY SameHeard DEF IoInv
  <1>2. LoginInv'
    BY SameHeard DEF LoginInv
  <1> QED  BY <1>1, <1>2

LEMMA LoginStep ==
  ASSUME RouteTypes, RouteTypes', IoInv, LoginInv, [RouteNext]_routeVars
  PROVE  IoInv' /\ LoginInv'
  <1>0. /\ Top \in Nat /\ now \in Nat /\ last_login_timers \in Nat
        /\ inbox \in Seq(Seq(CommandLine)) /\ \A i \in DOMAIN inbox : inbox[i] # <<>>
    BY DEF RouteTypes, Top, IoInv
  <1>1. CASE Tick
    BY <1>0, <1>1, LoginLeftAlone DEF Tick, login, logger
  <1>2. ASSUME NEW line \in CommandLine, Type(line) PROVE IoInv' /\ LoginInv'
    <2>1. \A i \in DOMAIN inbox' : inbox'[i] # <<>>
      <3>1. CASE inbox' = Append(inbox, <<line>>)
        <4>1. /\ DOMAIN inbox' = 1 .. Len(inbox) + 1 /\ inbox'[Len(inbox) + 1] = <<line>>
              /\ \A i \in 1 .. Len(inbox) : i \in DOMAIN inbox /\ inbox'[i] = inbox[i]
          BY <1>0, <3>1
        <4>2. \A i \in 1 .. Len(inbox) + 1 : i \in 1 .. Len(inbox) \/ i = Len(inbox) + 1
          BY <1>0
        <4>3. <<line>> # <<>>
          OBVIOUS
        <4> QED  BY <1>0, <4>1, <4>2, <4>3
      <3>2. CASE inbox # <<>> /\ inbox' = [inbox EXCEPT ![Len(inbox)] = Append(@, line)]
        <4>1. Len(inbox) \in DOMAIN inbox /\ inbox[Len(inbox)] \in Seq(CommandLine)
          BY <1>0, <3>2
        <4>2. Append(inbox[Len(inbox)], line) # <<>>
          BY <4>1
        <4> QED  BY <1>0, <3>2, <4>1, <4>2
      <3> QED  BY <1>2, <3>1, <3>2 DEF Type
    <2> QED  BY <1>2, <2>1, LoginLeftAlone DEF Type, login, logger
  <1>3. CASE Login
    <2> DEFINE e     == <<Head(inbox), now>>
               still == is_login_ /\ now - last_login_timers <= LOGIN_TIMEOUT
    <2>1. /\ up /\ io.at = "read" /\ inbox # <<>> /\ inbox' = Tail(inbox)
          /\ last_login_timers' = IF ~AllowNoPasswd /\ is_login_ /\ ~still THEN last_login_timers
                                  ELSE now
          /\ is_login_' = IF AllowNoPasswd THEN is_login_ ELSE still
          /\ io' = [at |-> IF AllowNoPasswd \/ still THEN "announce"
                           ELSE IF ~AllowNoPasswd /\ is_login_ /\ ~still THEN "expire"
                           ELSE Judged(Head(inbox)),
                    chunk |-> Head(inbox)]
          /\ heard' = Append(heard, e) /\ up' = up
      BY <1>3 DEF Login
    <2>2. /\ Head(inbox) = inbox[1] /\ Head(inbox) # <<>> /\ Head(inbox) \in Seq(CommandLine)
          /\ \A i \in DOMAIN Tail(inbox) : Tail(inbox)[i] # <<>>
      <3>1. /\ 1 \in DOMAIN inbox /\ Head(inbox) = inbox[1]
            /\ \A i \in DOMAIN Tail(inbox) : i + 1 \in DOMAIN inbox /\ Tail(inbox)[i] = inbox[i + 1]
            /\ Head(inbox) \in Seq(CommandLine)
        BY <1>0, <2>1
      <3> QED  BY <1>0, <3>1
    <2>3. e \in Calls /\ e # <<>> /\ e[1] = Head(inbox) /\ e[2] = now
      BY <1>0, <2>2 DEF Calls
    <2> HIDE DEF e
    <2>4. Top' = Top + 1 /\ Top' > 0 /\ heard'[Top'] = e
      <3>1. heard \in Seq(Calls) /\ Len(heard) \in Nat
        BY <1>0 DEF RouteTypes
      <3>2. Len(heard') = Len(heard) + 1 /\ heard'[Len(heard) + 1] = e
        BY <2>1, <2>3, <3>1, AppendProperties
      <3>3. Top = Len(heard) /\ Top' = Len(heard')
        BY DEF Top
      <3> QED  BY <3>1, <3>2, <3>3
    <2>5. ASSUME ~AllowNoPasswd, still, Head(inbox)[1].kind # "logout"
          PROVE  Chain(Top)' /\ LoggedIn(Top)'
      <3>1. Top > 0 /\ Chain(Top) /\ heard[Top][2] = last_login_timers
        BY <2>1, <2>5 DEF LoginInv
      <3>2. e[2] - heard[Top][2] <= LOGIN_TIMEOUT /\ e[1][1].kind # "logout"
        BY <2>3, <2>5, <3>1
      <3> QED  BY <2>1, <2>3, <3>1, <3>2, ChainGoesOn
    <2>6. /\ io'.chunk = Head(inbox) /\ io'.at \in {"announce", "expire", "refuse"}
          /\ io'.at = "announce" => \/ AllowNoPasswd \/ still
                                    \/ Head(inbox)[1].kind \in {"passwd", "wrong"}
          /\ still => io'.at = "announce"
          /\ io'.at = "expire" => ~AllowNoPasswd /\ ~is_login_'
          /\ io'.at # "expire" => last_login_timers' = now
      BY <2>1 DEF Judged
    <2>7. io'.at # "expire" => heard'[Top'] = <<io'.chunk, last_login_timers'>>
      BY <2>1, <2>4, <2>6 DEF e
    <2>8. IoInv'
      <3>1. io'.at # "read" => up'
        BY <2>1
      <3>2. ~up' => ~is_login_'
        BY <2>1
      <3>3. /\ Top' > 0 /\ io'.chunk # <<>>
            /\ io'.at # "expire" => heard'[Top'] = <<io'.chunk, last_login_timers'>>
            /\ io'.at = "expire" => ~AllowNoPasswd /\ ~is_login_'
        BY <2>2, <2>4, <2>6, <2>7
      <3>4. io'.at \in {"announce", "act"} /\ io'.chunk[1].kind = "command" /\ ~AllowNoPasswd =>
              LoggedIn(Top)'
        BY <2>5, <2>6
      <3>5. \A i \in DOMAIN inbox' : inbox'[i] # <<>>
        BY <2>1, <2>2
      <3>6. io'.at \notin {"read", "expire", "renew"} =>
               Top' > 0 /\ heard'[Top'] = <<io'.chunk, last_login_timers'>>
        BY <3>3
      <3>7. io'.at \in {"expire", "renew"} => ~AllowNoPasswd /\ ~is_login_'
        BY <2>6, <3>3
      <3> QED  BY <3>1, <3>2, <3>3, <3>4, <3>5, <3>6, <3>7 DEF IoInv
    <2>9. LoginInv'
      <3> SUFFICES ASSUME ~AllowNoPasswd, is_login_' PROVE LoginInv'
        BY DEF LoginInv
      <3>1. still
        BY <2>1
      <3>2. heard'[Top'] # <<>> /\ heard'[Top'][2] = last_login_timers'
        BY <2>1, <2>3, <2>4
      <3>3. Head(inbox)[1].kind = "logout" \/ Chain(Top)'
        BY <2>5, <3>1
      <3> QED  BY <2>4, <2>6, <3>1, <3>2, <3>3 DEF LoginInv
    <2> QED  BY <2>8, <2>9
  <1>4. CASE Announce
    <2>1. /\ up /\ io.at \in {"expire", "refuse", "announce", "confirm"}
          /\ io'.chunk = io.chunk
          /\ io'.at = "act" => io.at = "announce"
          /\ io.at = "announce" => io'.at = "act"
          /\ IF io.at = "expire" THEN io'.at = "renew" ELSE io'.at \in {"read", "act"}
          /\ UNCHANGED <<is_login_, last_login_timers, up, heard, inbox>>
      BY <1>4 DEF Announce, Go, Judged, login, RouteTypes
    <2>2. IoInv'
      BY <2>1, SameHeard DEF IoInv
    <2>3. LoginInv'
      BY <2>1, SameHeard DEF LoginInv
    <2> QED  BY <2>2, <2>3
  <1>13. CASE Renew
    <2> DEFINE e == <<io.chunk, now>>
    <2>1. /\ up /\ io.at = "renew" /\ last_login_timers' = now /\ heard' = Append(heard, e)
          /\ io' = [io EXCEPT !.at = Judged(io.chunk)]
          /\ UNCHANGED <<is_login_, up, inbox>>
      BY <1>13 DEF Renew, Go
    <2>2. io.chunk \in Seq(CommandLine) /\ io.chunk # <<>> /\ ~AllowNoPasswd /\ ~is_login_
      BY <2>1 DEF IoInv, RouteTypes
    <2>3. /\ io'.chunk = io.chunk /\ io'.at \in {"announce", "refuse"}
          /\ io'.at = "announce" => io.chunk[1].kind \in {"passwd", "wrong"}
      BY <2>1 DEF Judged, RouteTypes
    <2>4. Top' > 0 /\ heard'[Top'] = <<io'.chunk, last_login_timers'>>
      <3>1. heard \in Seq(Calls) /\ Len(heard) \in Nat /\ e \in Calls
        BY <1>0, <2>2 DEF RouteTypes, Calls
      <3> HIDE DEF e
      <3>2. Len(heard') = Len(heard) + 1 /\ heard'[Len(heard) + 1] = e
        BY <2>1, <3>1, AppendProperties
      <3>3. e = <<io'.chunk, last_login_timers'>>
        BY <2>1, <2>3 DEF e
      <3> QED  BY <3>1, <3>2, <3>3 DEF Top
    <2>5. LoginInv'
      BY <2>1, <2>2 DEF LoginInv
    <2>6. IoInv'
      BY <1>0, <2>1, <2>2, <2>3, <2>4 DEF IoInv
    <2> QED  BY <2>5, <2>6
  <1>5. CASE Dispatch
    <2>1. /\ io.chunk[1].kind = "command" /\ io'.at = "read"
          /\ UNCHANGED <<is_login_, last_login_timers, up, heard, inbox>>
      BY <1>5 DEF Dispatch, Go, login, RouteTypes
    <2>2. IoInv'
      BY <2>1, SameHeard DEF IoInv
    <2>3. LoginInv'
      BY <2>1, SameHeard DEF LoginInv
    <2> QED  BY <2>2, <2>3
  <1>6. CASE Passwd
    <2>1. PICK right \in {Len(io.chunk) = 1 /\ io.chunk[1].kind = "passwd"} :
             /\ is_login_' = (is_login_ \/ right)
             /\ io' = [io EXCEPT !.at = IF right THEN "confirm" ELSE "read"]
      BY <1>6 DEF Passwd, Go
    <2>2. /\ up /\ io.at = "act" /\ io.chunk[1].kind \in {"passwd", "wrong"}
          /\ UNCHANGED <<last_login_timers, up, heard, inbox>>
      BY <1>6 DEF Passwd
    <2>3. io'.at \in {"confirm", "read"} /\ io'.chunk = io.chunk
      BY <2>1 DEF RouteTypes
    <2>4. IoInv'
      BY <2>2, <2>3, SameHeard DEF IoInv
    <2>5. Top > 0 /\ heard[Top] = <<io.chunk, last_login_timers>>
      BY <2>2 DEF IoInv
    <2>6. right => Chain(Top)
      <3>1. Top \in 1 .. Top /\ Top .. Top - 1 = {}
        BY <1>0, <2>5
      <3>2. right => heard[Top] # <<>> /\ Len(heard[Top][1]) = 1 /\ heard[Top][1][1].kind = "passwd"
        <4>1. right = (Len(io.chunk) = 1 /\ io.chunk[1].kind = "passwd")
          BY <2>1
        <4>2. heard[Top] # <<>> /\ heard[Top][1] = io.chunk
          BY <2>5
        <4> QED  BY <4>1, <4>2, Zenon
      <3> QED  BY <3>1, <3>2 DEF Chain
    <2>7. ~AllowNoPasswd /\ is_login_ => Chain(Top)
      BY <2>2 DEF LoginInv
    <2>8. heard[Top] # <<>> /\ heard[Top][2] = last_login_timers
      BY <2>5
    <2>9. LoginInv'
      BY <2>1, <2>2, <2>5, <2>6, <2>7, <2>8, SameHeard DEF LoginInv
    <2> QED  BY <2>4, <2>9
  <1>7. CASE Logout
    <2>1. /\ io'.at = "confirm" /\ io'.chunk = io.chunk /\ io.at = "act" /\ up
          /\ is_login_' = FALSE /\ UNCHANGED <<last_login_timers, up, heard, inbox>>
      BY <1>7 DEF Logout, Go, RouteTypes
    <2> QED  BY <2>1, SameHeard DEF IoInv, LoginInv
  <1>8. CASE Forward
    BY <1>0, <1>8, LoginLeftAlone DEF Forward, login, logger
  <1>9. ASSUME NEW d \in Devices, DeviceStep(d) \/ DeviceDies(d) \/ DeviceStarts(d)
        PROVE  IoInv' /\ LoginInv'
    <2>1. UNCHANGED <<is_login_, last_login_timers, io, up, heard, inbox>>
      BY <1>9 DEF DeviceStep, DeviceRead, DeviceRun, DeviceFails, DeviceDies, DeviceStarts, login,
                  logger
    <2> QED  BY <1>0, <2>1, LoginLeftAlone
  <1>10. CASE LoggerDies
    <2>1. is_login_' = FALSE /\ io'.at = "read" /\ inbox' = <<>>
      BY <1>10 DEF LoggerDies
    <2> QED  BY <2>1 DEF IoInv, LoginInv
  <1>11. CASE LoggerStarts
    <2>1. ~is_login_ /\ io.at = "read" /\ UNCHANGED <<is_login_, io, inbox>> /\ up'
      BY <1>11 DEF LoggerStarts, IoInv, login
    <2> QED  BY <2>1 DEF IoInv, LoginInv
  <1>12. CASE UNCHANGED routeVars
    BY <1>0, <1>12, LoginLeftAlone DEF routeVars, login, logger
  <1> QED  BY <1>1, <1>2, <1>3, <1>4, <1>5, <1>6, <1>7, <1>8, <1>9, <1>10, <1>11, <1>12, <1>13
           DEF RouteNext, IoThread

-----------------------------------------------------------------------------
(* What a process will carry out is fine.                                  *)

LEMMA HeardStep ==
  ASSUME RouteTypes, [RouteNext]_routeVars
  PROVE  /\ heard' = heard \/ \E e \in Calls : heard' = Append(heard, e)
         /\ \A d, line : Fine(d, line) => Fine(d, line)'
  <1>1. CASE Login
    <2>1. heard' = Append(heard, <<Head(inbox), now>>) /\ inbox # <<>>
      BY <1>1 DEF Login
    <2>2. <<Head(inbox), now>> \in Calls
      BY <2>1 DEF RouteTypes, Calls
    <2> QED  BY <2>1, <2>2, HeardGrows
  <1>2. CASE LoggerStarts
    <2>1. heard' = Append(heard, <<>>) /\ <<>> \in Calls
      BY <1>2 DEF LoggerStarts, Calls
    <2> QED  BY <2>1, HeardGrows
  <1>4. CASE Renew
    <2>1. heard' = Append(heard, <<io.chunk, now>>)
      BY <1>4 DEF Renew
    <2>2. <<io.chunk, now>> \in Calls
      BY DEF RouteTypes, Calls
    <2> QED  BY <2>1, <2>2, HeardGrows
  <1>3. CASE ~Login /\ ~LoggerStarts /\ ~Renew
    <2>1. heard' = heard
      BY <1>3 DEF RouteNext, routeVars, Tick, Type, IoThread, Announce, Dispatch, Passwd, Logout,
                  Forward, DeviceStep, DeviceRead, DeviceRun, DeviceFails, DeviceDies, DeviceStarts,
                  LoggerDies
    <2> QED  BY <2>1, SameHeard
  <1> QED  BY <1>1, <1>2, <1>3, <1>4

LEMMA ConcatFirst ==
  ASSUME NEW S, NEW s \in Seq(S), NEW t \in Seq(S), t # <<>>
  PROVE  /\ s \o t \in Seq(S) /\ s \o t # <<>>
         /\ s # <<>> => (s \o t)[1] = s[1]
         /\ s = <<>> => s \o t = t
  OBVIOUS

\* Where a process goes, and with what.
LEMMA DeviceGoes ==
  ASSUME device \in [Devices -> DeviceType], NEW d \in Devices,
         NEW a \in {"read", "log", "fail", "down"}, NEW g \in Seq(CommandLine),
         device' = [device EXCEPT ![d].at = a, ![d].got = g]
  PROVE  /\ device'[d].at = a /\ device'[d].of = device[d].of /\ device'[d].got = g
         /\ \A e \in Devices : e # d => device'[e] = device[e]
         /\ \A e \in Devices : device'[e].of = device[e].of
  <1> DEFINE both == [[device EXCEPT ![d].at = a] EXCEPT ![d].got = g]
  <1>1. device' = both
    OBVIOUS
  <1>2. /\ both[d] = [at |-> a, of |-> device[d].of, got |-> g]
        /\ \A e \in Devices : e # d => both[e] = device[e]
    BY DEF DeviceType
  <1> HIDE DEF both
  <1>3. device'[d] = [at |-> a, of |-> device[d].of, got |-> g]
    BY <1>1, <1>2
  <1>4. \A e \in Devices : e # d => device'[e] = device[e]
    BY <1>1, <1>2
  <1> QED  BY <1>3, <1>4

LEMMA HeadStep ==
  ASSUME RouteTypes, IoInv, HeadInv, [RouteNext]_routeVars
  PROVE  HeadInv'
  <1>1. \A d, line : Fine(d, line) => Fine(d, line)'
    BY HeardStep
  <1>2. /\ Lives = 1 .. MaxDeaths + 1 /\ life \in Nat /\ (up => life \in Lives)
        /\ cmd_fifo \in [Lives -> [Devices -> Seq(CommandLine)]]
        /\ device \in [Devices -> DeviceType] /\ ran \in [Devices -> Seq(CommandLine)]
    BY RouteBounds DEF RouteTypes, Lives
  <1>3. CASE UNCHANGED <<cmd_fifo, device, ran>>
    BY <1>1, <1>3 DEF HeadInv
  <1>4. CASE Dispatch
    <2>1. /\ up /\ io.at = "act" /\ io.chunk[1].kind = "command" /\ io.chunk # <<>>
          /\ cmd_fifo' = [cmd_fifo EXCEPT ![life][io.chunk[1].to] = @ \o io.chunk]
          /\ UNCHANGED <<device, ran>> /\ life \in Lives /\ io.chunk \in Seq(CommandLine)
      BY <1>2, <1>4 DEF Dispatch, IoInv, RouteTypes
    <2>2. io.chunk[1] \in CommandLine
      BY <2>1
    <2>3. io.chunk[1].to \in Devices
      BY <2>1, <2>2 DEF CommandLine
    <2>4. Fine(io.chunk[1].to, io.chunk[1])
      <3>1. Top \in DOMAIN heard /\ heard[Top] # <<>> /\ heard[Top][1][1] = io.chunk[1]
        BY <2>1 DEF IoInv, Top, RouteTypes
      <3>2. ~AllowNoPasswd => LoggedIn(Top)
        BY <2>1 DEF IoInv
      <3> QED  BY <2>1, <3>1, <3>2 DEF Fine, Allowed
    <2>5. ASSUME NEW d \in Devices, NEW g \in Lives, cmd_fifo'[g][d] # <<>>
          PROVE  Fine(d, cmd_fifo'[g][d][1])
      <3>1. cmd_fifo[g][d] \in Seq(CommandLine)
        BY <1>2
      <3>2. CASE g = life /\ d = io.chunk[1].to
        <4>1. cmd_fifo'[g][d] = cmd_fifo[g][d] \o io.chunk
          BY <1>2, <2>1, <2>3, <3>2
        <4>2. CASE cmd_fifo[g][d] = <<>>
          <5>1. cmd_fifo'[g][d] = io.chunk
            BY <2>1, <3>1, <4>1, <4>2, ConcatFirst
          <5> QED  BY <2>4, <3>2, <5>1
        <4>3. CASE cmd_fifo[g][d] # <<>>
          <5>1. cmd_fifo'[g][d][1] = cmd_fifo[g][d][1]
            <6>1. io.chunk \in Seq(CommandLine) /\ io.chunk # <<>>
              BY <2>1
            <6>2. (cmd_fifo[g][d] \o io.chunk)[1] = cmd_fifo[g][d][1]
              BY <3>1, <4>3, <6>1, ConcatFirst
            <6> QED  BY <4>1, <6>2
          <5> QED  BY <4>3, <5>1 DEF HeadInv
        <4> QED  BY <4>2, <4>3
      <3>3. CASE ~(g = life /\ d = io.chunk[1].to)
        <4>1. cmd_fifo'[g][d] = cmd_fifo[g][d]
          BY <1>2, <2>1, <2>3, <3>3
        <4> QED  BY <2>5, <4>1 DEF HeadInv
      <3> QED  BY <3>2, <3>3
    <2> QED  BY <1>1, <2>1, <2>5 DEF HeadInv
  <1>5. ASSUME NEW d \in Devices, DeviceStep(d) \/ DeviceDies(d) \/ DeviceStarts(d)
        PROVE  HeadInv'
    <2>0. device[d].of \in Lives /\ device[d].got \in Seq(CommandLine)
      BY <1>2 DEF DeviceType
    <2>1. CASE DeviceRead(d)
      <3> DEFINE of == device[d].of
                 g  == cmd_fifo[of][d]
      <3>1. /\ g # <<>> /\ cmd_fifo' = [cmd_fifo EXCEPT ![of][d] = <<>>]
            /\ device' = [device EXCEPT ![d].at = "log", ![d].got = g] /\ ran' = ran
        BY <2>1 DEF DeviceRead
      <3>2. g \in Seq(CommandLine) /\ Fine(d, g[1])
        BY <1>2, <2>0, <3>1 DEF HeadInv
      <3> HIDE DEF g
      <3>3. /\ device'[d].at = "log" /\ device'[d].got = g
            /\ \A e \in Devices : e # d => device'[e] = device[e]
        <4>1. "log" \in {"read", "log", "fail", "down"}
          OBVIOUS
        <4> QED  BY <1>2, <3>1, <3>2, <4>1, DeviceGoes
      <3>4. \A e \in Devices, h \in Lives :
               cmd_fifo'[h][e] = IF e = d /\ h = of THEN <<>> ELSE cmd_fifo[h][e]
        BY <1>2, <2>0, <3>1
      <3>5. ASSUME NEW e \in Devices
            PROVE  /\ device'[e].at = "log" => device'[e].got # <<>>
                   /\ device'[e].got # <<>> => Fine(e, device'[e].got[1])
        <4>1. CASE e = d
          BY <3>1, <3>2, <3>3, <4>1
        <4>2. CASE e # d
          BY <3>3, <4>2 DEF HeadInv
        <4> QED  BY <4>1, <4>2
      <3>6. ASSUME NEW e \in Devices, NEW h \in Lives, cmd_fifo'[h][e] # <<>>
            PROVE  Fine(e, cmd_fifo'[h][e][1])
        BY <3>4, <3>6 DEF HeadInv
      <3>7. ASSUME NEW e \in Devices, NEW i \in DOMAIN ran'[e]
            PROVE  Fine(e, ran'[e][i])
        BY <3>1, <3>7 DEF HeadInv
      <3> QED  BY <1>1, <3>5, <3>6, <3>7 DEF HeadInv
    <2>2. CASE DeviceRun(d)
      <3>1. /\ device[d].at = "log" /\ cmd_fifo' = cmd_fifo
            /\ ran' = [ran EXCEPT ![d] = Append(@, device[d].got[1])] \/ ran' = ran
        BY <1>2, <2>2 DEF DeviceRun
      <3>2. PICK a \in {"read", "fail"} : device' = [device EXCEPT ![d].at = a, ![d].got = <<>>]
        BY <2>2 DEF DeviceRun
      <3>3. device[d].got # <<>> /\ Fine(d, device[d].got[1]) /\ device[d].got[1] \in CommandLine
        BY <2>0, <3>1 DEF HeadInv
      <3>4. /\ device'[d].at = a /\ device'[d].got = <<>>
            /\ \A e \in Devices : e # d => device'[e] = device[e]
        <4>1. a \in {"read", "log", "fail", "down"} /\ <<>> \in Seq(CommandLine)
          BY <3>2
        <4> QED  BY <1>2, <3>2, <4>1, DeviceGoes
      <3>5. ASSUME NEW e \in Devices, NEW i \in DOMAIN ran'[e]
            PROVE  Fine(e, ran'[e][i])
        <4>1. ran[e] \in Seq(CommandLine)
          BY <1>2
        <4>2. CASE ran'[e] = ran[e]
          BY <3>5, <4>2 DEF HeadInv
        <4>3. CASE e = d /\ ran'[e] = Append(ran[e], device[d].got[1])
          <5>1. CASE i \in DOMAIN ran[e]
            <6>1. ran'[e][i] = ran[e][i]
              BY <3>3, <4>1, <4>3, <5>1
            <6> QED  BY <5>1, <6>1 DEF HeadInv
          <5>2. CASE i \notin DOMAIN ran[e]
            <6>1. ran'[e][i] = device[d].got[1]
              BY <3>3, <3>5, <4>1, <4>3, <5>2
            <6> QED  BY <3>3, <4>3, <6>1
          <5> QED  BY <5>1, <5>2
        <4> QED  BY <1>2, <3>1, <4>2, <4>3
      <3>6. ASSUME NEW e \in Devices
            PROVE  /\ device'[e].at = "log" => device'[e].got # <<>>
                   /\ device'[e].got # <<>> => Fine(e, device'[e].got[1])
        <4>1. CASE e = d
          BY <3>2, <3>4, <4>1
        <4>2. CASE e # d
          BY <3>4, <4>2 DEF HeadInv
        <4> QED  BY <4>1, <4>2
      <3> QED  BY <1>1, <3>1, <3>5, <3>6 DEF HeadInv
    <2>3. CASE DeviceFails(d) \/ DeviceStarts(d)
      <3>1. /\ cmd_fifo' = cmd_fifo /\ ran' = ran
            /\ \A e \in Devices : device'[e].got = device[e].got
            /\ \A e \in Devices : device'[e].at = "log" => device[e].at = "log"
        <4>1. CASE DeviceFails(d)
          BY <1>2, <4>1 DEF DeviceFails, DeviceType
        <4>2. CASE DeviceStarts(d)
          <5>1. device' = [[device EXCEPT ![d].at = "read"] EXCEPT ![d].of = life]
            BY <1>2, <4>2 DEF DeviceStarts
          <5> QED  BY <1>2, <4>2, <5>1 DEF DeviceStarts, DeviceType
        <4> QED  BY <2>3, <4>1, <4>2
      <3> QED  BY <1>1, <3>1 DEF HeadInv
    <2>4. CASE DeviceDies(d)
      <3>1. /\ cmd_fifo' = cmd_fifo /\ ran' = ran
            /\ device' = [device EXCEPT ![d].at = "down", ![d].got = <<>>]
        BY <2>4 DEF DeviceDies
      <3>2. /\ device'[d].at = "down" /\ device'[d].got = <<>>
            /\ \A e \in Devices : e # d => device'[e] = device[e]
        <4>1. "down" \in {"read", "log", "fail", "down"} /\ <<>> \in Seq(CommandLine)
          OBVIOUS
        <4> QED  BY <1>2, <3>1, <4>1, DeviceGoes
      <3>3. ASSUME NEW e \in Devices
            PROVE  /\ device'[e].at = "log" => device'[e].got # <<>>
                   /\ device'[e].got # <<>> => Fine(e, device'[e].got[1])
        <4>1. CASE e = d
          BY <3>2, <4>1
        <4>2. CASE e # d
          BY <3>2, <4>2 DEF HeadInv
        <4> QED  BY <4>1, <4>2
      <3> QED  BY <1>1, <3>1, <3>3 DEF HeadInv
    <2> QED  BY <1>5, <2>1, <2>2, <2>3, <2>4 DEF DeviceStep
  <1>6. CASE /\ ~Dispatch /\ RouteNext
             /\ ~\E d \in Devices : DeviceStep(d) \/ DeviceDies(d) \/ DeviceStarts(d)
    <2>1. UNCHANGED <<cmd_fifo, device, ran>>
      BY <1>6 DEF RouteNext, Tick, Type, IoThread, Login, Announce, Renew, Passwd, Logout,
                  Forward, LoggerDies, LoggerStarts
    <2> QED  BY <1>3, <2>1
  <1>7. CASE UNCHANGED routeVars
    BY <1>3, <1>7 DEF routeVars
  <1> QED  BY <1>4, <1>5, <1>6, <1>7

-----------------------------------------------------------------------------
(* The order of the lines.                                                 *)

LEMMA LinesTyped ==
  ASSUME RouteTypes
  PROVE  /\ Given \subseteq CommandLine /\ Chunk \subseteq CommandLine
         /\ \A x \in Given \cup Chunk : x.n \in Nat
         /\ \A d \in Devices : Had(d) \subseteq Given
         /\ \A g \in Lives, d \in Devices : Lines(cmd_fifo[g][d]) \subseteq Given
         /\ \A i \in DOMAIN inbox : Lines(inbox[i]) \subseteq CommandLine
         /\ \A i \in DOMAIN inbox : \A x \in Lines(inbox[i]) : x.n \in Nat
  <1>1. \A d \in Devices : Had(d) \subseteq CommandLine
    BY LinesOf DEF RouteTypes, DeviceType, Had
  <1>2. \A g \in Lives, d \in Devices : Lines(cmd_fifo[g][d]) \subseteq CommandLine
    BY LinesOf DEF RouteTypes
  <1>3. Given \subseteq CommandLine
    BY DEF Given
  <1>4. Chunk \subseteq CommandLine
    BY LinesOf DEF RouteTypes, Chunk
  <1>5. \A i \in DOMAIN inbox : Lines(inbox[i]) \subseteq CommandLine
    BY LinesOf DEF RouteTypes
  <1> QED  BY <1>1, <1>2, <1>3, <1>4, <1>5, LineNumbers DEF Given

\* What no step into another place touches.
PlacesOrder == \A d \in Devices : DeviceOrder(d) /\ FifoOrder(d)
IoOrder == /\ Chunk # {} => Rising(io.chunk)
           /\ Below(Given, Chunk) /\ InboxOrder
           /\ \A x \in Given \cup Chunk : x.n <= typed

\* Lines that leave a place disturb no order.
LEMMA IoOrderKept ==
  ASSUME IoOrder, Given' \subseteq Given, Chunk' \subseteq Chunk,
         io'.chunk = io.chunk \/ Chunk' = {},
         UNCHANGED <<inbox, typed>>
  PROVE  IoOrder'
  <1>1. Given' \cup Chunk' \subseteq Given \cup Chunk
    OBVIOUS
  <1>2. Below(Given', Chunk')
    BY DEF IoOrder, Below
  <1>3. InboxOrder'
    BY <1>1 DEF IoOrder, InboxOrder, Below
  <1>4. Chunk' # {} => Rising(io'.chunk)
    BY DEF IoOrder
  <1> QED  BY <1>1, <1>2, <1>3, <1>4 DEF IoOrder

LEMMA PlacesLeftAlone ==
  ASSUME PlacesOrder, UNCHANGED <<cmd_fifo, device, ran, life>>
  PROVE  PlacesOrder' /\ Given' = Given
  <1>1. \A d \in Devices : Had(d)' = Had(d) /\ (DeviceOrder(d) => DeviceOrder(d)')
    BY DEF DeviceOrder, Had
  <1>2. \A d \in Devices : FifoOrder(d) => FifoOrder(d)'
    BY <1>1 DEF FifoOrder
  <1>3. Given' = Given
    BY <1>1 DEF Given
  <1> QED  BY <1>1, <1>2, <1>3 DEF PlacesOrder

LEMMA TypeOrder ==
  ASSUME RouteTypes, IoOrder, NEW line \in CommandLine, Type(line), Given' = Given
  PROVE  IoOrder'
  <1>1. /\ line.n = typed + 1 /\ typed' = line.n /\ io' = io /\ typed \in Nat /\ typed < typed'
        /\ Chunk' = Chunk /\ inbox \in Seq(Seq(CommandLine))
    BY DEF Type, logger, Chunk, RouteTypes
  <1>2. /\ \A x \in Given \cup Chunk : x.n < line.n
        /\ \A i \in DOMAIN inbox : \A x \in Lines(inbox[i]) : x.n < line.n
    BY <1>1, LinesTyped DEF IoOrder, InboxOrder
  <1>3. \A x \in Given' \cup Chunk' : x.n <= typed'
    BY <1>1, <1>2, LinesTyped
  <1>4. ASSUME inbox' = Append(inbox, <<line>>) PROVE InboxOrder'
    <2>1. /\ DOMAIN inbox' = 1 .. Len(inbox) + 1 /\ inbox'[Len(inbox) + 1] = <<line>>
          /\ \A i \in 1 .. Len(inbox) : i \in DOMAIN inbox /\ inbox'[i] = inbox[i]
          /\ Len(inbox) \in Nat
      BY <1>1, <1>4
    <2>2. Lines(<<line>>) = {line} /\ Rising(<<line>>)
      BY DEF Lines, Rising
    <2> SUFFICES ASSUME NEW i \in 1 .. Len(inbox) + 1
                 PROVE  /\ Rising(inbox'[i]) /\ Below(Given \cup Chunk, Lines(inbox'[i]))
                        /\ \A k \in 1 .. Len(inbox) + 1 :
                              i < k => Below(Lines(inbox'[i]), Lines(inbox'[k]))
                        /\ \A x \in Lines(inbox'[i]) : x.n <= typed'
      BY <1>1, <2>1 DEF InboxOrder
    <2>3. CASE i = Len(inbox) + 1
      <3>1. \A k \in 1 .. Len(inbox) + 1 : ~(i < k)
        BY <2>1, <2>3
      <3>2. Lines(inbox'[i]) = {line} /\ Rising(inbox'[i])
        BY <2>1, <2>2, <2>3
      <3>3. Below(Given \cup Chunk, {line}) /\ line.n <= typed'
        BY <1>1, <1>2, LineNumbers DEF Below
      <3> QED  BY <3>1, <3>2, <3>3
    <2>4. CASE i \in 1 .. Len(inbox)
      <3>1. i \in DOMAIN inbox /\ inbox'[i] = inbox[i]
        BY <2>1, <2>4
      <3>2. Rising(inbox'[i]) /\ Below(Given \cup Chunk, Lines(inbox'[i]))
        BY <3>1 DEF IoOrder, InboxOrder
      <3>3. ASSUME NEW k \in 1 .. Len(inbox) + 1, i < k
            PROVE  Below(Lines(inbox'[i]), Lines(inbox'[k]))
        <4>1. CASE k \in 1 .. Len(inbox)
          BY <2>1, <3>1, <3>3, <4>1 DEF IoOrder, InboxOrder
        <4>2. CASE k = Len(inbox) + 1
          BY <1>2, <2>1, <2>2, <3>1, <4>2 DEF Below
        <4> QED  BY <2>1, <4>1, <4>2
      <3>4. \A x \in Lines(inbox'[i]) : x.n <= typed'
        BY <1>1, <1>2, <3>1, LinesTyped
      <3> QED  BY <3>2, <3>3, <3>4
    <2> QED  BY <2>1, <2>3, <2>4
  <1>5. ASSUME inbox # <<>>, inbox' = [inbox EXCEPT ![Len(inbox)] = Append(@, line)]
        PROVE  InboxOrder'
    <2> DEFINE last == Len(inbox)
               more == Append(inbox[last], line)
    <2>1. /\ last \in Nat /\ last \in DOMAIN inbox /\ DOMAIN inbox = 1 .. last
          /\ inbox[last] \in Seq(CommandLine) /\ DOMAIN inbox' = DOMAIN inbox
          /\ inbox'[last] = more
          /\ \A i \in DOMAIN inbox : i # last => inbox'[i] = inbox[i]
      BY <1>1, <1>5
    <2>2. Lines(more) = Lines(inbox[last]) \cup {line}
      BY <2>1, LinesAppend
    <2>3. Rising(more)
      <3>1. Rising(inbox[last]) /\ Below(Lines(inbox[last]), {line})
        BY <1>2, <2>1 DEF IoOrder, InboxOrder, Below
      <3> QED  BY <2>1, <3>1, RisingAppend
    <2> HIDE DEF more
    <2> SUFFICES ASSUME NEW i \in DOMAIN inbox
                 PROVE  /\ Rising(inbox'[i]) /\ Below(Given \cup Chunk, Lines(inbox'[i]))
                        /\ \A k \in DOMAIN inbox :
                              i < k => Below(Lines(inbox'[i]), Lines(inbox'[k]))
                        /\ \A x \in Lines(inbox'[i]) : x.n <= typed'
      BY <1>1, <2>1 DEF InboxOrder
    <2>4. /\ Rising(inbox[i]) /\ Below(Given \cup Chunk, Lines(inbox[i]))
          /\ \A k \in DOMAIN inbox : i < k => Below(Lines(inbox[i]), Lines(inbox[k]))
          /\ \A x \in Lines(inbox[i]) : x.n < line.n /\ x.n \in Nat
      BY <1>2, LinesTyped DEF IoOrder, InboxOrder
    <2>5. CASE i = last
      <3>1. \A k \in DOMAIN inbox : ~(i < k)
        BY <2>1, <2>5
      <3>2. Below(Given \cup Chunk, Lines(more))
        BY <1>2, <2>2, <2>4, <2>5 DEF Below
      <3>3. \A x \in Lines(more) : x.n <= typed'
        BY <1>1, <2>2, <2>4, <2>5
      <3> QED  BY <2>1, <2>3, <2>5, <3>1, <3>2, <3>3
    <2>6. CASE i # last
      <3>1. inbox'[i] = inbox[i]
        BY <2>1, <2>6
      <3>2. ASSUME NEW k \in DOMAIN inbox, i < k
            PROVE  Below(Lines(inbox'[i]), Lines(inbox'[k]))
        <4>1. CASE k = last
          BY <2>1, <2>2, <2>4, <3>1, <3>2, <4>1 DEF Below
        <4>2. CASE k # last
          BY <2>1, <2>4, <3>1, <3>2, <4>2
        <4> QED  BY <4>1, <4>2
      <3>3. \A x \in Lines(inbox[i]) : x.n <= typed'
        BY <1>1, <2>4
      <3> QED  BY <2>4, <3>1, <3>2, <3>3
    <2> QED  BY <2>5, <2>6
  <1>6. InboxOrder'
    BY <1>4, <1>5 DEF Type
  <1>7. Below(Given', Chunk') /\ (Chunk' # {} => Rising(io'.chunk))
    BY <1>1 DEF IoOrder
  <1> QED  BY <1>3, <1>6, <1>7 DEF IoOrder

LEMMA LoginOrder ==
  ASSUME RouteTypes, IoOrder, Login, Given' = Given
  PROVE  IoOrder'
  <1>1. /\ inbox # <<>> /\ inbox' = Tail(inbox) /\ io'.chunk = inbox[1] /\ typed' = typed
        /\ inbox \in Seq(Seq(CommandLine))
    BY DEF Login, RouteTypes
  <1>2. /\ 1 \in DOMAIN inbox
        /\ \A i \in DOMAIN inbox' : i + 1 \in DOMAIN inbox /\ inbox'[i] = inbox[i + 1] /\ 1 < i + 1
        /\ DOMAIN inbox' \subseteq Nat
    BY <1>1
  <1>3. Chunk' \subseteq Lines(inbox[1])
    BY <1>1 DEF Chunk
  <1>4. /\ Rising(inbox[1]) /\ Below(Given, Lines(inbox[1]))
        /\ \A x \in Lines(inbox[1]) : x.n <= typed
    BY <1>2 DEF IoOrder, InboxOrder, Below
  <1>5. Below(Given', Chunk') /\ (Chunk' # {} => Rising(io'.chunk))
    BY <1>1, <1>3, <1>4 DEF Below
  <1>6. \A x \in Given' \cup Chunk' : x.n <= typed'
    BY <1>1, <1>3, <1>4 DEF IoOrder
  <1>7. ASSUME NEW i \in DOMAIN inbox'
        PROVE  /\ Rising(inbox'[i]) /\ Below(Given' \cup Chunk', Lines(inbox'[i]))
               /\ \A k \in DOMAIN inbox' : i < k => Below(Lines(inbox'[i]), Lines(inbox'[k]))
               /\ \A x \in Lines(inbox'[i]) : x.n <= typed'
    <2>1. /\ i + 1 \in DOMAIN inbox /\ inbox'[i] = inbox[i + 1]
          /\ \A k \in DOMAIN inbox' : i < k => i + 1 < k + 1
      BY <1>2
    <2>2. Rising(inbox'[i]) /\ \A x \in Lines(inbox'[i]) : x.n <= typed'
      BY <1>1, <2>1 DEF IoOrder, InboxOrder
    <2>3. Below(Given, Lines(inbox'[i])) /\ Below(Lines(inbox[1]), Lines(inbox'[i]))
      BY <1>2, <2>1 DEF IoOrder, InboxOrder, Below
    <2>4. Below(Given' \cup Chunk', Lines(inbox'[i]))
      BY <1>3, <2>3 DEF Below
    <2>5. \A k \in DOMAIN inbox' : i < k => Below(Lines(inbox'[i]), Lines(inbox'[k]))
      BY <1>2, <2>1 DEF IoOrder, InboxOrder
    <2> QED  BY <2>2, <2>4, <2>5
  <1> QED  BY <1>5, <1>6, <1>7 DEF IoOrder, InboxOrder

LEMMA DispatchOrder ==
  ASSUME RouteTypes, IoInv, PlacesOrder, IoOrder, Dispatch
  PROVE  PlacesOrder' /\ IoOrder'
  <1> DEFINE to == io.chunk[1].to
  <1>1. /\ up /\ io.at = "act" /\ io.chunk[1].kind = "command" /\ io.chunk # <<>>
        /\ cmd_fifo' = [cmd_fifo EXCEPT ![life][to] = @ \o io.chunk]
        /\ io'.at = "read" /\ UNCHANGED <<device, ran, life, typed, inbox>>
        /\ io.chunk \in Seq(CommandLine)
    BY DEF Dispatch, IoInv, RouteTypes, Go
  <1>2. /\ life \in Lives /\ Lives \subseteq Nat
        /\ cmd_fifo \in [Lives -> [Devices -> Seq(CommandLine)]]
        /\ \A d \in Devices : device[d].of \in Nat
    BY <1>1, RouteBounds DEF RouteTypes, DeviceType, Lives
  <1>3. to \in Devices
    BY <1>1 DEF CommandLine
  <1>4. Chunk = Lines(io.chunk) /\ Chunk' = {} /\ Rising(io.chunk)
    <2>1. Chunk = Lines(io.chunk) /\ Chunk' = {}
      BY <1>1 DEF Chunk
    <2> QED  BY <1>1, <2>1, LinesOf DEF IoOrder
  <1> HIDE DEF to
  <1>5. \A d \in Devices, g \in Lives :
           cmd_fifo'[g][d] = IF g = life /\ d = to THEN cmd_fifo[life][to] \o io.chunk
                             ELSE cmd_fifo[g][d]
    BY <1>1, <1>2, <1>3
  <1>6. /\ cmd_fifo[life][to] \in Seq(CommandLine)
        /\ Lines(cmd_fifo'[life][to]) = Lines(cmd_fifo[life][to]) \cup Chunk
        /\ Lines(cmd_fifo[life][to]) \subseteq Given
    BY <1>1, <1>2, <1>3, <1>4, <1>5, LinesConcat, LinesTyped
  <1>7. Rising(cmd_fifo'[life][to])
    <2>1. Below(Lines(cmd_fifo[life][to]), Lines(io.chunk)) /\ Rising(cmd_fifo[life][to])
      BY <1>2, <1>3, <1>4, <1>6 DEF Below, IoOrder, PlacesOrder, FifoOrder
    <2> QED  BY <1>1, <1>2, <1>3, <1>4, <1>5, <1>6, <2>1, RisingConcat
  <1>8. \A d \in Devices : Had(d)' = Had(d) /\ DeviceOrder(d)'
    BY <1>1 DEF PlacesOrder, DeviceOrder, Had
  <1>9. ASSUME NEW d \in Devices PROVE FifoOrder(d)'
    <2>1. CASE d # to
      <3>1. \A g \in Lives : cmd_fifo'[g][d] = cmd_fifo[g][d]
        BY <1>5, <2>1
      <3> QED  BY <1>1, <1>8, <3>1 DEF PlacesOrder, FifoOrder
    <2>2. CASE d = to
      <3>1. FifoOrder(d)
        BY DEF PlacesOrder
      <3>2. \A g \in Lives : g # life => cmd_fifo'[g][d] = cmd_fifo[g][d]
        BY <1>5
      <3>3. Below(Had(d), Chunk)
        BY LinesTyped DEF IoOrder, Below
      <3>4. \A g \in Lives : Below(Lines(cmd_fifo[g][d]), Chunk)
        BY LinesTyped DEF IoOrder, Below
      <3>5. ASSUME NEW g \in Lives, g >= device[d].of PROVE Below(Had(d), Lines(cmd_fifo'[g][d]))
        BY <1>6, <2>2, <3>1, <3>2, <3>3, <3>5 DEF FifoOrder, Below
      <3>6. ASSUME NEW g \in Lives, NEW h \in Lives, g < h
            PROVE  Below(Lines(cmd_fifo'[g][d]), Lines(cmd_fifo'[h][d]))
        <4>1. Below(Lines(cmd_fifo[g][d]), Lines(cmd_fifo[h][d]))
          BY <3>1, <3>6 DEF FifoOrder
        <4>2. CASE h = life
          <5>1. g # life
            BY <1>2, <3>6, <4>2
          <5> QED  BY <1>6, <2>2, <3>2, <3>4, <4>1, <4>2, <5>1 DEF Below
        <4>3. CASE g = life
          <5>1. h # life /\ h > life
            BY <1>2, <3>6, <4>3
          <5>2. cmd_fifo'[h][d] = <<>>
            BY <3>1, <3>2, <5>1 DEF FifoOrder
          <5> QED  BY <5>2, RisingEmpty DEF Below
        <4>4. CASE g # life /\ h # life
          BY <3>2, <4>1, <4>4
        <4> QED  BY <4>2, <4>3, <4>4
      <3>7. ASSUME NEW g \in Lives, g > life PROVE cmd_fifo'[g][d] = <<>>
        <4>1. g # life
          BY <1>2, <3>7
        <4> QED  BY <3>1, <3>2, <3>7, <4>1 DEF FifoOrder
      <3>8. \A g \in Lives : Rising(cmd_fifo'[g][d])
        BY <1>7, <2>2, <3>1, <3>2 DEF FifoOrder
      <3> QED  BY <1>1, <1>8, <3>5, <3>6, <3>7, <3>8 DEF FifoOrder
    <2> QED  BY <2>1, <2>2
  <1>10. Given' \subseteq Given \cup Chunk
    <2>1. \A d \in Devices : Had(d)' \subseteq Given
      BY <1>8, LinesTyped
    <2>2. \A g \in Lives, d \in Devices : Lines(cmd_fifo'[g][d]) \subseteq Given \cup Chunk
      BY <1>5, <1>6, LinesTyped
    <2> QED  BY <2>1, <2>2 DEF Given
  <1>11. IoOrder'
    <2>1. Below(Given', Chunk') /\ ~(Chunk' # {})
      BY <1>4 DEF Below
    <2>2. \A x \in Given' \cup Chunk' : x.n <= typed'
      BY <1>1, <1>4, <1>10 DEF IoOrder
    <2>3. InboxOrder'
      BY <1>1, <1>4, <1>10 DEF IoOrder, InboxOrder, Below
    <2> QED  BY <2>1, <2>2, <2>3 DEF IoOrder
  <1> QED  BY <1>8, <1>9, <1>11 DEF PlacesOrder

LEMMA ReadOrder ==
  ASSUME RouteTypes, PlacesOrder, IoOrder, NEW d \in Devices, DeviceRead(d)
  PROVE  PlacesOrder' /\ IoOrder'
  <1> DEFINE of == device[d].of
             got == cmd_fifo[of][d]
  <1>1. /\ cmd_fifo' = [cmd_fifo EXCEPT ![of][d] = <<>>]
        /\ device' = [device EXCEPT ![d].at = "log", ![d].got = got]
        /\ UNCHANGED <<ran, life, io, typed, inbox>>
    BY DEF DeviceRead, logger
  <1>2. /\ of \in Lives /\ Lives \subseteq Nat /\ device \in [Devices -> DeviceType]
        /\ cmd_fifo \in [Lives -> [Devices -> Seq(CommandLine)]]
    BY RouteBounds DEF RouteTypes, DeviceType, Lives
  <1>3. got \in Seq(CommandLine)
    BY <1>2
  <1>4. /\ device'[d].got = got /\ device'[d].of = of
        /\ \A e \in Devices : e # d => device'[e] = device[e]
    <2>1. "log" \in {"read", "log", "fail", "down"}
      OBVIOUS
    <2> HIDE DEF got
    <2> QED  BY <1>1, <1>2, <1>3, <2>1, DeviceGoes
  <1>5. \A e \in Devices, g \in Lives :
           cmd_fifo'[g][e] = IF g = of /\ e = d THEN <<>> ELSE cmd_fifo[g][e]
    BY <1>1, <1>2
  <1> HIDE DEF of, got
  <1>6. DeviceOrder(d) /\ FifoOrder(d)
    BY DEF PlacesOrder
  <1>7. Had(d)' = Lines(ran[d]) \cup Lines(got) /\ \A e \in Devices : e # d => Had(e)' = Had(e)
    BY <1>1, <1>4 DEF Had
  <1>8. DeviceOrder(d)'
    <2>0. of = device[d].of /\ got = cmd_fifo[of][d] /\ of >= of
      <3>1. of \in Nat
        BY <1>2
      <3> QED  BY <3>1 DEF of, got
    <2>1. Rising(got) /\ Below(Had(d), Lines(got))
      BY <1>2, <1>6, <2>0 DEF FifoOrder
    <2> QED  BY <1>1, <1>4, <1>6, <2>1 DEF DeviceOrder, Had, Below, of
  <1>9. FifoOrder(d)'
    <2>1. ASSUME NEW g \in Lives, g >= of PROVE Below(Had(d)', Lines(cmd_fifo'[g][d]))
      <3>1. CASE g = of
        BY <1>5, <3>1, RisingEmpty DEF Below
      <3>2. CASE g # of
        <4>1. of < g
          BY <1>2, <2>1, <3>2
        <4>2. Below(Had(d), Lines(cmd_fifo[g][d])) /\ Below(Lines(got), Lines(cmd_fifo[g][d]))
          BY <1>2, <1>6, <2>1, <4>1 DEF FifoOrder, got, of
        <4>3. cmd_fifo'[g][d] = cmd_fifo[g][d]
          BY <1>5, <3>2
        <4> QED  BY <1>7, <4>2, <4>3 DEF Below, Had
      <3> QED  BY <3>1, <3>2
    <2>2. \A g \in Lives : Lines(cmd_fifo'[g][d]) \subseteq Lines(cmd_fifo[g][d])
      BY <1>5, RisingEmpty
    <2>3. \A g, h \in Lives : g < h => Below(Lines(cmd_fifo'[g][d]), Lines(cmd_fifo'[h][d]))
      BY <1>6, <2>2 DEF FifoOrder, Below
    <2>4. \A g \in Lives : Rising(cmd_fifo'[g][d]) /\ (g > life => cmd_fifo'[g][d] = <<>>)
      BY <1>5, <1>6, RisingEmpty DEF FifoOrder
    <2> QED  BY <1>1, <1>4, <2>1, <2>3, <2>4 DEF FifoOrder
  <1>10. ASSUME NEW e \in Devices, e # d PROVE DeviceOrder(e)' /\ FifoOrder(e)'
    <2>1. DeviceOrder(e)'
      BY <1>1, <1>4, <1>7, <1>10 DEF PlacesOrder, DeviceOrder
    <2>2. \A g \in Lives : cmd_fifo'[g][e] = cmd_fifo[g][e]
      BY <1>5, <1>10
    <2>3. FifoOrder(e)'
      BY <1>1, <1>4, <1>7, <1>10, <2>2 DEF PlacesOrder, FifoOrder
    <2> QED  BY <2>1, <2>3
  <1>11. Given' \subseteq Given
    <2>1. Lines(got) \subseteq Given
      BY <1>2, LinesTyped DEF got
    <2>2. \A e \in Devices : Had(e)' \subseteq Given
      BY <1>7, <2>1, LinesTyped DEF Had
    <2>3. \A g \in Lives, e \in Devices : Lines(cmd_fifo'[g][e]) \subseteq Given
      BY <1>5, RisingEmpty, LinesTyped
    <2> QED  BY <2>2, <2>3 DEF Given
  <1>12. IoOrder'
    BY <1>1, <1>11, IoOrderKept DEF Chunk
  <1> QED  BY <1>8, <1>9, <1>10, <1>12 DEF PlacesOrder

LEMMA TakenOrder ==   \* what was read is dropped; the first line of it may have been carried out
  ASSUME RouteTypes, PlacesOrder, IoOrder, NEW d \in Devices,
         UNCHANGED <<cmd_fifo, life, io, typed, inbox>>,
         device'[d].got = <<>>, \A e \in Devices : e # d => device'[e] = device[e],
         \A e \in Devices : device'[e].of = device[e].of,
         \/ ran' = ran
         \/ device[d].got # <<>> /\ ran' = [ran EXCEPT ![d] = Append(@, device[d].got[1])]
  PROVE  PlacesOrder' /\ IoOrder'
  <1>1. /\ device[d].got \in Seq(CommandLine) /\ ran \in [Devices -> Seq(CommandLine)]
    BY DEF RouteTypes, DeviceType
  <1>2. DeviceOrder(d) /\ FifoOrder(d)
    BY DEF PlacesOrder
  <1>3. /\ Rising(ran'[d]) /\ Lines(ran'[d]) \subseteq Had(d)
        /\ \A e \in Devices : e # d => ran'[e] = ran[e]
    <2>1. CASE ran' = ran
      BY <1>2, <2>1 DEF DeviceOrder, Had
    <2>2. CASE device[d].got # <<>> /\ ran' = [ran EXCEPT ![d] = Append(@, device[d].got[1])]
      <3> DEFINE first == device[d].got[1]
      <3>1. first \in CommandLine /\ first \in Lines(device[d].got) /\ ran[d] \in Seq(CommandLine)
        BY <1>1, <2>2, LinesOf
      <3>2. ran'[d] = Append(ran[d], first) /\ \A e \in Devices : e # d => ran'[e] = ran[e]
        BY <1>1, <2>2
      <3> HIDE DEF first
      <3>3. Rising(ran[d]) /\ Below(Lines(ran[d]), {first})
        BY <1>2, <3>1 DEF DeviceOrder, Below
      <3>4. Rising(ran'[d]) /\ Lines(ran'[d]) = Lines(ran[d]) \cup {first}
        BY <3>1, <3>2, <3>3, RisingAppend, LinesAppend
      <3> QED  BY <3>1, <3>2, <3>4 DEF Had
    <2> QED  BY <2>1, <2>2
  <1>4. Had(d)' \subseteq Had(d) /\ \A e \in Devices : e # d => Had(e)' = Had(e)
    <2>1. Lines(device'[d].got) = {}
      BY RisingEmpty
    <2> QED  BY <1>3, <2>1 DEF Had
  <1>5. DeviceOrder(d)'
    BY <1>2, <1>3, RisingEmpty DEF DeviceOrder, Below
  <1>6. FifoOrder(d)'
    BY <1>2, <1>4 DEF FifoOrder, Below
  <1>7. ASSUME NEW e \in Devices, e # d PROVE DeviceOrder(e)' /\ FifoOrder(e)'
    <2>1. DeviceOrder(e)'
      BY <1>3, <1>4, <1>7 DEF PlacesOrder, DeviceOrder
    <2>2. FifoOrder(e)'
      BY <1>4, <1>7 DEF PlacesOrder, FifoOrder
    <2> QED  BY <2>1, <2>2
  <1>8. Given' \subseteq Given
    BY <1>4, LinesTyped DEF Given
  <1>9. IoOrder'
    BY <1>8, IoOrderKept DEF Chunk
  <1> QED  BY <1>5, <1>6, <1>7, <1>9 DEF PlacesOrder

\* A process opens FIFOs that are not older than those it had; what it had read
\* and the lines in all FIFOs stay what they are.
LEMMA OpenedOrder ==
  ASSUME RouteTypes, PlacesOrder, IoOrder, UNCHANGED <<cmd_fifo, ran, typed, inbox, io>>,
         life' \in Nat, life <= life',
         \A e \in Devices : /\ device'[e].got = device[e].got
                            /\ device'[e].of \in {device[e].of, life}
  PROVE  PlacesOrder' /\ IoOrder'
  <1>1. /\ life \in Nat /\ Lives \subseteq Nat
        /\ \A e \in Devices : device[e].of \in Nat /\ device'[e].of \in Nat
    <2>1. life \in Nat /\ Lives \subseteq Nat /\ \A e \in Devices : device[e].of \in Lives
      BY RouteBounds DEF RouteTypes, DeviceType, Lives
    <2> QED  BY <2>1
  <1>2. \A e \in Devices : Had(e)' = Had(e)
    BY DEF Had
  <1>3. ASSUME NEW e \in Devices PROVE DeviceOrder(e)' /\ FifoOrder(e)'
    <2>1. DeviceOrder(e) /\ FifoOrder(e)
      BY DEF PlacesOrder
    <2>2. device[e].of <= life
      BY <2>1 DEF DeviceOrder
    <2>3. device'[e].of <= life' /\ device[e].of <= device'[e].of
      BY <1>1, <2>2
    <2>4. DeviceOrder(e)'
      BY <2>1, <2>3 DEF DeviceOrder
    <2>5. \A g \in Lives : g >= device'[e].of => g >= device[e].of
      <3>1. \A g, a, b \in Nat : a <= b /\ g >= b => g >= a
        OBVIOUS
      <3> QED  BY <1>1, <2>3, <3>1
    <2>6. \A g \in Lives : g > life' => g > life
      BY <1>1
    <2>7. FifoOrder(e)'
      BY <1>2, <2>1, <2>5, <2>6 DEF FifoOrder
    <2> QED  BY <2>4, <2>7
  <1>4. Given' \subseteq Given
    BY <1>2 DEF Given
  <1>5. IoOrder'
    BY <1>4, IoOrderKept DEF Chunk
  <1> QED  BY <1>3, <1>5 DEF PlacesOrder

LEMMA OrderStep ==
  ASSUME RouteTypes, RouteTypes', IoInv, HeadInv, OrderInv, [RouteNext]_routeVars
  PROVE  OrderInv'
  <1>1. (OrderInv <=> PlacesOrder /\ IoOrder) /\ (OrderInv' <=> PlacesOrder' /\ IoOrder')
    BY DEF OrderInv, PlacesOrder, IoOrder
  <1> SUFFICES ASSUME PlacesOrder, IoOrder PROVE PlacesOrder' /\ IoOrder'
    BY <1>1
  <1>2. UNCHANGED <<cmd_fifo, device, ran, life>> => PlacesOrder' /\ Given' = Given
    BY PlacesLeftAlone
  <1>3. CASE Tick \/ Forward \/ UNCHANGED routeVars
    <2>1. UNCHANGED <<cmd_fifo, device, ran, life, io, inbox, typed>>
      BY <1>3 DEF Tick, Forward, routeVars, logger
    <2> QED  BY <1>2, <2>1, IoOrderKept DEF Chunk
  <1>4. ASSUME NEW line \in CommandLine, Type(line) PROVE PlacesOrder' /\ IoOrder'
    BY <1>2, <1>4, TypeOrder DEF Type, logger
  <1>5. CASE Login
    BY <1>2, <1>5, LoginOrder DEF Login
  <1>6. CASE Announce \/ Renew
    <2>1. /\ UNCHANGED <<cmd_fifo, device, ran, life, inbox, typed>> /\ io'.chunk = io.chunk
          /\ io'.at \in {"expire", "renew", "announce", "act"} =>
                 io.at \in {"expire", "renew", "announce"}
      BY <1>6 DEF Announce, Renew, Go, RouteTypes
    <2>2. Chunk' \subseteq Chunk
      BY <2>1 DEF Chunk
    <2> QED  BY <1>2, <2>1, <2>2, IoOrderKept
  <1>7. CASE Dispatch
    BY <1>7, DispatchOrder
  <1>8. CASE Passwd \/ Logout
    <2>1. /\ UNCHANGED <<cmd_fifo, device, ran, life, inbox, typed>>
          /\ io'.at \in {"read", "confirm"}
      BY <1>8 DEF Passwd, Logout, Go, RouteTypes
    <2>2. Chunk' = {}
      BY <2>1 DEF Chunk
    <2> QED  BY <1>2, <2>1, <2>2, IoOrderKept
  <1>9. ASSUME NEW d \in Devices, DeviceStep(d) \/ DeviceDies(d) \/ DeviceStarts(d)
        PROVE  PlacesOrder' /\ IoOrder'
    <2>0. device \in [Devices -> DeviceType] /\ life \in Nat /\ life <= life
      BY DEF RouteTypes
    <2>1. CASE DeviceRead(d)
      BY <2>1, ReadOrder
    <2>2. CASE DeviceRun(d)
      <3>1. /\ device[d].got # <<>> /\ UNCHANGED <<cmd_fifo, life, io, typed, inbox>>
            /\ \/ ran' = ran
               \/ ran' = [ran EXCEPT ![d] = Append(@, device[d].got[1])]
        BY <2>2 DEF DeviceRun, HeadInv, RouteTypes, logger
      <3>2. PICK a \in {"read", "fail"} : device' = [device EXCEPT ![d].at = a, ![d].got = <<>>]
        BY <2>2 DEF DeviceRun
      <3>3. a \in {"read", "log", "fail", "down"} /\ <<>> \in Seq(CommandLine)
        BY <3>2
      <3>4. /\ device'[d].got = <<>> /\ \A e \in Devices : e # d => device'[e] = device[e]
            /\ \A e \in Devices : device'[e].of = device[e].of
        BY <2>0, <3>2, <3>3, DeviceGoes
      <3> QED  BY <3>1, <3>4, TakenOrder
    <2>3. CASE DeviceDies(d)
      <3>1. /\ UNCHANGED <<cmd_fifo, life, io, typed, inbox, ran>>
            /\ device' = [device EXCEPT ![d].at = "down", ![d].got = <<>>]
        BY <2>3 DEF DeviceDies, logger
      <3>2. "down" \in {"read", "log", "fail", "down"} /\ <<>> \in Seq(CommandLine)
        OBVIOUS
      <3>3. /\ device'[d].got = <<>> /\ \A e \in Devices : e # d => device'[e] = device[e]
            /\ \A e \in Devices : device'[e].of = device[e].of
        BY <2>0, <3>1, <3>2, DeviceGoes
      <3> QED  BY <3>1, <3>3, TakenOrder
    <2>4. CASE DeviceFails(d)
      <3>1. \A e \in Devices : device'[e].got = device[e].got /\ device'[e].of = device[e].of
        BY <2>0, <2>4 DEF DeviceFails, DeviceType
      <3> QED  BY <2>0, <2>4, <3>1, OpenedOrder DEF DeviceFails, logger
    <2>5. CASE DeviceStarts(d)
      <3>1. \A e \in Devices : /\ device'[e].got = device[e].got
                               /\ device'[e].of \in {device[e].of, life}
        <4>1. device' = [[device EXCEPT ![d].at = "read"] EXCEPT ![d].of = life]
          BY <2>0, <2>5 DEF DeviceStarts
        <4> QED  BY <2>0, <4>1 DEF DeviceType
      <3> QED  BY <2>0, <2>5, <3>1, OpenedOrder DEF DeviceStarts, logger
    <2> QED  BY <1>9, <2>1, <2>2, <2>3, <2>4, <2>5 DEF DeviceStep
  <1>10. CASE LoggerDies
    <2>1. /\ UNCHANGED <<cmd_fifo, device, ran, life, typed>> /\ inbox' = <<>> /\ io'.at = "read"
      BY <1>10 DEF LoggerDies
    <2>2. Chunk' = {} /\ InboxOrder'
      BY <2>1 DEF Chunk, InboxOrder
    <2>3. IoOrder'
      BY <1>2, <2>1, <2>2 DEF IoOrder, Below
    <2> QED  BY <1>2, <2>1, <2>3
  <1>11. CASE LoggerStarts
    <2>1. /\ UNCHANGED <<cmd_fifo, device, ran, typed, inbox, io>>
          /\ life' \in Nat /\ life <= life'
      BY <1>11 DEF LoggerStarts, RouteTypes
    <2> QED  BY <2>1, OpenedOrder
  <1> QED  BY <1>3, <1>4, <1>5, <1>6, <1>7, <1>8, <1>9, <1>10, <1>11 DEF RouteNext, IoThread

-----------------------------------------------------------------------------
\* What a process has carried out was typed by who was logged in, for it, and in
\* the order typed, whoever was started again in between.
THEOREM CommandsRunAsAllowed == RouteSpec => []RunAsAllowed
  <1>1. RouteInv /\ [RouteNext]_routeVars => RouteInv'
    BY RouteTypesStep, LoginStep, HeadStep, OrderStep DEF RouteInv
  <1>2. ASSUME RouteInv PROVE RunAsAllowed
    <2>1. RunByLogin
      <3> SUFFICES ASSUME ~AllowNoPasswd, NEW d \in Devices, NEW i \in DOMAIN ran[d]
                   PROVE  \E j \in DOMAIN heard : heard[j] # <<>> /\ heard[j][1][1] = ran[d][i]
                                                  /\ LoggedIn(j)
        BY DEF RunByLogin
      <3>1. Fine(d, ran[d][i])
        BY <1>2 DEF RouteInv, HeadInv
      <3> QED  BY <3>1 DEF Fine, Allowed
    <2>2. RunByTarget
      <3> SUFFICES ASSUME NEW d \in Devices
                   PROVE  /\ \A i \in DOMAIN ran[d] : ran[d][i].kind = "command" /\ ran[d][i].to = d
                          /\ \A i \in 1 .. Len(ran[d]) - 1 : ran[d][i].n < ran[d][i + 1].n
        BY DEF RunByTarget
      <3>1. \A i \in DOMAIN ran[d] : Fine(d, ran[d][i])
        BY <1>2 DEF RouteInv, HeadInv
      <3>2. Rising(ran[d]) /\ ran[d] \in Seq(CommandLine)
        BY <1>2 DEF RouteInv, OrderInv, DeviceOrder, RouteTypes
      <3>3. \A i \in 1 .. Len(ran[d]) - 1 :
               i \in DOMAIN ran[d] /\ i + 1 \in DOMAIN ran[d] /\ i < i + 1
        BY <3>2
      <3>4. \A i \in 1 .. Len(ran[d]) - 1 : ran[d][i].n < ran[d][i + 1].n
        BY <3>2, <3>3 DEF Rising
      <3> QED  BY <3>1, <3>4 DEF Fine
    <2> QED  BY <2>1, <2>2 DEF RunAsAllowed
  <1> QED  BY <1>1, <1>2, RouteInitInv, PTL DEF RouteSpec
=============================================================================
