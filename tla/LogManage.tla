------------------------------ MODULE LogManage ------------------------------
(***************************************************************************)
(* The way of a log line: log_manage::print_log (embed/common/logger/      *)
(* logger_manage.cpp) formats it into a buffer all threads of a process    *)
(* share and writes it to a FIFO all processes share; the thread           *)
(* logger_rx_run (embed/logger_tool/log_process.cpp) reads the FIFO as a   *)
(* stream and forwards it.  The mutex is held while header and text are    *)
(* formatted, not while the end of line is added and the line is written.  *)
(* A byte is known by the thread whose text it is and its place in it.     *)
(***************************************************************************)
EXTENDS Naturals, Sequences

CONSTANTS Threads,
          Process,       \* Process[t]: the process of thread t
          Lengths,       \* lengths of header and text together
          BufferSize,    \* LOGGER_MAX_BUFFER_SIZE
          ReadSize,      \* RX_MAX_BUFFER_SIZE of the reader
          PipeSize,      \* what the FIFO holds before a write blocks
          MaxCalls       \* bound on the calls of print_log

ASSUME SizeAssumption == /\ {BufferSize, ReadSize, PipeSize} \subseteq Nat \ {0}
                         /\ PipeSize >= BufferSize
ASSUME LengthAssumption == Lengths \subseteq Nat \ {0}
ASSUME BoundAssumption == MaxCalls \in Nat

CR == <<"cr", 0>>
LF == <<"lf", 0>>
NUL == <<"nul", 0>>
Text(t, i) == <<t, i>>                 \* the i-th byte of the line of t
Processes == {Process[t] : t \in Threads}
Cells == 1 .. BufferSize

VARIABLES buffer,    \* buffer[p]: logger_tx_buffer of process p
          pc,        \* pc[t]: where t is in print_log
          length,    \* length[t]: header and text of its line
          calls,     \* the calls so far
          fifo,      \* LOGGER_RX_FIFO
          torn,      \* history: threads one of whose lines was written torn
          lost       \* history: bytes the reader replaced, and whether its
                     \* read had filled rx_buffer

vars == <<buffer, pc, length, calls, fifo, torn, lost>>

Init == /\ buffer = [p \in Processes |-> [i \in Cells |-> NUL]]
        /\ pc = [t \in Threads |-> "idle"]
        /\ length = [t \in Threads |-> 0]
        /\ calls = 0
        /\ fifo = <<>>
        /\ torn = {}
        /\ lost = {}

-----------------------------------------------------------------------------
(* print_log *)

Line(t, n) == [i \in 1 .. n |-> Text(t, i)] \o <<CR, LF>>

(* Under the mutex: header and text, cut off and closed by a zero as       *)
(* snprintf does.  A line that does not fit is given up.                   *)
Format(t, n) ==
    /\ pc[t] = "idle" /\ calls < MaxCalls
    /\ buffer' = [buffer EXCEPT ![Process[t]] =
                     [i \in Cells |-> CASE i <= n /\ i < BufferSize  -> Text(t, i)
                                        [] i = n + 1 \/ (i = BufferSize /\ n >= i) -> NUL
                                        [] OTHER -> @[i]]]
    /\ pc' = [pc EXCEPT ![t] = IF n >= BufferSize THEN "idle" ELSE "end_line"]
    /\ length' = [length EXCEPT ![t] = IF n >= BufferSize THEN 0 ELSE n]
    /\ calls' = calls + 1
    /\ UNCHANGED <<fifo, torn, lost>>

\* Mutant: nobody looks whether there is room for the end of line.
EndLineOver(t) ==
    /\ pc[t] = "end_line"
    /\ pc' = [pc EXCEPT ![t] = "send"]
    /\ buffer' = [buffer EXCEPT ![Process[t]] =
                     [i \in Cells |-> CASE i = length[t] + 1 -> CR
                                        [] i = length[t] + 2 -> LF
                                        [] OTHER -> @[i]]]
    /\ UNCHANGED <<length, calls, fifo, torn, lost>>

\* Mutant: the line feed is counted, but not stored.
EndLineHalf(t) ==
    /\ pc[t] = "end_line"
    /\ IF BufferSize - length[t] < 3
       THEN /\ pc' = [pc EXCEPT ![t] = "idle"]
            /\ UNCHANGED buffer
       ELSE /\ pc' = [pc EXCEPT ![t] = "send"]
            /\ buffer' = [buffer EXCEPT ![Process[t]][length[t] + 1] = CR]
    /\ UNCHANGED <<length, calls, fifo, torn, lost>>

\* After the unlock: the end of line, for which three bytes must be left.
EndLine(t) ==
    /\ pc[t] = "end_line"
    /\ IF BufferSize - length[t] < 3
       THEN /\ pc' = [pc EXCEPT ![t] = "idle"]
            /\ UNCHANGED buffer
       ELSE /\ pc' = [pc EXCEPT ![t] = "send"]
            /\ buffer' = [buffer EXCEPT ![Process[t]][length[t] + 1] = CR,
                                        ![Process[t]][length[t] + 2] = LF]
    /\ UNCHANGED <<length, calls, fifo, torn, lost>>

(* write(): the kernel copies the buffer as it is now, in one piece, and   *)
(* blocks the thread while the FIFO has no room for it.                    *)
Send(t) ==
    LET line == [i \in 1 .. length[t] + 2 |-> buffer[Process[t]][i]]
    IN  /\ pc[t] = "send"
        /\ Len(fifo) + Len(line) <= PipeSize
        /\ fifo' = fifo \o line
        /\ torn' = IF line = Line(t, length[t]) THEN torn ELSE torn \cup {t}
        /\ pc' = [pc EXCEPT ![t] = "idle"]
        /\ UNCHANGED <<buffer, length, calls, lost>>

-----------------------------------------------------------------------------
\* Mutant: the zero goes to the byte before the last.
ReadOffByOne ==
    LET n == IF Len(fifo) < ReadSize THEN Len(fifo) ELSE ReadSize
        z == IF n > 1 THEN n - 1 ELSE n
    IN  /\ fifo # <<>>
        /\ lost' = IF fifo[z] = LF THEN lost
                   ELSE lost \cup {[byte |-> fifo[z], full |-> n = ReadSize]}
        /\ fifo' = SubSeq(fifo, n + 1, Len(fifo))
        /\ UNCHANGED <<buffer, pc, length, calls, torn>>

(* logger_rx_run: read what there is, up to the size of rx_buffer, put a   *)
(* zero over the last byte and forward the bytes.                          *)
Read ==
    LET n == IF Len(fifo) < ReadSize THEN Len(fifo) ELSE ReadSize
    IN  /\ fifo # <<>>
        /\ lost' = IF fifo[n] = LF THEN lost
                   ELSE lost \cup {[byte |-> fifo[n], full |-> n = ReadSize]}
        /\ fifo' = SubSeq(fifo, n + 1, Len(fifo))
        /\ UNCHANGED <<buffer, pc, length, calls, torn>>

Next == \/ \E t \in Threads : (\E n \in Lengths : Format(t, n)) \/ EndLine(t) \/ Send(t)
        \/ Read

\* Threads inside print_log go on, and the reader loops on a blocking read.
Spec == /\ Init /\ [][Next]_vars
        /\ \A t \in Threads : WF_vars(EndLine(t)) /\ WF_vars(Send(t))
        /\ WF_vars(Read)

-----------------------------------------------------------------------------
Byte == {CR, LF, NUL} \cup {Text(t, i) : t \in Threads, i \in Cells}

TypeOK == /\ buffer \in [Processes -> [Cells -> Byte]]
          /\ pc \in [Threads -> {"idle", "end_line", "send"}]
          /\ length \in [Threads -> Nat]
          /\ calls \in 0 .. MaxCalls
          /\ Len(fifo) <= PipeSize
          /\ torn \subseteq Threads
          /\ \A l \in lost : l.byte \in Byte /\ l.full \in BOOLEAN

(* The end of line never leaves the buffer, for lines of every length up   *)
(* to the one that just fits: what is written is inside the buffer.        *)
LineInBuffer == \A t \in Threads : pc[t] = "send" => length[t] + 2 <= BufferSize

(* A line is torn only by another thread of the same process: the FIFO     *)
(* keeps the lines of different processes apart.                           *)
TornOnlyByPeers == \A t \in torn : \E u \in Threads \ {t} : Process[u] = Process[t]

(* While no line is torn, the reader's zero replaces the end of a line,    *)
(* unless a read filled rx_buffer: a line that is read by itself is whole. *)
LossOnlyWhenFull == torn = {} => \A l \in lost : l.full
=============================================================================
