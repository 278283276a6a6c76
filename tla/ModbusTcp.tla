------------------------------ MODULE ModbusTcp ------------------------------
(***************************************************************************)
(* The Modbus slave of main_process in TCP mode (MODBUS_RUN_MODE 2):       *)
(* mb/tcp/mbtcp.c and mb/port/porttcp.cpp over an asio_server of their     *)
(* own, and eMBPoll of mb/mb.c.  The thread of the server copies every     *)
(* segment it reads into one buffer and posts an event; the thread of      *)
(* eMBPoll takes one event every 100 milliseconds, executes what is in the *)
(* buffer then, and leaves the answer there.  Nothing locks the buffer.    *)
(* Of the server only the connection is modelled; the rest of it is in     *)
(* AsioServer, and the functions in ModbusRegisters.                       *)
(***************************************************************************)
EXTENDS ModbusRegisters

CONSTANTS Requests,      \* segments that are one whole request
          Pieces,        \* other segments: parts of a request, or several
          RX_SIZE,       \* bytes of rx_tcp_buffer that are used
          MaxSegments,   \* bound on the segments sent
          MaxClients     \* bound on the connections

MB_TCP_TID  == 0
MB_TCP_PID  == 2
MB_TCP_LEN  == 4
MB_TCP_UID  == 6
MB_TCP_FUNC == 7
MB_TCP_PROTOCOL_ID == 0

Segments == Requests \cup Pieces

\* What the constants have to be; ModbusSlave assumes it.
Assumption ==
    /\ Segments \subseteq Seq(Byte)
    /\ RX_SIZE \in Nat /\ RX_SIZE > MB_TCP_FUNC /\ RX_SIZE < 65536
    /\ \A s \in Segments : Len(s) \in 1 .. RX_SIZE
    /\ \A s \in Requests : Len(s) > MB_TCP_FUNC
    /\ {MaxSegments, MaxClients} \subseteq Nat

VARIABLES link,      \* the client that is connected, by number; 0 for none
          stream,    \* segments it sent that have not been read
          net,       \* where the callback of the server's thread is
          segment,   \* what it has been called with
          rx_tcp_buffer, rx_tcp_size,
          queue,     \* the event queue
          usLength,  \* eMBPoll: of the PDU it accepted, then of its answer
          poll,      \* eMBPoll is before its event, or before the answer is sent
          regs,      \* the register tables
          segments, clients,   \* bounds: sent and connected so far
          asked,     \* history: requests posted, [from, frame]
          executed,  \* history: PDUs executed, as the buffer had them
          done,      \* history: answers, [to, frame]
          overrun    \* history: a segment came before the last one was done with,
                     \* or was not one request

net_vars  == <<stream, net, segment, link, segments, clients>>
buffer    == <<rx_tcp_buffer, rx_tcp_size>>
poll_vars == <<usLength, poll, regs, executed, done>>
vars == <<net_vars, buffer, queue, poll_vars, asked, overrun>>

ServerInit == /\ link = 0 /\ stream = <<>> /\ net = "wait" /\ segment = <<>>
              /\ rx_tcp_buffer = [i \in 0 .. RX_SIZE - 1 |-> 0] /\ rx_tcp_size = 0
              /\ poll = "event" /\ segments = 0 /\ clients = 0
              /\ asked = <<>> /\ executed = <<>> /\ done = <<>> /\ overrun = FALSE
Init == /\ ServerInit
        /\ queue = <<>> /\ usLength = 0
        /\ regs = [coils |-> usRegCoilBuf, holding |-> usRegHoldingBuf]

-----------------------------------------------------------------------------
(* Clients. *)

Connect == /\ clients < MaxClients /\ net = "wait"
           /\ clients' = clients + 1
           /\ link' = clients' /\ stream' = <<>>
           /\ UNCHANGED <<net, segment, segments, buffer, queue, poll_vars, asked, overrun>>

Leave == /\ link # 0 /\ net = "wait" /\ stream = <<>>
         /\ link' = 0
         /\ UNCHANGED <<stream, net, segment, segments, clients, buffer, queue, poll_vars, asked,
                        overrun>>

Send(s) == /\ link # 0 /\ segments < MaxSegments
           /\ segments' = segments + 1 /\ stream' = Append(stream, s)
           /\ UNCHANGED <<link, net, segment, clients, buffer, queue, poll_vars, asked, overrun>>

-----------------------------------------------------------------------------
(* The thread of the server: session::do_read and the callback of          *)
(* mb_tcp_server_task, which copies, notes the size and posts.             *)

Busy == poll = "send" \/ queue # <<>>

ServerReads ==
    /\ net = "wait" /\ stream # <<>>
    /\ segment' = Head(stream) /\ stream' = Tail(stream) /\ net' = "size"
    /\ rx_tcp_buffer' = Put(rx_tcp_buffer, 0, segment')
    /\ overrun' = (overrun \/ Busy \/ segment' \notin Requests)
    /\ UNCHANGED <<link, segments, clients, rx_tcp_size, queue, poll_vars, asked>>

ServerSizes ==
    /\ net = "size" /\ net' = "post"
    /\ rx_tcp_size' = Len(segment)
    /\ UNCHANGED <<link, stream, segment, segments, clients, rx_tcp_buffer, queue, poll_vars,
                   asked, overrun>>

IsModbus(frame) == frame[MB_TCP_PID + 1] = 0 /\ frame[MB_TCP_PID + 2] = 0

ServerPosts ==
    /\ net = "post" /\ net' = "wait"
    /\ queue' = Append(queue, "FRAME_RECEIVED")
    /\ asked' = IF segment \in Requests /\ IsModbus(segment)
                THEN Append(asked, [from |-> link, frame |-> segment]) ELSE asked
    /\ UNCHANGED <<link, stream, segment, segments, clients, buffer, poll_vars, overrun>>

Server == ServerReads \/ ServerSizes \/ ServerPosts

-----------------------------------------------------------------------------
(* eMBPoll, with eMBTCPReceive and eMBTCPSend.                             *)

\* Mutant: the unit is taken for the address of a slave, and must be this one's.
PollReceivedUnit ==
    /\ poll = "event" /\ queue # <<>> /\ Head(queue) = "FRAME_RECEIVED"
    /\ IF Word(rx_tcp_buffer, MB_TCP_PID) = MB_TCP_PROTOCOL_ID /\ rx_tcp_buffer[MB_TCP_UID] = 255
       THEN /\ usLength' = (rx_tcp_size + 65536 - MB_TCP_FUNC) % 65536
            /\ queue' = Append(Tail(queue), "EXECUTE")
       ELSE queue' = Tail(queue) /\ UNCHANGED usLength
    /\ UNCHANGED <<net_vars, buffer, poll, regs, asked, executed, done, overrun>>

\* Mutant: the unit is counted as part of the PDU.
PollReceivedLong ==
    /\ poll = "event" /\ queue # <<>> /\ Head(queue) = "FRAME_RECEIVED"
    /\ IF Word(rx_tcp_buffer, MB_TCP_PID) = MB_TCP_PROTOCOL_ID
       THEN /\ usLength' = (rx_tcp_size + 65536 - MB_TCP_UID) % 65536
            /\ queue' = Append(Tail(queue), "EXECUTE")
       ELSE queue' = Tail(queue) /\ UNCHANGED usLength
    /\ UNCHANGED <<net_vars, buffer, poll, regs, asked, executed, done, overrun>>

\* A segment shorter than the header wraps the length around.
PollReceived ==
    /\ poll = "event" /\ queue # <<>> /\ Head(queue) = "FRAME_RECEIVED"
    /\ IF Word(rx_tcp_buffer, MB_TCP_PID) = MB_TCP_PROTOCOL_ID
       THEN /\ usLength' = (rx_tcp_size + 65536 - MB_TCP_FUNC) % 65536
            /\ queue' = Append(Tail(queue), "EXECUTE")
       ELSE queue' = Tail(queue) /\ UNCHANGED usLength
    /\ UNCHANGED <<net_vars, buffer, poll, regs, asked, executed, done, overrun>>

\* The frame as ModbusRegisters has it: the byte before the PDU and the PDU.
ucMBFrame == [i \in 0 .. RX_SIZE - MB_TCP_FUNC |-> rx_tcp_buffer[MB_TCP_UID + i]]
PDU == [i \in 1 .. (IF usLength < RX_SIZE - MB_TCP_FUNC THEN usLength ELSE RX_SIZE - MB_TCP_FUNC)
            |-> ucMBFrame[i]]

\* The handler of the function, and the error frame when it returns an exception.
PollExecute ==
    /\ poll = "event" /\ queue # <<>> /\ Head(queue) = "EXECUTE"
    /\ queue' = Tail(queue) /\ poll' = "send"
    /\ executed' = Append(executed, PDU)
    /\ \E frame \in {ucMBFrame} : \E r \in {Handle(frame, usLength, regs)} :
           LET answer == IF r.exception = NONE THEN r.buf
                         ELSE Put(r.buf, 1, <<128 + (frame[1] % 128), r.exception>>)
           IN  /\ regs' = r.regs
               /\ usLength' = IF r.exception = NONE THEN r.len ELSE 2
               /\ rx_tcp_buffer' = [i \in DOMAIN rx_tcp_buffer |->
                                       IF i < MB_TCP_UID THEN rx_tcp_buffer[i]
                                       ELSE answer[i - MB_TCP_UID]]
    /\ UNCHANGED <<net_vars, rx_tcp_size, asked, done, overrun>>

\* Mutant: the unit is not counted.
AnsweredShort == Put(rx_tcp_buffer, MB_TCP_LEN, <<usLength \div 256, usLength % 256>>)

\* The length of the header counts the unit too.
Answered == Put(rx_tcp_buffer, MB_TCP_LEN, <<(usLength + 1) \div 256, (usLength + 1) % 256>>)

\* The answer goes to whoever is connected, or nowhere.
eMBTCPSend ==
    /\ poll = "send" /\ poll' = "event"
    /\ rx_tcp_buffer' = Answered
    /\ done' = Append(done, [to |-> link,
                             frame |-> [i \in 1 .. usLength + MB_TCP_FUNC |-> rx_tcp_buffer'[i - 1]]])
    /\ UNCHANGED <<net_vars, rx_tcp_size, queue, usLength, regs, asked, executed, overrun>>

Poll == PollReceived \/ PollExecute \/ eMBTCPSend

Next == Connect \/ Leave \/ (\E s \in Segments : Send(s)) \/ Server \/ Poll

Spec == Init /\ [][Next]_vars /\ WF_vars(Server) /\ WF_vars(Poll)

-----------------------------------------------------------------------------
TypeOK ==
    /\ link \in 0 .. MaxClients /\ clients \in 0 .. MaxClients /\ segments \in 0 .. MaxSegments
    /\ stream \in Seq(Segments) /\ segment \in Segments \cup {<<>>}
    /\ net \in {"wait", "size", "post"} /\ poll \in {"event", "send"}
    /\ rx_tcp_buffer \in [0 .. RX_SIZE - 1 -> Byte] /\ rx_tcp_size \in 0 .. RX_SIZE
    /\ queue \in Seq({"FRAME_RECEIVED", "EXECUTE"}) /\ usLength \in 0 .. 65535
    /\ regs \in Regs /\ overrun \in BOOLEAN

\* While every segment is one request and none comes before the last one is done
\* with, the PDUs that are executed are those that were asked, each once, in order.
ExecutedOnce ==
    ~overrun => /\ Len(executed) <= Len(asked)
                /\ \A n \in DOMAIN executed :
                       executed[n] = SubSeq(asked[n].frame, MB_TCP_FUNC + 1, Len(asked[n].frame))

\* And each is answered under its own header, with the length that follows, to the
\* client that asked, or to nobody or a later one if that has gone.
AnswersGoBack ==
    ~overrun => \A n \in DOMAIN done :
        LET request == asked[n].frame
            answer  == done[n].frame
        IN  /\ \A i \in (1 .. 4) \cup {MB_TCP_UID + 1} : answer[i] = request[i]
            /\ 256 * answer[5] + answer[6] = Len(answer) - MB_TCP_UID
            /\ answer[8] % 128 = request[8] % 128
            /\ done[n].to = asked[n].from \/ done[n].to \in {0} \cup asked[n].from + 1 .. clients

\* Every request is executed and answered, unless a segment came too early.
RequestsAnswered ==
    \A n \in 1 .. MaxSegments : Len(asked) >= n ~> (overrun \/ Len(done) >= n)
=============================================================================
