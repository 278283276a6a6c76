----------------------------- MODULE ModbusSlave -----------------------------
(***************************************************************************)
(* The Modbus slave of main_process in each of its modes: MODBUS_RUN_MODE  *)
(* of mb_app.cpp chooses between eMBInit, the serial line of ModbusRtu or  *)
(* ModbusAscii, and eMBTCPInit, the server of ModbusTcp, once and for all. *)
(* All have the event queue, the tables and eMBPoll.                       *)
(***************************************************************************)
EXTENDS ModbusAscii

CONSTANTS Requests, Pieces, RX_SIZE, MaxSegments, MaxClients   \* of ModbusTcp

VARIABLES mode,   \* MODBUS_RUN_MODE
          link, stream, net, segment, rx_tcp_buffer, rx_tcp_size, poll, segments, clients,
          asked, answered, done, early   \* of ModbusTcp

Tcp == INSTANCE ModbusTcp WITH executed <- answered, overrun <- early

ASSUME TcpAssumption == Tcp!Assumption

serial_only == <<line_vars, eRcvState, eSndState, buffer, timer, handler, ucRcvAddress, executed,
                 tx_vars, aborted, expected, overrun>>
tcp_only == <<link, stream, net, segment, rx_tcp_buffer, rx_tcp_size, poll, segments, clients,
              asked, answered, done, early>>
allVars  == <<mode, asciiVars, tcp_only>>

SlaveInit == /\ mode \in {"RTU", "ASCII", "TCP"} /\ Tcp!ServerInit
             /\ IF mode = "ASCII" THEN AsciiInit ELSE Init /\ TextInit

RtuStep(A)   == mode = "RTU" /\ A /\ UNCHANGED <<mode, ascii, tcp_only>>
AsciiStep(A) == mode = "ASCII" /\ A /\ UNCHANGED <<mode, tcp_only>>
TcpStep(A)   == mode = "TCP" /\ A /\ UNCHANGED <<mode, serial_only, ascii>>

SlaveNext == RtuStep(Next) \/ AsciiStep(AsciiNext) \/ TcpStep(Tcp!Next)

\* The fairness of the modes, step by step: one mode is all there ever is.
SlaveSpec ==
    /\ SlaveInit /\ [][SlaveNext]_allVars
    /\ WF_allVars(RtuStep(Receiver) \/ AsciiStep(AsciiReceiver) \/ TcpStep(Tcp!Server))
    /\ WF_allVars(RtuStep(Poll) \/ AsciiStep(AsciiPoll) \/ TcpStep(Tcp!Poll))
    /\ WF_allVars(RtuStep(TimerExpires /\ Silent) \/ AsciiStep(AsciiExpires /\ Silent))
    /\ WF_allVars(RtuStep(HandlerStops \/ HandlerIdles) \/ AsciiStep(AsciiHandler))
    /\ WF_allVars(RtuStep(Tx) \/ AsciiStep(AsciiTx))

-----------------------------------------------------------------------------
\* In each mode what eMBPoll executes are the requests that came whole, each
\* once and in order, unless one came before the last was done with, or the
\* checksum of a text was right by chance.
ExecutedAsReceived == ("misread" \notin mishaps => ExecutedInOrder) /\ Tcp!ExecutedOnce

\* On a serial line the asserts fail for the reasons AbortsOnlyEarly and
\* AsciiAborts name, and for no other.
AbortsAsTold == IF mode = "ASCII" THEN AsciiAborts ELSE AbortsOnlyEarly

\* Over TCP every answer goes back under its own header to who asked (ModbusTcp);
\* in ASCII it is a frame, and says what eMBPoll answered.
AnswersGoBack == Tcp!AnswersGoBack /\ (mode = "ASCII" => AsciiAnswerIsFrame)

\* In each mode such a request is executed and answered in the end.
RequestsServed == RequestsFinished /\ Tcp!RequestsAnswered
=============================================================================
