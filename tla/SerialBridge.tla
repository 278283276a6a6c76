---------------------------- MODULE SerialBridge ----------------------------
(***************************************************************************)
(* The bridge of src/embed/lower_device between a serial line and a TCP    *)
(* server.  The uart thread (serial.cpp) writes what the line brings into  *)
(* a FIFO, the tx thread (asio_client.cpp) reads it from there and writes  *)
(* it to the socket if is_client_link_ says so; the rx thread connects,    *)
(* and reads until the connection fails.  Nothing stops the rx thread from *)
(* finding the connection broken while the tx thread is about to write: an *)
(* exception of that write is not caught and ends the process.             *)
(***************************************************************************)
EXTENDS Naturals, Sequences

CONSTANTS MaxBytes,   \* bound on the bytes the line brings
          FifoSize,   \* what the FIFO holds before a write blocks
          RxSize,     \* CLIENT_RX_MAX_BUFFER_SIZE
          MaxBreaks   \* bound on the times the server ends or takes away a connection

ASSUME SizeAssumption == {FifoSize, RxSize} \subseteq Nat \ {0}
ASSUME LineAssumption == {MaxBytes, MaxBreaks} \subseteq Nat

VARIABLES process,          \* "starting" between the two init(), "runs", "dead"
          line,             \* bytes on the line, not read; they are numbered
          arrived,          \* number of the last of them
          client_tx_fifo_,
          tx,               \* the tx thread: [at, data]
          is_client_link_,
          rx,               \* the rx thread: "connect", "link", "read", "sleep"
          rx_count,         \* bytes in its rx_buffer_
          socket_,          \* "none", "up", or "broken" by the server
          serving,          \* a connection would be accepted
          breaks,
          connection,       \* number of the connection
          received,         \* history: <<connection, byte>> as the server got them
          lost              \* history: <<socket, rx>> when a byte was thrown away

uart   == <<line, arrived>>
server == <<serving, breaks>>
bridgeVars == <<process, uart, client_tx_fifo_, tx, is_client_link_, rx, rx_count, socket_, server,
                connection, received, lost>>

BridgeInit == /\ process = "starting"
              /\ line = <<>> /\ arrived = 0
              /\ client_tx_fifo_ = <<>>
              /\ tx = [at |-> "read", data |-> <<>>]
              /\ is_client_link_ = FALSE /\ rx = "connect" /\ rx_count = 0
              /\ socket_ = "none" /\ serving \in BOOLEAN /\ breaks = 0 /\ connection = 0
              /\ received = <<>> /\ lost = {}

Runs == process = "runs"

-----------------------------------------------------------------------------
(* The line and the server. *)

LineBrings ==
    /\ arrived < MaxBytes /\ arrived' = arrived + 1
    /\ line' = Append(line, arrived')
    /\ UNCHANGED <<process, client_tx_fifo_, tx, is_client_link_, rx, rx_count, socket_, server,
                   connection, received, lost>>

ServerStops ==
    /\ serving /\ breaks < MaxBreaks
    /\ serving' = FALSE /\ breaks' = breaks + 1
    /\ socket_' = IF socket_ = "up" THEN "broken" ELSE socket_
    /\ UNCHANGED <<process, uart, client_tx_fifo_, tx, is_client_link_, rx, rx_count, connection,
                   received, lost>>

ServerStarts ==
    /\ ~serving /\ serving' = TRUE
    /\ UNCHANGED <<process, uart, client_tx_fifo_, tx, is_client_link_, rx, rx_count, socket_,
                   breaks, connection, received, lost>>

-----------------------------------------------------------------------------
(* serial_manage. *)

\* uart_server_run.  Until asio_client::init has run there is no FIFO object, and
\* then one without a file: what came is gone, or the process with it.
UartRead ==
    /\ process # "dead" /\ line # <<>>
    /\ line' = Tail(line)
    /\ \/ /\ Runs /\ Len(client_tx_fifo_) < FifoSize
          /\ client_tx_fifo_' = Append(client_tx_fifo_, Head(line))
          /\ UNCHANGED <<process, lost>>
       \/ /\ process = "starting"
          /\ process' \in {"starting", "dead"}
          /\ lost' = lost \cup {<<socket_, rx>>}
          /\ UNCHANGED client_tx_fifo_
    /\ UNCHANGED <<arrived, tx, is_client_link_, rx, rx_count, socket_, server, connection,
                   received>>

ClientInit ==
    /\ process = "starting" /\ process' = "runs"
    /\ UNCHANGED <<uart, client_tx_fifo_, tx, is_client_link_, rx, rx_count, socket_, server,
                   connection, received, lost>>

-----------------------------------------------------------------------------
(* asio_client_tx_run. *)

TxRead ==
    /\ Runs /\ tx.at = "read" /\ client_tx_fifo_ # <<>>
    /\ tx' = [at |-> "check", data |-> client_tx_fifo_]
    /\ client_tx_fifo_' = <<>>
    /\ UNCHANGED <<process, uart, is_client_link_, rx, rx_count, socket_, server, connection,
                   received, lost>>

\* Mutant: what cannot be sent goes back to the end of the FIFO.
TxCheckAgain ==
    /\ Runs /\ tx.at = "check"
    /\ tx' = IF is_client_link_ THEN [tx EXCEPT !.at = "write"] ELSE [at |-> "read", data |-> <<>>]
    /\ client_tx_fifo_' = IF is_client_link_ THEN client_tx_fifo_ ELSE client_tx_fifo_ \o tx.data
    /\ UNCHANGED <<process, uart, is_client_link_, rx, rx_count, socket_, server, connection,
                   received, lost>>

\* write_data tests the flag ...
TxCheck ==
    /\ Runs /\ tx.at = "check"
    /\ IF is_client_link_
       THEN tx' = [tx EXCEPT !.at = "write"] /\ UNCHANGED lost
       ELSE tx' = [at |-> "read", data |-> <<>>] /\ lost' = lost \cup {<<socket_, rx>>}
    /\ UNCHANGED <<process, uart, client_tx_fifo_, is_client_link_, rx, rx_count, socket_, server,
                   connection, received>>

\* ... and asio::write uses the socket as it is then: the kernel may still take
\* what it cannot deliver, and throws when it knows.
WriteData ==
    /\ Runs /\ tx.at = "write"
    /\ tx' = [at |-> "read", data |-> <<>>]
    /\ \/ /\ socket_ = "up"
          /\ received' = received \o [i \in DOMAIN tx.data |-> <<connection, tx.data[i]>>]
          /\ UNCHANGED <<process, lost>>
       \/ /\ socket_ # "up"
          /\ process' \in IF socket_ = "broken" THEN {"runs", "dead"} ELSE {"dead"}
          /\ lost' = lost \cup {<<socket_, rx>>}
          /\ UNCHANGED received
    /\ UNCHANGED <<uart, client_tx_fifo_, is_client_link_, rx, rx_count, socket_, server,
                   connection>>

-----------------------------------------------------------------------------
(* asio_client_rx_run. *)

\* asio::connect closes the socket of the connection before.
RxConnect ==
    /\ Runs /\ rx = "connect"
    /\ IF serving
       THEN /\ socket_' = "up" /\ connection' = connection + 1 /\ rx' = "link"
            /\ UNCHANGED is_client_link_
       ELSE /\ socket_' = "none" /\ rx' = "sleep" /\ is_client_link_' = FALSE
            /\ UNCHANGED connection
    /\ UNCHANGED <<process, uart, client_tx_fifo_, tx, rx_count, server, received, lost>>

\* Mutant: the flag is set for the first connection only.
RxLinkOnce ==
    /\ Runs /\ rx = "link" /\ rx' = "read"
    /\ is_client_link_' = (is_client_link_ \/ connection = 1) /\ rx_count' = 0
    /\ UNCHANGED <<process, uart, client_tx_fifo_, tx, socket_, server, connection, received, lost>>

RxLink ==
    /\ Runs /\ rx = "link" /\ rx' = "read"
    /\ is_client_link_' = TRUE /\ rx_count' = 0
    /\ UNCHANGED <<process, uart, client_tx_fifo_, tx, socket_, server, connection, received, lost>>

\* asio::read returns when the buffer is full; send_msg then writes to a FIFO
\* that was never created, which drops it.
RxRead ==
    /\ Runs /\ rx = "read" /\ socket_ = "up"
    /\ rx_count' = (rx_count + 1) % RxSize
    /\ UNCHANGED <<process, uart, client_tx_fifo_, tx, is_client_link_, rx, socket_, server,
                   connection, received, lost>>

\* Mutant: the exception ends the loop.
RxFailsForGood ==
    /\ Runs /\ rx = "read" /\ socket_ = "broken"
    /\ rx' = "ended" /\ is_client_link_' = FALSE
    /\ UNCHANGED <<process, uart, client_tx_fifo_, tx, rx_count, socket_, server, connection,
                   received, lost>>

RxFails ==
    /\ Runs /\ rx = "read" /\ socket_ = "broken"
    /\ rx' = "sleep" /\ is_client_link_' = FALSE
    /\ UNCHANGED <<process, uart, client_tx_fifo_, tx, rx_count, socket_, server, connection,
                   received, lost>>

\* After fifteen seconds.
RxWakes ==
    /\ Runs /\ rx = "sleep" /\ rx' = "connect"
    /\ UNCHANGED <<process, uart, client_tx_fifo_, tx, is_client_link_, rx_count, socket_, server,
                   connection, received, lost>>

-----------------------------------------------------------------------------
Tx == TxRead \/ TxCheck \/ WriteData
Rx == RxConnect \/ RxLink \/ RxFails \/ RxWakes

BridgeNext == \/ LineBrings \/ ServerStops \/ ServerStarts
              \/ UartRead \/ ClientInit \/ Tx \/ Rx \/ RxRead

\* The threads run; nothing has to come from the line or from the server.
BridgeSpec ==
    /\ BridgeInit /\ [][BridgeNext]_bridgeVars
    /\ WF_bridgeVars(ClientInit) /\ WF_bridgeVars(UartRead)
    /\ WF_bridgeVars(Tx) /\ WF_bridgeVars(Rx)

-----------------------------------------------------------------------------
BridgeTypeOK ==
    /\ process \in {"starting", "runs", "dead"}
    /\ line \in Seq(1 .. MaxBytes) /\ arrived \in 0 .. MaxBytes
    /\ client_tx_fifo_ \in Seq(1 .. MaxBytes) /\ Len(client_tx_fifo_) <= FifoSize
    /\ tx \in [at : {"read", "check", "write"}, data : Seq(1 .. MaxBytes)]
    /\ is_client_link_ \in BOOLEAN /\ serving \in BOOLEAN
    /\ rx \in {"connect", "link", "read", "sleep"} /\ rx_count \in 0 .. RxSize - 1
    /\ socket_ \in {"none", "up", "broken"}
    /\ breaks \in 0 .. MaxBreaks /\ connection \in Nat
    /\ received \in Seq(Nat \X (1 .. MaxBytes))
    /\ lost \subseteq {"none", "up", "broken"} \X {"connect", "link", "read", "sleep"}

\* A byte is thrown away only while the connection is broken, not yet made, or
\* not yet announced.
LostOnlyUnlinked == \A l \in lost : ~(l[1] = "up" /\ l[2] = "read")

\* Over all connections together the server gets the bytes in the order of the
\* line, none of them twice, and from a connection that the rx thread reads all
\* of them.
BytesDelivered ==
    /\ \A i \in 1 .. Len(received) - 1 : received[i][2] < received[i + 1][2]
    /\ LostOnlyUnlinked

\* Once the server accepts connections for good, the bridge has one and knows it,
\* unless it has ended.
Reconnects == <>[]serving => <>[](process = "dead" \/ (socket_ = "up" /\ is_client_link_))
=============================================================================
