------------------------------ MODULE AsioServer ------------------------------
(***************************************************************************)
(* The TCP server (embed/common/server/asio_server.cpp) and the threads of *)
(* tcp_thread_manage that use it: one io thread runs the completion        *)
(* handlers of asio one after the other, the rx thread acknowledges what   *)
(* the sessions sent, the tx thread sends what the application queued.     *)
(* Only the group of sessions is shared; its mutex is held in join, leave, *)
(* get_session and do_write, not in is_valid.                              *)
(***************************************************************************)
EXTENDS Naturals, Sequences, FiniteSets

CONSTANTS MaxSessions,  \* bound on the clients that connect
          MaxChunks,    \* bound on the chunks a client sends
          MaxMessages   \* bound on the messages the application sends

ASSUME BoundAssumption == {MaxSessions, MaxChunks, MaxMessages} \subseteq Nat

Sessions == 1 .. MaxSessions     \* numbered as they connect, and are accepted
NoSession == 0                   \* also: the sender of an application message

VARIABLES peer,       \* peer[s]: "away", "waiting", "up" or "down"
          sent,       \* sent[s]: chunks the client has sent
          inbuf,      \* inbuf[s]: chunks in the kernel, not yet read
          socket,     \* socket[s]: "none", "open" or "closed" on our side
          armed,      \* the sessions with an async_read_some in progress
          accepting,  \* an async_accept is in progress
          ready,      \* completions whose handler has not run, oldest first
          handler,    \* the accept handler in progress in the io thread
          set_,       \* the sessions in the group
          rx_fifo,    \* the receive FIFO: from whom each chunk came
          delivered,  \* history: all that was written to it
          rx_thread,  \* the session whose request is to be acknowledged
          tx_fifo,    \* messages in the transmit FIFO
          tx_thread,  \* "read", or "write" once is_valid() was true
          queued,     \* history: messages that send_msg queued
          written,    \* history: <<to, request of>> of what was written
          failed      \* history: a write has failed

clients == <<peer, sent>>
io      == <<accepting, handler>>
users   == <<rx_thread, tx_fifo, tx_thread, queued>>
vars == <<clients, inbuf, socket, armed, io, ready, set_, rx_fifo, delivered, users,
          written, failed>>

Init == /\ peer = [s \in Sessions |-> "away"]
        /\ sent = [s \in Sessions |-> 0]
        /\ inbuf = [s \in Sessions |-> 0]
        /\ socket = [s \in Sessions |-> "none"]
        /\ armed = {} /\ accepting = TRUE /\ ready = <<>>
        /\ handler = [at |-> "idle", new |-> NoSession, old |-> NoSession]
        /\ set_ = {}
        /\ rx_fifo = <<>> /\ delivered = <<>>
        /\ rx_thread = NoSession
        /\ tx_fifo = 0 /\ tx_thread = "read" /\ queued = 0
        /\ written = <<>> /\ failed = FALSE

Idle == handler.at = "idle"
Completion(what, s) == [what |-> what, of |-> s]

-----------------------------------------------------------------------------
(* The clients. *)

Connect(s) == /\ peer[s] = "away"
              /\ \A t \in 1 .. s - 1 : peer[t] # "away"
              /\ peer' = [peer EXCEPT ![s] = "waiting"]
              /\ UNCHANGED <<sent, inbuf, socket, armed, io, ready, set_, rx_fifo,
                             delivered, users, written, failed>>

Send(s) == /\ peer[s] \in {"waiting", "up"}
           /\ sent[s] < MaxChunks
           /\ sent' = [sent EXCEPT ![s] = @ + 1]
           /\ inbuf' = [inbuf EXCEPT ![s] = @ + 1]
           /\ UNCHANGED <<peer, socket, armed, io, ready, set_, rx_fifo, delivered,
                          users, written, failed>>

Disconnect(s) == /\ peer[s] = "up"
                 /\ peer' = [peer EXCEPT ![s] = "down"]
                 /\ UNCHANGED <<sent, inbuf, socket, armed, io, ready, set_, rx_fifo,
                                delivered, users, written, failed>>

-----------------------------------------------------------------------------
(* What the io_context makes of the events of the sockets: completions,    *)
(* queued for the io thread.                                               *)

\* The oldest client that waits is accepted, or was lost (accept fails).
CompleteAccept(s) ==
    /\ accepting /\ peer[s] = "waiting"
    /\ \A t \in 1 .. s - 1 : peer[t] # "waiting"
    /\ accepting' = FALSE
    /\ \/ /\ peer' = [peer EXCEPT ![s] = "up"]
          /\ ready' = Append(ready, Completion("accept", s))
       \/ /\ peer' = [peer EXCEPT ![s] = "down"]
          /\ ready' = Append(ready, Completion("accept_error", s))
    /\ UNCHANGED <<sent, inbuf, socket, armed, handler, set_, rx_fifo, delivered, users,
                   written, failed>>

\* A read completes with a chunk, or with an error when none will come.
CompleteRead(s) ==
    /\ s \in armed
    /\ \/ /\ inbuf[s] > 0
          /\ inbuf' = [inbuf EXCEPT ![s] = @ - 1]
          /\ ready' = Append(ready, Completion("read", s))
       \/ /\ inbuf[s] = 0 /\ peer[s] = "down"
          /\ ready' = Append(ready, Completion("read_error", s))
          /\ UNCHANGED inbuf
    /\ armed' = armed \ {s}
    /\ UNCHANGED <<clients, socket, io, set_, rx_fifo, delivered, users, written, failed>>

-----------------------------------------------------------------------------
(* The handlers, in the io thread.  Each takes the oldest completion.      *)

Completed(what, s) == Idle /\ ready # <<>> /\ Head(ready) = Completion(what, s)

(* do_read of an open session starts a read; on a closed socket it         *)
(* completes at once with an error.                                        *)
DoRead(s, queue) ==
    IF socket[s] = "open"
    THEN armed' = armed \cup {s} /\ ready' = queue
    ELSE armed' = armed /\ ready' = Append(queue, Completion("read_error", s))

\* session::do_read's handler without an error: group_.run, then do_read.
HandleRead(s) ==
    /\ Completed("read", s)
    /\ rx_fifo' = Append(rx_fifo, s)
    /\ delivered' = Append(delivered, s)
    /\ DoRead(s, Tail(ready))
    /\ UNCHANGED <<clients, inbuf, socket, io, set_, users, written, failed>>

\* Mutant: something keeps the session alive, and its socket with it.
HandleErrorKept(s) ==
    /\ Completed("read_error", s) \/ Completed("write_error", s)
    /\ ready' = Tail(ready)
    /\ set_' = set_ \ {s}
    /\ UNCHANGED <<clients, inbuf, socket, armed, io, rx_fifo, delivered, users, written,
                   failed>>

(* The handlers of a failed read or write: the session leaves the group.   *)
(* Its last reference goes, and with it its socket, when no read is armed. *)
HandleError(s) ==
    /\ Completed("read_error", s) \/ Completed("write_error", s)
    /\ ready' = Tail(ready)
    /\ set_' = set_ \ {s}
    /\ socket' = IF s \in armed \/ \E i \in 2 .. Len(ready) : ready[i].of = s
                 THEN socket
                 ELSE [socket EXCEPT ![s] = "closed"]
    /\ UNCHANGED <<clients, inbuf, armed, io, rx_fifo, delivered, users, written, failed>>

\* Mutant: a failed accept returns before do_accept().
HandleAcceptOnce(s) ==
    /\ \/ /\ Completed("accept", s)
          /\ handler' = [at |-> "closing", new |-> s, old |-> NoSession]
          /\ socket' = [socket EXCEPT ![s] = "open"]
       \/ /\ Completed("accept_error", s)
          /\ UNCHANGED <<handler, socket>>
    /\ ready' = Tail(ready)
    /\ UNCHANGED <<clients, inbuf, armed, accepting, set_, rx_fifo, delivered, users, written,
                   failed>>

\* do_accept's handler, first part: enter close_all_session, or re-arm.
HandleAccept(s) ==
    /\ \/ /\ Completed("accept", s)
          /\ handler' = [at |-> "closing", new |-> s, old |-> NoSession]
          /\ socket' = [socket EXCEPT ![s] = "open"]
          /\ UNCHANGED accepting
       \/ /\ Completed("accept_error", s)
          /\ accepting' = TRUE
          /\ UNCHANGED <<handler, socket>>
    /\ ready' = Tail(ready)
    /\ UNCHANGED <<clients, inbuf, armed, set_, rx_fifo, delivered, users, written, failed>>

\* Mutant: the session only leaves the group, its socket is not closed.
CloseSessionNot(s) ==
    /\ handler.at = "closing" /\ s \in set_
    /\ handler' = [handler EXCEPT !.at = "leaving", !.old = s]
    /\ UNCHANGED <<clients, inbuf, socket, armed, accepting, ready, set_, rx_fifo, delivered,
                   users, written, failed>>

\* close_all_session: get_session and do_close, which aborts the read.
CloseSession(s) ==
    /\ handler.at = "closing" /\ s \in set_
    /\ socket' = [socket EXCEPT ![s] = "closed"]
    /\ ready' = IF s \in armed THEN Append(ready, Completion("read_error", s)) ELSE ready
    /\ armed' = armed \ {s}
    /\ handler' = [handler EXCEPT !.at = "leaving", !.old = s]
    /\ UNCHANGED <<clients, inbuf, accepting, set_, rx_fifo, delivered, users, written,
                   failed>>

\* close_all_session: leave, and back to get_session.
LeaveSession ==
    /\ handler.at = "leaving"
    /\ set_' = set_ \ {handler.old}
    /\ handler' = [handler EXCEPT !.at = "closing", !.old = NoSession]
    /\ UNCHANGED <<clients, inbuf, socket, armed, accepting, ready, rx_fifo, delivered,
                   users, written, failed>>

\* Mutant: the new session starts before all the old ones are out.
StartSessionEarly ==
    /\ handler.at = "closing"
    /\ set_' = set_ \cup {handler.new}
    /\ DoRead(handler.new, ready)
    /\ handler' = [at |-> "idle", new |-> NoSession, old |-> NoSession]
    /\ accepting' = TRUE
    /\ UNCHANGED <<clients, inbuf, socket, rx_fifo, delivered, users, written, failed>>

\* The rest of the accept handler: session::start() and do_accept().
StartSession ==
    /\ handler.at = "closing" /\ set_ = {}
    /\ set_' = set_ \cup {handler.new}
    /\ DoRead(handler.new, ready)
    /\ handler' = [at |-> "idle", new |-> NoSession, old |-> NoSession]
    /\ accepting' = TRUE
    /\ UNCHANGED <<clients, inbuf, socket, rx_fifo, delivered, users, written, failed>>

-----------------------------------------------------------------------------
(* session_group::do_write, under the mutex of the group: the first of the *)
(* group, if there is one.  A write to a client that is gone may fail, and *)
(* a write to a closed socket does; the handler of the failure runs later. *)
DoWrite(request) ==
    IF set_ = {}
    THEN UNCHANGED <<written, ready, failed>>
    ELSE \E s \in set_ :
            \/ /\ socket[s] = "open"
               /\ written' = Append(written, <<s, request>>)
               /\ UNCHANGED <<ready, failed>>
            \/ /\ socket[s] = "closed" \/ peer[s] = "down"
               /\ ready' = Append(ready, Completion("write_error", s))
               /\ failed' = TRUE
               /\ UNCHANGED written

\* tcp_rx_run: a whole request has been read from the receive FIFO ...
RxTake == /\ rx_thread = NoSession /\ rx_fifo # <<>>
          /\ rx_thread' = Head(rx_fifo)
          /\ rx_fifo' = Tail(rx_fifo)
          /\ UNCHANGED <<clients, inbuf, socket, armed, io, ready, set_, delivered, tx_fifo,
                         tx_thread, queued, written, failed>>

\* ... and process_rx_frame sends the ACK.
RxAck == /\ rx_thread # NoSession
         /\ rx_thread' = NoSession
         /\ DoWrite(rx_thread)
         /\ UNCHANGED <<clients, inbuf, socket, armed, io, set_, rx_fifo, delivered, tx_fifo,
                        tx_thread, queued>>

\* send_msg: nothing is queued while there is no session.
SendMsg == /\ queued < MaxMessages /\ set_ # {}
           /\ queued' = queued + 1
           /\ tx_fifo' = tx_fifo + 1
           /\ UNCHANGED <<clients, inbuf, socket, armed, io, ready, set_, rx_fifo, delivered,
                          rx_thread, tx_thread, written, failed>>

\* tcp_tx_run: read the transmit FIFO, which empties it; is_valid() decides.
TxTake == /\ tx_thread = "read" /\ tx_fifo > 0
          /\ tx_fifo' = 0
          /\ tx_thread' = IF set_ # {} THEN "write" ELSE "read"
          /\ UNCHANGED <<clients, inbuf, socket, armed, io, ready, set_, rx_fifo, delivered,
                         rx_thread, queued, written, failed>>

TxWrite == /\ tx_thread = "write"
           /\ tx_thread' = "read"
           /\ DoWrite(NoSession)
           /\ UNCHANGED <<clients, inbuf, socket, armed, io, set_, rx_fifo, delivered,
                          rx_thread, tx_fifo, queued>>

-----------------------------------------------------------------------------
IoThread == \/ \E s \in Sessions : HandleRead(s) \/ HandleError(s) \/ HandleAccept(s)
            \/ \E s \in Sessions : CloseSession(s)
            \/ LeaveSession
            \/ StartSession

Next == \/ \E s \in Sessions : Connect(s) \/ Send(s) \/ Disconnect(s)
        \/ \E s \in Sessions : CompleteAccept(s) \/ CompleteRead(s)
        \/ IoThread
        \/ RxTake \/ RxAck \/ SendMsg \/ TxTake \/ TxWrite

(* The io thread runs the handlers that are ready, the kernel completes    *)
(* what can complete, and the rx and tx threads loop; the clients and the  *)
(* application do as they like.                                            *)
Fairness == /\ WF_vars(IoThread)
            /\ \A s \in Sessions : WF_vars(CompleteAccept(s)) /\ WF_vars(CompleteRead(s))
            /\ WF_vars(RxTake) /\ WF_vars(RxAck) /\ WF_vars(TxTake) /\ WF_vars(TxWrite)

Spec == Init /\ [][Next]_vars /\ Fairness

-----------------------------------------------------------------------------
TypeOK == /\ peer \in [Sessions -> {"away", "waiting", "up", "down"}]
          /\ sent \in [Sessions -> 0 .. MaxChunks]
          /\ inbuf \in [Sessions -> 0 .. MaxChunks]
          /\ socket \in [Sessions -> {"none", "open", "closed"}]
          /\ armed \subseteq Sessions /\ set_ \subseteq Sessions
          /\ accepting \in BOOLEAN /\ failed \in BOOLEAN
          /\ ready \in Seq([what : {"accept", "accept_error", "read", "read_error",
                                    "write_error"}, of : Sessions])
          /\ handler \in [at : {"idle", "closing", "leaving"},
                          new : Sessions \cup {NoSession}, old : Sessions \cup {NoSession}]
          /\ rx_fifo \in Seq(Sessions) /\ delivered \in Seq(Sessions)
          /\ rx_thread \in Sessions \cup {NoSession}
          /\ tx_fifo \in 0 .. MaxMessages /\ queued \in 0 .. MaxMessages
          /\ tx_thread \in {"read", "write"}
          /\ written \in Seq(Sessions \X (Sessions \cup {NoSession}))

Accepted == {s \in Sessions : socket[s] # "none"}

(* The group never holds two sessions, and never one older than another    *)
(* that was accepted before the handler began to close the group: do_write *)
(* has no choice of whom to write to.                                      *)
OneSession == /\ Cardinality(set_) <= 1
              /\ Idle => \A s \in set_ : \A t \in Accepted : t <= s

(* Without a failed write, the chunks reach the receive FIFO one session   *)
(* after the other: a chunk of an old session that was read before the     *)
(* socket was closed is delivered late, but before any of the new session. *)
SessionsInOrder ==
    ~failed => \A i \in 1 .. Len(delivered) - 1 : delivered[i] <= delivered[i + 1]

(* An acknowledgement may reach a later session than the one that asked,   *)
(* never an earlier one, as long as no write fails.                        *)
AckNotEarlier ==
    ~failed => \A i \in 1 .. Len(written) : written[i][1] >= written[i][2]

(* What two clients send and are sent is kept apart: nothing of a new one  *)
(* is taken for an old one's, or sent to it.                               *)
ClientsKeptApart == SessionsInOrder /\ AckNotEarlier

(* No socket is left open behind: between two handlers an open socket      *)
(* belongs to the group or has a handler to come that will close it.       *)
NoSocketLeak ==
    Idle => \A s \in Sessions :
        socket[s] = "open" => \/ s \in set_ \/ s \in armed
                              \/ \E i \in 1 .. Len(ready) : ready[i].of = s

(* A client that waits is taken: the accept is armed again after every     *)
(* accept, failed or not.                                                  *)
ClientAccepted == \A s \in Sessions : peer[s] = "waiting" ~> peer[s] # "waiting"
=============================================================================
