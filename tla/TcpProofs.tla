------------------------------ MODULE TcpProofs ------------------------------
(***************************************************************************)
(* Both ends of TCP: the server of main_process and the client of          *)
(* lower_device.                                                           *)
(* The server, for any number of clients, chunks and messages: there is    *)
(* one accept at a time, in progress, completed or being handled, and      *)
(* clients are accepted in the order they came in: hence the group holds   *)
(* one session, the latest.  As long as no write has failed, only that one *)
(* is read from, and what older ones sent is in front of it everywhere.    *)
(* The client, for any sizes of its FIFO and buffer and any number of      *)
(* bytes and breaks: a byte is in one of four places, which hold the bytes *)
(* of the line in its order: the server, the tx thread, the FIFO, the      *)
(* line.  No step of any thread changes that; the connection comes in only *)
(* where bytes leave.                                                      *)
(***************************************************************************)
EXTENDS AsioServer, SerialBridge, FiniteSetTheorems, SequenceTheorems, TLAPS

-----------------------------------------------------------------------------
(* The server. *)

Queued     == [what : {"accept", "accept_error", "read", "read_error", "write_error"},
               of : Sessions]
IsAccept(c) == c.what \in {"accept", "accept_error"}
IsRead(c)   == c.what \in {"read", "read_error"}
Taken(s)    == peer[s] \in {"up", "down"}
Has(s)      == socket[s] # "none"

Types == /\ peer \in [Sessions -> {"away", "waiting", "up", "down"}]
         /\ socket \in [Sessions -> {"none", "open", "closed"}]
         /\ armed \subseteq Sessions /\ set_ \subseteq Sessions
         /\ ready \in Seq(Queued)
         /\ handler \in [at : {"idle", "closing", "leaving"},
                         new : Sessions \cup {NoSession}, old : Sessions \cup {NoSession}]
         /\ rx_fifo \in Seq(Sessions) /\ delivered \in Seq(Sessions)
         /\ rx_thread \in Sessions \cup {NoSession}
         /\ written \in Seq(Sessions \X (Sessions \cup {NoSession}))

\* Clients come, and are accepted or lost, in the order of their numbers.
Turns == \A s, t \in Sessions : s < t => /\ peer[t] # "away" => peer[s] # "away"
                                         /\ Taken(t) => Taken(s)

\* Of whom the completions are.
Owned(c, p, k) == /\ c.what = "accept" => /\ p[c.of] \in {"up", "down"}
                                          /\ \A t \in Sessions : k[t] # "none" => t < c.of
                  /\ c.what = "accept_error" => k[c.of] = "none"
                  /\ ~IsAccept(c) => k[c.of] # "none"

Owners == /\ \A s \in Sessions : Has(s) => Taken(s)
          /\ \A s \in set_ \cup armed : Has(s)
          /\ \A i \in 1 .. Len(ready) : Owned(ready[i], peer, socket)

\* One accept at a time.
OneAccept == /\ accepting \/ ~Idle => \A i \in 1 .. Len(ready) : ~IsAccept(ready[i])
             /\ accepting => Idle
             /\ \A i, j \in 1 .. Len(ready) :
                   IsAccept(ready[i]) /\ IsAccept(ready[j]) => i = j

\* The group has one member, the latest.
Group == /\ \A s, t \in set_ : s = t
         /\ Idle => \A s \in set_ : \A t \in Sessions : Has(t) => t <= s
         /\ ~Idle => /\ handler.new \in Sessions /\ Has(handler.new)
                     /\ \A t \in Sessions : Has(t) => t <= handler.new

\* Somebody holds every open socket.
Held == /\ \A s \in Sessions : socket[s] = "open" =>
              \/ s \in set_ \/ s \in armed \/ \E i \in 1 .. Len(ready) : ready[i].of = s
              \/ ~Idle /\ s = handler.new
        /\ handler.at = "leaving" => socket[handler.old] = "closed"

\* x is no later than the session in the group.
Old(x) == \A s \in set_ : x <= s

\* Without a failed write only the session in the group is read from, once at a time ...
Reading ==
    /\ \A s \in armed : s \in set_ /\ socket[s] = "open"
    /\ \A i \in 1 .. Len(ready) :
          /\ ready[i].what # "write_error"
          /\ IsRead(ready[i]) /\ socket[ready[i].of] = "open" =>
                /\ ready[i].of \in set_ /\ ready[i].of \notin armed
                /\ \A j \in 1 .. Len(ready) :
                      IsRead(ready[j]) /\ ready[j].of = ready[i].of => i = j

\* ... and chunks are in the order of the sessions wherever they are.
Chunks ==
    /\ \A i, j \in 1 .. Len(delivered) : i < j => delivered[i] <= delivered[j]
    /\ \A i \in 1 .. Len(delivered), j \in 1 .. Len(ready) :
          ready[j].what = "read" => delivered[i] <= ready[j].of
    /\ \A i, j \in 1 .. Len(ready) :
          i < j /\ ready[i].what = "read" /\ ready[j].what = "read" => ready[i].of <= ready[j].of

Olds == /\ \A i \in 1 .. Len(delivered) : Has(delivered[i]) /\ Old(delivered[i])
        /\ \A i \in 1 .. Len(rx_fifo) : Has(rx_fifo[i]) /\ Old(rx_fifo[i])
        /\ rx_thread # NoSession => Has(rx_thread) /\ Old(rx_thread)
        /\ \A i \in 1 .. Len(ready) : ready[i].what = "read" => Old(ready[i].of)

Answers == \A i \in 1 .. Len(written) : written[i][1] >= written[i][2]

Order == Types /\ Turns /\ Owners /\ OneAccept /\ Group
Flow  == ~failed => Reading /\ Chunks /\ Olds /\ Answers
IInv  == Order /\ Held /\ Flow

-----------------------------------------------------------------------------
(* Queues that lose their first completion and get another one.            *)

Behind(q, t) == /\ t \in Seq(Queued) /\ Len(t) \in Nat /\ Len(q) = Len(t) + 1
                /\ \A i \in 1 .. Len(t) : t[i] = q[i + 1]

Longer(q, c, t) == /\ t \in Seq(Queued) /\ Len(q) \in Nat /\ Len(t) = Len(q) + 1
                   /\ t[Len(q) + 1] = c /\ \A i \in 1 .. Len(q) : t[i] = q[i]

LEMMA Numbers == /\ Sessions \subseteq Nat \ {0} /\ NoSession \notin Sessions /\ NoSession = 0
                 /\ \A s \in Sessions : s \in Nat /\ s # 0
  BY DEF Sessions, NoSession

LEMMA Completions ==
  ASSUME NEW s \in Sessions,
         NEW w \in {"accept", "accept_error", "read", "read_error", "write_error"}
  PROVE  Completion(w, s) \in Queued /\ Completion(w, s).what = w /\ Completion(w, s).of = s
  BY DEF Completion, Queued

LEMMA Elements ==
  ASSUME NEW q \in Seq(Queued)
  PROVE  \A i \in 1 .. Len(q) :
            /\ q[i] \in Queued /\ q[i].of \in Sessions
            /\ q[i].what \in {"accept", "accept_error", "read", "read_error", "write_error"}
  <1>1. \A i \in 1 .. Len(q) : q[i] \in Queued
    OBVIOUS
  <1> QED  BY <1>1 DEF Queued

LEMMA TailBehind ==
  ASSUME NEW q \in Seq(Queued), q # <<>>
  PROVE  Behind(q, Tail(q)) /\ Head(q) = q[1]
  BY DEF Behind

LEMMA AppendLonger ==
  ASSUME NEW q \in Seq(Queued), NEW c \in Queued
  PROVE  Longer(q, c, Append(q, c))
  BY DEF Longer

\* What changes the peers alone keeps everything that does not speak of them.
LEMMA PeerSteps ==
  ASSUME IInv, UNCHANGED <<socket, armed, ready, handler, accepting, set_, rx_fifo, delivered,
                           rx_thread, written, failed>>,
         peer' \in [Sessions -> {"away", "waiting", "up", "down"}],
         \A s \in Sessions : Taken(s) => peer'[s] \in {"up", "down"},
         Turns'
  PROVE  IInv'
  <1>1. Types'
    BY DEF IInv, Order, Types
  <1>2. Owners'
    <2>1. \A i \in 1 .. Len(ready) : ready[i].of \in Sessions
      BY Elements DEF IInv, Order, Types
    <2> QED  BY <2>1 DEF IInv, Order, Owners, Owned, Taken, Has
  <1>3. OneAccept' /\ Group' /\ Held' /\ Flow'
    BY DEF IInv, Order, OneAccept, Group, Held, Flow, Idle, Has, Reading, Chunks, Olds, Old, Answers
  <1> QED  BY <1>1, <1>2, <1>3 DEF IInv, Order

LEMMA Clients ==
  ASSUME IInv, NEW s \in Sessions, Connect(s) \/ Send(s) \/ Disconnect(s)
  PROVE  IInv'
  <1> USE Numbers
  <1>1. UNCHANGED <<socket, armed, ready, handler, accepting, set_, rx_fifo, delivered,
                    rx_thread, written, failed>>
    BY DEF Connect, Send, Disconnect, io, users
  <1>2. peer \in [Sessions -> {"away", "waiting", "up", "down"}] /\ Turns
    BY DEF IInv, Order, Types
  <1>3. CASE Connect(s)
    <2>1. /\ peer[s] = "away" /\ peer' = [peer EXCEPT ![s] = "waiting"]
          /\ \A t \in Sessions : t < s => peer[t] # "away"
      BY <1>3 DEF Connect, Sessions
    <2>2. Turns'
      BY <1>2, <2>1 DEF Turns, Taken
    <2> QED  BY <1>1, <1>2, <2>1, <2>2, PeerSteps DEF Taken
  <1>4. CASE Send(s)
    <2>1. peer' = peer
      BY <1>4 DEF Send
    <2> QED  BY <1>1, <1>2, <2>1, PeerSteps DEF Taken, Turns
  <1>5. CASE Disconnect(s)
    <2>1. peer[s] = "up" /\ peer' = [peer EXCEPT ![s] = "down"]
      BY <1>5 DEF Disconnect
    <2>2. Turns'
      BY <1>2, <2>1 DEF Turns, Taken
    <2> QED  BY <1>1, <1>2, <2>1, <2>2, PeerSteps DEF Taken
  <1> QED  BY <1>3, <1>4, <1>5

\* What a completion adds, and what it takes from the sockets.
LEMMA AcceptCompletes ==
  ASSUME IInv, NEW s \in Sessions, CompleteAccept(s)
  PROVE  IInv'
  <1> USE Numbers
  <1>1. PICK w \in {"accept", "accept_error"} :
           /\ ready' = Append(ready, Completion(w, s))
           /\ accepting /\ accepting' = FALSE /\ peer[s] = "waiting"
           /\ \A t \in Sessions : t < s => peer[t] # "waiting"
           /\ peer' = [peer EXCEPT ![s] = "up"] \/ peer' = [peer EXCEPT ![s] = "down"]
           /\ UNCHANGED <<socket, armed, handler, set_, rx_fifo, delivered, rx_thread, written,
                          failed>>
    BY DEF CompleteAccept, Sessions, users
  <1>2. Types /\ Turns /\ Owners /\ OneAccept /\ Group
    BY DEF IInv, Order
  <1>3. PICK c \in Queued : /\ c.what = w /\ c.of = s /\ IsAccept(c) /\ ~IsRead(c)
                            /\ Longer(ready, c, ready')
    <2>1. Completion(w, s) \in Queued /\ Completion(w, s).what = w /\ Completion(w, s).of = s
      BY Completions
    <2>2. Longer(ready, Completion(w, s), ready')
      BY <1>1, <1>2, <2>1, AppendLonger DEF Types
    <2> QED  BY <2>1, <2>2 DEF IsAccept, IsRead
  <1>4. /\ peer' \in [Sessions -> {"away", "waiting", "up", "down"}] /\ peer'[s] \in {"up", "down"}
        /\ \A t \in Sessions : t # s => peer'[t] = peer[t]
    BY <1>1, <1>2 DEF Types
  <1>5. ~Has(s) /\ \A t \in Sessions : Has(t) => t < s
    <2>1. ~Taken(s)
      BY <1>1 DEF Taken
    <2>2. \A t \in Sessions : Has(t) => Taken(t)
      BY <1>2 DEF Owners
    <2>3. ASSUME NEW t \in Sessions, Has(t) PROVE t < s
      <3>1. Taken(t) /\ t # s
        BY <2>1, <2>2, <2>3
      <3>2. ~(s < t)
        BY <1>2, <2>1, <3>1 DEF Turns
      <3> QED  BY <3>1, <3>2
    <2> QED  BY <2>1, <2>2, <2>3
  <1>6. Types'
    BY <1>1, <1>2, <1>3, <1>4 DEF Types, Longer
  <1>7. Turns'
    <2>1. \A t \in Sessions : t < s => Taken(t)
      BY <1>1, <1>2 DEF Turns, Taken, Types
    <2> QED  BY <1>2, <1>4, <2>1 DEF Turns, Taken
  <1>8. Owners'
    <2>1. \A t \in Sessions : Taken(t)' <=> Taken(t) \/ t = s
      BY <1>1, <1>4 DEF Taken
    <2>2. \A t \in Sessions : Has(t)' <=> Has(t)
      BY <1>1 DEF Has
    <2>3. \A i \in 1 .. Len(ready) : ready[i].of \in Sessions
      BY <1>2, Elements DEF Types
    <2>4. \A i \in 1 .. Len(ready') :
             \/ i = Len(ready') /\ ready'[i] = c
             \/ i \in 1 .. Len(ready) /\ ready'[i] = ready[i]
      BY <1>3 DEF Longer
    <2>5. \A t \in Sessions : Has(t)' => Taken(t)'
      BY <1>2, <2>1, <2>2 DEF Owners
    <2>6. \A t \in set_' \cup armed' : Has(t)'
      BY <1>1, <1>2 DEF Owners, Has
    <2>7. \A d \in Queued : d.of \in Sessions /\ Owned(d, peer, socket) => Owned(d, peer', socket')
      BY <2>1, <2>2 DEF Owned, Taken, Has
    <2>8. Owned(c, peer', socket')
      BY <1>3, <1>5, <2>1, <2>2 DEF Owned, Taken, Has
    <2>9. \A i \in 1 .. Len(ready') : Owned(ready'[i], peer', socket')
      BY <1>2, <2>3, <2>4, <2>7, <2>8, Elements DEF Owners, Types
    <2> QED  BY <2>5, <2>6, <2>9 DEF Owners
  <1>9. OneAccept'
    BY <1>1, <1>2, <1>3 DEF OneAccept, Longer, Idle
  <1>10. Group'
    BY <1>1, <1>2 DEF Group, Idle, Has
  <1>11. Held'
    <2>1. \A i \in 1 .. Len(ready) : i \in 1 .. Len(ready') /\ ready'[i] = ready[i]
      BY <1>3 DEF Longer
    <2> QED  BY <1>1, <2>1 DEF IInv, Held, Idle
  <1>12. Flow'
    <2>1. \A i \in 1 .. Len(ready') :
             \/ ~IsRead(ready'[i]) /\ ready'[i].what \notin {"write_error", "read"}
             \/ i \in 1 .. Len(ready) /\ ready'[i] = ready[i]
      BY <1>3 DEF Longer, IsAccept
    <2>2. Reading => Reading'
      BY <1>1, <2>1 DEF Reading
    <2>3. Chunks => Chunks'
      BY <1>1, <2>1 DEF Chunks
    <2>4. Olds /\ Answers => Olds' /\ Answers'
      BY <1>1, <2>1 DEF Olds, Answers, Has, Old
    <2> QED  BY <1>1, <2>2, <2>3, <2>4 DEF IInv, Flow
  <1> QED  BY <1>6, <1>7, <1>8, <1>9, <1>10, <1>11, <1>12 DEF IInv, Order

-----------------------------------------------------------------------------
\* t is q without its first d completions, and with one of C behind it or none.
Moves(q, t, d, C) ==
    /\ t \in Seq(Queued) /\ Len(t) \in Nat /\ Len(q) \in Nat
    /\ \A i \in 1 .. Len(t) : \/ i + d \in 1 .. Len(q) /\ t[i] = q[i + d]
                              \/ i = Len(t) /\ i + d = Len(q) + 1 /\ t[i] \in C
    /\ \A j \in 1 .. Len(q) : j > d => j - d \in 1 .. Len(t) /\ t[j - d] = q[j]

LEMMA Moved ==
  ASSUME NEW q \in Seq(Queued)
  PROVE  /\ Moves(q, q, 0, {})
         /\ \A c \in Queued : Moves(q, Append(q, c), 0, {c})
         /\ q # <<>> => /\ Moves(q, Tail(q), 1, {})
                        /\ \A c \in Queued : Moves(q, Append(Tail(q), c), 1, {c})
                        /\ 1 \in 1 .. Len(q) /\ Head(q) = q[1]
  <1>1. Moves(q, q, 0, {})
    BY DEF Moves
  <1>2. ASSUME NEW c \in Queued, NEW t, t = Append(q, c) PROVE Moves(q, t, 0, {c})
    BY <1>2 DEF Moves
  <1>3. ASSUME q # <<>>, NEW t, t = Tail(q) PROVE Moves(q, t, 1, {})
    BY <1>3 DEF Moves
  <1>4. ASSUME q # <<>>, NEW c \in Queued, NEW t \in Seq(Queued), t = Tail(q),
               NEW u \in Seq(Queued), u = Append(t, c)
        PROVE  Moves(q, u, 1, {c})
    <2>1. PICK n \in Nat : n = Len(t)
      OBVIOUS
    <2>2. Len(q) = n + 1 /\ Len(u) = n + 1 /\ u[n + 1] = c
      BY <1>4, <2>1
    <2>3. \A i \in 1 .. n : u[i] = t[i] /\ t[i] = q[i + 1]
      BY <1>4, <2>1
    <2>4. \A i \in 1 .. Len(u) : \/ i + 1 \in 1 .. Len(q) /\ u[i] = q[i + 1]
                                 \/ i = Len(u) /\ i + 1 = Len(q) + 1 /\ u[i] \in {c}
      BY <2>1, <2>2, <2>3
    <2>5. \A j \in 1 .. Len(q) : j > 1 => j - 1 \in 1 .. Len(u) /\ u[j - 1] = q[j]
      BY <2>1, <2>2, <2>3
    <2> QED  BY <2>1, <2>2, <2>4, <2>5 DEF Moves
  <1>6. ASSUME q # <<>>, NEW c \in Queued PROVE Moves(q, Append(Tail(q), c), 1, {c})
    <2>1. Tail(q) \in Seq(Queued)
      BY <1>6
    <2>2. Append(Tail(q), c) \in Seq(Queued)
      BY <2>1
    <2> QED  BY <1>4, <1>6, <2>1, <2>2
  <1>5. q # <<>> => 1 \in 1 .. Len(q) /\ Head(q) = q[1]
    OBVIOUS
  <1> QED  BY <1>1, <1>2, <1>3, <1>5, <1>6

\* Steps of the queue that have nothing to do with an accept.
LEMMA OwnersStep ==
  ASSUME Types, Turns, Owners, NEW d \in {0, 1}, NEW C, Moves(ready, ready', d, C),
         \A c \in C : c.of \in Sessions /\ ~IsAccept(c) /\ Has(c.of),
         UNCHANGED peer,
         \A t \in Sessions : socket'[t] # "none" <=> socket[t] # "none",
         set_' \cup armed' \subseteq Sessions, \A t \in set_' \cup armed' : Has(t)
  PROVE  Turns' /\ Owners'
  <1>1. \A e \in Queued : e.of \in Sessions /\ Owned(e, peer, socket) => Owned(e, peer', socket')
    BY DEF Owned
  <1>2. \A c \in C : Owned(c, peer', socket')
    BY DEF Owned, Has, IsAccept
  <1>3. \A i \in 1 .. Len(ready') : Owned(ready'[i], peer', socket')
    BY <1>1, <1>2, Elements DEF Moves, Owners, Types
  <1>4. Turns'
    BY DEF Turns, Taken
  <1>5. /\ \A t \in Sessions : Has(t)' => Taken(t)'
        /\ \A t \in set_' \cup armed' : Has(t)'
    BY DEF Owners, Has, Taken
  <1> QED  BY <1>3, <1>4, <1>5 DEF Owners

LEMMA OneAcceptStep ==
  ASSUME OneAccept, NEW d \in {0, 1}, NEW C, Moves(ready, ready', d, C), \A c \in C : ~IsAccept(c),
         accepting' = accepting, Idle' <=> Idle
  PROVE  OneAccept'
  <1>1. \A i \in 1 .. Len(ready') : IsAccept(ready'[i]) =>
           i + d \in 1 .. Len(ready) /\ IsAccept(ready[i + d])
    BY DEF Moves
  <1>2. accepting' \/ ~Idle' => \A i \in 1 .. Len(ready') : ~IsAccept(ready'[i])
    BY <1>1 DEF OneAccept
  <1>3. \A i, j \in 1 .. Len(ready') : IsAccept(ready'[i]) /\ IsAccept(ready'[j]) => i = j
    <2>1. \A i, j \in 1 .. Len(ready') : i + d = j + d => i = j
      OBVIOUS
    <2> QED  BY <1>1, <2>1 DEF OneAccept
  <1> QED  BY <1>2, <1>3 DEF OneAccept, IsAccept

LEMMA ChunksStep ==
  ASSUME Chunks, NEW d \in {0, 1}, NEW C, Moves(ready, ready', d, C),
         \A c \in C : c.what # "read", UNCHANGED delivered
  PROVE  Chunks'
  <1>1. \A i \in 1 .. Len(ready') : ready'[i].what = "read" =>
           i + d \in 1 .. Len(ready) /\ ready'[i] = ready[i + d]
    BY DEF Moves
  <1>2. \A i, j \in 1 .. Len(ready') : i < j => i + d < j + d
    OBVIOUS
  <1> QED  BY <1>1, <1>2 DEF Chunks

LEMMA OldsStep ==
  ASSUME Types, Olds, NEW d \in {0, 1}, NEW C, Moves(ready, ready', d, C), set_' \subseteq set_,
         \A t \in Sessions : socket[t] # "none" => socket'[t] # "none",
         \A c \in C : c.what = "read" => Old(c.of), UNCHANGED <<rx_fifo, delivered, rx_thread>>
  PROVE  Olds'
  <1>1. \A i \in 1 .. Len(ready') : ready'[i].what = "read" => Old(ready'[i].of)
    BY DEF Moves, Olds
  <1>2. \A x : Old(x) => \A t \in set_' : x <= t
    BY DEF Old
  <1>3. /\ \A i \in 1 .. Len(delivered) : delivered[i] \in Sessions
        /\ \A i \in 1 .. Len(rx_fifo) : rx_fifo[i] \in Sessions
    BY DEF Types
  <1> QED  BY <1>1, <1>2, <1>3 DEF Olds, Has, Old, Types

-----------------------------------------------------------------------------
LEMMA ReadCompletes ==
  ASSUME IInv, NEW s \in Sessions, CompleteRead(s)
  PROVE  IInv'
  <1> USE Numbers
  <1>1. Types /\ Turns /\ Owners /\ OneAccept /\ Group
    BY DEF IInv, Order
  <1>2. PICK w \in {"read", "read_error"} :
           /\ ready' = Append(ready, Completion(w, s))
           /\ s \in armed /\ armed' = armed \ {s}
           /\ UNCHANGED <<peer, socket, accepting, handler, set_, rx_fifo, delivered, rx_thread,
                          written, failed>>
    BY DEF CompleteRead, clients, io, users
  <1>3. PICK c \in Queued : /\ c.what = w /\ c.of = s /\ ~IsAccept(c) /\ IsRead(c)
                            /\ Moves(ready, ready', 0, {c})
    <2>1. Completion(w, s) \in Queued /\ Completion(w, s).what = w /\ Completion(w, s).of = s
      BY Completions
    <2>2. Moves(ready, ready', 0, {Completion(w, s)})
      BY <1>1, <1>2, <2>1, Moved DEF Types
    <2> QED  BY <2>1, <2>2 DEF IsAccept, IsRead
  <1>4. Has(s)
    BY <1>1, <1>2 DEF Owners
  <1>5. Types'
    BY <1>1, <1>2, <1>3 DEF Types, Moves
  <1>6. Turns' /\ Owners'
    <2>1. /\ \A e \in {c} : e.of \in Sessions /\ ~IsAccept(e) /\ Has(e.of)
          /\ set_' \cup armed' \subseteq Sessions /\ \A t \in set_' \cup armed' : Has(t)
      BY <1>1, <1>2, <1>3, <1>4 DEF Owners, Types
    <2> QED  BY <1>1, <1>2, <1>3, <2>1, OwnersStep
  <1>7. OneAccept'
    BY <1>1, <1>2, <1>3, OneAcceptStep DEF Idle
  <1>8. Group'
    BY <1>1, <1>2 DEF Group, Idle, Has
  <1>9. Held'
    <2>1. \A i \in 1 .. Len(ready) : i \in 1 .. Len(ready') /\ ready'[i] = ready[i]
      BY <1>3 DEF Moves
    <2>2. \E i \in 1 .. Len(ready') : ready'[i].of = s
      <3>1. Len(ready') = Len(ready) + 1 /\ Len(ready) \in Nat /\ ready'[Len(ready) + 1] = Completion(w, s)
        BY <1>1, <1>2 DEF Types
      <3> QED  BY <3>1 DEF Completion
    <2> QED  BY <1>2, <2>1, <2>2 DEF IInv, Held, Idle
  <1>10. ASSUME ~failed PROVE Reading' /\ Chunks' /\ Olds' /\ Answers'
    <2>1. Reading /\ Chunks /\ Olds /\ Answers
      BY <1>10 DEF IInv, Flow
    <2>2. s \in set_ /\ socket[s] = "open"
      BY <1>2, <2>1 DEF Reading
    <2>3. \A i \in 1 .. Len(ready) : IsRead(ready[i]) => ready[i].of # s
      BY <1>2, <2>1, <2>2 DEF Reading
    <2>4. \A i \in 1 .. Len(ready') :
             \/ i \in 1 .. Len(ready) /\ ready'[i] = ready[i]
             \/ i = Len(ready) + 1 /\ i = Len(ready') /\ ready'[i] = c
      BY <1>3 DEF Moves
    <2>5. Reading'
      <3>1. \A t \in armed' : t \in set_' /\ socket'[t] = "open"
        BY <1>2, <2>1 DEF Reading
      <3>2. ASSUME NEW i \in 1 .. Len(ready'), IsRead(ready'[i]), socket'[ready'[i].of] = "open"
            PROVE  ready'[i].of \in set_' /\ ready'[i].of \notin armed'
        BY <1>2, <1>3, <2>1, <2>2, <2>4, <3>2 DEF Reading
      <3>3. ASSUME NEW i \in 1 .. Len(ready'), IsRead(ready'[i]), socket'[ready'[i].of] = "open",
                   NEW j \in 1 .. Len(ready'), IsRead(ready'[j]), ready'[j].of = ready'[i].of
            PROVE  i = j
        BY <1>2, <1>3, <2>1, <2>3, <2>4, <3>3 DEF Reading
      <3>4. \A i \in 1 .. Len(ready') : ready'[i].what # "write_error"
        BY <1>3, <2>1, <2>4 DEF Reading
      <3> QED  BY <3>1, <3>2, <3>3, <3>4 DEF Reading, IsRead
    <2>6. Old(s)
      BY <1>1, <2>2 DEF Group, Old, Types
    <2>7. Olds'
      BY <1>1, <1>2, <1>3, <2>1, <2>6, OldsStep
    <2>8. Chunks'
      <3>1. \A i \in 1 .. Len(delivered) : delivered[i] <= s
        BY <2>1, <2>2 DEF Olds, Old
      <3>2. \A i \in 1 .. Len(ready) : ready[i].what = "read" => ready[i].of <= s
        BY <2>1, <2>2 DEF Olds, Old
      <3> QED  BY <1>2, <1>3, <2>1, <2>4, <3>1, <3>2 DEF Chunks
    <2>9. Answers'
      BY <1>2, <2>1 DEF Answers
    <2> QED  BY <2>5, <2>7, <2>8, <2>9
  <1>11. Flow'
    BY <1>2, <1>10 DEF Flow
  <1> QED  BY <1>5, <1>6, <1>7, <1>8, <1>9, <1>11 DEF IInv, Order

\* A handler that starts a read arms it, or finds the socket closed.
LEMMA ReadStarts ==
  ASSUME NEW s \in Sessions, NEW q \in Seq(Queued), DoRead(s, q)
  PROVE  \/ socket[s] = "open" /\ armed' = armed \cup {s} /\ ready' = q
         \/ /\ socket[s] # "open" /\ armed' = armed
            /\ \E c \in Queued : /\ c.what = "read_error" /\ c.of = s /\ ~IsAccept(c) /\ IsRead(c)
                                 /\ ready' = Append(q, c)
  <1>1. PICK c \in Queued : c = Completion("read_error", s) /\ c.what = "read_error" /\ c.of = s
    BY Completions
  <1> QED  BY <1>1 DEF DoRead, IsAccept, IsRead

LEMMA ReadHandled ==
  ASSUME IInv, NEW s \in Sessions, HandleRead(s)
  PROVE  IInv'
  <1> USE Numbers
  <1>1. Types /\ Turns /\ Owners /\ OneAccept /\ Group
    BY DEF IInv, Order
  <1>2. /\ Idle /\ ready # <<>> /\ Head(ready).what = "read" /\ Head(ready).of = s
        /\ rx_fifo' = Append(rx_fifo, s) /\ delivered' = Append(delivered, s)
        /\ DoRead(s, Tail(ready))
        /\ UNCHANGED <<peer, socket, accepting, handler, set_, rx_thread, written, failed>>
    BY Completions DEF HandleRead, Completed, clients, io, users
  <1>3. /\ 1 \in 1 .. Len(ready) /\ ready[1].what = "read" /\ ready[1].of = s
        /\ ~IsAccept(ready[1]) /\ IsRead(ready[1]) /\ Tail(ready) \in Seq(Queued)
    BY <1>1, <1>2, Moved DEF Types, IsAccept, IsRead
  <1>4. Has(s) /\ s \notin {0}
    BY <1>1, <1>3 DEF Owners, Owned, Has
  <1>5. PICK C : /\ Moves(ready, ready', 1, C)
                 /\ \/ socket[s] = "open" /\ armed' = armed \cup {s} /\ C = {}
                    \/ socket[s] # "open" /\ armed' = armed
                 /\ \A c \in C : /\ c \in Queued /\ c.what = "read_error" /\ c.of = s
                                 /\ ~IsAccept(c) /\ IsRead(c)
    <2>1. CASE socket[s] = "open" /\ armed' = armed \cup {s} /\ ready' = Tail(ready)
      <3>1. Moves(ready, ready', 1, {})
        BY <1>1, <1>2, <2>1, Moved DEF Types
      <3> QED  BY <2>1, <3>1
    <2>2. ASSUME socket[s] # "open", armed' = armed, NEW c \in Queued, c.what = "read_error",
                 c.of = s, ~IsAccept(c), IsRead(c), ready' = Append(Tail(ready), c)
          PROVE  \E C : /\ Moves(ready, ready', 1, C)
                        /\ \/ socket[s] = "open" /\ armed' = armed \cup {s} /\ C = {}
                           \/ socket[s] # "open" /\ armed' = armed
                        /\ \A e \in C : /\ e \in Queued /\ e.what = "read_error" /\ e.of = s
                                        /\ ~IsAccept(e) /\ IsRead(e)
      <3>1. Moves(ready, ready', 1, {c})
        BY <1>1, <1>2, <2>2, Moved DEF Types
      <3> QED  BY <2>2, <3>1
    <2>3. \/ socket[s] = "open" /\ armed' = armed \cup {s} /\ ready' = Tail(ready)
          \/ /\ socket[s] # "open" /\ armed' = armed
             /\ \E c \in Queued : /\ c.what = "read_error" /\ c.of = s /\ ~IsAccept(c) /\ IsRead(c)
                                  /\ ready' = Append(Tail(ready), c)
      BY <1>2, <1>3, ReadStarts
    <2> QED  BY <2>1, <2>2, <2>3
  <1>6. Types'
    <2>1. rx_fifo' \in Seq(Sessions) /\ delivered' \in Seq(Sessions)
      BY <1>1, <1>2 DEF Types
    <2> QED  BY <1>1, <1>2, <1>5, <2>1 DEF Types, Moves
  <1>7. Turns' /\ Owners'
    <2>1. /\ \A c \in C : c.of \in Sessions /\ ~IsAccept(c) /\ Has(c.of)
          /\ set_' \cup armed' \subseteq Sessions /\ \A t \in set_' \cup armed' : Has(t)
      BY <1>1, <1>2, <1>4, <1>5 DEF Owners, Types
    <2> QED  BY <1>1, <1>2, <1>5, <2>1, OwnersStep
  <1>8. OneAccept'
    BY <1>1, <1>2, <1>5, OneAcceptStep DEF Idle
  <1>9. Group'
    BY <1>1, <1>2 DEF Group, Idle, Has
  <1>10. Held'
    <2>1. \A i \in 1 .. Len(ready) :
             i = 1 \/ (i - 1 \in 1 .. Len(ready') /\ ready'[i - 1] = ready[i])
      BY <1>5 DEF Moves
    <2>2. \A t \in Sessions : t # s => \A i \in 1 .. Len(ready) : ready[i].of = t =>
             \E j \in 1 .. Len(ready') : ready'[j].of = t
      BY <1>3, <2>1
    <2> QED  BY <1>2, <1>5, <2>2 DEF IInv, Held, Idle
  <1>11. ASSUME ~failed PROVE Reading' /\ Chunks' /\ Olds' /\ Answers'
    <2>1. Reading /\ Chunks /\ Olds /\ Answers
      BY <1>11 DEF IInv, Flow
    <2>2. socket[s] = "open" => s \in set_ /\ \A i \in 2 .. Len(ready) : IsRead(ready[i]) => ready[i].of # s
      BY <1>3, <2>1 DEF Reading
    <2>4. \A i \in 1 .. Len(ready') :
             \/ i + 1 \in 2 .. Len(ready) /\ i + 1 \in 1 .. Len(ready) /\ ready'[i] = ready[i + 1]
             \/ socket[s] # "open" /\ ready'[i].what = "read_error" /\ ready'[i].of = s
      BY <1>5 DEF Moves
    <2>5. Reading'
      <3>1. \A t \in armed' : t \in set_' /\ socket'[t] = "open"
        BY <1>2, <1>5, <2>1, <2>2 DEF Reading
      <3>2. ASSUME NEW i \in 1 .. Len(ready'), IsRead(ready'[i]), socket'[ready'[i].of] = "open"
            PROVE  /\ i + 1 \in 2 .. Len(ready) /\ i + 1 \in 1 .. Len(ready)
                   /\ ready'[i] = ready[i + 1] /\ ready'[i].of # s
                   /\ ready'[i].of \in set_' /\ ready'[i].of \notin armed'
        <4>1. /\ i + 1 \in 2 .. Len(ready) /\ i + 1 \in 1 .. Len(ready)
              /\ ready'[i] = ready[i + 1]
          BY <1>2, <2>4, <3>2
        <4>2. ready'[i].of # s
          BY <1>2, <2>2, <3>2, <4>1
        <4>3. ready[i + 1].of \in set_ /\ ready[i + 1].of \notin armed
          BY <1>2, <2>1, <3>2, <4>1 DEF Reading
        <4> QED  BY <1>2, <1>5, <4>1, <4>2, <4>3
      <3>3. ASSUME NEW i \in 1 .. Len(ready'), IsRead(ready'[i]), socket'[ready'[i].of] = "open",
                   NEW j \in 1 .. Len(ready'), IsRead(ready'[j]), ready'[j].of = ready'[i].of
            PROVE  i = j
        <4>1. /\ i + 1 \in 1 .. Len(ready) /\ ready'[i] = ready[i + 1]
              /\ j + 1 \in 1 .. Len(ready) /\ ready'[j] = ready[j + 1]
          BY <3>2, <3>3
        <4>2. i + 1 = j + 1
          BY <1>2, <2>1, <3>3, <4>1 DEF Reading
        <4> QED  BY <4>2
      <3>4. \A i \in 1 .. Len(ready') : ready'[i].what # "write_error"
        BY <2>1, <2>4 DEF Reading
      <3> QED  BY <3>1, <3>2, <3>3, <3>4 DEF Reading, IsRead
    <2>6. Old(s) /\ s # NoSession
      BY <1>3, <2>1 DEF Olds
    <2>7. Olds'
      <3>1. \A i \in 1 .. Len(ready') : ready'[i].what = "read" => Old(ready'[i].of)
        BY <2>1, <2>4 DEF Olds
      <3>2. \A i \in 1 .. Len(delivered') : Has(delivered'[i]) /\ Old(delivered'[i])
        <4>1. \A i \in 1 .. Len(delivered') : delivered'[i] = s \/ (i \in 1 .. Len(delivered) /\ delivered'[i] = delivered[i])
          BY <1>1, <1>2 DEF Types
        <4> QED  BY <1>4, <2>1, <2>6, <4>1 DEF Olds
      <3>3. \A i \in 1 .. Len(rx_fifo') : Has(rx_fifo'[i]) /\ Old(rx_fifo'[i])
        <4>1. \A i \in 1 .. Len(rx_fifo') : rx_fifo'[i] = s \/ (i \in 1 .. Len(rx_fifo) /\ rx_fifo'[i] = rx_fifo[i])
          BY <1>1, <1>2 DEF Types
        <4> QED  BY <1>4, <2>1, <2>6, <4>1 DEF Olds
      <3> QED  BY <1>2, <2>1, <3>1, <3>2, <3>3 DEF Olds, Old, Has
    <2>8. Chunks'
      <3>1. PICK n \in Nat : n = Len(delivered)
        BY <1>1 DEF Types
      <3>2. /\ Len(delivered') = n + 1 /\ delivered'[n + 1] = s
            /\ \A i \in 1 .. n : delivered'[i] = delivered[i]
        BY <1>1, <1>2, <3>1 DEF Types
      <3>3. \A i \in 1 .. n : delivered[i] <= s
        BY <1>3, <2>1, <3>1 DEF Chunks
      <3>4. \A j \in 1 .. Len(ready') : ready'[j].what = "read" =>
               j + 1 \in 2 .. Len(ready) /\ j + 1 \in 1 .. Len(ready) /\ ready'[j] = ready[j + 1]
        BY <2>4
      <3>5. \A j \in 1 .. Len(ready') : ready'[j].what = "read" => s <= ready'[j].of
        BY <1>3, <2>1, <3>4 DEF Chunks
      <3>6. \A i, j \in 1 .. Len(delivered') : i < j => delivered'[i] <= delivered'[j]
        BY <2>1, <3>1, <3>2, <3>3 DEF Chunks
      <3>7. \A i \in 1 .. Len(delivered'), j \in 1 .. Len(ready') :
               ready'[j].what = "read" => delivered'[i] <= ready'[j].of
        <4> SUFFICES ASSUME NEW i \in 1 .. Len(delivered'), NEW j \in 1 .. Len(ready'),
                            ready'[j].what = "read"
                     PROVE  delivered'[i] <= ready'[j].of
          OBVIOUS
        <4>1. CASE i = n + 1
          BY <3>2, <3>5, <4>1
        <4>2. CASE i # n + 1
          <5>1. i \in 1 .. n /\ delivered'[i] = delivered[i]
            BY <3>1, <3>2, <4>2
          <5>2. j + 1 \in 1 .. Len(ready) /\ ready'[j] = ready[j + 1]
            BY <3>4
          <5>3. delivered[i] <= ready[j + 1].of
            BY <2>1, <3>1, <5>1, <5>2 DEF Chunks
          <5> QED  BY <5>1, <5>2, <5>3
        <4> QED  BY <4>1, <4>2
      <3>8. \A i, j \in 1 .. Len(ready') : i < j /\ ready'[i].what = "read" /\ ready'[j].what = "read"
               => ready'[i].of <= ready'[j].of
        <4>1. \A i, j \in 1 .. Len(ready') : i < j => i + 1 < j + 1
          OBVIOUS
        <4> QED  BY <2>1, <3>4, <4>1 DEF Chunks
      <3> QED  BY <3>6, <3>7, <3>8 DEF Chunks
    <2>9. Answers'
      BY <1>2, <2>1 DEF Answers
    <2> QED  BY <2>5, <2>7, <2>8, <2>9
  <1>12. Flow'
    BY <1>2, <1>11 DEF Flow
  <1> QED  BY <1>6, <1>7, <1>8, <1>9, <1>10, <1>12 DEF IInv, Order

LEMMA ErrorHandled ==
  ASSUME IInv, NEW s \in Sessions, HandleError(s)
  PROVE  IInv'
  <1> USE Numbers
  <1>1. Types /\ Turns /\ Owners /\ OneAccept /\ Group
    BY DEF IInv, Order
  <1>2. /\ Idle /\ ready # <<>> /\ Head(ready).what \in {"read_error", "write_error"}
        /\ Head(ready).of = s /\ ready' = Tail(ready) /\ set_' = set_ \ {s}
        /\ \/ socket' = socket /\ (s \in armed \/ \E i \in 2 .. Len(ready) : ready[i].of = s)
           \/ socket' = [socket EXCEPT ![s] = "closed"]
        /\ UNCHANGED <<peer, armed, accepting, handler, rx_fifo, delivered, rx_thread, written,
                       failed>>
    BY Completions DEF HandleError, Completed, clients, io, users
  <1>3. /\ 1 \in 1 .. Len(ready) /\ ready[1].what \in {"read_error", "write_error"}
        /\ ready[1].of = s /\ ~IsAccept(ready[1]) /\ Moves(ready, ready', 1, {})
    BY <1>1, <1>2, Moved DEF Types, IsAccept
  <1>4. Has(s)
    BY <1>1, <1>3 DEF Owners, Owned, Has
  <1>5. /\ socket' \in [Sessions -> {"none", "open", "closed"}]
        /\ \A t \in Sessions : t # s => socket'[t] = socket[t]
        /\ socket'[s] = socket[s] \/ socket'[s] = "closed"
        /\ \A t \in Sessions : socket'[t] # "none" <=> socket[t] # "none"
    BY <1>1, <1>2, <1>4 DEF Types, Has
  <1>6. Types'
    BY <1>1, <1>2, <1>3, <1>5 DEF Types, Moves
  <1>7. Turns' /\ Owners'
    <2>1. set_' \cup armed' \subseteq Sessions /\ \A t \in set_' \cup armed' : Has(t)
      BY <1>1, <1>2 DEF Owners, Types
    <2> QED  BY <1>1, <1>2, <1>3, <1>5, <2>1, OwnersStep
  <1>8. OneAccept'
    BY <1>1, <1>2, <1>3, OneAcceptStep DEF Idle
  <1>9. Group'
    BY <1>1, <1>2, <1>5 DEF Group, Idle, Has, Types
  <1>10. Held'
    <2>1. \A i \in 2 .. Len(ready) : i - 1 \in 1 .. Len(ready') /\ ready'[i - 1] = ready[i]
      BY <1>3 DEF Moves
    <2>2. \A t \in Sessions : t # s => \A i \in 1 .. Len(ready) : ready[i].of = t =>
             \E j \in 1 .. Len(ready') : ready'[j].of = t
      <3> SUFFICES ASSUME NEW t \in Sessions, t # s, NEW i \in 1 .. Len(ready), ready[i].of = t
                   PROVE  \E j \in 1 .. Len(ready') : ready'[j].of = t
        OBVIOUS
      <3>1. i # 1
        BY <1>3
      <3>2. i \in 2 .. Len(ready)
        BY <3>1
      <3>3. i - 1 \in 1 .. Len(ready') /\ ready'[i - 1].of = t
        BY <2>1, <3>2
      <3> QED  BY <3>3
    <2>3. socket'[s] = "open" => s \in armed \/ \E j \in 1 .. Len(ready') : ready'[j].of = s
      <3>1. CASE socket' = [socket EXCEPT ![s] = "closed"]
        BY <1>1, <3>1 DEF Types
      <3>2. CASE s \in armed \/ \E i \in 2 .. Len(ready) : ready[i].of = s
        BY <2>1, <3>2
      <3> QED  BY <1>2, <3>1, <3>2
    <2>4. \A t \in Sessions : socket'[t] = "open" =>
             \/ t \in set_' \/ t \in armed' \/ \E j \in 1 .. Len(ready') : ready'[j].of = t
      <3> SUFFICES ASSUME NEW t \in Sessions, socket'[t] = "open", t # s
                   PROVE  \/ t \in set_' \/ t \in armed'
                          \/ \E j \in 1 .. Len(ready') : ready'[j].of = t
        BY <1>2, <2>3
      <3>1. socket[t] = "open"
        BY <1>5
      <3>2. t \in set_ \/ t \in armed \/ \E i \in 1 .. Len(ready) : ready[i].of = t
        BY <1>2, <3>1 DEF IInv, Held
      <3> QED  BY <1>2, <2>2, <3>2
    <2>5. handler'.at # "leaving"
      BY <1>2 DEF Idle
    <2> QED  BY <2>4, <2>5 DEF Held
  <1>11. ASSUME ~failed PROVE Reading' /\ Chunks' /\ Olds' /\ Answers'
    <2>1. Reading /\ Chunks /\ Olds /\ Answers
      BY <1>11 DEF IInv, Flow
    <2>2. IsRead(ready[1])
      BY <1>3, <2>1 DEF Reading, IsRead
    <2>3. /\ s \notin armed
          /\ socket[s] = "open" => \A i \in 2 .. Len(ready) : IsRead(ready[i]) => ready[i].of # s
      BY <1>3, <2>1, <2>2 DEF Reading
    <2>4. \A i \in 1 .. Len(ready') :
             i + 1 \in 2 .. Len(ready) /\ i + 1 \in 1 .. Len(ready) /\ ready'[i] = ready[i + 1]
      BY <1>3 DEF Moves
    <2>5. Reading'
      <3>1. \A t \in armed' : t \in set_' /\ socket'[t] = "open"
        BY <1>1, <1>2, <1>5, <2>1, <2>3 DEF Reading, Types
      <3>2. ASSUME NEW i \in 1 .. Len(ready'), IsRead(ready'[i]), socket'[ready'[i].of] = "open"
            PROVE  socket[ready'[i].of] = "open" /\ ready'[i].of # s
        <4>1. ready'[i].of \in Sessions
          BY <1>6, Elements DEF Types
        <4>2. socket[ready'[i].of] = "open"
          BY <1>5, <3>2, <4>1
        <4> QED  BY <2>3, <2>4, <3>2, <4>2
      <3>3. ASSUME NEW i \in 1 .. Len(ready'), IsRead(ready'[i]), socket'[ready'[i].of] = "open"
            PROVE  ready'[i].of \in set_' /\ ready'[i].of \notin armed'
        <4>1. /\ socket[ready[i + 1].of] = "open" /\ IsRead(ready[i + 1])
              /\ ready'[i].of # s /\ i + 1 \in 1 .. Len(ready) /\ ready'[i] = ready[i + 1]
          BY <2>4, <3>2, <3>3
        <4>2. ready[i + 1].of \in set_ /\ ready[i + 1].of \notin armed
          BY <2>1, <4>1 DEF Reading
        <4> QED  BY <1>2, <4>1, <4>2
      <3>4. ASSUME NEW i \in 1 .. Len(ready'), IsRead(ready'[i]), socket'[ready'[i].of] = "open",
                   NEW j \in 1 .. Len(ready'), IsRead(ready'[j]), ready'[j].of = ready'[i].of
            PROVE  i = j
        <4>1. /\ socket[ready[i + 1].of] = "open" /\ IsRead(ready[i + 1])
              /\ i + 1 \in 1 .. Len(ready) /\ ready'[i] = ready[i + 1]
          BY <2>4, <3>2, <3>4
        <4>2. IsRead(ready[j + 1]) /\ j + 1 \in 1 .. Len(ready) /\ ready'[j] = ready[j + 1]
          BY <2>4, <3>4
        <4>3. i + 1 = j + 1
          BY <2>1, <3>4, <4>1, <4>2 DEF Reading
        <4> QED  BY <4>3
      <3>5. \A i \in 1 .. Len(ready') : ready'[i].what # "write_error"
        BY <2>1, <2>4 DEF Reading
      <3> QED  BY <3>1, <3>3, <3>4, <3>5 DEF Reading, IsRead
    <2>6. Chunks'
      BY <1>2, <1>3, <2>1, ChunksStep
    <2>7. Olds'
      BY <1>1, <1>2, <1>3, <1>5, <2>1, OldsStep
    <2>8. Answers'
      BY <1>2, <2>1 DEF Answers
    <2> QED  BY <2>5, <2>6, <2>7, <2>8
  <1>12. Flow'
    BY <1>2, <1>11 DEF Flow
  <1> QED  BY <1>6, <1>7, <1>8, <1>9, <1>10, <1>12 DEF IInv, Order

LEMMA AcceptHandled ==
  ASSUME IInv, NEW s \in Sessions, HandleAccept(s)
  PROVE  IInv'
  <1> USE Numbers
  <1>1. Types /\ Turns /\ Owners /\ OneAccept /\ Group
    BY DEF IInv, Order
  <1>2. /\ Idle /\ ready # <<>> /\ Head(ready).of = s /\ ready' = Tail(ready)
        /\ \/ /\ Head(ready).what = "accept"
              /\ handler' = [at |-> "closing", new |-> s, old |-> NoSession]
              /\ socket' = [socket EXCEPT ![s] = "open"] /\ accepting' = accepting
           \/ /\ Head(ready).what = "accept_error"
              /\ accepting' = TRUE /\ UNCHANGED <<handler, socket>>
        /\ UNCHANGED <<peer, armed, set_, rx_fifo, delivered, rx_thread, written, failed>>
    BY Completions DEF HandleAccept, Completed, clients, users
  <1>3. /\ 1 \in 1 .. Len(ready) /\ ready[1] = Head(ready)
        /\ ready[1].of = s /\ IsAccept(ready[1]) /\ Moves(ready, ready', 1, {})
    BY <1>1, <1>2, Moved DEF Types, IsAccept
  <1>4. \A i \in 1 .. Len(ready') : /\ i + 1 \in 1 .. Len(ready) /\ i + 1 # 1
                                    /\ ready'[i] = ready[i + 1] /\ ~IsAccept(ready[i + 1])
    <2>1. \A i \in 1 .. Len(ready') : i + 1 \in 1 .. Len(ready) /\ i + 1 # 1 /\ ready'[i] = ready[i + 1]
      BY <1>3 DEF Moves
    <2> QED  BY <1>1, <1>3, <2>1 DEF OneAccept
  <1>5. ~Has(s) /\ ~accepting
    <2>1. Owned(ready[1], peer, socket) /\ ~accepting
      BY <1>1, <1>3 DEF Owners, OneAccept
    <2>2. CASE ready[1].what = "accept"
      <3>1. \A t \in Sessions : socket[t] # "none" => t < s
        BY <1>3, <2>1, <2>2 DEF Owned
      <3> QED  BY <2>1, <3>1 DEF Has
    <2>3. CASE ready[1].what = "accept_error"
      BY <1>3, <2>1, <2>3 DEF Owned, Has
    <2> QED  BY <1>3, <2>2, <2>3 DEF IsAccept
  <1>6. \A i \in 1 .. Len(ready') : ready'[i].of # s /\ Has(ready'[i].of) /\ ready'[i].of \in Sessions
    <2>1. ready' \in Seq(Queued)
      BY <1>3 DEF Moves
    <2> QED  BY <1>1, <1>4, <1>5, <2>1, Elements DEF Owners, Owned, Has
  <1>7. /\ socket' \in [Sessions -> {"none", "open", "closed"}]
        /\ \A t \in Sessions : t # s => socket'[t] = socket[t]
    BY <1>1, <1>2 DEF Types
  <1>8. Types'
    <2>1. handler' \in [at : {"idle", "closing", "leaving"},
                        new : Sessions \cup {NoSession}, old : Sessions \cup {NoSession}]
      BY <1>1, <1>2 DEF Types
    <2> QED  BY <1>1, <1>2, <1>3, <1>7, <2>1 DEF Types, Moves
  <1>9. ready[1].what = "accept" => Taken(s) /\ \A t \in Sessions : Has(t) => t < s
    BY <1>1, <1>3 DEF Owners, Owned, Taken, Has
  <1>10. Turns' /\ Owners'
    <2>1. Turns'
      BY <1>1, <1>2 DEF Turns, Taken
    <2>2. \A t \in Sessions : Has(t)' => Taken(t)'
      BY <1>1, <1>2, <1>3, <1>7, <1>9 DEF Owners, Has, Taken
    <2>3. \A t \in set_' \cup armed' : Has(t)'
      BY <1>1, <1>2, <1>5, <1>7 DEF Owners, Has, Types
    <2>4. \A i \in 1 .. Len(ready') : Owned(ready'[i], peer', socket')
      BY <1>2, <1>4, <1>6, <1>7 DEF Owned, Has, IsAccept
    <2> QED  BY <2>1, <2>2, <2>3, <2>4 DEF Owners
  <1>11. OneAccept'
    <2>1. \A i \in 1 .. Len(ready') : ~IsAccept(ready'[i])
      BY <1>4
    <2>2. accepting' => Idle'
      BY <1>2, <1>5 DEF Idle
    <2> QED  BY <2>1, <2>2 DEF OneAccept, IsAccept
  <1>12. Group'
    <2>1. CASE ready[1].what = "accept"
      <3>1. ~Idle' /\ handler'.new = s /\ socket'[s] = "open"
        BY <1>1, <1>2, <1>3, <2>1 DEF Idle, Types
      <3> QED  BY <1>1, <1>2, <1>7, <1>9, <2>1, <3>1 DEF Group, Has
    <2>2. CASE ready[1].what # "accept"
      BY <1>1, <1>2, <1>3, <2>2 DEF Group, Has, Idle
    <2> QED  BY <2>1, <2>2
  <1>13. Held'
    <2>1. \A i \in 1 .. Len(ready) : i = 1 \/ (i - 1 \in 1 .. Len(ready') /\ ready'[i - 1] = ready[i])
      BY <1>3 DEF Moves
    <2>2. \A t \in Sessions : t # s => \A i \in 1 .. Len(ready) : ready[i].of = t =>
             \E j \in 1 .. Len(ready') : ready'[j].of = t
      BY <1>3, <2>1
    <2>3. \A t \in Sessions : t # s /\ socket'[t] = "open" =>
             \/ t \in set_' \/ t \in armed' \/ \E i \in 1 .. Len(ready') : ready'[i].of = t
      BY <1>2, <1>7, <2>2 DEF IInv, Held
    <2>4. socket'[s] = "open" => ~Idle' /\ s = handler'.new
      BY <1>2, <1>5 DEF Idle, Has
    <2>5. handler'.at # "leaving"
      BY <1>2 DEF Idle
    <2> QED  BY <2>3, <2>4, <2>5 DEF Held, Idle
  <1>14. ASSUME ~failed PROVE Reading' /\ Chunks' /\ Olds' /\ Answers'
    <2>1. Reading /\ Chunks /\ Olds /\ Answers
      BY <1>14 DEF IInv, Flow
    <2>2. Reading'
      <3>1. \A t \in armed' : t \in set_' /\ socket'[t] = "open"
        BY <1>1, <1>2, <1>5, <1>7, <2>1 DEF Reading, Has, Types
      <3>2. \A i \in 1 .. Len(ready') : socket'[ready'[i].of] = socket[ready[i + 1].of]
        BY <1>4, <1>6, <1>7
      <3>3. \A i, j \in 1 .. Len(ready') : i + 1 = j + 1 => i = j
        OBVIOUS
      <3> QED  BY <1>2, <1>4, <2>1, <3>1, <3>2, <3>3 DEF Reading, IsRead
    <2>3. Chunks'
      BY <1>2, <1>3, <2>1, ChunksStep
    <2>4. Olds'
      <3>1. \A t \in Sessions : socket[t] # "none" => socket'[t] # "none"
        BY <1>5, <1>7 DEF Has
      <3> QED  BY <1>1, <1>2, <1>3, <2>1, <3>1, OldsStep
    <2>5. Answers'
      BY <1>2, <2>1 DEF Answers
    <2> QED  BY <2>2, <2>3, <2>4, <2>5
  <1>15. Flow'
    BY <1>2, <1>14 DEF Flow
  <1> QED  BY <1>8, <1>10, <1>11, <1>12, <1>13, <1>15 DEF IInv, Order

LEMMA SessionClosed ==
  ASSUME IInv, NEW s \in Sessions, CloseSession(s)
  PROVE  IInv'
  <1> USE Numbers
  <1>1. Types /\ Turns /\ Owners /\ OneAccept /\ Group
    BY DEF IInv, Order
  <1>2. /\ handler.at = "closing" /\ s \in set_ /\ socket' = [socket EXCEPT ![s] = "closed"]
        /\ handler' = [handler EXCEPT !.at = "leaving", !.old = s] /\ armed' = armed \ {s}
        /\ ready' = IF s \in armed THEN Append(ready, Completion("read_error", s)) ELSE ready
        /\ UNCHANGED <<peer, accepting, set_, rx_fifo, delivered, rx_thread, written, failed>>
    BY DEF CloseSession, clients, users
  <1>3. PICK C : /\ Moves(ready, ready', 0, C)
                 /\ s \in armed => \E i \in 1 .. Len(ready') : ready'[i].of = s
                 /\ \A c \in C : /\ c \in Queued /\ c.what = "read_error" /\ c.of = s
                                 /\ ~IsAccept(c)
    <2>1. CASE s \notin armed
      <3>1. Moves(ready, ready', 0, {})
        BY <1>1, <1>2, <2>1, Moved DEF Types
      <3> QED  BY <2>1, <3>1
    <2>2. CASE s \in armed
      <3>1. PICK c \in Queued : /\ c = Completion("read_error", s) /\ c.what = "read_error"
                                /\ c.of = s /\ ~IsAccept(c)
        BY Completions DEF IsAccept
      <3>2. Moves(ready, ready', 0, {c})
        BY <1>1, <1>2, <2>2, <3>1, Moved DEF Types
      <3>3. Len(ready) \in Nat /\ Len(ready') = Len(ready) + 1 /\ ready'[Len(ready) + 1] = c
        BY <1>1, <1>2, <2>2, <3>1 DEF Types
      <3>4. \E i \in 1 .. Len(ready') : ready'[i].of = s
        BY <3>1, <3>3
      <3> QED  BY <3>1, <3>2, <3>4
    <2> QED  BY <2>1, <2>2
  <1>4. /\ socket' \in [Sessions -> {"none", "open", "closed"}] /\ socket'[s] = "closed"
        /\ \A t \in Sessions : t # s => socket'[t] = socket[t]
        /\ \A t \in Sessions : socket'[t] # "none" <=> socket[t] # "none"
        /\ handler' \in [at : {"idle", "closing", "leaving"},
                         new : Sessions \cup {NoSession}, old : Sessions \cup {NoSession}]
        /\ handler'.at = "leaving" /\ handler'.old = s /\ handler'.new = handler.new
    <2>1. Has(s)
      BY <1>1, <1>2 DEF Owners
    <2>2. /\ socket' \in [Sessions -> {"none", "open", "closed"}] /\ socket'[s] = "closed"
          /\ \A t \in Sessions : t # s => socket'[t] = socket[t]
          /\ \A t \in Sessions : socket'[t] # "none" <=> socket[t] # "none"
      BY <1>1, <1>2, <2>1 DEF Types, Has
    <2>3. /\ handler' \in [at : {"idle", "closing", "leaving"},
                         new : Sessions \cup {NoSession}, old : Sessions \cup {NoSession}]
          /\ handler'.at = "leaving" /\ handler'.old = s /\ handler'.new = handler.new
      BY <1>1, <1>2 DEF Types
    <2> QED  BY <2>2, <2>3
  <1>5. ~Idle /\ ~Idle'
    BY <1>2, <1>4 DEF Idle
  <1>6. Types'
    BY <1>1, <1>2, <1>3, <1>4 DEF Types, Moves
  <1>7. Turns' /\ Owners'
    <2>1. /\ \A c \in C : c.of \in Sessions /\ ~IsAccept(c) /\ Has(c.of)
          /\ set_' \cup armed' \subseteq Sessions /\ \A t \in set_' \cup armed' : Has(t)
      BY <1>1, <1>2, <1>3 DEF Owners, Types
    <2> QED  BY <1>1, <1>2, <1>3, <1>4, <2>1, OwnersStep
  <1>8. OneAccept'
    BY <1>1, <1>2, <1>3, <1>5, OneAcceptStep
  <1>9. Group'
    BY <1>1, <1>2, <1>4, <1>5 DEF Group, Has
  <1>10. Held'
    <2>1. \A i \in 1 .. Len(ready) : i \in 1 .. Len(ready') /\ ready'[i] = ready[i]
      BY <1>3 DEF Moves
    <2>2. \A t \in Sessions : socket'[t] = "open" =>
             \/ t \in set_' \/ t \in armed' \/ \E j \in 1 .. Len(ready') : ready'[j].of = t
             \/ t = handler'.new
      <3> SUFFICES ASSUME NEW t \in Sessions, socket'[t] = "open"
                   PROVE  \/ t \in set_' \/ t \in armed'
                          \/ \E j \in 1 .. Len(ready') : ready'[j].of = t
                          \/ t = handler'.new
        OBVIOUS
      <3>1. socket[t] = "open" /\ t # s
        BY <1>4
      <3>2. \/ t \in set_ \/ t \in armed \/ \E i \in 1 .. Len(ready) : ready[i].of = t
            \/ t = handler.new
        BY <3>1 DEF IInv, Held
      <3> QED  BY <1>2, <1>4, <2>1, <3>1, <3>2
    <2> QED  BY <1>4, <1>5, <2>2 DEF Held
  <1>11. ASSUME ~failed PROVE Reading' /\ Chunks' /\ Olds' /\ Answers'
    <2>1. Reading /\ Chunks /\ Olds /\ Answers
      BY <1>11 DEF IInv, Flow
    <2>2. \A i \in 1 .. Len(ready') :
             \/ i \in 1 .. Len(ready) /\ ready'[i] = ready[i]
             \/ ready'[i].of = s /\ ready'[i].what = "read_error"
      BY <1>3 DEF Moves
    <2>3. Reading'
      <3>1. \A t \in armed' : t \in set_' /\ socket'[t] = "open"
        BY <1>1, <1>2, <1>4, <2>1 DEF Reading, Types
      <3>2. ASSUME NEW i \in 1 .. Len(ready'), IsRead(ready'[i]), socket'[ready'[i].of] = "open"
            PROVE  /\ i \in 1 .. Len(ready) /\ ready'[i] = ready[i] /\ ready[i].of # s
                   /\ socket[ready[i].of] = "open"
        <4>1. ready'[i].of \in Sessions
          BY <1>6, Elements DEF Types
        <4> QED  BY <1>4, <2>2, <3>2, <4>1
      <3>3. ASSUME NEW i \in 1 .. Len(ready'), IsRead(ready'[i]), socket'[ready'[i].of] = "open"
            PROVE  ready'[i].of \in set_' /\ ready'[i].of \notin armed'
        <4>1. /\ i \in 1 .. Len(ready) /\ ready'[i] = ready[i]
              /\ socket[ready[i].of] = "open" /\ IsRead(ready[i])
          BY <3>2, <3>3
        <4>2. ready[i].of \in set_ /\ ready[i].of \notin armed
          BY <2>1, <4>1 DEF Reading
        <4> QED  BY <1>2, <4>1, <4>2
      <3>4. ASSUME NEW i \in 1 .. Len(ready'), IsRead(ready'[i]), socket'[ready'[i].of] = "open",
                   NEW j \in 1 .. Len(ready'), IsRead(ready'[j]), ready'[j].of = ready'[i].of
            PROVE  i = j
        <4>1. /\ i \in 1 .. Len(ready) /\ ready'[i] = ready[i] /\ ready[i].of # s
              /\ socket[ready[i].of] = "open" /\ IsRead(ready[i])
          BY <3>2, <3>4
        <4>2. j \in 1 .. Len(ready) /\ ready'[j] = ready[j]
          BY <2>2, <3>4, <4>1
        <4> QED  BY <2>1, <3>4, <4>1, <4>2 DEF Reading
      <3>5. \A i \in 1 .. Len(ready') : ready'[i].what # "write_error"
        BY <2>1, <2>2 DEF Reading
      <3> QED  BY <3>1, <3>3, <3>4, <3>5 DEF Reading, IsRead
    <2>4. Chunks'
      BY <1>2, <1>3, <2>1, ChunksStep
    <2>5. Olds'
      BY <1>1, <1>2, <1>3, <1>4, <2>1, OldsStep
    <2>6. Answers'
      BY <1>2, <2>1 DEF Answers
    <2> QED  BY <2>3, <2>4, <2>5, <2>6
  <1>12. Flow'
    BY <1>2, <1>11 DEF Flow
  <1> QED  BY <1>6, <1>7, <1>8, <1>9, <1>10, <1>12 DEF IInv, Order

LEMMA SessionLeaves ==
  ASSUME IInv, LeaveSession
  PROVE  IInv'
  <1> USE Numbers
  <1>1. Types /\ Turns /\ Owners /\ OneAccept /\ Group
    BY DEF IInv, Order
  <1>2. /\ handler.at = "leaving" /\ set_' = set_ \ {handler.old}
        /\ handler' = [handler EXCEPT !.at = "closing", !.old = NoSession]
        /\ UNCHANGED <<peer, socket, armed, ready, accepting, rx_fifo, delivered, rx_thread,
                       written, failed>>
    BY DEF LeaveSession, clients, users
  <1>3. /\ handler' \in [at : {"idle", "closing", "leaving"},
                         new : Sessions \cup {NoSession}, old : Sessions \cup {NoSession}]
        /\ handler'.at = "closing" /\ handler'.new = handler.new
    BY <1>1, <1>2 DEF Types
  <1>4. ~Idle /\ ~Idle' /\ socket[handler.old] = "closed"
    BY <1>2, <1>3 DEF Idle, IInv, Held
  <1>5. Moves(ready, ready', 0, {})
    BY <1>1, <1>2, Moved DEF Types
  <1>6. Types'
    BY <1>1, <1>2, <1>3 DEF Types
  <1>7. Turns' /\ Owners'
    <2>1. set_' \cup armed' \subseteq Sessions /\ \A t \in set_' \cup armed' : Has(t)
      BY <1>1, <1>2 DEF Owners, Types
    <2> QED  BY <1>1, <1>2, <1>5, <2>1, OwnersStep
  <1>8. OneAccept'
    BY <1>1, <1>2, <1>4 DEF OneAccept
  <1>9. Group'
    BY <1>1, <1>2, <1>3, <1>4 DEF Group, Has
  <1>10. Held'
    BY <1>2, <1>3, <1>4 DEF IInv, Held
  <1>11. ASSUME ~failed PROVE Reading' /\ Chunks' /\ Olds' /\ Answers'
    <2>1. Reading /\ Chunks /\ Olds /\ Answers
      BY <1>11 DEF IInv, Flow
    <2>2. Reading'
      <3>1. \A t \in armed' : t \in set_' /\ socket'[t] = "open"
        BY <1>2, <1>4, <2>1 DEF Reading
      <3> QED  BY <1>2, <1>4, <2>1, <3>1 DEF Reading
    <2>3. Chunks' /\ Answers'
      BY <1>2, <2>1 DEF Chunks, Answers
    <2>4. Olds'
      BY <1>1, <1>2, <1>5, <2>1, OldsStep
    <2> QED  BY <2>2, <2>3, <2>4
  <1>12. Flow'
    BY <1>2, <1>11 DEF Flow
  <1> QED  BY <1>6, <1>7, <1>8, <1>9, <1>10, <1>12 DEF IInv, Order

LEMMA SessionStarts ==
  ASSUME IInv, StartSession
  PROVE  IInv'
  <1> USE Numbers
  <1>1. Types /\ Turns /\ Owners /\ OneAccept /\ Group
    BY DEF IInv, Order
  <1>2. /\ handler.at = "closing" /\ set_ = {} /\ set_' = {handler.new}
        /\ DoRead(handler.new, ready)
        /\ handler' = [at |-> "idle", new |-> NoSession, old |-> NoSession] /\ accepting' = TRUE
        /\ UNCHANGED <<peer, socket, rx_fifo, delivered, rx_thread, written, failed>>
    BY DEF StartSession, clients, users
  <1>3. ~Idle /\ Idle'
    BY <1>2 DEF Idle
  <1>4. PICK s \in Sessions : s = handler.new
    BY <1>1, <1>3 DEF Group
  <1>5. Has(s) /\ \A t \in Sessions : Has(t) => t <= s
    BY <1>1, <1>3, <1>4 DEF Group
  <1>6. PICK C : /\ Moves(ready, ready', 0, C)
                 /\ \/ socket[s] = "open" /\ armed' = armed \cup {s} /\ C = {}
                    \/ socket[s] # "open" /\ armed' = armed
                 /\ \A c \in C : /\ c \in Queued /\ c.what = "read_error" /\ c.of = s
                                 /\ ~IsAccept(c) /\ IsRead(c)
    <2>1. ready \in Seq(Queued)
      BY <1>1 DEF Types
    <2>2. CASE socket[s] = "open" /\ armed' = armed \cup {s} /\ ready' = ready
      <3>1. Moves(ready, ready', 0, {})
        BY <2>1, <2>2, Moved
      <3> QED  BY <2>2, <3>1
    <2>3. ASSUME socket[s] # "open", armed' = armed, NEW c \in Queued, c.what = "read_error",
                 c.of = s, ~IsAccept(c), IsRead(c), ready' = Append(ready, c)
          PROVE  \E C : /\ Moves(ready, ready', 0, C)
                        /\ \/ socket[s] = "open" /\ armed' = armed \cup {s} /\ C = {}
                           \/ socket[s] # "open" /\ armed' = armed
                        /\ \A e \in C : /\ e \in Queued /\ e.what = "read_error" /\ e.of = s
                                        /\ ~IsAccept(e) /\ IsRead(e)
      <3>1. Moves(ready, ready', 0, {c})
        BY <2>1, <2>3, Moved
      <3> QED  BY <2>3, <3>1
    <2>4. \/ socket[s] = "open" /\ armed' = armed \cup {s} /\ ready' = ready
          \/ /\ socket[s] # "open" /\ armed' = armed
             /\ \E c \in Queued : /\ c.what = "read_error" /\ c.of = s /\ ~IsAccept(c) /\ IsRead(c)
                                  /\ ready' = Append(ready, c)
      BY <1>2, <1>4, <2>1, ReadStarts
    <2> QED  BY <2>2, <2>3, <2>4
  <1>7. Types'
    <2>1. handler' \in [at : {"idle", "closing", "leaving"},
                        new : Sessions \cup {NoSession}, old : Sessions \cup {NoSession}]
      BY <1>2
    <2> QED  BY <1>1, <1>2, <1>4, <1>6, <2>1 DEF Types, Moves
  <1>8. Turns' /\ Owners'
    <2>1. /\ \A c \in C : c.of \in Sessions /\ ~IsAccept(c) /\ Has(c.of)
          /\ set_' \cup armed' \subseteq Sessions /\ \A t \in set_' \cup armed' : Has(t)
      BY <1>1, <1>2, <1>4, <1>5, <1>6 DEF Owners, Types
    <2> QED  BY <1>1, <1>2, <1>6, <2>1, OwnersStep
  <1>9. OneAccept'
    <2>1. \A i \in 1 .. Len(ready) : ~IsAccept(ready[i])
      BY <1>1, <1>3 DEF OneAccept
    <2>2. \A i \in 1 .. Len(ready') : ~IsAccept(ready'[i])
      BY <1>6, <2>1 DEF Moves
    <2> QED  BY <1>3, <2>2 DEF OneAccept, IsAccept
  <1>10. Group'
    BY <1>2, <1>3, <1>4, <1>5 DEF Group, Has
  <1>11. Held'
    <2>1. \A i \in 1 .. Len(ready) : i \in 1 .. Len(ready') /\ ready'[i] = ready[i]
      BY <1>6 DEF Moves
    <2>2. armed \subseteq armed'
      BY <1>6
    <2> QED  BY <1>2, <2>1, <2>2 DEF IInv, Held
  <1>12. ASSUME ~failed PROVE Reading' /\ Chunks' /\ Olds' /\ Answers'
    <2>1. Reading /\ Chunks /\ Olds /\ Answers
      BY <1>12 DEF IInv, Flow
    <2>2. \A i \in 1 .. Len(ready') :
             \/ i \in 1 .. Len(ready) /\ ready'[i] = ready[i]
             \/ ready'[i].of = s /\ ready'[i].what = "read_error" /\ socket[s] # "open"
      BY <1>6 DEF Moves
    <2>3. Reading'
      <3>1. armed = {}
        BY <1>2, <2>1 DEF Reading
      <3>2. \A t \in armed' : t \in set_' /\ socket'[t] = "open"
        BY <1>2, <1>4, <1>6, <3>1
      <3>3. \A i \in 1 .. Len(ready') : ~(IsRead(ready'[i]) /\ socket'[ready'[i].of] = "open")
        BY <1>2, <2>1, <2>2 DEF Reading
      <3>4. \A i \in 1 .. Len(ready') : ready'[i].what # "write_error"
        BY <2>1, <2>2 DEF Reading
      <3> QED  BY <3>2, <3>3, <3>4 DEF Reading, IsRead
    <2>4. Chunks'
      BY <1>2, <1>6, <2>1, ChunksStep
    <2>5. Olds'
      <3>1. \A x \in Sessions : Has(x) => Has(x)' /\ \A t \in set_' : x <= t
        BY <1>2, <1>4, <1>5 DEF Has
      <3>2. /\ \A i \in 1 .. Len(delivered) : delivered[i] \in Sessions
            /\ \A i \in 1 .. Len(rx_fifo) : rx_fifo[i] \in Sessions
            /\ rx_thread # NoSession => rx_thread \in Sessions
        BY <1>1 DEF Types
      <3>3. \A i \in 1 .. Len(ready') : ready'[i].what = "read" =>
               \A t \in set_' : ready'[i].of <= t
        <4> SUFFICES ASSUME NEW i \in 1 .. Len(ready'), ready'[i].what = "read"
                     PROVE  \A t \in set_' : ready'[i].of <= t
          OBVIOUS
        <4>1. i \in 1 .. Len(ready) /\ ready'[i] = ready[i] /\ ~IsAccept(ready[i])
          BY <2>2 DEF IsAccept
        <4>2. ready[i].of \in Sessions
          BY <1>1, <4>1, Elements DEF Types
        <4>3. Has(ready[i].of)
          BY <1>1, <4>1 DEF Owners, Owned, Has
        <4> QED  BY <3>1, <4>1, <4>2, <4>3
      <3> QED  BY <1>2, <2>1, <3>1, <3>2, <3>3 DEF Olds, Old, Has
    <2>6. Answers'
      BY <1>2, <2>1 DEF Answers
    <2> QED  BY <2>3, <2>4, <2>5, <2>6
  <1>13. Flow'
    BY <1>2, <1>12 DEF Flow
  <1> QED  BY <1>7, <1>8, <1>9, <1>10, <1>11, <1>13 DEF IInv, Order

-----------------------------------------------------------------------------
\* The threads that use the server.
LEMMA WriteDone ==
  ASSUME IInv, NEW r \in Sessions \cup {NoSession}, DoWrite(r),
         ~failed /\ r # NoSession => Old(r),
         UNCHANGED <<peer, socket, armed, accepting, handler, set_, rx_fifo, delivered>>,
         rx_thread' \in {NoSession, rx_thread}
  PROVE  IInv'
  <1> USE Numbers
  <1>1. Types /\ Turns /\ Owners /\ OneAccept /\ Group
    BY DEF IInv, Order
  <1>2. PICK C : /\ Moves(ready, ready', 0, C) /\ (C # {} => failed') /\ (~failed' => ~failed)
                 /\ \A c \in C : c \in Queued /\ c.what = "write_error" /\ c.of \in set_
    <2>0. ready \in Seq(Queued) /\ set_ \subseteq Sessions
      BY <1>1 DEF Types
    <2>1. CASE ready' = ready /\ failed' = failed
      BY <2>0, <2>1, Moved
    <2>2. ASSUME NEW s \in set_, ready' = Append(ready, Completion("write_error", s)), failed' = TRUE
          PROVE  \E C : /\ Moves(ready, ready', 0, C) /\ (C # {} => failed') /\ (~failed' => ~failed)
                        /\ \A c \in C : c \in Queued /\ c.what = "write_error" /\ c.of \in set_
      <3>1. PICK c \in Queued : c = Completion("write_error", s) /\ c.what = "write_error" /\ c.of = s
        BY <2>0, <2>2, Completions
      <3>2. Moves(ready, ready', 0, {c})
        BY <2>0, <2>2, <3>1, Moved
      <3> QED  BY <2>2, <3>1, <3>2
    <2> QED  BY <2>1, <2>2 DEF DoWrite
  <1>3. \/ written' = written
        \/ \E s \in set_ : written' = Append(written, <<s, r>>)
    BY DEF DoWrite
  <1>4. Types'
    <2>1. written' \in Seq(Sessions \X (Sessions \cup {NoSession}))
      <3>1. ASSUME NEW s \in set_ PROVE <<s, r>> \in Sessions \X (Sessions \cup {NoSession})
        BY <1>1 DEF Types
      <3>2. written \in Seq(Sessions \X (Sessions \cup {NoSession}))
        BY <1>1 DEF Types
      <3>3. \A p \in Sessions \X (Sessions \cup {NoSession}) :
               Append(written, p) \in Seq(Sessions \X (Sessions \cup {NoSession}))
        BY <3>2
      <3> QED  BY <1>3, <3>1, <3>2, <3>3
    <2> QED  BY <1>1, <1>2, <2>1 DEF Types, Moves
  <1>5. Turns' /\ Owners'
    <2>1. /\ \A c \in C : c.of \in Sessions /\ ~IsAccept(c) /\ Has(c.of)
          /\ set_' \cup armed' \subseteq Sessions /\ \A t \in set_' \cup armed' : Has(t)
      BY <1>1, <1>2 DEF Owners, Types, IsAccept
    <2> QED  BY <1>1, <1>2, <2>1, OwnersStep
  <1>6. OneAccept'
    <2>1. \A c \in C : ~IsAccept(c)
      BY <1>2 DEF IsAccept
    <2> QED  BY <1>1, <1>2, <2>1, OneAcceptStep DEF Idle
  <1>7. Group'
    BY <1>1 DEF Group, Idle, Has
  <1>8. Held'
    <2>1. \A i \in 1 .. Len(ready) : i \in 1 .. Len(ready') /\ ready'[i] = ready[i]
      BY <1>2 DEF Moves
    <2> QED  BY <2>1 DEF IInv, Held, Idle
  <1>9. ASSUME ~failed' PROVE Reading' /\ Chunks' /\ Olds' /\ Answers'
    <2>1. Reading /\ Chunks /\ Olds /\ Answers
      BY <1>2, <1>9 DEF IInv, Flow
    <2>2. /\ \A i \in 1 .. Len(ready') : i \in 1 .. Len(ready) /\ ready'[i] = ready[i]
          /\ \A c \in C : c.what # "read"
      BY <1>2, <1>9 DEF Moves
    <2>3. Reading'
      BY <2>1, <2>2 DEF Reading
    <2>4. Chunks'
      BY <1>2, <2>1, <2>2, ChunksStep
    <2>5. Olds'
      BY <2>1, <2>2 DEF Olds, Old, Has
    <2>6. Answers'
      <3>1. CASE written' = written
        BY <2>1, <3>1 DEF Answers
      <3>2. ASSUME NEW s \in set_, written' = Append(written, <<s, r>>) PROVE Answers'
        <4>1. s >= r
          BY <1>1, <1>2, <1>9 DEF Old, Types
        <4>2. PICK n \in Nat : n = Len(written)
          BY <1>1 DEF Types
        <4>3. /\ Len(written') = n + 1 /\ written'[n + 1] = <<s, r>>
              /\ \A i \in 1 .. n : written'[i] = written[i]
          BY <1>1, <3>2, <4>2 DEF Types
        <4> QED  BY <2>1, <4>1, <4>2, <4>3 DEF Answers
      <3> QED  BY <1>3, <3>1, <3>2
    <2> QED  BY <2>3, <2>4, <2>5, <2>6
  <1>10. Flow'
    BY <1>9 DEF Flow
  <1> QED  BY <1>4, <1>5, <1>6, <1>7, <1>8, <1>10 DEF IInv, Order

LEMMA Users ==
  ASSUME IInv, RxTake \/ RxAck \/ SendMsg \/ TxTake \/ TxWrite \/ UNCHANGED vars
  PROVE  IInv'
  <1> USE Numbers
  <1>1. Types /\ Turns /\ Owners /\ OneAccept /\ Group
    BY DEF IInv, Order
  <1>2. CASE RxAck
    <2>1. /\ rx_thread # NoSession /\ rx_thread' = NoSession /\ DoWrite(rx_thread)
          /\ UNCHANGED <<peer, socket, armed, accepting, handler, set_, rx_fifo, delivered>>
      BY <1>2 DEF RxAck, clients, io
    <2>2. ~failed => Old(rx_thread)
      BY <2>1 DEF IInv, Flow, Olds
    <2>3. rx_thread \in Sessions \cup {NoSession}
      BY <1>1 DEF Types
    <2> QED  BY <2>1, <2>2, <2>3, WriteDone
  <1>3. CASE TxWrite
    <2>1. /\ DoWrite(NoSession) /\ rx_thread' = rx_thread
          /\ UNCHANGED <<peer, socket, armed, accepting, handler, set_, rx_fifo, delivered>>
      BY <1>3 DEF TxWrite, clients, io
    <2> QED  BY <2>1, WriteDone
  <1>4. ASSUME UNCHANGED <<peer, socket, armed, accepting, handler, ready, set_, delivered, written,
                           failed>>,
               \/ UNCHANGED <<rx_fifo, rx_thread>>
               \/ rx_fifo # <<>> /\ rx_thread' = Head(rx_fifo) /\ rx_fifo' = Tail(rx_fifo)
        PROVE  IInv'
    <2>1. /\ rx_fifo' \in Seq(Sessions) /\ rx_thread' \in Sessions \cup {NoSession}
          /\ Len(rx_fifo) \in Nat /\ Len(rx_fifo') \in Nat
          /\ \/ UNCHANGED <<rx_fifo, rx_thread>>
             \/ /\ 1 \in 1 .. Len(rx_fifo) /\ rx_thread' = rx_fifo[1]
                /\ \A i \in 1 .. Len(rx_fifo') : i + 1 \in 1 .. Len(rx_fifo) /\ rx_fifo'[i] = rx_fifo[i + 1]
      <3>1. rx_fifo \in Seq(Sessions) /\ rx_thread \in Sessions \cup {NoSession}
        BY <1>1 DEF Types
      <3>2. CASE UNCHANGED <<rx_fifo, rx_thread>>
        BY <3>1, <3>2
      <3>3. CASE rx_fifo # <<>> /\ rx_thread' = Head(rx_fifo) /\ rx_fifo' = Tail(rx_fifo)
        <4>1. /\ rx_fifo' \in Seq(Sessions) /\ Len(rx_fifo) \in Nat /\ Len(rx_fifo') \in Nat
              /\ Len(rx_fifo') = Len(rx_fifo) - 1 /\ 1 \in 1 .. Len(rx_fifo)
          BY <3>1, <3>3
        <4>2. rx_thread' = rx_fifo[1] /\ rx_fifo[1] \in Sessions
          BY <3>1, <3>3, <4>1
        <4>3. \A i \in 1 .. Len(rx_fifo') : i + 1 \in 1 .. Len(rx_fifo) /\ rx_fifo'[i] = rx_fifo[i + 1]
          BY <3>1, <3>3, <4>1
        <4> QED  BY <4>1, <4>2, <4>3
      <3> QED  BY <1>4, <3>2, <3>3
    <2>2. Types'
      BY <1>1, <1>4, <2>1 DEF Types
    <2>3. Turns' /\ Owners' /\ OneAccept' /\ Group' /\ Held'
      BY <1>1, <1>4 DEF Turns, Owners, OneAccept, Group, IInv, Held, Idle, Has, Taken
    <2>4. Reading /\ Chunks /\ Answers => Reading' /\ Chunks' /\ Answers'
      BY <1>4 DEF Reading, Chunks, Answers
    <2>5. Olds => Olds'
      BY <1>4, <2>1 DEF Olds, Old, Has
    <2> QED  BY <1>4, <2>2, <2>3, <2>4, <2>5 DEF IInv, Order, Flow
  <1>5. CASE RxTake
    <2>1. /\ UNCHANGED <<peer, socket, armed, accepting, handler, ready, set_, delivered, written,
                         failed>>
          /\ rx_fifo # <<>> /\ rx_thread' = Head(rx_fifo) /\ rx_fifo' = Tail(rx_fifo)
      BY <1>5 DEF RxTake, clients, io
    <2> QED  BY <1>4, <2>1
  <1>6. CASE SendMsg \/ TxTake \/ UNCHANGED vars
    <2>1. /\ UNCHANGED <<peer, socket, armed, accepting, handler, ready, set_, delivered, written,
                         failed>>
          /\ UNCHANGED <<rx_fifo, rx_thread>>
      BY <1>6 DEF SendMsg, TxTake, vars, clients, io, users
    <2> QED  BY <1>4, <2>1
  <1> QED  BY <1>2, <1>3, <1>5, <1>6

-----------------------------------------------------------------------------
LEMMA InitInv == Init => IInv
  <1> SUFFICES ASSUME Init PROVE IInv
    OBVIOUS
  <1>1. Types
    BY DEF Init, Types
  <1>2. Turns /\ Owners /\ OneAccept /\ Group /\ Held
    BY DEF Init, Turns, Owners, OneAccept, Group, Held, Idle, Has, Taken
  <1>3. Reading /\ Chunks /\ Olds /\ Answers
    BY DEF Init, Reading, Chunks, Olds, Answers
  <1> QED  BY <1>1, <1>2, <1>3 DEF IInv, Order, Flow

\* Whatever the clients do and however the threads interleave, the server keeps
\* one session, the latest, and what older ones sent is in front of it.
THEOREM ServerInvariance == Spec => []IInv
  <1>1. IInv /\ [Next]_vars => IInv'
    BY Clients, AcceptCompletes, ReadCompletes, ReadHandled, ErrorHandled, AcceptHandled,
       SessionClosed, SessionLeaves, SessionStarts, Users DEF Next, IoThread
  <1> QED  BY InitInv, <1>1, PTL DEF Spec

\* session_group::do_write (asio_server.cpp) has no choice: the group never holds
\* two sessions, and the one it holds is the latest.
THEOREM GroupIsOne == Spec => []OneSession
  <1>1. IInv => OneSession
    <2> SUFFICES ASSUME IInv PROVE OneSession
      OBVIOUS
    <2>1. Group /\ Types
      BY DEF IInv, Order
    <2>2. Cardinality(set_) <= 1
      <3>1. CASE set_ = {}
        BY <3>1, FS_EmptySet
      <3>2. ASSUME NEW s \in set_ PROVE Cardinality(set_) <= 1
        <4>1. set_ = {s}
          BY <2>1 DEF Group
        <4> QED  BY <4>1, FS_Singleton
      <3> QED  BY <3>1, <3>2
    <2> QED  BY <2>1, <2>2 DEF Group, OneSession, Accepted, Has
  <1> QED  BY ServerInvariance, <1>1, PTL

\* Chunks reach the receive FIFO session by session while no write has failed:
\* the accept handler closes and empties the group before it starts to read.
THEOREM ChunksInOrder == Spec => []SessionsInOrder
  <1>1. IInv => SessionsInOrder
    <2> SUFFICES ASSUME IInv, ~failed, NEW i \in 1 .. Len(delivered) - 1
                 PROVE  delivered[i] <= delivered[i + 1]
      BY DEF SessionsInOrder
    <2>1. Len(delivered) \in Nat
      BY DEF IInv, Order, Types
    <2> QED  BY <2>1 DEF IInv, Flow, Chunks
  <1> QED  BY ServerInvariance, <1>1, PTL

\* process_rx_frame's acknowledgement never goes to a client that came before the
\* one that asked, while no write has failed.
THEOREM AcksGoForward == Spec => []AckNotEarlier
  <1>1. IInv => AckNotEarlier
    BY DEF IInv, Flow, Answers, AckNotEarlier
  <1> QED  BY ServerInvariance, <1>1, PTL

\* Data and acknowledgements of the clients are kept apart, whenever the accept
\* handler of asio_server.cpp replaces one by the next.
THEOREM ClientsAreApart == Spec => []ClientsKeptApart
  BY ChunksInOrder, AcksGoForward, PTL DEF ClientsKeptApart

\* session::do_close and the shared_ptr: no open socket is left without an owner.
THEOREM SocketsHeld == Spec => []NoSocketLeak
  <1>1. IInv => NoSocketLeak
    BY DEF IInv, Held, NoSocketLeak, Idle
  <1> QED  BY ServerInvariance, <1>1, PTL

-----------------------------------------------------------------------------
(* The client. *)

Sorted(s)    == \A i, j \in DOMAIN s : i < j => s[i] < s[j]
Before(s, t) == \A i \in DOMAIN s, j \in DOMAIN t : s[i] < t[j]

UpTo(s, n)   == \A i \in DOMAIN s : s[i] <= n

\* In order are the bytes with the server, with the tx thread, in the FIFO and on
\* the line, one place after the other, and none is ahead of the last that came.
InOrder(got, data, fifo, rest, last) ==
    /\ Sorted(got) /\ Sorted(data) /\ Sorted(fifo) /\ Sorted(rest)
    /\ Before(got, data) /\ Before(got, fifo) /\ Before(got, rest)
    /\ Before(data, fifo) /\ Before(data, rest)
    /\ Before(fifo, rest)
    /\ UpTo(got, last) /\ UpTo(data, last) /\ UpTo(fifo, last) /\ UpTo(rest, last)

\* The numbers of the bytes the server got.
Got == [i \in DOMAIN received |-> received[i][2]]

Ordered == InOrder(Got, tx.data, client_tx_fifo_, line, arrived)

\* The tx thread holds bytes between its read and its write only; the rx thread
\* reads a connection it has announced, and does nothing before the start is over.
Threads == /\ tx.at = "read" => tx.data = <<>>
           /\ rx = "read" => is_client_link_
           /\ process = "starting" => socket_ = "none"

BridgeInv == BridgeTypeOK /\ Ordered /\ Threads /\ LostOnlyUnlinked

-----------------------------------------------------------------------------
(* Sequences of numbers. *)

LEMMA FunctionIsSeq ==
  ASSUME NEW S, NEW n \in Nat, NEW f \in [1 .. n -> S]
  PROVE  f \in Seq(S)
  BY SeqDef

LEMMA TailOrdered ==
  ASSUME NEW s \in Seq(Nat), s # <<>>, Sorted(s)
  PROVE  /\ Tail(s) \in Seq(Nat) /\ Head(s) \in Nat /\ <<Head(s)>> \in Seq(Nat)
         /\ Sorted(Tail(s)) /\ Sorted(<<Head(s)>>) /\ Before(<<Head(s)>>, Tail(s))
         /\ \A u \in Seq(Nat) : Before(u, s) => Before(u, <<Head(s)>>) /\ Before(u, Tail(s))
         /\ \A n \in Nat : UpTo(s, n) => UpTo(<<Head(s)>>, n) /\ UpTo(Tail(s), n)
  <1>1. /\ Tail(s) \in Seq(Nat) /\ Len(Tail(s)) = Len(s) - 1 /\ Len(s) >= 1
        /\ \A i \in DOMAIN Tail(s) : i + 1 \in DOMAIN s /\ 1 \in DOMAIN s /\ Tail(s)[i] = s[i + 1]
        /\ 1 \in DOMAIN s /\ s[1] \in Nat
    OBVIOUS
  <1>2. /\ <<Head(s)>> \in Seq(Nat) /\ DOMAIN <<Head(s)>> = {1}
        /\ Head(s) = s[1] /\ <<Head(s)>>[1] = s[1]
    BY <1>1
  <1>3. Sorted(Tail(s))  BY <1>1 DEF Sorted
  <1>4. Sorted(<<Head(s)>>)  BY <1>2 DEF Sorted
  <1>5. Before(<<Head(s)>>, Tail(s))  BY <1>1, <1>2 DEF Sorted, Before
  <1>6. ASSUME NEW u \in Seq(Nat), Before(u, s)
        PROVE  Before(u, <<Head(s)>>) /\ Before(u, Tail(s))
    BY <1>1, <1>2, <1>6 DEF Before
  <1>7. ASSUME NEW n \in Nat, UpTo(s, n)
        PROVE  UpTo(<<Head(s)>>, n) /\ UpTo(Tail(s), n)
    BY <1>1, <1>2, <1>7 DEF UpTo
  <1> QED  BY <1>1, <1>2, <1>3, <1>4, <1>5, <1>6, <1>7

LEMMA ConcatOrdered ==
  ASSUME NEW s \in Seq(Nat), NEW t \in Seq(Nat), Sorted(s), Sorted(t), Before(s, t)
  PROVE  /\ s \o t \in Seq(Nat) /\ Sorted(s \o t)
         /\ \A u \in Seq(Nat) : Before(s, u) /\ Before(t, u) => Before(s \o t, u)
         /\ \A u \in Seq(Nat) : Before(u, s) /\ Before(u, t) => Before(u, s \o t)
         /\ \A n \in Nat : UpTo(s, n) /\ UpTo(t, n) => UpTo(s \o t, n)
  <1>1. /\ s \o t \in Seq(Nat) /\ Len(s \o t) = Len(s) + Len(t)
        /\ \A i \in DOMAIN s : i \in DOMAIN (s \o t) /\ (s \o t)[i] = s[i]
        /\ \A i \in DOMAIN (s \o t) : i \notin DOMAIN s =>
              i - Len(s) \in DOMAIN t /\ (s \o t)[i] = t[i - Len(s)]
    OBVIOUS
  <1>2. Sorted(s \o t)
    <2> SUFFICES ASSUME NEW i \in DOMAIN (s \o t), NEW j \in DOMAIN (s \o t), i < j
                 PROVE  (s \o t)[i] < (s \o t)[j]
      BY DEF Sorted
    <2>1. CASE j \in DOMAIN s
      <3>1. i \in DOMAIN s  BY <1>1, <2>1
      <3> QED  BY <1>1, <2>1, <3>1 DEF Sorted
    <2>2. CASE i \in DOMAIN s /\ j \notin DOMAIN s
      BY <1>1, <2>2 DEF Before
    <2>3. CASE i \notin DOMAIN s /\ j \notin DOMAIN s
      BY <1>1, <2>3 DEF Sorted
    <2>4. CASE i \notin DOMAIN s /\ j \in DOMAIN s
      BY <1>1, <2>4
    <2> QED  BY <2>1, <2>2, <2>3, <2>4
  <1>3. ASSUME NEW u \in Seq(Nat), Before(s, u), Before(t, u)  PROVE Before(s \o t, u)
    BY <1>1, <1>3 DEF Before
  <1>4. ASSUME NEW u \in Seq(Nat), Before(u, s), Before(u, t)  PROVE Before(u, s \o t)
    BY <1>1, <1>4 DEF Before
  <1>5. ASSUME NEW n \in Nat, UpTo(s, n), UpTo(t, n)  PROVE UpTo(s \o t, n)
    BY <1>1, <1>5 DEF UpTo
  <1> QED  BY <1>1, <1>2, <1>3, <1>4, <1>5
-----------------------------------------------------------------------------
(* What the steps do to the four places. *)

LEMMA EmptyOrdered ==
  ASSUME NEW s
  PROVE  /\ <<>> \in Seq(Nat) /\ Sorted(<<>>) /\ Before(<<>>, s) /\ Before(s, <<>>)
         /\ \A n \in Nat : UpTo(<<>>, n)
  <1>1. DOMAIN <<>> = {}  OBVIOUS
  <1> QED  BY <1>1 DEF Sorted, Before, UpTo

\* A byte comes.
LEMMA ArrivalInOrder ==
  ASSUME NEW g \in Seq(Nat), NEW d \in Seq(Nat), NEW f \in Seq(Nat), NEW l \in Seq(Nat),
         NEW n \in Nat, InOrder(g, d, f, l, n)
  PROVE  InOrder(g, d, f, Append(l, n + 1), n + 1)
  <1> DEFINE b == <<n + 1>>
  <1>1. b \in Seq(Nat) /\ Sorted(b) /\ UpTo(b, n + 1) /\ Append(l, n + 1) = l \o b
    BY DEF Sorted, UpTo
  <1>2. \A s \in Seq(Nat) : UpTo(s, n) => Before(s, b) /\ UpTo(s, n + 1)
    BY DEF Before, UpTo
  <1> HIDE DEF b
  <1>3. /\ Before(g, b) /\ Before(d, b) /\ Before(f, b) /\ Before(l, b)
        /\ UpTo(g, n + 1) /\ UpTo(d, n + 1) /\ UpTo(f, n + 1) /\ UpTo(l, n + 1) /\ n + 1 \in Nat
    BY <1>2 DEF InOrder
  <1>4. /\ Sorted(l \o b) /\ UpTo(l \o b, n + 1)
        /\ Before(g, l \o b) /\ Before(d, l \o b) /\ Before(f, l \o b)
    BY <1>1, <1>3, ConcatOrdered DEF InOrder
  <1> QED  BY <1>1, <1>3, <1>4 DEF InOrder

\* The uart thread takes one, and keeps or loses it.
LEMMA ReadInOrder ==
  ASSUME NEW g \in Seq(Nat), NEW d \in Seq(Nat), NEW f \in Seq(Nat), NEW l \in Seq(Nat),
         NEW n \in Nat, InOrder(g, d, f, l, n), l # <<>>
  PROVE  InOrder(g, d, Append(f, Head(l)), Tail(l), n) /\ InOrder(g, d, f, Tail(l), n)
  <1> DEFINE b == <<Head(l)>>
  <1>0. Head(l) \in Nat  OBVIOUS
  <1>1. Append(f, Head(l)) = f \o b  BY <1>0
  <1>2. /\ Tail(l) \in Seq(Nat) /\ b \in Seq(Nat)
        /\ Sorted(Tail(l)) /\ Sorted(b) /\ Before(b, Tail(l))
        /\ \A u \in Seq(Nat) : Before(u, l) => Before(u, b) /\ Before(u, Tail(l))
        /\ UpTo(b, n) /\ UpTo(Tail(l), n)
    BY TailOrdered DEF InOrder
  <1> HIDE DEF b
  <1>3. InOrder(g, d, f \o b, Tail(l), n)
    BY <1>2, ConcatOrdered DEF InOrder
  <1> QED  BY <1>1, <1>2, <1>3 DEF InOrder

\* The tx thread takes what is in the FIFO, ...
LEMMA TakeInOrder ==
  ASSUME NEW g \in Seq(Nat), NEW f \in Seq(Nat), NEW l \in Seq(Nat), NEW n \in Nat,
         InOrder(g, <<>>, f, l, n)
  PROVE  InOrder(g, f, <<>>, l, n)
  BY EmptyOrdered DEF InOrder

\* ... and loses it or hands it over.
LEMMA WriteInOrder ==
  ASSUME NEW g \in Seq(Nat), NEW d \in Seq(Nat), NEW f \in Seq(Nat), NEW l \in Seq(Nat),
         NEW n \in Nat, InOrder(g, d, f, l, n)
  PROVE  InOrder(g, <<>>, f, l, n) /\ InOrder(g \o d, <<>>, f, l, n)
  <1>1. InOrder(g, <<>>, f, l, n)
    BY EmptyOrdered DEF InOrder
  <1>2. InOrder(g \o d, <<>>, f, l, n)
    BY EmptyOrdered, ConcatOrdered DEF InOrder
  <1> QED  BY <1>1, <1>2

-----------------------------------------------------------------------------
LEMMA TypeStep ==
  ASSUME BridgeTypeOK, [BridgeNext]_bridgeVars
  PROVE  BridgeTypeOK'
  <1> /\ {FifoSize, RxSize} \subseteq Nat \ {0}
      /\ {MaxBytes, MaxBreaks} \subseteq Nat
    BY SizeAssumption, LineAssumption
  <1>1. CASE LineBrings
    <2>1. arrived' \in 1 .. MaxBytes
      BY <1>1 DEF LineBrings, BridgeTypeOK
    <2>2. line' \in Seq(1 .. MaxBytes)
      BY <1>1, <2>1 DEF LineBrings, BridgeTypeOK
    <2> QED  BY <1>1, <2>1, <2>2 DEF LineBrings, BridgeTypeOK, server
  <1>2. CASE ServerStops
    <2>1. breaks' \in 0 .. MaxBreaks /\ socket_' \in {"none", "up", "broken"}
      BY <1>2 DEF ServerStops, BridgeTypeOK
    <2> QED  BY <1>2, <2>1 DEF ServerStops, BridgeTypeOK, uart
  <1>3. CASE ServerStarts
    BY <1>3 DEF ServerStarts, BridgeTypeOK, bridgeVars, uart, server
  <1>4. CASE UartRead
    <2>0. line \in Seq(1 .. MaxBytes) /\ line # <<>> /\ line' = Tail(line)
      BY <1>4 DEF UartRead, BridgeTypeOK
    <2>1. Head(line) \in 1 .. MaxBytes /\ line' \in Seq(1 .. MaxBytes)
      BY <2>0, HeadTailProperties
    <2>2. CASE Len(client_tx_fifo_) < FifoSize /\ client_tx_fifo_' = Append(client_tx_fifo_, Head(line))
                /\ UNCHANGED <<process, lost>>
      <3>1. client_tx_fifo_' \in Seq(1 .. MaxBytes) /\ Len(client_tx_fifo_') = Len(client_tx_fifo_) + 1
        BY <2>1, <2>2 DEF BridgeTypeOK
      <3>2. Len(client_tx_fifo_') <= FifoSize
        BY <2>2, <3>1 DEF BridgeTypeOK
      <3> QED  BY <1>4, <2>1, <2>2, <3>1, <3>2 DEF UartRead, BridgeTypeOK, server
    <2>3. CASE /\ process' \in {"starting", "dead"} /\ lost' = lost \cup {<<socket_, rx>>}
               /\ UNCHANGED client_tx_fifo_
      <3>1. process' \in {"starting", "dead"} /\ client_tx_fifo_' = client_tx_fifo_
            /\ lost' = lost \cup {<<socket_, rx>>}
        BY <2>3
      <3>2. lost' \in SUBSET ({"none", "up", "broken"} \X {"connect", "link", "read", "sleep"})
        BY <3>1 DEF BridgeTypeOK
      <3> QED  BY <1>4, <2>1, <3>1, <3>2 DEF UartRead, BridgeTypeOK, server
    <2> QED  BY <1>4, <2>2, <2>3 DEF UartRead
  <1>5. CASE ClientInit
    BY <1>5 DEF ClientInit, BridgeTypeOK, bridgeVars, uart, server
  <1>6. CASE TxRead
    BY <1>6 DEF TxRead, BridgeTypeOK, bridgeVars, uart, server
  <1>7. CASE TxCheck
    <2>1. /\ tx' \in [at : {"read", "check", "write"}, data : Seq(1 .. MaxBytes)]
          /\ lost' \subseteq {"none", "up", "broken"} \X {"connect", "link", "read", "sleep"}
      <3>1. CASE is_client_link_
        BY <1>7, <3>1 DEF TxCheck, BridgeTypeOK
      <3>2. CASE ~is_client_link_
        <4>1. tx' = [at |-> "read", data |-> <<>>] /\ lost' = lost \cup {<<socket_, rx>>}
          BY <1>7, <3>2 DEF TxCheck
        <4>2. tx' \in [at : {"read", "check", "write"}, data : Seq(1 .. MaxBytes)]
          BY <4>1
        <4> QED  BY <4>1, <4>2 DEF BridgeTypeOK
      <3> QED  BY <3>1, <3>2
    <2> QED  BY <1>7, <2>1 DEF TxCheck, BridgeTypeOK, uart, server
  <1>8. CASE WriteData
    <2>1. tx' \in [at : {"read", "check", "write"}, data : Seq(1 .. MaxBytes)]
      BY <1>8 DEF WriteData
    <2>2. received' \in Seq(Nat \X (1 .. MaxBytes))
      <3>1. [i \in DOMAIN tx.data |-> <<connection, tx.data[i]>>] \in Seq(Nat \X (1 .. MaxBytes))
        <4>1. tx.data \in Seq(1 .. MaxBytes) /\ connection \in Nat  BY DEF BridgeTypeOK
        <4>2. tx.data \in [1 .. Len(tx.data) -> 1 .. MaxBytes] /\ Len(tx.data) \in Nat
          BY <4>1
        <4>3. [i \in DOMAIN tx.data |-> <<connection, tx.data[i]>>]
                \in [1 .. Len(tx.data) -> Nat \X (1 .. MaxBytes)]
          BY <4>1, <4>2
        <4> QED  BY <4>2, <4>3, FunctionIsSeq
      <3>2. received \in Seq(Nat \X (1 .. MaxBytes))  BY DEF BridgeTypeOK
      <3> HIDE DEF BridgeTypeOK
      <3> QED  BY <1>8, <3>1, <3>2, ConcatProperties DEF WriteData
    <2>3. /\ process' \in {"starting", "runs", "dead"}
          /\ lost' \subseteq {"none", "up", "broken"} \X {"connect", "link", "read", "sleep"}
      BY <1>8 DEF WriteData, BridgeTypeOK
    <2> QED  BY <1>8, <2>1, <2>2, <2>3 DEF WriteData, BridgeTypeOK, uart, server
  <1>9. CASE RxConnect
    <2>1. CASE serving
      BY <1>9, <2>1 DEF RxConnect, BridgeTypeOK, uart, server
    <2>2. CASE ~serving
      BY <1>9, <2>2 DEF RxConnect, BridgeTypeOK, uart, server
    <2> QED  BY <2>1, <2>2
  <1>10. CASE RxLink
    BY <1>10 DEF RxLink, BridgeTypeOK, bridgeVars, uart, server
  <1>11. CASE RxFails
    BY <1>11 DEF RxFails, BridgeTypeOK, bridgeVars, uart, server
  <1>12. CASE RxWakes
    BY <1>12 DEF RxWakes, BridgeTypeOK, bridgeVars, uart, server
  <1>13. CASE RxRead
    <2>1. RxSize \in Nat /\ RxSize > 0 /\ rx_count \in Nat
      BY DEF BridgeTypeOK
    <2>2. (rx_count + 1) % RxSize \in 0 .. RxSize - 1
      BY <2>1
    <2> QED  BY <1>13, <2>2 DEF RxRead, BridgeTypeOK, bridgeVars, uart, server
  <1>14. CASE UNCHANGED bridgeVars
    BY <1>14 DEF BridgeTypeOK, bridgeVars, uart, server
  <1> QED
    BY <1>1, <1>2, <1>3, <1>4, <1>5, <1>6, <1>7, <1>8, <1>9, <1>10, <1>11, <1>12, <1>13, <1>14
      DEF BridgeNext, Tx, Rx

\* A byte is lost under a connection that stands and is announced in no step of
\* any thread: the tx thread loses what it holds when the flag is down or the
\* socket is, and the rx thread reads with the flag up.
LEMMA ThreadsStep ==
  ASSUME BridgeTypeOK, Threads, LostOnlyUnlinked, [BridgeNext]_bridgeVars
  PROVE  Threads' /\ LostOnlyUnlinked'
  <1>1. CASE LineBrings
    BY <1>1 DEF LineBrings, BridgeTypeOK, Threads, LostOnlyUnlinked, Runs, bridgeVars, uart, server
  <1>2. CASE ServerStops
    BY <1>2 DEF ServerStops, BridgeTypeOK, Threads, LostOnlyUnlinked, Runs, bridgeVars, uart, server
  <1>3. CASE ServerStarts
    BY <1>3
      DEF ServerStarts, BridgeTypeOK, Threads, LostOnlyUnlinked, Runs, bridgeVars, uart, server
  <1>4. CASE UartRead
    BY <1>4 DEF UartRead, BridgeTypeOK, Threads, LostOnlyUnlinked, Runs, bridgeVars, uart, server
  <1>5. CASE ClientInit
    BY <1>5 DEF ClientInit, BridgeTypeOK, Threads, LostOnlyUnlinked, Runs, bridgeVars, uart, server
  <1>6. CASE TxRead
    BY <1>6 DEF TxRead, BridgeTypeOK, Threads, LostOnlyUnlinked, Runs, bridgeVars, uart, server
  <1>7. CASE TxCheck
    BY <1>7 DEF TxCheck, BridgeTypeOK, Threads, LostOnlyUnlinked, Runs, bridgeVars, uart, server
  <1>8. CASE WriteData
    BY <1>8 DEF WriteData, BridgeTypeOK, Threads, LostOnlyUnlinked, Runs, bridgeVars, uart, server
  <1>9. CASE RxConnect
    BY <1>9 DEF RxConnect, BridgeTypeOK, Threads, LostOnlyUnlinked, Runs, bridgeVars, uart, server
  <1>10. CASE RxLink
    BY <1>10 DEF RxLink, BridgeTypeOK, Threads, LostOnlyUnlinked, Runs, bridgeVars, uart, server
  <1>11. CASE RxFails
    BY <1>11 DEF RxFails, BridgeTypeOK, Threads, LostOnlyUnlinked, Runs, bridgeVars, uart, server
  <1>12. CASE RxWakes
    BY <1>12 DEF RxWakes, BridgeTypeOK, Threads, LostOnlyUnlinked, Runs, bridgeVars, uart, server
  <1>13. CASE RxRead
    BY <1>13 DEF RxRead, BridgeTypeOK, Threads, LostOnlyUnlinked, Runs, bridgeVars, uart, server
  <1>14. CASE UNCHANGED bridgeVars
    BY <1>14 DEF BridgeTypeOK, Threads, LostOnlyUnlinked, Runs, bridgeVars, uart, server
  <1> QED
    BY <1>1, <1>2, <1>3, <1>4, <1>5, <1>6, <1>7, <1>8, <1>9, <1>10, <1>11, <1>12, <1>13, <1>14
      DEF BridgeNext, Tx, Rx

LEMMA BridgeNumbers ==
  ASSUME BridgeTypeOK
  PROVE  /\ Got \in Seq(Nat) /\ tx.data \in Seq(Nat) /\ client_tx_fifo_ \in Seq(Nat)
         /\ line \in Seq(Nat) /\ arrived \in Nat
  <1>1. MaxBytes \in Nat /\ 1 .. MaxBytes \subseteq Nat
    BY LineAssumption
  <1>2. received \in Seq(Nat \X (1 .. MaxBytes))
    BY DEF BridgeTypeOK
  <1>3. received \in [1 .. Len(received) -> Nat \X (1 .. MaxBytes)] /\ Len(received) \in Nat
    BY <1>2, LenProperties
  <1>4. Got \in [1 .. Len(received) -> Nat]
    BY <1>1, <1>3 DEF Got
  <1>5. Got \in Seq(Nat)
    BY <1>3, <1>4, FunctionIsSeq
  <1>6. tx.data \in Seq(1 .. MaxBytes) /\ client_tx_fifo_ \in Seq(1 .. MaxBytes)
        /\ line \in Seq(1 .. MaxBytes) /\ arrived \in Nat
    BY <1>1 DEF BridgeTypeOK
  <1> QED  BY <1>1, <1>5, <1>6, SeqMonotonic

LEMMA OrderStep ==
  ASSUME BridgeTypeOK, Threads, Ordered, [BridgeNext]_bridgeVars
  PROVE  Ordered'
  <1> USE BridgeNumbers
  <1>1. ASSUME UNCHANGED <<received, tx, client_tx_fifo_, line, arrived>>  PROVE Ordered'
    <2>1. Got' = Got  BY <1>1 DEF Got
    <2> QED  BY <1>1, <2>1 DEF Ordered
  <1>2. CASE LineBrings
    <2>1. Got' = Got  BY <1>2 DEF LineBrings, Got
    <2> QED  BY <1>2, <2>1, ArrivalInOrder DEF LineBrings, Ordered
  <1>3. CASE UartRead
    <2>1. Got' = Got  BY <1>3 DEF UartRead, Got
    <2> QED  BY <1>3, <2>1, ReadInOrder DEF UartRead, Ordered
  <1>4. CASE TxRead
    <2>1. Got' = Got  BY <1>4 DEF TxRead, Got
    <2>2. tx.data = <<>> /\ tx'.data = client_tx_fifo_ /\ client_tx_fifo_' = <<>>
          /\ UNCHANGED <<line, arrived>>
      BY <1>4 DEF TxRead, Threads, uart
    <2> QED  BY <2>1, <2>2, TakeInOrder DEF Ordered
  <1>5. CASE TxCheck
    <2>1. Got' = Got  BY <1>5 DEF TxCheck, Got
    <2>2. tx'.data = tx.data \/ tx'.data = <<>>
      BY <1>5 DEF TxCheck, BridgeTypeOK
    <2>3. UNCHANGED <<client_tx_fifo_, line, arrived>>
      BY <1>5 DEF TxCheck, uart
    <2> QED  BY <2>1, <2>2, <2>3, WriteInOrder DEF Ordered
  <1>6. CASE WriteData
    <2>1. tx'.data = <<>> /\ UNCHANGED <<client_tx_fifo_, line, arrived>>
      BY <1>6 DEF WriteData, uart
    <2>2. Got' = Got \/ Got' = Got \o tx.data
      <3>1. CASE received' = received
        BY <3>1 DEF Got
      <3>2. CASE received' = received \o [i \in DOMAIN tx.data |-> <<connection, tx.data[i]>>]
        <4> DEFINE new == [i \in DOMAIN tx.data |-> <<connection, tx.data[i]>>]
        <4>1. tx.data \in Seq(1 .. MaxBytes) /\ connection \in Nat
              /\ received \in Seq(Nat \X (1 .. MaxBytes))
          BY DEF BridgeTypeOK
        <4>2. Len(tx.data) \in Nat /\ tx.data \in [1 .. Len(tx.data) -> 1 .. MaxBytes]
          BY <4>1, LenProperties
        <4>3. new \in [1 .. Len(tx.data) -> Nat \X (1 .. MaxBytes)]
          BY <4>1, <4>2
        <4>4. new \in Seq(Nat \X (1 .. MaxBytes)) /\ Len(new) = Len(tx.data)
          <5>1. new \in Seq(Nat \X (1 .. MaxBytes))
            BY <4>2, <4>3, FunctionIsSeq
          <5>2. DOMAIN new = 1 .. Len(tx.data) /\ DOMAIN new = 1 .. Len(new) /\ Len(new) \in Nat
            BY <4>3, <5>1, LenProperties
          <5> HIDE DEF new
          <5> QED  BY <4>2, <5>1, <5>2
        <4>4a. \A i \in 1 .. Len(tx.data) : new[i][2] = tx.data[i]
          BY <4>2
        <4>4b. received' = received \o new
          BY <3>2
        <4> HIDE DEF new
        <4>5. /\ received' \in Seq(Nat \X (1 .. MaxBytes))
              /\ Len(received') = Len(received) + Len(tx.data)
              /\ \A i \in 1 .. Len(received') :
                     received'[i] = IF i <= Len(received) THEN received[i]
                                    ELSE new[i - Len(received)]
          <5> DEFINE T == Nat \X (1 .. MaxBytes)
          <5>1. received \in Seq(T) /\ new \in Seq(T)
            BY <4>1, <4>4
          <5> HIDE DEF T
          <5>2. /\ received \o new \in Seq(T)
                /\ Len(received \o new) = Len(received) + Len(new)
                /\ \A i \in 1 .. Len(received) + Len(new) :
                      (received \o new)[i] = IF i <= Len(received) THEN received[i]
                                             ELSE new[i - Len(received)]
            BY <5>1, ConcatProperties
          <5> USE DEF T
          <5> QED  BY <4>4b, <4>4, <5>2
        <4>6. /\ Got \o tx.data \in Seq(Nat)
              /\ Len(Got) = Len(received) /\ DOMAIN Got = 1 .. Len(received)
              /\ Len(Got \o tx.data) = Len(received) + Len(tx.data)
              /\ \A i \in 1 .. Len(received) + Len(tx.data) :
                     (Got \o tx.data)[i] = IF i <= Len(received) THEN received[i][2]
                                           ELSE tx.data[i - Len(received)]
          <5>1. DOMAIN received = 1 .. Len(received) /\ Len(received) \in Nat
            BY <4>1, LenProperties
          <5>2. DOMAIN Got = 1 .. Len(received) /\ \A i \in 1 .. Len(received) : Got[i] = received[i][2]
            BY <5>1 DEF Got
          <5>3. Len(Got) = Len(received)
            BY <5>1, <5>2, LenProperties
          <5>4. /\ Len(tx.data) \in Nat
                /\ Len(Got \o tx.data) = Len(Got) + Len(tx.data) /\ Got \o tx.data \in Seq(Nat)
                /\ \A i \in 1 .. Len(Got) + Len(tx.data) :
                      (Got \o tx.data)[i] = IF i <= Len(Got) THEN Got[i] ELSE tx.data[i - Len(Got)]
            BY ConcatProperties, LenProperties
          <5> HIDE DEF Got
          <5> QED  BY <5>1, <5>2, <5>3, <5>4
        <4>7. DOMAIN received' = 1 .. Len(received) + Len(tx.data)
          BY <4>5, LenProperties
        <4>8. Got' = [i \in 1 .. Len(received) + Len(tx.data) |-> received'[i][2]]
          BY <4>7 DEF Got
        <4>9. \A i \in 1 .. Len(received) + Len(tx.data) : received'[i][2] = (Got \o tx.data)[i]
          <5> SUFFICES ASSUME NEW i \in 1 .. Len(received) + Len(tx.data)
                       PROVE  received'[i][2] = (Got \o tx.data)[i]
            OBVIOUS
          <5>1. Len(received) \in Nat  BY <4>1, LenProperties
          <5>2. CASE i <= Len(received)
            BY <4>5, <4>6, <5>2
          <5>3. CASE ~(i <= Len(received))
            <6>1. i - Len(received) \in 1 .. Len(tx.data)
              BY <4>2, <5>1, <5>3
            <6> QED  BY <4>4a, <4>5, <4>6, <5>3, <6>1
          <5> QED  BY <5>2, <5>3
        <4>10. Got \o tx.data = [i \in 1 .. Len(received) + Len(tx.data) |-> (Got \o tx.data)[i]]
          BY <4>6, LenProperties
        <4> QED  BY <4>8, <4>9, <4>10
      <3> QED  BY <1>6, <3>1, <3>2 DEF WriteData
    <2> QED  BY <2>1, <2>2, WriteInOrder DEF Ordered
  <1>7. CASE ServerStops \/ ServerStarts \/ ClientInit \/ Rx \/ RxRead \/ UNCHANGED bridgeVars
    BY <1>1, <1>7
      DEF ServerStops, ServerStarts, ClientInit, Rx, RxConnect, RxLink, RxFails, RxWakes,
                      RxRead, bridgeVars, uart
  <1> QED  BY <1>2, <1>3, <1>4, <1>5, <1>6, <1>7 DEF BridgeNext, Tx

LEMMA BridgeBegins ==
  BridgeInit => BridgeInv
  <1> SUFFICES ASSUME BridgeInit PROVE BridgeInv
    OBVIOUS
  <1> /\ {FifoSize, RxSize} \subseteq Nat \ {0}
      /\ {MaxBytes, MaxBreaks} \subseteq Nat
    BY SizeAssumption, LineAssumption
  <1>1. BridgeTypeOK
    <2>1. /\ line \in Seq(1 .. MaxBytes) /\ client_tx_fifo_ \in Seq(1 .. MaxBytes)
          /\ tx \in [at : {"read", "check", "write"}, data : Seq(1 .. MaxBytes)]
          /\ received \in Seq(Nat \X (1 .. MaxBytes)) /\ Len(client_tx_fifo_) = 0
      BY DEF BridgeInit
    <2>2. /\ arrived \in 0 .. MaxBytes /\ breaks \in 0 .. MaxBreaks /\ rx_count \in 0 .. RxSize - 1
          /\ connection \in Nat
      BY DEF BridgeInit
    <2>3. is_client_link_ \in BOOLEAN /\ serving \in BOOLEAN
      BY DEF BridgeInit
    <2>4. /\ process \in {"starting", "runs", "dead"} /\ rx \in {"connect", "link", "read", "sleep"}
          /\ socket_ \in {"none", "up", "broken"}
          /\ lost \subseteq {"none", "up", "broken"} \X {"connect", "link", "read", "sleep"}
      BY DEF BridgeInit
    <2>5. Len(client_tx_fifo_) <= FifoSize
      BY <2>1
    <2> QED  BY <2>1, <2>2, <2>3, <2>4, <2>5 DEF BridgeTypeOK
  <1>2. Got = <<>>
    BY DEF BridgeInit, Got
  <1>3. Ordered
    BY <1>2, EmptyOrdered DEF BridgeInit, Ordered, InOrder
  <1> QED  BY <1>1, <1>3 DEF BridgeInit, BridgeInv, Threads, LostOnlyUnlinked

\* Bytes keep their order over the four places where they may be, whatever the
\* threads of asio_client.cpp do.
THEOREM BridgeInvariance == BridgeSpec => []BridgeInv
  <1>1. BridgeInv /\ [BridgeNext]_bridgeVars => BridgeInv'
    BY TypeStep, ThreadsStep, OrderStep DEF BridgeInv
  <1> QED  BY BridgeBegins, <1>1, PTL DEF BridgeSpec

\* The state of the threads, of the FIFO and of the connection keeps its type.
THEOREM BridgeTypeCorrect == BridgeSpec => []BridgeTypeOK
  <1>1. BridgeInv => BridgeTypeOK
    BY DEF BridgeInv
  <1> QED  BY BridgeInvariance, <1>1, PTL

\* Bytes reach the server in the order of the line and once each, whatever
\* connections come and go, and none is lost under a connection that the bridge
\* has announced: asio_client.cpp and serial.cpp.
THEOREM Delivery == BridgeSpec => []BytesDelivered
  <1>1. BridgeInv => BytesDelivered
    <2> SUFFICES ASSUME BridgeInv, NEW i \in 1 .. Len(received) - 1
                 PROVE  received[i][2] < received[i + 1][2]
      BY DEF BridgeInv, BytesDelivered
    <2>1. received \in Seq(Nat \X (1 .. MaxBytes))
      BY DEF BridgeInv, BridgeTypeOK
    <2>2. i \in DOMAIN received /\ i + 1 \in DOMAIN received /\ i < i + 1
      BY <2>1
    <2>3. DOMAIN Got = DOMAIN received /\ Got[i] = received[i][2] /\ Got[i + 1] = received[i + 1][2]
      BY <2>2 DEF Got
    <2>4. Sorted(Got)
      BY DEF BridgeInv, Ordered, InOrder
    <2> QED  BY <2>2, <2>3, <2>4 DEF Sorted
  <1> QED  BY BridgeInvariance, <1>1, PTL
=============================================================================
