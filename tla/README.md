# Formal models of remote_manage

remote_manage manages an embedded Linux board remotely. Several processes run on
the board (`embed/`): `main_process` talks to the outside (TCP, MQTT, Modbus),
`local_device` drives the hardware, `lower_device` bridges a serial line to TCP,
`logger_tool` collects the log of all. Desktop tools (`desktop/`) connect to
them, kernel drivers (`mod/`) serve them. The processes exchange messages over
named FIFOs, the threads of a process over shared queues, and very little of it
is protected by more than one mutex at a time. This directory models the parts
where that matters in TLA+, checks the models with TLC, and proves theorems about
them with TLAPS.

Contents: [1 Inventory](#1-inventory), [2 Modules](#2-modules),
[3 Runs](#3-runs), [4 Fairness](#4-fairness), [5 Proofs](#5-proofs),
[6 Disagreements found](#6-disagreements-of-code-and-documentation),
[7 Not modelled](#7-what-is-not-modelled), [8 Plan](#8-plan).
Paths are relative to `src/`. `PROJECT.json` lists components, runs, mutants, the
map from every definition to source lines, the hazards and the theorems.

## 1 Inventory

| Component | Source | State it keeps | Operations | Module |
|---|---|---|---|---|
| inter-thread queue | `embed/common/event/{thread_queue,semaphore}.hpp` | a `std::queue` and its mutex; a count, a mutex and a condition variable | `send`, `receive(timeout)` | `ThreadQueue`, `FifoChannel` |
| remote protocol | `embed/main_process/remote/protocol.*`, `tcp_thread.cpp` | receive buffer, size, status and time of the frame in work | bytes to frames, crc, ACK, frames out | `Protocol` |
| TCP server | `embed/common/server/asio_server.*`, `tcp_thread.cpp` | sessions, their sockets, the group, two FIFOs | accept, read, write, close; rx and tx threads | `AsioServer` |
| timer | `embed/common/timer_manage.*` | loop flag, tick count, vector of actions | timed loop, `stop`, register, remove, run | `TimerManage` |
| logging | `embed/common/logger/logger_manage.*`, `logger_tool/log_process.cpp` | one line buffer for each process, the logger's FIFO | `print_log`, `logger_rx_run` | `LogManage` |
| device link | `embed/local_device/device_manage.cpp`, `main_process/module/{cmd,device}_process.cpp` | command and info FIFOs, hardware state sent and received, level of logging | commands, key, loop event, update, synchronisation | `DeviceLink` |
| traffic light | `embed/local_device/driver/loopled.hpp` | run flag, tick, three lamps | refresh once a second, `set_state` | `LoopLed` |
| key of the board | `mod/06.key/key_input`, `embed/local_device/driver/key.*` | protect flag, debounce timer, last event | interrupt, timer function, event reader | `KeyInput` |
| FIFO wrapper | `embed/common/fifo/` | two file descriptors | create, release, read, write | part of the modules that use it; create and restart in `CommandRoute` |
| logger's command side | `embed/logger_tool/` | login and its time, socket | login, logout, dispatch to the processes' FIFOs | `CommandRoute` |
| serial bridge | `embed/lower_device/` | link flag, two FIFOs, reconnect timer | serial to TCP and back | `SerialBridge` |
| Modbus slave | `embed/main_process/mb/` (FreeModbus and its port) | receive and transmit state machines, frame buffer, event queue, tables | poll, serial threads, timer signal, TCP server, functions | `ModbusRegisters`, `ModbusRtu`, `ModbusAscii`, `ModbusTcp`, `ModbusSlave` |
| text commands | `*/module/cmd_process.cpp` | - | parse a line, call the device functions | `DeviceLink` (device commands), `CommandRoute` (reading them) |
| desktop tool | `desktop/manage_tool/` | ring of commands, socket, answer in work | post, take, connect, send, decode, upload a file | `DesktopTool` |
| real-time clock | `mod/09.rtc/bus_rtc`, the emulator's `pcf8563.c` | registers, timer, alarm mode | read and set time, alarm, interrupt | `RtcAlarm`, `RtcClock` |
| touch screen | `mod/14.touch_key/goodix_ts_i2c`, the emulator's `gt9147.c` | status, points, slots | touch, interrupt, report, clear | `TouchScreen` |
| key as a device file | `mod/06.key/key_{async,rwio}` | one word, wait queue, timer | interrupt, timer, blocking read, signal | `KeyNode` |
| MQTT | `embed/main_process/mqtt/` | connection flag | connect, publish, reply | - |
| configuration | `embed/common/jsonconfig/` | a JSON tree and its file | read, save, defaults | one setting in `DeviceLink` |
| other drivers of the application | `embed/local_device/driver/` | file descriptors | single reads and writes | readings in `DeviceLink` |
| other kernel drivers | `mod/` | hardware | - | - |
| desktop logger, web server | `desktop/`, `embed/node_server/` | sockets, widgets | requests to the board | - |

How they interact:

```
 client --TCP--> AsioServer --rx FIFO--> Protocol --do_write (ACK)--> AsioServer --TCP--> client
 application --send_msg--> tx FIFO --> tcp_tx_run --do_write--> AsioServer
 cmd_process, device_process --command FIFO--> device_manage --> hardware
 key thread, timer ------------^                     |
 device_process <--info FIFO------------------------ + (when the state has changed)
 timer (TimerManage) --once a second--> loopled refresh, loop event
 key interrupt --timer--> input core --> key thread
 print_log (every process, every thread) --logger FIFO--> logger_rx_run --> socket, stdout
 logger client --chunk--> login --command FIFOs--> cmd_process of each process --log lines--> logger
 serial line --> uart thread --FIFO--> tx thread --socket--> server, until the rx thread finds it broken
 rx thread, SIGALRM, TCP server --event queue--> eMBPoll --> tx thread   (Modbus)
 window --ring--> application thread --socket--> board; the slot decodes the answer in the window's thread
 chip --interrupt--> interrupt thread --bus--> chip;  calls of the kernel --bus--> chip
```

What is hard here, and which properties make each component correct:

- *Queue.* The queue and the semaphore have separate mutexes, so a push and its
  wakeup are separate events. Correct: no object lost or doubled, order kept, no
  receiver asleep while an object waits for it, a receive that has a wakeup finds an object.
- *Protocol.* Bytes arrive in any pieces; frames may be cut off, joined, damaged.
  Correct: nothing stored outside the frame in work, whole frames assembled exactly,
  one acknowledgement for each request and none for anything else.
- *TCP server.* Completions of an old connection arrive while a new one is accepted,
  two other threads write to "the" session. Correct: one session to write to, no data
  or answer goes back to an earlier client, no socket left behind, a new client is
  always accepted.
- *Timer.* Threads register and remove actions while the timer's thread erases from the
  vector it walks. Correct: every action fires once for each period, removal is final,
  exhausted actions go, `stop` ends the loop, iterators are valid when used.
- *Logging.* Threads share a buffer, processes share a FIFO, the reader reads a
  stream. Correct: lines stay in their buffer, stay whole, nobody is stuck.
- *Device link.* A FIFO is a stream, and both readers look at the first message of a
  read only. Correct: what is not swallowed is applied in order, the status
  shown is the one last sent, every change is reported in the end.
- *Traffic light.* Two threads write the tick, one of them lamp by lamp. Correct: one
  lamp at a time, phases in order, dark after a stop, cycling while on.
- *Key of the board.* Edges come while the timer is armed and arm nothing. Correct: the last
  event is the line as it is.
- *Commands of the logger.* A login belongs to the process, ends when the next message comes late,
  lines merge into one chunk; two FIFOs in a circle; a restart makes new files. Correct: nothing is
  carried out without a login or by another process, and full FIFOs stop nobody.
- *Serial bridge.* The flag is tested, then the socket is written, while another thread finds it
  broken. Correct: bytes arrive in order and once, none is lost on a connection that is known,
  the bridge comes back.
- *Modbus.* Two threads, a signal handler that may come inside a machine, and the poll share a buffer and two
  machines, with one event every 100 ms. Correct: what came whole is executed once, as it came, with the result
  the protocol asks for; the answer goes to who asked; no assert fails but for the reasons named.
- *Desktop tool.* The thread that waits for an answer is not the one that decodes it. Correct: an
  answer is decoded for the command it answers.
- *Clock, touch screen, key file.* An interrupt thread and calls write one register, bytes of
  a transfer meet a chip that changes, one word holds the last change. Correct: the mode is as
  asked, a time read is one time, what is shown is what is touched, a read returns a new change.

## 2 Modules

Each component module declares the code's fields under their own names; variables
marked "history" are added for the properties and guard nothing except the bounds
named below. One action is one step that other threads can observe: a critical
section, a handler of the io thread, one system call. Definitions under a comment
`Mutant:` are wrong variants of the definition after them; no specification uses
them, they show that each property can fail.

**FifoChannel** is the abstract specification of an inter-thread queue: put, take the
oldest, give up; an item that stays is taken in the end.

**ThreadQueue** (`thread_queue.hpp`, `semaphore.hpp`). `SendPush` and `SendSignal` are
the two critical sections of `send`; `ReceiveWait`/`Timeout` and `ReceivePop` those of
`receive`. The predicate of `wait_for` is `Claim` (take a wakeup) or `Block`;
`notify_one` picks any blocked thread, `SpuriousWakeup` is the condition variable's
own. `receiving[r]` is where the thread is. The refinement to `FifoChannel` maps
`chan` to `queue_` and `result` to itself: a push is a `Put`, a pop a `Take`, a
timeout a `GiveUp`, everything else a stutter.

**Protocol** (`protocol.cpp`, `tcp_rx_run`). One action is one byte through
`check_rx_frame` with the reaction of the loop to its result; `RxEmpty`, `RxHead`,
`RxData` are its three branches. The buffer is the array, with stale bytes of earlier
frames left in it, because the code reads the length byte before it knows that it
is one. The crc is any function of bytes. `aligned`, `arrived` are history: the
parser does not see where chunks end.

**AsioServer** (`asio_server.cpp`, `tcp_thread.cpp`). Clients connect, send and
vanish; `CompleteAccept`, `CompleteRead` put completions into `ready`, and the io
thread runs one handler after the other. The accept handler is three actions
(`HandleAccept`, `CloseSession`/`LeaveSession` for each old session, `StartSession`)
because the rx and tx threads may write in between. A session is a `shared_ptr`: its
socket closes when the group, the armed read and the waiting completions have let go
of it. asio and the clients are external.

**TimerManage** (`timer_manage.hpp`, `.cpp`). `Enter`, `Test`, `Wait`, `RunBegin`,
`RunLocked`, `Woken` follow the loop of `timer_struct::run`; `RunBegin`/`RunLocked`
and `RemoveBegin`/`RemoveLocked` are split where the code calls `begin()` before it
locks. `generation` counts the storages of the vector, so an iterator is the number of
the storage it points into. Using an iterator of an earlier storage is undefined
behaviour: `undefined` becomes true and nothing goes on.

**LogManage** (`logger_manage.cpp`, `logger_rx_run`). `Format` is what `print_log` does
under its mutex, `EndLine` and `Send` what it does after. A byte is a pair of whose it
is and where it belongs, so a torn line and a lost byte can be told. `write` to the
FIFO is one piece (lines are shorter than `PIPE_BUF`) and blocks while it is full.

**DeviceLink** (`device_manage.cpp`, `device_process.cpp`, `cmd_process.cpp`). Both FIFOs,
with everything that writes to them; a read takes all that waits, and what lies behind the
first message is recorded in `dropped`. LED stands for the four devices of
`process_hardware`, which treats them alike. The FIFOs are open and neither process restarts.

**KeyInput** (`kernel_input.c`, `key.cpp`) puts the key under `DeviceLink`: `Edge`, `KeyHandler`
(arms the timer unless `protect` says that it is armed), `KeyTimerFunc` (reads the line, reports),
`KeyRun` (the thread that reads events and sends the LED command). `KeySpec` is the composition:
the commands of `cmd_process` and those of the key meet in one FIFO. `KEY_NUM` and `KEY_ENTER` are constants
because the two sides name different keys (section 6).

**LoopLed** (`loopled.hpp`). The refresh is one action to load the tick, one to choose
the branch, one for each lamp that is written, one to count. `tick` is a plain integer
that two threads write: if it is reset during a refresh, the refresh may have seen
the old or the new value in each of its comparisons and in the increment.

**ModbusRegisters** (`mb/functions`, `mb/port/mbport.cpp`) is the pure part: the ten function
handlers on a frame buffer, with the register callbacks and the packing of bits, and beside them what the
master asked for (`CarriedOut`), written bit by bit and register by register instead of by shifts and windows.

**ModbusRtu** (`mbrtu.c`, `mb.c`, the port). One action is one step of the receive machine, one
step of the signal handler (post, stop, idle), one event of `eMBPoll`, one call of the
transmit machine. The receive machine holds no mutex, so the handler may run between any two of its
steps: `Reads` is the assert, the byte (`ucByte`) and the choice of the branch, and the label `rx` says what is still to
do of it, that is to store the byte, to change the state, to start the timer. A byte and the index that counts it are
one step. A failed `assert` sets `aborted` and nothing goes on. Intact frames are the
constant `Frames`: the CRC decides between these and the rest.

**ModbusAscii** (`mbascii.c`) is the second mode on the same port, buffer and poll, so it extends `ModbusRtu`. Its receive
machine goes step by step in the same way, with labels of its own (the digit, the state, the event and the timer are
written apart). A digit stored behind the buffer, when another thread has moved the index, leaves the buffer as it is.
A character is a digit's value or one of four others; the digits are put together and
taken apart as in the code, and the LRC is computed. A character that is no digit is read as 255, so that only the
LRC can give it away: where it does not, the history `mishaps` notes "misread". It notes as well a character after the timeout
("late") and one after CR ("stray").

**ModbusTcp** (`mbtcp.c`, `porttcp.cpp`). The thread of the server copies, notes the size, posts: three
actions, since `eMBPoll` may look in between. A PDU behind the buffer's used bytes reads what was there.

**ModbusSlave** is the three modes: `mode` is chosen at the start and never changes, tables, event queue and
`usLength` are shared. Its properties are those of the modes together.

**DesktopTool** (`protocol.h`, `appthread.cpp`, `tcpclient.cpp`). `QueuePost`/`QueuePend` are the ring, `Connect`,
`SendBlock`, `WaitForBytesWritten`, `WaitForReadyRead`, `Acquire` the exchange, `Slot` the steps of `dataReceived` in the
thread of the window. The ring implements `FifoChannel`. Qt and the board are external.

**CommandRoute** (`log_process.cpp`, `cmd_process.cpp`, `fifo_manage.cpp`). `Login`, `Announce`, `Dispatch`, `Passwd`, `Logout`
are the io thread; `Forward` the logger's reader; `DeviceRead`, `DeviceRun` a process. `Login` is two actions with a log line
between them when a login has ended: behind the line, however long the FIFO kept it waiting, `Renew` takes the time
again, and a password in that message counts from then. Each life of the logger
has FIFOs of its own; a process keeps those it opened. `Dies`/`Starts` come at any point.

**SerialBridge** (`serial.cpp`, `asio_client.cpp`). The tx thread is read, test of the flag, write; the rx thread is
connect, set the flag, read until it fails, wait. A write on a broken socket throws and ends the process.

**RtcAlarm** (`kernel_bus_rtc.c`): the second control register, read, changed and written back by the interrupt thread
without the lock of the calls; the probe registers the clock before it requests the interrupt.
**RtcClock**: the transfers of a time, byte by byte, on the emulated chip, with its BCD registers, its offset
from the host and its timer. **TouchScreen** (`goodix_ts_i2c.c`): status, points, report, clear as single
transfers, with touches in between. **KeyNode** (`kernel_key_async.c`, `kernel_key_rwio.c`): the word, its timer,
readers that sleep and an application that reads when it is signalled.

**Board** has `LoopLed`, `RtcAlarm`, `RtcClock`, `TouchScreen` and `KeyNode` in one specification. The devices share
no state, so a behaviour of `Board` is one of one device (`device` is chosen at the start). The
fairness of threads that belong to different devices stands in one `WF`: only one of them ever has steps.

`MC*` modules give the constants that a `.cfg` cannot express, and say what the instance
is. No configuration replaces a definition.

## 3 Runs

| Run | Instance | Distinct states | What it shows |
|---|---|---|---|
| `thread_queue` | 2 senders, 2 receivers, 2 objects, queue of 3 | 4,941 | `WakeupsMatch` (lengths and wakeups match up to the threads in their windows; no lost wakeup), the queue implements `FifoChannel`, liveness included |
| `protocol` | bytes 0..4, four frames, all their beginnings, wrong crcs and noise, 2 arrivals | 43,087 | nothing outside the frame in work, whole frames exact, each request acknowledged once and in order |
| `asio_server` | 2 clients, 2 chunks each, 1 message of the application | 149,770 | one session to write to, `ClientsKeptApart` (chunks session by session, no acknowledgement to an earlier client), no socket leak, clients accepted |
| `timer` | 1 client, 5 kinds of actions, 3 registrations, 5 ticks | 1,195,284 | schedule exact under erasure and registration, removal final, `stop` ends the loop |
| `log` | 3 threads in 2 processes, buffer 7, read 5, FIFO 9, 3 lines | 16,420 | lines inside the buffer, torn by threads of the same process only, loss only at a full read |
| `device` | 2 commands, 2 key events of any bounces, FIFOs of 2 | 1,967,928 | `AppliedAsSent` (LED and level as last asked unless swallowed, status as sent), no edge lost, every change reported |
| `modbus` | three modes; 12 frames, 1 overlong one, 11 texts, 3 requests and 2 other segments; buffer 18 | 561,782 | `ExecutedAsReceived`, `AbortsAsTold`, `AnswersGoBack`, `ExecutesAsAsked`, `RequestsServed` |
| `modbus_sent` | the same | - | violated: section 6 |
| `desktop` | ring of 2, 3 commands, one of them an upload of 1 block (two exchanges) | 806,805 | an answer is decoded for its command and block; the ring implements `FifoChannel`, liveness included |
| `route` | 2 processes, 3 lines, FIFOs of 1, time 2, login time 0, 2 deaths | 1,753,967 | `RunAsAllowed` (by a login that holds, by the process it is for, once, in order), `NobodyStuck` |
| `bridge` | 4 bytes, FIFO 2, reads of 2, 2 breaks | 152,607 | bytes in order, once, none lost on a known connection; the bridge reconnects |
| `board` | cycle of 2, 4, 6, 8 ticks and 5 calls; 4 alarms and 4 calls; 3 seconds and a reset; 3 touches of none to too many fingers and a failed transfer; 5 edges, 2 reads | 267,024 | `OneLamp`, `PhaseOrder`, `StateFollowed` (light); `ModeAsAsked`, `AlarmReported`, `TimeIsNow` (clock); `ShownIsTouched`, `TouchShown` (screen); `ReadIsNew`, `ChangeTaken` (key) |

A property that joins several statements about one thing is the conjunction of named ones, each
stated in its module.

Why the bounds are enough for what is asked:

- *thread_queue*: two threads on each side open both windows at once on both sides; a queue of
  three has an object more than any window can hold. `MaxQueue` is a bound of the model,
  not of the code (a full queue only disables a send). Beyond the bound: section 5.
- *protocol*: with bytes 0..4 the length byte takes every value from "none" to the largest
  frame and head bytes occur in payload, sequence number and crc. Two arrivals suffice for
  "cut off, then continued by another frame"; that a third could find other stale bytes in the buffer
  is covered by the proof of `FrameInBuffer` for every stream. The crc of the instance notices each single changed byte.
- *asio_server*: what goes wrong needs an old and a new session; two chunks let one be read and one wait.
- *timer*: one-shot, limited, period 0 and endless actions and one that is to fire more often than "always" (which is 3 here), two ids with duplicates; three
  registrations make the vector grow twice and leave an erased action in the middle. `MaxTicks`
  bounds the runs that find actions, so `StopEndsLoop` makes an exception exactly there.
- *log*: the lengths 2, 4, 6, 7 are "short", "longest that fits", "no room for the end of line",
  "cut off". The read is shorter than the longest line and not a multiple of the shortest.
- *device*: two messages in a FIFO are needed to swallow one. The key may bounce without bound: the
  timer and the protect flag make its states finite.
- *modbus*: the tables are two bytes of bits and three registers, so that windows cross a byte and end at
  the last register. Two RTU or ASCII frames, the second begun at any step of the first (the bounds on bytes
  leave a first frame of any length); one timeout in the middle of one, at any step of the receive machine (it counts
  as the shortest frame in the bound on bytes). The frames ask for all ten functions and for one there
  is not, at the first, the last and the first missing register and at address 65535, which wraps to 0. Two TCP segments: one can overtake the other.
- *desktop*: the upload of a file of one block has an exchange after an exchange; a ring of two can be full and wrap.
- *route*: FIFOs of one line close the circle at once; a tick is longer than a login lasts, so that a login can be
  renewed and kept within one and is lost with the next, and with two of them the clock goes on again between the
  end of a login and the second reading of it, behind the log line; two deaths are one of the logger and one of a process, or two of one.
- *bridge*: FIFO and read shorter than the bytes, so that they fill; the second break falls into the reconnection.
- *board*: every phase of the light has a tick of its own and ticks between, five calls turn it off and on
  twice. The clock is set around the end of a year and a leap day. The third touch is after one that
  fell into the handler's window. Five edges are two changes and a bounce.

`thread_queue` and `device` check for deadlock; the other systems may stop because
clients, callers, lines, touches or registrations are bounded.

Conditions that some properties carry say what the code does not promise: `~failed` in the server
(after a failed write an old session may still be read, see section 6), `dropped` in the device
link, `~raced` for the lamps, `torn = {}` for the reader, `~overrun` for Modbus (a byte or a segment
came before the last request was done with, or the timer was seen to inside the receive machine),
`~left` for the desktop tool (a slot or a token was left over), `mishaps` for ASCII, `missed`,
`sure` and `disturbed` for the drivers. Each is false in many of the states of its run and true in
many, and each is one variable that a step of the code sets.

## 4 Fairness

- `ThreadQueue`: a sender that has pushed signals, a receiver that can run runs. `eMBPoll`
  calls `receive` for ever. No fairness on timeouts, spurious wakeups or new sends: an object
  must not need them to be received.
- `Protocol`: `tcp_rx_run` loops on a blocking read. The peer and the clock owe nothing.
- `AsioServer`: the io thread (`io_context.run()`), the kernel's completions, the rx and tx
  threads, all of which loop. Clients and application owe nothing.
- `TimerManage`: the thread runs; strong fairness on the expiry of the wait (`RunBegin`), since
  `Woken` may end a wait early but the kernel does not do so for ever. A `stop` or `remove_action`
  begun is finished.
- `LogManage`: threads inside `print_log` go on, the reader loops on a blocking read.
- `DeviceLink`, `KeyInput`: the timer sends its loop event for ever; both readers loop. The interrupt thread, the
  key's timer and its reader owe nothing: what is reported must not need them.
- `LoopLed`: the timer refreshes for ever; a `set_state` begun is finished.
- `ModbusRtu`, `ModbusAscii`: the rest of a frame that has begun follows, the receive machine comes to the end of a byte, the
  timer expires when the line is silent and the machine is between two calls, the handler ends, `eMBPoll` is called for ever, the transmit thread runs. Masters owe no new frame.
- `ModbusTcp`: the server's thread and `eMBPoll`. Clients owe nothing.
- `DesktopTool`: the window's event loop and the application thread. The board owes no answer: the waits of
  the exchange have timeouts.
- `CommandRoute`: io thread, reader and the thread of each process that is up. Nobody must start again.
- `SerialBridge`: the uart, tx and rx threads and the end of the initialisation. The server owes nothing; `Reconnects`
  is about a server that accepts for good.
- `RtcAlarm`, `TouchScreen`, `KeyNode`: probes end, interrupt threads and timer functions run when they are due, a
  signal is delivered, a read that has begun goes on while it can. `RtcClock` has safety only.

## 5 Proofs

`CommonProofs`, the queue (any finite sets of senders and receivers, any objects, any bound):

- `TypeCorrect`, `SemaphoreServes`, `ReceiveFindsObject` from one inductive invariant, `IInv == TypeOK /\
  TokensMatchItems /\ NoLostWakeup`. `TokensMatchItems` counts threads between their critical sections, so each step
  needs how a cardinality changes when one thread moves (lemmas on adding to and removing from a finite set).
  `NoLostWakeup` is inductive by itself on top of the types. `ReceiveFindsObject` follows: a claimed wakeup is
  counted, so the queue is not empty, which is what the pop needs to be a `Take`.
- `ChannelRefinement`: `Spec => Channel!Safe` for the mapping in the module. The pop is the only step that needs the
  invariant.

`CommonProofs`, the timer (any requests, any number of clients):

- `TimerTypeCorrect`, `ActionsFireOnSchedule`, `RemovedStaysGone` from `TimerInv`: the schedule is said of every
  action of the vector at every step (`Sched`), not only where the property looks. What `run` leaves of the vector is
  a filter; that it keeps, in order and once each, the actions that are to stay (`KeptItems`) is by induction over its
  length.

`ProtocolProofs` (every byte size, every receive buffer larger than the longest frame, every crc, every stream of
bytes in every division):

- `ProtocolTypeCorrect` and `FrameStaysInBuffer` from `IInv == TypeOK /\ FrameInBuffer`. Neither is inductive alone:
  that the index stays inside the array needs that a frame in work is shorter than its length byte says, and this
  needs that the length byte is a byte. The subtle case is size 5, where the length byte that is compared is a stale
  one.
- `FramesAssembled` and `RequestsAckedOnce` from `StreamInv`, which adds that the parser keeps the first byte of a
  head, is at work while a frame of the stream is, and that what it acknowledged is what the chunks read so far ask
  for (`AcksOf`, by induction over the chunks). They are about a peer that lays its frames out as `send_msg` does
  (`FrameAssumption`); what else the line brings is any bytes.

`BoardProofs` is about the devices of `Board`, as `Board` runs them:

- The light (every length of the phases, any number of calls of `set_state`). `LoopLedTypeCorrect`: the tick stays in
  the cycle even when resets fall into a refresh. Inductive with `Counting`: a refresh that is going to count has
  seen, and finds, a tick below the end, because all another thread can have done to it is to set it to 0.
  `NeverTwoLamps` and `PhasesInOrder` from `LampInv`, which says for each write that a refresh has still to do which
  lamps may be lit before it and which was lit last. `OneLamp` alone is not inductive: that yellow may be lit depends
  on green having been put out by an earlier write of the same refresh, and that no other lamp was lit on the tick at
  which it began. The condition `~raced` enters where the branch is chosen: without a reset the tick that was loaded
  is the tick. `BoardLamps` has both on the board.
- The alarm (any number of calls and alarms): `ModeIsAsAsked`. What the interrupt thread holds of the register
  between its read and its write is still what is in it, unless a call came in between (`AlarmInv`).
- The clock (any times, ticks, transfers, resets): `TimeReadIsNow`. The invariant says byte by byte that what has been
  read is the code of one second, at which the clock stood since the call began: from the first byte on the chip holds
  its registers. That a code is decoded to what was encoded, and that days and seconds are the same calendar, are
  lemmas. The times are those before 2100 (`Assumption` of `RtcClock`): the chip has two digits of the year.
- The touch screen (any number of fingers, any touches): `LastTouchIsShown`. Where a touch is, in the chip, on its way
  or in the slots, it is the last, and the slots that are known are those it set.
- The key file (any readers, edges, reads): `ReadersGetNew`. A reader that has checked the word finds it new until
  another takes it (`Checked`), and a word that is new is of a change that nobody has seen (`WordIsNew`).

`KeyInputProofs` (any levels and readings, any bounds, a key that bounces as it likes; for `KeySpec`, that is for
commands of both processes and of the key):

- `LinkInOrder`, the three statements of `AppliedAsSent`, from `LinkInv`. What is applied now says nothing about a
  message that still waits, so the invariant is about the last one of its kind: wherever the last LED command is, in
  the FIFO, in the reader's hands or applied, it carries what was asked last, unless a read has swallowed one
  (`LastSet`); the same of the level (`LastSync`) and of the status (`LastInfo`).
- `LineIsReported` from `KeyInv`: `protect` is set only while the timer is armed, so an edge that arms nothing has an
  armed timer after it, and the report that comes last reads the line after the last edge.

`TcpProofs`, the server (any number of clients, chunks and messages):

- `GroupIsOne`, `ClientsAreApart` and `SocketsHeld` from `IInv == Order /\ Held /\ Flow` above the types. `Order`: an
  accept is armed once, sessions are accepted in increasing order, so the group holds the latest or none. `Held`: who
  keeps a socket open at each point between two handlers. `Flow`: chunks in the FIFO, in completions and in the stream
  are in the order of their sessions. `ChunksInOrder` and `AcksGoForward` are the halves of `ClientsAreApart`.

`TcpProofs`, the client of `lower_device` (any sizes, any number of breaks): `BridgeTypeCorrect`, and `Delivery`, that
bytes arrive in order, once, and are thrown away only while the connection is broken, not yet made or not yet
announced. The invariant puts the bytes in order over all places: with the server, with the tx thread, in the FIFO, on
the line.

`LoggerProofs`:

- The reader (any buffer size, any threads in any processes): `LinesFit`, `TornByPeers`, `LossWhenFull`. A thread at
  work has a line that fits, with its end (`Fits`); a thread that has its process alone owns the buffer between
  `Format` and `Send` (`Own`), so what it sends is whole; what the reader leaves in the FIFO ends where a line ends
  (`Ended`).
- The commands (any processes, lines, sizes of FIFOs, times and restarts): `CommandsRunAsAllowed`. `LoginInv` ties the
  login that the code keeps as a flag and a time to the calls that were made since a password (`Chain`, over the times
  `login` took, which are two for the message that ends a login); `HeadInv`
  says of the first line wherever lines are, an old life's FIFO included, that it was allowed and is for that process;
  `OrderInv` that lines are in the order they were typed in each place and from each place to the one before it, so
  that none is carried out twice.

`ModbusProofs` (any requests, texts and segments, tables of any size, any bounds): `RequestsExecuted`, `AssertsFail`,
`AnswersReturned` from `SlaveInv`, which is one invariant for each mode.

- RTU (`RtuInv`): while nothing has come too early, the receive machine is at work on a byte with nothing else under way
  (`RtuAlone`), at most one of "a frame is received" and "execute" is queued, and
  what the buffer holds then is the frame that is expected next (`RtuFrame`).
- ASCII (`AsciiInv`; it was checked with TLC before it was proved): the text received so far is in the buffer digit by
  digit (`Stored`); while the machine is at work on a character the buffer may be a step behind the text, and the label
  says which (`Was` and `Written`, `Room` for the index, `RxState` for the state that is still to be set). The answer is put together character by character (`Spelled`), and the LRC of it is right: bytes
  and their LRC add up to 0 (`SumIs`), a low half put in with `|` is added (`OrIs`).
- TCP (`TcpInv`): while no segment has come too early, the request is in one of five places (`Resting`, `Copied`,
  `Posted`, `Taken`, `Replying`), and the header in the buffer is its own until the answer has left.
- Whatever the request is, a handler leaves an answer that fits the frame, with the function it was asked, and tables
  that are tables (`HandleIs`, for the ten functions; `CopyBitsIs` for the copying of bits).

  The tables and the frame buffer are assumed to have room for each other, as 256 bytes have for any answer
  (`AnswerAssumption`).

`DesktopToolProofs` (any size of the ring, any commands, uploads of any length):

- `RingIsChannel`, `Spec => Channel!Safe`. The free count is tested outside the lock. The invariant says that a test
  that succeeded still holds when the lock is taken, since one thread posts and one takes, that the indices are apart
  by the count, taken around the ring, and that the places in use hold commands.
- `AnswersInStep` from `StepInv`: unless a slot or a token was left over, all that the board has been asked, has sent,
  or that waits in the socket or in the window is of the command that was taken (`OwnCommand`); unless an answer was
  missed, it is of the block in work, and it is nothing, the first part or all of one answer (`OwnBlock`).

Only model-checked:

- all liveness (`RequestsServed`, `Reconnects`, `NobodyStuck`, `StopEndsLoop` and the others): `WF`, `SF`, `ENABLED`
  are beyond the prover, and with it `Channel!Spec` for both queues, of which the safety part is proved;
- `ExecutesAsAsked`: that each handler computes, bit by bit, what the master asked for. It compares two recursive
  definitions over the data; proved is what the other properties need of the handlers.

The library's induction theorems take an operator for a parameter and cannot be used; where these proofs need
induction over the natural numbers (the filter of the timer, the acknowledgements, the LRC, the copying of bits) they
go through the set of the numbers for which the fact holds (`NatInduction1`).

## 6 Disagreements of code and documentation

Run `modbus_sent` shows the first; the others were met while modelling, and the models have the
code's behaviour. Those that other properties run into are named there as conditions (section 3).

1. Modbus: `mbport.h:44` calls `EV_FRAME_SENT` "Frame sent". At the end of an answer the transmit machine clears the index of the
   transmit buffer (`mbrtu.c:313`, `portserial.cpp:90`), and only then the thread writes as many bytes as the index says
   (`portserial.cpp:76`): every answer is a write of no bytes. The models follow an answer to what is put together.
2. `protocol.hpp:163` says `rx_timeout_` is "used to check the receive continuous". It is set when a frame begins
   (`protocol.cpp:73`) and never read: a cut-off frame is completed with whatever arrives later, from another
   client too. (`FrameInBuffer` shows that this stays harmless for the buffer; `CleanStreamAcked` is stated for streams
   without fragments because of it.)
3. `asio_server.hpp:9` says a new connection disconnects the old one. After a failed write (`asio_server.cpp:118`) the old
   session has left the group with its read still armed, so the accept handler does not find it, and both sockets feed
   the FIFO until the old read fails.
4. `timer_manage.hpp:359` says `mutex_` protects the vector. `run` and `remove_action` call `begin()` before they lock
   (`timer_manage.cpp:26`); a `push_back` in between leaves an iterator into freed storage.
5. `logger_manage.hpp:101` says `mutex_` protects the output. It is released (`logger_manage.cpp:99`) before the end of line is
   added and the line is written; a second thread of the process overwrites the buffer.
6. `logger_tool/README.md:22` says messages shorter than 512 bytes do not conflict. The reader (`log_process.cpp:70`) puts a zero over
   the last byte it read; when several short lines wait, a read that fills its buffer ends inside one of them.
7. The comment in `eMBTCPSend` (`mbtcp.c:142`) says the header "is already initialized because the caller calls this
   function with the buffer returned by the previous call". The server's thread may have copied the
   next segment over it (`porttcp.cpp:50`): the answer then leaves under the other request's transaction.

What the code does where no text says otherwise, and the models therefore do too:

- *Modbus functions*: unused bits of the last byte of coils keep bits of the request (`mbfunccoils.c:101`); reading holding registers
  drops the high byte of the count (`mbfuncholding.c:184`); function 23 writes before a read that fails.
- *Modbus on the line*: a frame that fills the buffer to its last byte (`mbrtu.c:156`), and a byte while the slave answers
  (`mbrtu.c:230`, `289`) fail an assert. A signal inside the receive machine (`mbrtu.c:278`, `mbascii.c:239`) takes the frame
  and makes the state idle, the machine then starts the timer again, and the next expiry fails the assert (346, 423). In ASCII, anything but LF or `:` after CR deletes the frame and leaves the timer
  on (`mbascii.c:307`), and the handler asserts (423); the timeout is 200 microseconds whatever `MB_ASCII_TIMEOUT_SEC` says; an odd last
  digit is ignored. Over TCP a segment shorter than its header makes the length wrap (`mbtcp.c:119`).
- *Key*: the driver reports `KEY_ENTER`, 28, the application waits for `KEY_NUM`, 11 (`key.hpp:23`); a pressed key reads 0, so that press
  and release are exchanged. The run gives both codes as they are; the proofs are for any.
- *Serial bridge*: `serial_tx_fifo_` is constructed and never created (`serial.cpp:80`), so that what the server sends is dropped; the
  uart thread starts before the client is initialised; a write on a socket that has broken ends the process.
- *Desktop tool*: the buffer length of 1200 is passed as a `uint8_t` and becomes 176 (`include/protocol.h:133`); what the board
  answers to a block of an upload is not checked.
- *Drivers*: the clock is registered before its interrupt is requested (`kernel_bus_rtc.c:458`), the touch screen's interrupt before
  its input device is made, the key's node and interrupt before its timer (`kernel_key_async.c:308`); a reset of the emulated
  clock leaves the old timer armed. The test of `key_async` asks for the descriptor flags (`F_GETFD`) where it
  means the status flags, and so takes `O_NONBLOCK` away: its reads wait.

## 7 What is not modelled

- *MQTT*: `mqtt_manage` is started only with a broker in the configuration, and its connection, retries and queues are
  those of libmosquitto; the code here publishes and decodes one message at a time. That `is_connet_` is never
  reset (`mqtt_process.cpp:92`), so that messages after a lost connection are handed to a client that has none, is the first
  thing a model of it would have to show.
- *FIFO wrapper*: errors of `mkfifo` and `open`.
- *AsioServer*: a full send buffer of the kernel (`async_write` then reads the caller's stack
  buffer later), and the bytes inside a chunk, which are `Protocol`'s.
- *Protocol*: the handlers of payloads (`process_rx_frame` builds an event string from one and
  logs it), `send_msg` with more than 255 bytes.
- *TimerManage*: a `stop` before the thread has entered its loop (`run` clears the flag, the stop is
  lost: the liveness property starts after that), version 1 of the structure, drift of the clock.
- *LogManage*: the text itself, levels, the ways on from the reader (socket, stdout, file).
- *DeviceLink*: the text of commands, BEEP and PWM (like LED), the system information of
  `device_process`, drivers that fail, restarts.
- *LoopLed*: a device that cannot be opened; write errors.
- *Modbus*: the signal in the middle of a critical section of the thread it interrupts (it comes between any two steps
  of the receive machine, but between the actions of the other threads); what the function codes mean over TCP
  (`ExecutesAsAsked` is about the serial modes, the handlers are the same); `eMBDisable`, `eMBClose`, which nothing calls.
- *CommandRoute*: the text of the lines a command logs; the steps of a restart of the logger (its FIFOs are made
  anew in one); a line that two chunks divide; the server below, which is `AsioServer`.
- *DesktopTool*: the serial and UDP transports, the windows, what is shown.
- *RtcClock*: a host zone with daylight saving, years after 2099. *KeyNode*: removal of the driver, reads that do not wait.
- *Configuration, terminal, single-access drivers of the application*: sequential input and output on one file; no
  behaviour that a model checker would add to.
- *Other kernel drivers, sensors of the emulator*: teaching variants of one driver each, and copies of drivers of the Linux
  kernel; the emulated sensors return constants.
- *Web server, C# tools, desktop windows, build scripts, root file system, vendored libraries*: no state of the
  management system. With the copies they are most of the lines of the repository, which is why the
  map covers a small share of them all.

## 8 Plan

Done, in the order of importance: FifoChannel, ThreadQueue, Protocol, AsioServer, TimerManage, LogManage, DeviceLink, LoopLed; the
composition with the key (KeyInput), the command route with restarts, the Modbus slave in its three modes, the desktop tool as
another implementation of FifoChannel, the serial bridge, the drivers of the clock, the touch screen and the key file, and Board.
Proofs of every safety property that a run checks, but for the one that section 5 names.

What would add most after that:

1. `DeviceLink` with a restart of `local_device` (new FIFOs, level read from its own configuration), as `CommandRoute` has it for
   the logger.
2. The desktop tool and `main_process` on one connection: `DesktopTool` over `Protocol` and `AsioServer`, with the abstract
   specification that a request is answered at most once, by its own number.
3. MQTT: connection flag, publish, request and reply.
4. Proofs: `ExecutesAsAsked`, one handler at a time, beginning with those that move registers; for the bits a lemma that a bit copied is the bit
   read, on top of `CopyBitsIs`. Type invariants of the components that have none listed as a theorem of its own.
