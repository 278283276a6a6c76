------------------------------ MODULE DeviceLink ------------------------------
(***************************************************************************)
(* The two FIFOs between main_process (module/cmd_process.cpp,             *)
(* module/device_process.cpp) and local_device (device_manage.cpp).  Down  *)
(* the command FIFO come the commands of main_process, the LED toggles of  *)
(* the key thread and the loop events of the timer; up the info FIFO comes *)
(* the state of the hardware whenever a loop event finds it changed.  A    *)
(* FIFO is a stream: one read() returns all that waits in it, and both     *)
(* readers look at the first message of what they read, at no other.       *)
(***************************************************************************)
EXTENDS Naturals, Sequences

CONSTANTS Levels,        \* levels of logging
          Readings,      \* what the sensors and the clock show
          NoReading,     \* what cleared information holds instead
          MaxCommands,   \* bound on commands, key presses and readings
          MaxPending     \* bound on what waits in a FIFO; all of it fits into
                         \* one read of 512 bytes, twelve commands

ASSUME BoundAssumption == {MaxCommands, MaxPending} \subseteq Nat
ASSUME DataAssumption == Levels # {} /\ Readings # {} /\ NoReading \notin Readings

Led == {0, 1}

VARIABLES config_level,  \* main_process: local_device_level of system_config
          cmd_fifo,      \* LOCAL_DEVICE_CMD_FIFO
          cmd_read,      \* local_device: messages in rx_buffer_
          log_level,     \* local_device: level of its log_manage
          led,           \* the LED itself
          key_status,    \* local_device: the static status of the key handler
          reading,       \* the sensors themselves
          outer_info_,   \* local_device: what it last sent
          info_fifo,     \* LOCAL_DEVICE_INFO_FIFO
          info_,         \* main_process: what it last read
          info_str_,     \* main_process: what get_dev_status() returns
          asked_led,     \* history: the LED state last asked for
          issued,        \* history: commands, key presses and readings so far
          dropped        \* history: kinds of messages that were read, not used

main  == <<config_level, info_, info_str_>>
local == <<cmd_read, log_level, led, outer_info_>>
vars  == <<main, local, cmd_fifo, info_fifo, key_status, reading, asked_led, issued, dropped>>

LoopEvent    == [kind |-> "loop"]
HwSet(state) == [kind |-> "set", state |-> state]
Sync(level)  == [kind |-> "sync", level |-> level]
Info         == [led : Led, reading : Readings \cup {NoReading}]
Cleared      == [led |-> 0, reading |-> NoReading]

Init == /\ config_level \in Levels /\ log_level = config_level
        /\ cmd_fifo = <<>> /\ cmd_read = <<>>
        /\ led = 0 /\ key_status = 0 /\ asked_led = 0
        /\ reading \in Readings
        /\ info_fifo = <<>>
        /\ outer_info_ = Cleared /\ info_ = Cleared /\ info_str_ = Cleared
        /\ issued = 0
        /\ dropped = {}

-----------------------------------------------------------------------------
(* The writers of the command FIFO.  A message is written in one piece.    *)

Write(event) == Len(cmd_fifo) < MaxPending /\ cmd_fifo' = Append(cmd_fifo, event)
Issue        == issued < MaxCommands /\ issued' = issued + 1

\* The timer's handler for DEVICE_LOOP_EVENT, once a second.
TimerLoop ==
    /\ Write(LoopEvent)
    /\ UNCHANGED <<main, local, info_fifo, key_status, reading, asked_led, issued, dropped>>

\* The handler that the key thread calls when the key is pressed.
KeyPress ==
    /\ Issue
    /\ key_status' = 1 - key_status
    /\ Write(HwSet(1 - key_status))
    /\ asked_led' = 1 - key_status
    /\ UNCHANGED <<main, local, info_fifo, reading, dropped>>

\* cmd_process::process_device and device_process::set_device.
SetDevice(state) ==
    /\ Issue
    /\ Write(HwSet(state))
    /\ asked_led' = state
    /\ UNCHANGED <<main, local, info_fifo, key_status, reading, dropped>>

\* Mutant: the level is stored without being sent.
SyncLevelQuiet(level) ==
    /\ Issue
    /\ config_level' = level
    /\ UNCHANGED <<cmd_fifo, info_, info_str_, local, info_fifo, key_status, reading, asked_led,
                   dropped>>

\* cmd_process::sync_level: sent when it differs from the stored one.
SyncLevel(level) ==
    /\ Issue
    /\ IF config_level # level THEN Write(Sync(level)) ELSE UNCHANGED cmd_fifo
    /\ config_level' = level
    /\ UNCHANGED <<info_, info_str_, local, info_fifo, key_status, reading, asked_led, dropped>>

\* The world changes.
Sense(r) ==
    /\ Issue
    /\ r # reading /\ reading' = r
    /\ UNCHANGED <<main, local, cmd_fifo, info_fifo, key_status, asked_led, dropped>>

-----------------------------------------------------------------------------
(* device_manage::run *)

(* A read returns all that waits, and the readers use the first message.   *)
Behind(messages) == {messages[i] : i \in 2 .. Len(messages)}

DeviceRead ==
    /\ cmd_read = <<>> /\ cmd_fifo # <<>>
    /\ cmd_read' = <<Head(cmd_fifo)>>
    /\ dropped' = dropped \cup {m.kind : m \in Behind(cmd_fifo)}
    /\ cmd_fifo' = <<>>
    /\ UNCHANGED <<main, log_level, led, outer_info_, info_fifo, key_status, reading, asked_led,
                   issued>>

\* Mutant: the comparison ends before the readings.
UpdatePrefix ==
    LET inter_info_ == [led |-> led, reading |-> reading]
    IN  /\ IF led # outer_info_.led
           THEN /\ Len(info_fifo) < MaxPending /\ info_fifo' = Append(info_fifo, inter_info_)
                /\ outer_info_' = inter_info_
           ELSE UNCHANGED <<info_fifo, outer_info_>>
        /\ UNCHANGED <<led, log_level>>

\* Mutant: the buffer is filled before outer_info_ is assigned.
UpdateStale ==
    LET inter_info_ == [led |-> led, reading |-> reading]
    IN  /\ IF inter_info_ # outer_info_
           THEN Len(info_fifo) < MaxPending /\ info_fifo' = Append(info_fifo, outer_info_)
           ELSE UNCHANGED info_fifo
        /\ outer_info_' = inter_info_
        /\ UNCHANGED <<led, log_level>>

\* device_manage::update: read the hardware, send it if it has changed.
Update ==
    LET inter_info_ == [led |-> led, reading |-> reading]
    IN  /\ IF inter_info_ # outer_info_
           THEN Len(info_fifo) < MaxPending /\ info_fifo' = Append(info_fifo, inter_info_)
           ELSE UNCHANGED info_fifo
        /\ outer_info_' = inter_info_
        /\ UNCHANGED <<led, log_level>>

\* Mutant: an LED command is applied the wrong way round.
ProcessHardwareSwapped(event) ==
    led' = 1 - event.state /\ UNCHANGED <<log_level, outer_info_, info_fifo>>

ProcessHardware(event) == led' = event.state /\ UNCHANGED <<log_level, outer_info_, info_fifo>>

ProcessSync(event) == log_level' = event.level /\ UNCHANGED <<led, outer_info_, info_fifo>>

ProcessEvent ==
    /\ cmd_read # <<>>
    /\ LET event == Head(cmd_read)
       IN  \/ event.kind = "loop" /\ Update
           \/ event.kind = "set" /\ ProcessHardware(event)
           \/ event.kind = "sync" /\ ProcessSync(event)
    /\ cmd_read' = <<>>
    /\ UNCHANGED <<main, cmd_fifo, key_status, reading, asked_led, issued, dropped>>

-----------------------------------------------------------------------------
(* device_process::run: read the info, then publish it under the mutex.    *)

InfoRead ==
    /\ info_fifo # <<>> /\ info_ = info_str_
    /\ info_' = Head(info_fifo)
    /\ dropped' = dropped \cup {"info" : m \in Behind(info_fifo)}
    /\ info_fifo' = <<>>
    /\ UNCHANGED <<config_level, info_str_, local, cmd_fifo, key_status, reading, asked_led, issued>>

UpdateDeviceStatus ==
    /\ info_ # info_str_
    /\ info_str_' = info_
    /\ UNCHANGED <<config_level, info_, local, cmd_fifo, info_fifo, key_status, reading, asked_led,
                   issued, dropped>>

-----------------------------------------------------------------------------
\* Everything but the key, whose presses KeyInput makes out of what the key does.
LinkStep == \/ TimerLoop
            \/ \E state \in Led : SetDevice(state)
            \/ \E level \in Levels : SyncLevel(level)
            \/ \E r \in Readings : Sense(r)
            \/ DeviceRead \/ ProcessEvent
            \/ InfoRead \/ UpdateDeviceStatus

Next == KeyPress \/ LinkStep

(* The timer goes on for ever, and both readers loop on blocking reads.    *)
Fairness == /\ WF_vars(TimerLoop)
            /\ WF_vars(DeviceRead) /\ WF_vars(ProcessEvent)
            /\ WF_vars(InfoRead) /\ WF_vars(UpdateDeviceStatus)

Spec == Init /\ [][Next]_vars /\ Fairness

-----------------------------------------------------------------------------
Event == {LoopEvent} \cup {HwSet(s) : s \in Led} \cup {Sync(l) : l \in Levels}

TypeOK == /\ config_level \in Levels /\ log_level \in Levels
          /\ cmd_fifo \in Seq(Event) /\ Len(cmd_fifo) <= MaxPending
          /\ cmd_read \in Seq(Event) /\ Len(cmd_read) <= 1
          /\ {led, key_status, asked_led} \subseteq Led
          /\ reading \in Readings
          /\ {outer_info_, info_, info_str_} \subseteq Info
          /\ info_fifo \in Seq(Info) /\ Len(info_fifo) <= MaxPending
          /\ issued \in 0 .. MaxCommands
          /\ dropped \subseteq {"loop", "set", "sync", "info"}

Pending(kind) == \E i \in 1 .. Len(cmd_read \o cmd_fifo) : (cmd_read \o cmd_fifo)[i].kind = kind

(* Two processes and three threads write to the LED's queue: unless a read *)
(* swallowed a command, the LED ends up as the last of them asked for it.  *)
LedAsLastAsked == "set" \notin dropped /\ ~Pending("set") => led = asked_led

(* Unless a read swallowed one, a change of level that is no longer under  *)
(* way has been made: comparing with the stored level loses none.          *)
LevelAsStored == "sync" \notin dropped /\ ~Pending("sync") => log_level = config_level

(* main_process shows the state that local_device last sent, unless one    *)
(* read returned two of them.                                              *)
StatusAsSent ==
    "info" \notin dropped /\ info_fifo = <<>> /\ info_ = info_str_ => info_str_ = outer_info_

(* Whatever no read swallowed is applied as it was asked for, stored and   *)
(* sent, in both directions and from all who write to the FIFOs.           *)
AppliedAsSent == LedAsLastAsked /\ LevelAsStored /\ StatusAsSent

(* Every change of the hardware is sent in the end (or is undone), though  *)
(* loop events are swallowed, too.                                         *)
ChangeReported == <>[](outer_info_ = [led |-> led, reading |-> reading])
=============================================================================
