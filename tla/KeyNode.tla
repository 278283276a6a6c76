------------------------------- MODULE KeyNode -------------------------------
(***************************************************************************)
(* The key as a device file: the drivers mod/06.key/key_async and          *)
(* key_rwio, which differ in how a reader learns that there is something   *)
(* to read, and the application of key_async/test, which reads when it is  *)
(* signalled.  One word holds the last change of the key until it is read. *)
(* The interrupt thread arms a timer of 50 ms unless one runs; the timer   *)
(* function runs to its end on the one core of the board, and may come     *)
(* between any two steps of a reader.                                      *)
(***************************************************************************)
EXTENDS Naturals

CONSTANTS App,       \* the application that is signalled
          Others,    \* readers that wait in read or in poll
          MaxEdges,  \* bound on the edges of the line
          MaxReads   \* bound on the reads of the others

\* What the constants have to be; Board assumes it.
Assumption == {MaxEdges, MaxReads} \subseteq Nat /\ App \notin Others

Readers == {App} \cup Others

VARIABLES value,      \* of the line
          irq,        \* an edge came, and the interrupt thread has not run
          protect, key_timer, key_value,
          status,     \* KEY_PRESS, KEY_RELEASE or KEY_KEEP
          async_queue,  \* the application has asked to be signalled
          sigio,      \* a signal is pending
          probe,      \* how far key_probe is
          dead,       \* the interrupt thread found a timer without a function
          pc,         \* where each reader is in key_read
          edges, reads,
          change,     \* history: how often the key has changed
          seen,       \* history: changes that have been copied to a reader
          told,       \* history: the last change raised a signal
          new,        \* history: the word a reader has copied is a change nobody had
          disturbed   \* history: something came between its check and its copy

vars == <<value, irq, protect, key_timer, key_value, status, async_queue, sigio, probe, dead, pc,
          edges, reads, change, seen, told, new, disturbed>>
driver == <<protect, key_timer, key_value, change, told>>
reader == <<pc, reads, seen, new, disturbed>>

\* devm_kzalloc has cleared the structure: the word is KEY_PRESS.
Init == /\ value \in {0, 1} /\ irq = FALSE
        /\ protect = 0 /\ key_timer = FALSE /\ key_value = value
        /\ status = "PRESS" /\ async_queue = FALSE /\ sigio = FALSE
        /\ probe = "requested" /\ dead = FALSE
        /\ pc = [r \in Readers |-> "idle"] /\ edges = 0 /\ reads = 0
        /\ change = 0 /\ seen = {0} /\ told = FALSE
        /\ new = [r \in Readers |-> FALSE] /\ disturbed = [r \in Readers |-> FALSE]

-----------------------------------------------------------------------------
(* key_probe, from the request of the interrupt on: the device file is     *)
(* made, and then the word, the queue and the timer are set up.            *)

key_device_create ==
    /\ probe = "requested" /\ probe' = "created"
    /\ UNCHANGED <<value, irq, driver, status, async_queue, sigio, dead, reader, edges>>

ProbeEnds ==
    /\ probe = "created" /\ probe' = "done"
    /\ status' = "KEEP" /\ protect' = 0
    /\ UNCHANGED <<value, irq, key_timer, key_value, change, told, async_queue, sigio, dead,
                   reader, edges>>

-----------------------------------------------------------------------------
(* The interrupt and the timer. *)

Edge == /\ edges < MaxEdges /\ edges' = edges + 1
        /\ value' = 1 - value /\ irq' = TRUE
        /\ UNCHANGED <<driver, status, async_queue, sigio, probe, dead, reader>>

key_handler ==
    /\ irq /\ ~dead /\ irq' = FALSE
    /\ protect' = 1
    /\ key_timer' = (key_timer \/ (protect = 0 /\ probe = "done"))
    /\ dead' = (protect = 0 /\ probe # "done")
    /\ UNCHANGED <<value, key_value, change, told, status, async_queue, sigio, probe, reader, edges>>

Woken == [r \in Readers |-> IF pc[r] = "asleep" THEN "check" ELSE pc[r]]

\* Mutant: nobody is woken.
ChangedQuietly == /\ status' = IF value = 1 THEN "PRESS" ELSE "RELEASE"
                  /\ sigio' = (sigio \/ async_queue) /\ told' = async_queue
                  /\ change' = change + 1
                  /\ UNCHANGED <<pc, disturbed>>

\* The word is written, the readers are woken and the application is signalled.
Changed == /\ status' = IF value = 1 THEN "PRESS" ELSE "RELEASE"
           /\ pc' = Woken
           /\ sigio' = (sigio \/ async_queue) /\ told' = async_queue
           /\ change' = change + 1
           /\ UNCHANGED disturbed

\* A key that has bounced takes a change away that has not been read.
Unchanged == /\ status' = "KEEP"
             /\ disturbed' = [r \in Readers |-> disturbed[r] \/ pc[r] = "copy"]
             /\ UNCHANGED <<pc, sigio, told, change>>

key_timer_func ==
    /\ key_timer /\ key_timer' = FALSE /\ protect' = 0
    /\ key_value' = value
    /\ IF value # key_value THEN Changed ELSE Unchanged
    /\ UNCHANGED <<value, irq, async_queue, probe, dead, reads, seen, new, edges>>

-----------------------------------------------------------------------------
(* Readers. *)

\* fcntl with FASYNC; what it sets leaves O_NONBLOCK out, so the reads block.
key_fasync ==
    /\ probe # "requested" /\ ~async_queue /\ async_queue' = TRUE
    /\ UNCHANGED <<value, irq, driver, status, sigio, probe, dead, reader, edges>>

\* The application reads in its signal handler, one signal at a time.
Enters(r) == /\ probe # "requested" /\ pc[r] = "idle"
             /\ pc' = [pc EXCEPT ![r] = "check"]
             /\ disturbed' = [disturbed EXCEPT ![r] = FALSE]
             /\ UNCHANGED <<value, irq, driver, status, async_queue, probe, dead, seen, new, edges>>

sigio_signal_func == sigio /\ sigio' = FALSE /\ Enters(App) /\ UNCHANGED reads

Read(r) == /\ reads < MaxReads /\ reads' = reads + 1
           /\ Enters(r) /\ UNCHANGED sigio

\* wait_event_interruptible.
Check(r) == /\ pc[r] = "check"
            /\ pc' = [pc EXCEPT ![r] = IF status = "KEEP" THEN "asleep" ELSE "copy"]
            /\ disturbed' = [disturbed EXCEPT ![r] = probe # "done"]
            /\ UNCHANGED <<value, irq, driver, status, async_queue, sigio, probe, dead, reads,
                           seen, new, edges>>

Between(r) == \E other \in Readers \ {r} : pc[other] \in {"copy", "reset"}

Copy(r) == /\ pc[r] = "copy" /\ pc' = [pc EXCEPT ![r] = "reset"]
           /\ new' = [new EXCEPT ![r] = status # "KEEP" /\ change \notin seen]
           /\ seen' = IF status = "KEEP" THEN seen ELSE seen \cup {change}
           /\ disturbed' = [disturbed EXCEPT ![r] = @ \/ Between(r) \/ probe # "done"]
           /\ UNCHANGED <<value, irq, driver, status, async_queue, sigio, probe, dead, reads, edges>>

\* Mutant: the word is left as it is.
ResetNothing(r) ==
    /\ pc[r] = "reset" /\ pc' = [pc EXCEPT ![r] = "idle"]
    /\ UNCHANGED <<value, irq, driver, status, async_queue, sigio, probe, dead, reads, seen, new,
                   disturbed, edges>>

\* Also of a change that came after the copy.
Reset(r) ==
    /\ pc[r] = "reset" /\ pc' = [pc EXCEPT ![r] = "idle"]
    /\ status' = "KEEP"
    /\ disturbed' = [other \in Readers |-> disturbed[other] \/ pc[other] = "copy"]
    /\ UNCHANGED <<value, irq, driver, async_queue, sigio, probe, dead, reads, seen, new, edges>>

key_read(r) == Check(r) \/ Copy(r) \/ Reset(r)
key_probe   == key_device_create \/ ProbeEnds

Next == \/ key_probe \/ Edge \/ key_handler \/ key_timer_func
        \/ key_fasync \/ sigio_signal_func
        \/ \E r \in Others : Read(r)
        \/ \E r \in Readers : key_read(r)

\* The driver goes on, the signal is delivered, and who has begun to read goes on.
Spec == /\ Init /\ [][Next]_vars
        /\ WF_vars(key_probe) /\ WF_vars(key_handler) /\ WF_vars(key_timer_func)
        /\ WF_vars(sigio_signal_func) /\ \A r \in Readers : WF_vars(key_read(r))

-----------------------------------------------------------------------------
TypeOK ==
    /\ {value, protect, key_value} \subseteq {0, 1}
    /\ {irq, key_timer, async_queue, sigio, dead, told} \subseteq BOOLEAN
    /\ status \in {"PRESS", "RELEASE", "KEEP"} /\ probe \in {"requested", "created", "done"}
    /\ pc \in [Readers -> {"idle", "check", "asleep", "copy", "reset"}]
    /\ edges \in 0 .. MaxEdges /\ reads \in 0 .. MaxReads /\ change \in Nat
    /\ new \in [Readers -> BOOLEAN] /\ disturbed \in [Readers -> BOOLEAN]

\* What a reader gets is a change of the key that no read has returned before,
\* however the timer, the wake-ups and the reset of the word fall: unless another
\* reader was on the word too, a bounce took it away after the check, or the
\* probe had not ended.
ReadIsNew == \A r \in Readers : pc[r] = "reset" /\ ~disturbed[r] => new[r]

\* A change that the application has been signalled of is taken from the word, by
\* whoever reads it, by a bounce or by the reset of the read before: the
\* application neither misses the signal nor sleeps through the change.
ChangeTaken == (status # "KEEP" /\ told) ~> status = "KEEP"
=============================================================================
