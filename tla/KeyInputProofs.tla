---------------------------- MODULE KeyInputProofs ----------------------------
(***************************************************************************)
(* The device link and its key for any levels and readings and any bounds. *)
(* Of the messages of a kind that wait, in the FIFO or already read, only  *)
(* the last one counts: it is what was asked for.  A step of the key is a  *)
(* step of DeviceLink or leaves it alone, so what DeviceLink keeps holds   *)
(* below the key as well.                                                  *)
(***************************************************************************)
EXTENDS KeyInput, SequenceTheorems, TLAPS

Kinds == {"loop", "set", "sync"}

Types == /\ cmd_fifo \in Seq(Event) /\ cmd_read \in Seq(Event) /\ Len(cmd_read) <= 1
         /\ info_fifo \in Seq(Info) /\ outer_info_ \in Info
         /\ led \in Led /\ reading \in Readings /\ key_status \in Led

None(kind, s) == \A i \in 1 .. Len(s) : s[i].kind # kind

\* i is where the last message of a kind is.
LastOf(kind, s, i) == /\ i \in 1 .. Len(s) /\ s[i].kind = kind
                      /\ \A j \in 1 .. Len(s) : i < j => s[j].kind # kind

LastSet == "set" \notin dropped =>
    /\ \A i \in 1 .. Len(cmd_fifo) : LastOf("set", cmd_fifo, i) => cmd_fifo[i].state = asked_led
    /\ None("set", cmd_fifo) =>
          /\ \A i \in 1 .. Len(cmd_read) : cmd_read[i].kind = "set" => cmd_read[i].state = asked_led
          /\ None("set", cmd_read) => led = asked_led

LastSync == "sync" \notin dropped =>
    /\ \A i \in 1 .. Len(cmd_fifo) : LastOf("sync", cmd_fifo, i) => cmd_fifo[i].level = config_level
    /\ None("sync", cmd_fifo) =>
          /\ \A i \in 1 .. Len(cmd_read) : cmd_read[i].kind = "sync" => cmd_read[i].level = config_level
          /\ None("sync", cmd_read) => log_level = config_level

LastInfo == "info" \notin dropped =>
    /\ info_fifo # <<>> => info_fifo[Len(info_fifo)] = outer_info_
    /\ info_fifo = <<>> => info_ = outer_info_

LinkInv == Types /\ LastSet /\ LastSync /\ LastInfo

-----------------------------------------------------------------------------
(* Messages and sequences of them.                                         *)

LEMMA Events ==
  /\ LoopEvent \in Event /\ LoopEvent.kind = "loop"
  /\ \A s \in Led : HwSet(s) \in Event /\ HwSet(s).kind = "set" /\ HwSet(s).state = s
  /\ \A l \in Levels : Sync(l) \in Event /\ Sync(l).kind = "sync" /\ Sync(l).level = l
  /\ \A e \in Event : /\ e.kind \in Kinds
                      /\ e.kind = "set" => e.state \in Led
                      /\ e.kind = "sync" => e.level \in Levels
  <1>1. LoopEvent \in Event /\ LoopEvent.kind = "loop"
    BY DEF Event, LoopEvent
  <1>2. \A s \in Led : HwSet(s) \in Event /\ HwSet(s).kind = "set" /\ HwSet(s).state = s
    BY DEF Event, HwSet
  <1>3. \A l \in Levels : Sync(l) \in Event /\ Sync(l).kind = "sync" /\ Sync(l).level = l
    BY DEF Event, Sync
  <1>4. ASSUME NEW e \in Event
        PROVE  /\ e.kind \in Kinds
               /\ e.kind = "set" => e.state \in Led
               /\ e.kind = "sync" => e.level \in Levels
    <2>1. CASE e = LoopEvent
      BY <1>1, <2>1 DEF Kinds
    <2>2. ASSUME NEW s \in Led, e = HwSet(s)
          PROVE  e.kind = "set" /\ e.state \in Led
      BY <1>2, <2>2
    <2>3. ASSUME NEW l \in Levels, e = Sync(l)
          PROVE  e.kind = "sync" /\ e.level \in Levels
      BY <1>3, <2>3
    <2> QED  BY <2>1, <2>2, <2>3 DEF Event, Kinds
  <1> QED  BY <1>1, <1>2, <1>3, <1>4

\* An event behind others is the last of its kind, and no other kind notices it.
Appended(s, e, t) ==
    /\ t \in Seq(Event) /\ Len(t) = Len(s) + 1 /\ t[Len(s) + 1] = e
    /\ \A i \in 1 .. Len(t) : LastOf(e.kind, t, i) => i = Len(t)
    /\ ~None(e.kind, t)
    /\ \A kind \in Kinds : kind # e.kind =>
          /\ None(kind, t) => None(kind, s)
          /\ \A i \in 1 .. Len(t) : LastOf(kind, t, i) => LastOf(kind, s, i) /\ t[i] = s[i]

LEMMA AppendLast ==
  ASSUME NEW s \in Seq(Event), NEW e \in Event, NEW t, t = Append(s, e)
  PROVE  Appended(s, e, t)
  <1>1. /\ t \in Seq(Event) /\ Len(t) = Len(s) + 1 /\ Len(s) \in Nat /\ t[Len(s) + 1] = e
        /\ \A i \in 1 .. Len(s) : t[i] = s[i]
    OBVIOUS
  <1>2. \A i \in 1 .. Len(t) : LastOf(e.kind, t, i) => i = Len(t)
    BY <1>1 DEF LastOf
  <1>3. ~None(e.kind, t)
    BY <1>1 DEF None
  <1>4. ASSUME NEW kind \in Kinds, kind # e.kind
        PROVE  /\ None(kind, t) => None(kind, s)
               /\ \A i \in 1 .. Len(t) : LastOf(kind, t, i) => LastOf(kind, s, i) /\ t[i] = s[i]
    <2>1. None(kind, t) => None(kind, s)
      BY <1>1 DEF None
    <2>2. ASSUME NEW i \in 1 .. Len(t), LastOf(kind, t, i)
          PROVE  LastOf(kind, s, i) /\ t[i] = s[i]
      <3>1. i \in 1 .. Len(s)
        BY <1>1, <1>4, <2>2 DEF LastOf
      <3> QED  BY <1>1, <2>2, <3>1 DEF LastOf
    <2> QED  BY <2>1, <2>2
  <1> QED  BY <1>1, <1>2, <1>3, <1>4 DEF Appended

\* A read that swallows none of a kind leaves its last message in front.
LEMMA ReadLast ==
  ASSUME NEW s \in Seq(Event), s # <<>>, NEW kind \in Kinds,
         kind \notin {m.kind : m \in Behind(s)}
  PROVE  /\ s[1].kind = kind => LastOf(kind, s, 1)
         /\ s[1].kind # kind => None(kind, s)
         /\ 1 \in 1 .. Len(s) /\ Head(s) = s[1] /\ <<Head(s)>> \in Seq(Event)
         /\ Len(<<Head(s)>>) = 1 /\ <<Head(s)>>[1] = s[1]
  <1>1. Len(s) \in Nat \ {0} /\ Head(s) = s[1] /\ s[1] \in Event
    OBVIOUS
  <1>2. \A i \in 2 .. Len(s) : s[i].kind # kind
    BY DEF Behind
  <1>3. s[1].kind = kind => LastOf(kind, s, 1)
    BY <1>1, <1>2 DEF LastOf
  <1>4. s[1].kind # kind => None(kind, s)
    BY <1>1, <1>2 DEF None
  <1> QED  BY <1>1, <1>3, <1>4

LEMMA AtMostOne ==
  ASSUME NEW S, NEW s \in Seq(S), s # <<>>, Len(s) <= 1
  PROVE  Len(s) = 1 /\ s[1] = Head(s) /\ Head(s) \in S
  <1>1. PICK n \in Nat : n = Len(s)
    OBVIOUS
  <1>2. n # 0 /\ n <= 1
    BY <1>1
  <1>3. n = 1
    BY <1>2
  <1>4. s[1] = Head(s) /\ s[1] \in S
    BY <1>1, <1>3
  <1> QED  BY <1>1, <1>3, <1>4

-----------------------------------------------------------------------------
LEMMA LinkInit == Init => LinkInv
  <1> SUFFICES ASSUME Init PROVE LinkInv
    OBVIOUS
  <1>1. Types
    BY DEF Init, Types, Info, Cleared, Led
  <1> QED  BY <1>1 DEF Init, LinkInv, LastSet, LastSync, LastInfo, None

\* What each of the writers of the command FIFO does to it.
LEMMA WriteStep ==
  ASSUME LinkInv, NEW e \in Event, Write(e),
         UNCHANGED <<local, info_fifo, info_, dropped>>, reading' \in Readings, key_status' \in Led,
         asked_led' = IF e.kind = "set" THEN e.state ELSE asked_led,
         config_level' = IF e.kind = "sync" THEN e.level ELSE config_level
  PROVE  LinkInv'
  <1>1. /\ cmd_fifo \in Seq(Event) /\ cmd_fifo' = Append(cmd_fifo, e)
        /\ UNCHANGED <<cmd_read, log_level, led, outer_info_, info_fifo, info_, dropped>>
    BY DEF LinkInv, Types, Write, local
  <1>a. Appended(cmd_fifo, e, cmd_fifo')
    BY <1>1, AppendLast
  <1>2. /\ cmd_fifo' \in Seq(Event) /\ Len(cmd_fifo') = Len(cmd_fifo) + 1
        /\ cmd_fifo'[Len(cmd_fifo) + 1] = e
        /\ \A i \in 1 .. Len(cmd_fifo') : LastOf(e.kind, cmd_fifo', i) => i = Len(cmd_fifo')
        /\ ~None(e.kind, cmd_fifo')
    BY <1>a DEF Appended
  <1>3. \A kind \in Kinds : kind # e.kind =>
            /\ None(kind, cmd_fifo') => None(kind, cmd_fifo)
            /\ \A i \in 1 .. Len(cmd_fifo') :
                  LastOf(kind, cmd_fifo', i) => LastOf(kind, cmd_fifo, i) /\ cmd_fifo'[i] = cmd_fifo[i]
    BY <1>a DEF Appended
  <1>4. Types'
    BY <1>1, <1>2 DEF LinkInv, Types
  <1>5. LastSet'
    <2>1. CASE e.kind = "set"
      BY <1>1, <1>2, <2>1 DEF LastSet
    <2>2. CASE e.kind # "set"
      <3>1. /\ None("set", cmd_fifo') => None("set", cmd_fifo)
            /\ \A i \in 1 .. Len(cmd_fifo') :
                  LastOf("set", cmd_fifo', i) => LastOf("set", cmd_fifo, i) /\ cmd_fifo'[i] = cmd_fifo[i]
        BY <1>3, <2>2 DEF Kinds
      <3>2. \A i \in 1 .. Len(cmd_fifo') : LastOf("set", cmd_fifo', i) => i \in 1 .. Len(cmd_fifo)
        BY <3>1 DEF LastOf
      <3> QED  BY <1>1, <2>2, <3>1, <3>2 DEF LinkInv, LastSet
    <2> QED  BY <2>1, <2>2
  <1>6. LastSync'
    <2>1. CASE e.kind = "sync"
      BY <1>1, <1>2, <2>1 DEF LastSync
    <2>2. CASE e.kind # "sync"
      <3>1. /\ None("sync", cmd_fifo') => None("sync", cmd_fifo)
            /\ \A i \in 1 .. Len(cmd_fifo') :
                  LastOf("sync", cmd_fifo', i) => LastOf("sync", cmd_fifo, i) /\ cmd_fifo'[i] = cmd_fifo[i]
        BY <1>3, <2>2 DEF Kinds
      <3>2. \A i \in 1 .. Len(cmd_fifo') : LastOf("sync", cmd_fifo', i) => i \in 1 .. Len(cmd_fifo)
        BY <3>1 DEF LastOf
      <3> QED  BY <1>1, <2>2, <3>1, <3>2 DEF LinkInv, LastSync
    <2> QED  BY <2>1, <2>2
  <1>7. LastInfo'
    BY <1>1 DEF LinkInv, LastInfo
  <1> QED  BY <1>4, <1>5, <1>6, <1>7 DEF LinkInv

\* Steps that leave the command FIFO and what is behind it alone.
LEMMA QuietStep ==
  ASSUME LinkInv, reading' \in Readings,
         UNCHANGED <<cmd_fifo, cmd_read, log_level, led, outer_info_, config_level, asked_led, key_status>>,
         info_fifo' \in Seq(Info), LastInfo', dropped \subseteq dropped'
  PROVE  LinkInv'
  <1>1. Types'
    BY DEF LinkInv, Types
  <1>2. LastSet' /\ LastSync'
    BY DEF LinkInv, LastSet, LastSync
  <1> QED  BY <1>1, <1>2 DEF LinkInv

LEMMA Writes ==
  ASSUME LinkInv,
         \/ TimerLoop \/ KeyPress
         \/ \E state \in Led : SetDevice(state)
         \/ \E level \in Levels : SyncLevel(level)
  PROVE  LinkInv'
  <1>1. reading \in Readings /\ key_status \in Led /\ 1 - key_status \in Led
    BY DEF LinkInv, Types, Led
  <1>2. CASE TimerLoop
    <2>1. /\ LoopEvent \in Event /\ LoopEvent.kind = "loop" /\ Write(LoopEvent)
          /\ UNCHANGED <<local, info_fifo, info_, dropped>>
          /\ UNCHANGED <<reading, key_status, asked_led, config_level>>
      BY <1>2, Events DEF TimerLoop, main
    <2>2. /\ asked_led' = IF LoopEvent.kind = "set" THEN LoopEvent.state ELSE asked_led
          /\ config_level' = IF LoopEvent.kind = "sync" THEN LoopEvent.level ELSE config_level
      BY <2>1
    <2> QED  BY <1>1, <2>1, <2>2, WriteStep
  <1>3. ASSUME NEW s \in Led, Write(HwSet(s)), asked_led' = s, key_status' \in Led,
               UNCHANGED <<main, local, info_fifo, reading, dropped>>
        PROVE  LinkInv'
    <2>1. HwSet(s) \in Event /\ HwSet(s).kind = "set" /\ HwSet(s).state = s
      BY Events
    <2>2. /\ asked_led' = IF HwSet(s).kind = "set" THEN HwSet(s).state ELSE asked_led
          /\ config_level' = IF HwSet(s).kind = "sync" THEN HwSet(s).level ELSE config_level
          /\ UNCHANGED <<local, info_fifo, info_, dropped>> /\ reading' \in Readings
      BY <1>1, <1>3, <2>1 DEF main
    <2> QED  BY <1>3, <2>1, <2>2, WriteStep
  <1>4. CASE KeyPress
    <2>1. key_status' = 1 - key_status /\ Write(HwSet(1 - key_status)) /\ asked_led' = 1 - key_status
          /\ UNCHANGED <<main, local, info_fifo, reading, dropped>>
      BY <1>4 DEF KeyPress
    <2> QED  BY <1>1, <1>3, <2>1
  <1>5. ASSUME NEW s \in Led, SetDevice(s) PROVE LinkInv'
    BY <1>1, <1>3, <1>5 DEF SetDevice
  <1>6. ASSUME NEW l \in Levels, SyncLevel(l) PROVE LinkInv'
    <2>1. /\ config_level' = l
          /\ UNCHANGED <<local, info_fifo, info_, dropped>>
          /\ UNCHANGED <<reading, key_status, asked_led>>
      BY <1>6 DEF SyncLevel
    <2>2. CASE config_level = l
      <3>1. cmd_fifo' = cmd_fifo /\ info_fifo' \in Seq(Info) /\ LastInfo'
        BY <1>6, <2>1, <2>2 DEF SyncLevel, LinkInv, Types, LastInfo, local
      <3> QED  BY <1>1, <2>1, <2>2, <3>1, QuietStep DEF local
    <2>3. CASE config_level # l
      <3>1. Sync(l) \in Event /\ Sync(l).kind = "sync" /\ Sync(l).level = l /\ Write(Sync(l))
        BY <1>6, <2>3, Events DEF SyncLevel
      <3>2. /\ asked_led' = IF Sync(l).kind = "set" THEN Sync(l).state ELSE asked_led
            /\ config_level' = IF Sync(l).kind = "sync" THEN Sync(l).level ELSE config_level
            /\ reading' \in Readings /\ key_status' \in Led
        BY <1>1, <2>1, <3>1
      <3> QED  BY <2>1, <3>1, <3>2, WriteStep
    <2> QED  BY <2>2, <2>3
  <1> QED  BY <1>2, <1>4, <1>5, <1>6

LEMMA Reads == ASSUME LinkInv, DeviceRead PROVE LinkInv'
  <1>1. /\ cmd_fifo \in Seq(Event) /\ cmd_fifo # <<>> /\ cmd_read = <<>> /\ cmd_fifo' = <<>>
        /\ cmd_read' = <<Head(cmd_fifo)>>
        /\ dropped' = dropped \cup {m.kind : m \in Behind(cmd_fifo)}
        /\ UNCHANGED <<log_level, led, outer_info_, info_, info_fifo, key_status, reading, asked_led,
                       config_level>>
    BY DEF LinkInv, Types, DeviceRead, main
  <1>2. ASSUME NEW kind \in Kinds, kind \notin dropped'
        PROVE  /\ kind \notin dropped
               /\ cmd_fifo[1].kind = kind => LastOf(kind, cmd_fifo, 1)
               /\ cmd_fifo[1].kind # kind => None(kind, cmd_fifo)
               /\ Len(cmd_read') = 1 /\ cmd_read'[1] = cmd_fifo[1] /\ 1 \in 1 .. Len(cmd_fifo)
    <2>1. kind \notin dropped /\ kind \notin {m.kind : m \in Behind(cmd_fifo)}
      BY <1>1, <1>2
    <2> QED  BY <1>1, <2>1, ReadLast
  <1>3. Types'
    <2>1. cmd_read' \in Seq(Event) /\ Len(cmd_read') <= 1 /\ cmd_fifo' \in Seq(Event)
      BY <1>1
    <2> QED  BY <1>1, <2>1 DEF LinkInv, Types
  <1>4. None("set", cmd_fifo') /\ None("sync", cmd_fifo') /\ None("set", cmd_read) /\ None("sync", cmd_read)
        /\ Len(cmd_fifo') = 0
    BY <1>1 DEF None
  <1>5. LastSet'
    <2> SUFFICES ASSUME "set" \notin dropped' PROVE LastSet'
      BY DEF LastSet
    <2>1. /\ "set" \notin dropped
          /\ cmd_fifo[1].kind = "set" => LastOf("set", cmd_fifo, 1)
          /\ cmd_fifo[1].kind # "set" => None("set", cmd_fifo)
          /\ Len(cmd_read') = 1 /\ cmd_read'[1] = cmd_fifo[1] /\ 1 \in 1 .. Len(cmd_fifo)
      BY <1>2 DEF Kinds
    <2>2. CASE cmd_fifo[1].kind = "set"
      <3>1. cmd_fifo[1].state = asked_led
        BY <2>1, <2>2 DEF LinkInv, LastSet
      <3>2. ~None("set", cmd_read')
        BY <2>1, <2>2 DEF None
      <3> QED  BY <1>1, <1>4, <2>1, <3>1, <3>2 DEF LastSet
    <2>3. CASE cmd_fifo[1].kind # "set"
      <3>1. led = asked_led
        BY <1>4, <2>1, <2>3 DEF LinkInv, LastSet
      <3> QED  BY <1>1, <1>4, <2>1, <2>3, <3>1 DEF LastSet
    <2> QED  BY <2>2, <2>3
  <1>6. LastSync'
    <2> SUFFICES ASSUME "sync" \notin dropped' PROVE LastSync'
      BY DEF LastSync
    <2>1. /\ "sync" \notin dropped
          /\ cmd_fifo[1].kind = "sync" => LastOf("sync", cmd_fifo, 1)
          /\ cmd_fifo[1].kind # "sync" => None("sync", cmd_fifo)
          /\ Len(cmd_read') = 1 /\ cmd_read'[1] = cmd_fifo[1] /\ 1 \in 1 .. Len(cmd_fifo)
      BY <1>2 DEF Kinds
    <2>2. CASE cmd_fifo[1].kind = "sync"
      <3>1. cmd_fifo[1].level = config_level
        BY <2>1, <2>2 DEF LinkInv, LastSync
      <3>2. ~None("sync", cmd_read')
        BY <2>1, <2>2 DEF None
      <3> QED  BY <1>1, <1>4, <2>1, <3>1, <3>2 DEF LastSync
    <2>3. CASE cmd_fifo[1].kind # "sync"
      <3>1. log_level = config_level
        BY <1>4, <2>1, <2>3 DEF LinkInv, LastSync
      <3> QED  BY <1>1, <1>4, <2>1, <2>3, <3>1 DEF LastSync
    <2> QED  BY <2>2, <2>3
  <1>7. LastInfo'
    BY <1>1 DEF LinkInv, LastInfo
  <1> QED  BY <1>3, <1>5, <1>6, <1>7 DEF LinkInv

LEMMA Processes == ASSUME LinkInv, ProcessEvent PROVE LinkInv'
  <1> DEFINE e == Head(cmd_read)
  <1>1. /\ cmd_read \in Seq(Event) /\ Len(cmd_read) = 1 /\ cmd_read' = <<>>
        /\ cmd_read[1] = e /\ e \in Event
        /\ UNCHANGED <<info_, cmd_fifo, key_status, reading, asked_led, config_level, dropped>>
    <2>1. cmd_read \in Seq(Event) /\ Len(cmd_read) <= 1 /\ cmd_read # <<>> /\ cmd_read' = <<>>
      BY DEF LinkInv, Types, ProcessEvent
    <2>2. Len(cmd_read) = 1 /\ cmd_read[1] = e /\ e \in Event
      BY <2>1, AtMostOne
    <2>3. UNCHANGED <<info_, cmd_fifo, key_status, reading, asked_led, config_level, dropped>>
      BY DEF ProcessEvent, main
    <2> QED  BY <2>1, <2>2, <2>3
  <1>2. None("set", cmd_read') /\ None("sync", cmd_read')
        /\ \A kind \in Kinds : e.kind # kind => None(kind, cmd_read)
    BY <1>1 DEF None
  <1>3. cmd_read' \in Seq(Event) /\ Len(cmd_read') = 0
    BY <1>1
  <1>4. \/ e.kind = "loop" /\ Update
        \/ e.kind = "set" /\ ProcessHardware(e)
        \/ e.kind = "sync" /\ ProcessSync(e)
    BY DEF ProcessEvent
  <1> HIDE DEF e
  <1>5. ASSUME e.kind # "set", led' = led PROVE LastSet'
    <2>1. None("set", cmd_read)
      BY <1>2, <1>5 DEF Kinds
    <2>2. "set" \notin dropped =>
             /\ \A i \in 1 .. Len(cmd_fifo) : LastOf("set", cmd_fifo, i) => cmd_fifo[i].state = asked_led
             /\ None("set", cmd_fifo) => led = asked_led
      BY <2>1 DEF LinkInv, LastSet
    <2> QED  BY <1>1, <1>3, <1>5, <2>2 DEF LastSet
  <1>6. ASSUME e.kind # "sync", log_level' = log_level PROVE LastSync'
    <2>1. None("sync", cmd_read)
      BY <1>2, <1>6 DEF Kinds
    <2>2. "sync" \notin dropped =>
             /\ \A i \in 1 .. Len(cmd_fifo) : LastOf("sync", cmd_fifo, i) => cmd_fifo[i].level = config_level
             /\ None("sync", cmd_fifo) => log_level = config_level
      BY <2>1 DEF LinkInv, LastSync
    <2> QED  BY <1>1, <1>3, <1>6, <2>2 DEF LastSync
  <1>7. CASE e.kind = "loop" /\ Update
    <2>1. PICK new \in Info :
             /\ outer_info_' = new /\ led' = led /\ log_level' = log_level
             /\ IF new # outer_info_ THEN info_fifo' = Append(info_fifo, new)
                ELSE info_fifo' = info_fifo
      <3>1. [led |-> led, reading |-> reading] \in Info
        BY DEF LinkInv, Types, Info
      <3> QED  BY <1>7, <3>1 DEF Update
    <2>2. info_fifo \in Seq(Info)
      BY DEF LinkInv, Types
    <2>3. info_fifo' \in Seq(Info) /\ LastInfo'
      <3>1. CASE new = outer_info_
        BY <1>1, <2>1, <2>2, <3>1 DEF LinkInv, LastInfo
      <3>2. CASE new # outer_info_
        <4>1. info_fifo' = Append(info_fifo, new)
          BY <2>1, <3>2
        <4>2. /\ info_fifo' \in Seq(Info) /\ info_fifo' # <<>>
              /\ info_fifo'[Len(info_fifo')] = new
          BY <2>2, <4>1
        <4> QED  BY <2>1, <4>2 DEF LastInfo
      <3> QED  BY <3>1, <3>2
    <2>4. Types'
      BY <1>1, <1>3, <2>1, <2>3 DEF LinkInv, Types
    <2> QED  BY <1>5, <1>6, <1>7, <2>1, <2>3, <2>4 DEF LinkInv
  <1>8. CASE e.kind = "set" /\ ProcessHardware(e)
    <2>1. led' = e.state /\ e.state \in Led /\ UNCHANGED <<log_level, outer_info_, info_fifo>>
      BY <1>1, <1>8, Events DEF ProcessHardware
    <2>2. Types' /\ LastInfo'
      BY <1>1, <1>3, <2>1 DEF LinkInv, Types, LastInfo
    <2>3. LastSet'
      BY <1>1, <1>3, <1>8, <2>1 DEF LinkInv, LastSet
    <2> QED  BY <1>6, <1>8, <2>1, <2>2, <2>3 DEF LinkInv
  <1>9. CASE e.kind = "sync" /\ ProcessSync(e)
    <2>1. log_level' = e.level /\ UNCHANGED <<led, outer_info_, info_fifo>>
      BY <1>9 DEF ProcessSync
    <2>2. Types' /\ LastInfo'
      BY <1>1, <1>3, <2>1 DEF LinkInv, Types, LastInfo
    <2>3. LastSync'
      BY <1>1, <1>3, <1>9, <2>1 DEF LinkInv, LastSync
    <2> QED  BY <1>5, <1>9, <2>1, <2>2, <2>3 DEF LinkInv
  <1> QED  BY <1>4, <1>7, <1>8, <1>9

LEMMA OtherSteps ==
  ASSUME LinkInv,
         \/ \E r \in Readings : Sense(r)
         \/ InfoRead \/ UpdateDeviceStatus \/ UNCHANGED vars
  PROVE  LinkInv'
  <1>1. reading \in Readings /\ info_fifo \in Seq(Info)
    BY DEF LinkInv, Types
  <1>2. ASSUME NEW r \in Readings, Sense(r) PROVE LinkInv'
    <2>1. reading' = r /\ UNCHANGED <<main, local, cmd_fifo, info_fifo, key_status, asked_led, dropped>>
      BY <1>2 DEF Sense
    <2>2. LastInfo'
      BY <2>1 DEF LinkInv, LastInfo, main, local
    <2> QED  BY <1>1, <2>1, <2>2, QuietStep DEF main, local
  <1>3. CASE InfoRead
    <2>1. /\ info_' = Head(info_fifo) /\ info_fifo # <<>> /\ info_fifo' = <<>>
          /\ dropped' = dropped \cup {"info" : m \in Behind(info_fifo)}
          /\ UNCHANGED <<config_level, local, cmd_fifo, key_status, reading, asked_led>>
      BY <1>3 DEF InfoRead
    <2>2. ASSUME "info" \notin dropped'
          PROVE  info_' = outer_info_ /\ "info" \notin dropped
      <3>1. Len(info_fifo) = 1
        <4> SUFFICES ASSUME ~(Len(info_fifo) <= 1) PROVE FALSE
          BY <1>1, <2>1, AtMostOne
        <4>1. 2 \in 2 .. Len(info_fifo)
          BY <1>1
        <4>2. info_fifo[2] \in Behind(info_fifo)
          BY <4>1 DEF Behind
        <4>3. "info" \in {"info" : m \in Behind(info_fifo)}
          BY <4>2
        <4> QED  BY <2>1, <2>2, <4>3, Zenon
      <3>2. Head(info_fifo) = info_fifo[1]
        BY <1>1, <2>1, <3>1, AtMostOne
      <3> QED  BY <2>1, <2>2, <3>1, <3>2 DEF LinkInv, LastInfo
    <2>3. LastInfo'
      BY <2>1, <2>2 DEF LastInfo, local
    <2> QED  BY <1>1, <2>1, <2>3, QuietStep DEF local
  <1>4. CASE UpdateDeviceStatus
    <2>1. UNCHANGED <<config_level, info_, local, cmd_fifo, info_fifo, key_status, reading, asked_led,
                      dropped>>
      BY <1>4 DEF UpdateDeviceStatus
    <2>2. LastInfo'
      BY <2>1 DEF LinkInv, LastInfo, local
    <2> QED  BY <1>1, <2>1, <2>2, QuietStep DEF local
  <1>5. CASE UNCHANGED vars
    <2>1. UNCHANGED <<main, local, cmd_fifo, info_fifo, key_status, reading, asked_led, dropped>>
      BY <1>5 DEF vars
    <2>2. LastInfo'
      BY <2>1 DEF LinkInv, LastInfo, main, local
    <2> QED  BY <1>1, <2>1, <2>2, QuietStep DEF main, local
  <1> QED  BY <1>2, <1>3, <1>4, <1>5

LEMMA LinkSteps == LinkInv /\ [Next]_vars => LinkInv'
  BY Writes, Reads, Processes, OtherSteps DEF Next, LinkStep

-----------------------------------------------------------------------------
\* What the invariant says about the queues as the properties see them.
LEMMA LinkSafe == LinkInv => LedAsLastAsked /\ LevelAsStored /\ StatusAsSent
  <1> SUFFICES ASSUME LinkInv PROVE LedAsLastAsked /\ LevelAsStored /\ StatusAsSent
    OBVIOUS
  <1>1. cmd_read \in Seq(Event) /\ cmd_fifo \in Seq(Event)
    BY DEF LinkInv, Types
  <1>2. ASSUME NEW kind, ~Pending(kind)
        PROVE  None(kind, cmd_read) /\ None(kind, cmd_fifo)
    <2> DEFINE both == cmd_read \o cmd_fifo
    <2>1. /\ Len(cmd_read) \in Nat /\ Len(cmd_fifo) \in Nat
          /\ Len(both) = Len(cmd_read) + Len(cmd_fifo)
          /\ \A i \in 1 .. Len(cmd_read) : both[i] = cmd_read[i]
          /\ \A i \in 1 .. Len(cmd_fifo) : both[Len(cmd_read) + i] = cmd_fifo[i]
      BY <1>1
    <2>2. \A i \in 1 .. Len(both) : both[i].kind # kind
      BY <1>2 DEF Pending
    <2> HIDE DEF both
    <2>3. \A i \in 1 .. Len(cmd_read) : i \in 1 .. Len(both)
      BY <2>1
    <2>4. \A i \in 1 .. Len(cmd_fifo) : Len(cmd_read) + i \in 1 .. Len(both)
      BY <2>1
    <2>5. None(kind, cmd_read)
      BY <2>1, <2>2, <2>3 DEF None
    <2>6. None(kind, cmd_fifo)
      BY <2>1, <2>2, <2>4 DEF None
    <2> QED  BY <2>5, <2>6
  <1>3. LedAsLastAsked
    BY <1>2 DEF LinkInv, LastSet, LedAsLastAsked
  <1>4. LevelAsStored
    BY <1>2 DEF LinkInv, LastSync, LevelAsStored
  <1>5. StatusAsSent
    BY DEF LinkInv, LastInfo, StatusAsSent
  <1> QED  BY <1>3, <1>4, <1>5

\* What keeps the two FIFOs in order, below the key as well.
THEOREM LinkInvariance == KeySpec => []LinkInv
  <1>1. KeyInit => LinkInv
    BY LinkInit DEF KeyInit
  <1>2. LinkInv /\ [KeyNext]_allVars => LinkInv'
    <2> SUFFICES ASSUME LinkInv, [KeyNext]_allVars PROVE [Next]_vars
      BY LinkSteps
    <2>1. CASE KeyRun
      BY <2>1 DEF KeyRun, Next
    <2>2. CASE ~KeyRun
      BY <2>2 DEF KeyNext, Next, allVars
    <2> QED  BY <2>1, <2>2
  <1> QED  BY <1>1, <1>2, PTL DEF KeySpec

(* Commands for the LED that no read swallowed (device_manage.cpp:334) are *)
(* applied in the order they were given in, by the key or by main_process. *)
THEOREM LedInOrder == KeySpec => []LedAsLastAsked
  BY LinkInvariance, LinkSafe, PTL

(* Levels that no read swallowed are applied as they were stored, though   *)
(* only what differs from the stored one is sent (cmd_process.cpp:107).    *)
THEOREM LevelInOrder == KeySpec => []LevelAsStored
  BY LinkInvariance, LinkSafe, PTL

(* What main_process shows (device_process.cpp:307) is what local_device   *)
(* sent last, unless a read swallowed a state.                             *)
THEOREM StatusInOrder == KeySpec => []StatusAsSent
  BY LinkInvariance, LinkSafe, PTL

(* Both FIFOs between main_process and local_device keep what they carry    *)
(* in order (device_manage.cpp, device_process.cpp).                        *)
THEOREM LinkInOrder == KeySpec => []AppliedAsSent
  BY LedInOrder, LevelInOrder, StatusInOrder, PTL DEF AppliedAsSent

-----------------------------------------------------------------------------
\* The driver believes a timer to be armed only while one is.
KeyInv == /\ protect \in {0, 1} /\ key_timer \in BOOLEAN /\ irq \in BOOLEAN
          /\ protect = 1 => key_timer
          /\ LineReported

(* However the key bounces, and whatever the application does with what is *)
(* reported, the timer function (kernel_input.c:80) reads the line after   *)
(* the last edge.                                                          *)
THEOREM LineIsReported == KeySpec => []LineReported
  <1>1. KeyInit => KeyInv
    <2> SUFFICES ASSUME KeyInit PROVE KeyInv
      OBVIOUS
    <2>1. protect = 0 /\ key_timer = FALSE /\ irq = FALSE /\ moved = FALSE
      BY DEF KeyInit
    <2>2. protect \in {0, 1} /\ protect # 1
      BY <2>1
    <2> QED  BY <2>1, <2>2, Zenon DEF KeyInv, LineReported
  <1>2. KeyInv /\ [KeyNext]_allVars => KeyInv'
    <2> SUFFICES ASSUME KeyInv, [KeyNext]_allVars PROVE KeyInv'
      OBVIOUS
    <2> USE DEF KeyInv, LineReported, Reported
    <2>1. CASE Edge
      BY <2>1 DEF Edge
    <2>2. CASE KeyHandler
      BY <2>2 DEF KeyHandler
    <2>3. CASE KeyTimerFunc
      <3>1. /\ key_timer' = FALSE /\ irq' = irq /\ pressed' = pressed
            /\ protect' = 0 /\ reported' = Reported
        BY <2>3, Zenon DEF KeyTimerFunc
      <3>2. protect' \in {0, 1} /\ protect' # 1
        BY <3>1
      <3> QED  BY <3>1, <3>2, Zenon
    <2>4. CASE KeyRun
      BY <2>4 DEF KeyRun
    <2>5. CASE UNCHANGED keyVars
      BY <2>5 DEF keyVars
    <2> QED  BY <2>1, <2>2, <2>3, <2>4, <2>5 DEF KeyNext, Driver, allVars
  <1>3. KeyInv => LineReported
    BY DEF KeyInv
  <1> QED  BY <1>1, <1>2, <1>3, PTL DEF KeySpec
=============================================================================
