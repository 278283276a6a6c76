---------------------------- MODULE CommandRoute ----------------------------
(***************************************************************************)
(* The way of a command typed at the logger (src/embed/logger_tool): the   *)
(* io thread of its server checks the login and writes the command to the  *)
(* FIFO of the process it is for, that process (module/cmd_process.cpp)    *)
(* reads it and answers with log lines, which come back through the        *)
(* logger's own FIFO, read by the rx thread of the logger.  The io thread  *)
(* logs into that FIFO too.  The logger makes the FIFOs anew whenever it   *)
(* starts: a process that opened the old ones keeps them.                  *)
(***************************************************************************)
EXTENDS Naturals, Sequences

CONSTANTS Devices,        \* processes that take commands
          LOGIN_TIMEOUT,  \* in the units of the clock
          Room,           \* log lines a FIFO holds
          CommandRoom,    \* commands a FIFO holds
          AllowNoPasswd,  \* allow_no_passwd of the configuration
          MaxLines,       \* bound on what is typed
          WithArguments,  \* <<to, n>>: line n, as a command to it, has a space after the name
          MaxTime,        \* bound on the clock
          MaxDeaths       \* bound on the processes that end

ASSUME RouteBounds == {LOGIN_TIMEOUT, MaxLines, MaxTime, MaxDeaths} \subseteq Nat
ASSUME RoomAssumption  == {Room, CommandRoom} \subseteq Nat \ {0}
ASSUME ConfigAssumption == AllowNoPasswd \in BOOLEAN /\ WithArguments \subseteq Devices \X (1 .. MaxLines)

Lives == 1 .. MaxDeaths + 1   \* of the logger, each with its FIFOs

\* What is typed, the n-th line; "wrong" is a wrong password.  A line that asks
\* for help or is unknown does what a second password does to those who are
\* logged in, and what a logout does to those who are not.
CommandLine == [kind : {"passwd", "wrong", "logout"}, n : 1 .. MaxLines]
               \cup [kind : {"command"}, to : Devices, n : 1 .. MaxLines]

VARIABLES now,                             \* xGetCurrentTimes(), of the logger's host
          is_login_, last_login_timers,
          typed,       \* lines typed so far
          inbox,       \* chunks the io thread has not read
          io,          \* the io thread: [at, chunk]
          life,        \* the logger's life, up or down
          up,
          log_fifo,    \* log_fifo[g]: lines in LOGGER_RX_FIFO of life g
          cmd_fifo,    \* cmd_fifo[g][d]: commands in the FIFO of d of life g
          device,      \* device[d]: [at, of, got], `of' the life whose FIFOs it has
          deaths,      \* processes that have ended so far
          ran,         \* history: ran[d], the commands process_data() was called for
          heard        \* history: <<chunk, time>> whenever login() takes the time, <<>> for a start

login  == <<is_login_, last_login_timers>>
logger == <<io, life, up>>
routeVars == <<now, login, typed, inbox, logger, log_fifo, cmd_fifo, device, deaths, ran,
               heard>>

Empty == [d \in Devices |-> <<>>]

RouteInit == /\ now = 0
             /\ is_login_ = FALSE /\ last_login_timers = 0
             /\ typed = 0 /\ inbox = <<>>
             /\ io = [at |-> "read", chunk |-> <<>>]
             /\ life = 1 /\ up = TRUE
             /\ log_fifo = [g \in Lives |-> 0]
             /\ cmd_fifo = [g \in Lives |-> Empty]
             /\ device = [d \in Devices |-> [at |-> "read", of |-> 1, got |-> <<>>]]
             /\ deaths = 0
             /\ ran = Empty
             /\ heard = <<>>

-----------------------------------------------------------------------------
Tick == /\ now < MaxTime /\ now' = now + 1
        /\ UNCHANGED <<login, typed, inbox, logger, log_fifo, cmd_fifo, device, deaths, ran,
                       heard>>

\* The client's lines may reach the io thread in one chunk.
Type(line) ==
    /\ up /\ typed < MaxLines /\ line.n = typed + 1
    /\ typed' = line.n
    /\ \/ inbox' = Append(inbox, <<line>>)
       \/ /\ inbox # <<>>
          /\ inbox' = [inbox EXCEPT ![Len(inbox)] = Append(@, line)]
    /\ UNCHANGED <<now, login, logger, log_fifo, cmd_fifo, device, deaths, ran, heard>>

-----------------------------------------------------------------------------
(* log_process::send_buffer, in the io thread.                             *)

Go(where) == io' = [io EXCEPT !.at = where]

\* Who is not logged in may only give a password.
Judged(chunk) == IF chunk[1].kind \in {"passwd", "wrong"} THEN "announce" ELSE "refuse"

\* Mutant: the time of the last message is renewed before it is compared.
LoginRenewed ==
    /\ up /\ io.at = "read" /\ inbox # <<>>
    /\ inbox' = Tail(inbox)
    /\ last_login_timers' = now
    /\ UNCHANGED is_login_
    /\ io' = [at |-> IF AllowNoPasswd \/ is_login_ THEN "announce" ELSE Judged(Head(inbox)),
              chunk |-> Head(inbox)]
    /\ heard' = Append(heard, <<Head(inbox), now>>)
    /\ UNCHANGED <<now, typed, life, up, log_fifo, cmd_fifo, device, deaths, ran>>

\* login(): every message renews the time, whoever sends it.  A login that has
\* ended is over at once, and that is logged before the time is taken anew.
Login ==
    LET still   == is_login_ /\ now - last_login_timers <= LOGIN_TIMEOUT
        expired == ~AllowNoPasswd /\ is_login_ /\ ~still
    IN  /\ up /\ io.at = "read" /\ inbox # <<>>
        /\ inbox' = Tail(inbox)
        /\ last_login_timers' = IF expired THEN last_login_timers ELSE now
        /\ is_login_' = IF AllowNoPasswd THEN is_login_ ELSE still
        /\ io' = [at |-> IF AllowNoPasswd \/ still THEN "announce"
                         ELSE IF expired THEN "expire" ELSE Judged(Head(inbox)),
                  chunk |-> Head(inbox)]
        /\ heard' = Append(heard, <<Head(inbox), now>>)
        /\ UNCHANGED <<now, typed, life, up, log_fifo, cmd_fifo, device, deaths, ran>>

\* LOG_INFO and its kin: the thread waits while the FIFO is full.
Log(g) == log_fifo[g] < Room /\ log_fifo' = [log_fifo EXCEPT ![g] = @ + 1]

Announce ==
    /\ up /\ io.at \in {"expire", "refuse", "announce", "confirm"}
    /\ Log(life)
    /\ Go(CASE io.at = "announce" -> "act"
            [] io.at = "expire"   -> "renew"
            [] OTHER              -> "read")
    /\ UNCHANGED <<now, login, typed, inbox, life, up, cmd_fifo, device, deaths, ran, heard>>

\* The rest of login(), however long the thread has waited to log.
Renew ==
    /\ up /\ io.at = "renew"
    /\ last_login_timers' = now
    /\ heard' = Append(heard, <<io.chunk, now>>)
    /\ Go(Judged(io.chunk))
    /\ UNCHANGED <<now, is_login_, typed, inbox, life, up, log_fifo, cmd_fifo, device, deaths, ran>>

\* The first line names the FIFO, and the rest of the chunk follows it there.
Dispatch ==
    LET line == io.chunk[1]
    IN  /\ up /\ io.at = "act" /\ line.kind = "command"
        /\ Len(cmd_fifo[life][line.to]) < CommandRoom
        /\ cmd_fifo' = [cmd_fifo EXCEPT ![life][line.to] = @ \o io.chunk]
        /\ Go("read")
        /\ UNCHANGED <<now, login, typed, inbox, life, up, log_fifo, device, deaths, ran,
                       heard>>

\* The password has to be all there is; nothing is said when it is not.
Passwd ==
    /\ up /\ io.at = "act" /\ io.chunk[1].kind \in {"passwd", "wrong"}
    /\ \E right \in {Len(io.chunk) = 1 /\ io.chunk[1].kind = "passwd"} :
           is_login_' = (is_login_ \/ right) /\ Go(IF right THEN "confirm" ELSE "read")
    /\ UNCHANGED <<now, last_login_timers, typed, inbox, life, up, log_fifo, cmd_fifo, device,
                   deaths, ran, heard>>

Logout ==
    /\ up /\ io.at = "act" /\ io.chunk[1].kind = "logout"
    /\ is_login_' = FALSE
    /\ Go("confirm")
    /\ UNCHANGED <<now, last_login_timers, typed, inbox, life, up, log_fifo, cmd_fifo, device,
                   deaths, ran, heard>>

\* Mutant: the rx thread logs what it forwards.
ForwardLogging ==
    /\ up /\ log_fifo[life] > 0 /\ log_fifo[life] < Room
    /\ log_fifo' = [log_fifo EXCEPT ![life] = 1]
    /\ UNCHANGED <<now, login, typed, inbox, logger, cmd_fifo, device, deaths, ran, heard>>

\* Mutant: lines are taken from the FIFO only while somebody is logged in.
ForwardLoggedIn ==
    /\ up /\ is_login_ /\ log_fifo[life] > 0
    /\ log_fifo' = [log_fifo EXCEPT ![life] = 0]
    /\ UNCHANGED <<now, login, typed, inbox, logger, cmd_fifo, device, deaths, ran, heard>>

\* logger_rx_run: all that waits goes to the session, or to standard output.
Forward ==
    /\ up /\ log_fifo[life] > 0
    /\ log_fifo' = [log_fifo EXCEPT ![life] = 0]
    /\ UNCHANGED <<now, login, typed, inbox, logger, cmd_fifo, device, deaths, ran, heard>>

-----------------------------------------------------------------------------
(* cmd_process of a device process.                                        *)

DeviceRead(d) ==
    LET of == device[d].of
    IN  /\ device[d].at = "read" /\ cmd_fifo[of][d] # <<>>
        /\ cmd_fifo' = [cmd_fifo EXCEPT ![of][d] = <<>>]
        /\ device' = [device EXCEPT ![d].at = "log", ![d].got = cmd_fifo[of][d]]
        /\ UNCHANGED <<now, login, typed, inbox, logger, log_fifo, deaths, ran, heard>>

\* Mutant: each command of what was read is carried out, whomever it is for.
DeviceRunAll(d) ==
    LET got == device[d].got
    IN  /\ device[d].at = "log" /\ Log(device[d].of)
        /\ device' = [device EXCEPT ![d].at = "read", ![d].got = <<>>]
        /\ ran' = [ran EXCEPT ![d] = @ \o got]
        /\ UNCHANGED <<now, login, typed, inbox, logger, cmd_fifo, deaths, heard>>

\* parse_data logs the name, which ends at the first space or with what was read:
\* a name that runs into what follows it is not known, ...
DeviceRun(d) ==
    LET got   == device[d].got
        known == Len(got) = 1 \/ <<got[1].to, got[1].n>> \in WithArguments
    IN  /\ device[d].at = "log" /\ Log(device[d].of)
        /\ device' = [device EXCEPT ![d].at = IF known THEN "read" ELSE "fail", ![d].got = <<>>]
        /\ ran' = [ran EXCEPT ![d] = IF known THEN Append(@, got[1]) ELSE @]
        /\ UNCHANGED <<now, login, typed, inbox, logger, cmd_fifo, deaths, heard>>

\* ... which is logged too.
DeviceFails(d) ==
    /\ device[d].at = "fail" /\ Log(device[d].of)
    /\ device' = [device EXCEPT ![d].at = "read"]
    /\ UNCHANGED <<now, login, typed, inbox, logger, cmd_fifo, deaths, ran, heard>>

-----------------------------------------------------------------------------
(* Processes end and are started again.                                    *)

LoggerDies ==
    /\ up /\ up' = FALSE
    /\ deaths < MaxDeaths /\ deaths' = deaths + 1
    /\ inbox' = <<>> /\ io' = [at |-> "read", chunk |-> <<>>]
    /\ is_login_' = FALSE /\ last_login_timers' = 0
    /\ UNCHANGED <<now, typed, life, log_fifo, cmd_fifo, device, ran, heard>>

\* fifo_manage::create unlinks each FIFO and makes a new one.
LoggerStarts ==
    /\ ~up
    /\ up' = TRUE /\ life' = life + 1
    /\ heard' = Append(heard, <<>>)
    /\ UNCHANGED <<now, login, typed, inbox, io, log_fifo, cmd_fifo, device, deaths, ran>>

DeviceDies(d) ==
    /\ device[d].at # "down"
    /\ deaths < MaxDeaths /\ deaths' = deaths + 1
    /\ device' = [device EXCEPT ![d].at = "down", ![d].got = <<>>]
    /\ UNCHANGED <<now, login, typed, inbox, logger, log_fifo, cmd_fifo, ran,
                   heard>>

\* It opens the FIFOs that bear the names now.
DeviceStarts(d) ==
    /\ device[d].at = "down"
    /\ device' = [device EXCEPT ![d].at = "read", ![d].of = life]
    /\ UNCHANGED <<now, login, typed, inbox, logger, log_fifo, cmd_fifo, deaths, ran, heard>>

-----------------------------------------------------------------------------
IoThread    == Login \/ Announce \/ Renew \/ Dispatch \/ Passwd \/ Logout
DeviceStep(d) == DeviceRead(d) \/ DeviceRun(d) \/ DeviceFails(d)

RouteNext == \/ Tick \/ (\E line \in CommandLine : Type(line))
             \/ IoThread \/ Forward
             \/ \E d \in Devices : DeviceStep(d) \/ DeviceDies(d) \/ DeviceStarts(d)
             \/ LoggerDies \/ LoggerStarts

\* The threads of the processes run; nothing has to be typed, to end or to start.
RouteSpec == /\ RouteInit /\ [][RouteNext]_routeVars
             /\ WF_routeVars(IoThread) /\ WF_routeVars(Forward)
             /\ \A d \in Devices : WF_routeVars(DeviceStep(d))

-----------------------------------------------------------------------------
RouteTypeOK ==
    /\ now \in 0 .. MaxTime /\ last_login_timers \in 0 .. now
    /\ {is_login_, up} \subseteq BOOLEAN
    /\ typed \in 0 .. MaxLines /\ inbox \in Seq(Seq(CommandLine))
    /\ io \in [at : {"read", "expire", "renew", "refuse", "announce", "act", "confirm"},
                chunk : Seq(CommandLine)]
    /\ life \in Lives
    /\ log_fifo \in [Lives -> 0 .. Room]
    /\ cmd_fifo \in [Lives -> [Devices -> Seq(CommandLine)]]
    /\ device \in [Devices -> [at : {"read", "log", "fail", "down"}, of : Lives,
                                got : Seq(CommandLine)]]
    /\ deaths \in 0 .. MaxDeaths
    /\ ran \in [Devices -> Seq(CommandLine)]

\* What a process has carried out was typed after the password, in the same life
\* of the logger, with no logout in between and never more than LOGIN_TIMEOUT
\* between two times that login() took, however late it was carried out.  It takes
\* one for each message, but a second one for the message that ends a login, when
\* the line that says so is written: a password in that message counts from then.
Gap(i) == heard[i + 1][2] - heard[i][2]
LoggedIn(j) ==
    \E i \in 1 .. j - 1 :
        /\ heard[i] # <<>> /\ Len(heard[i][1]) = 1 /\ heard[i][1][1].kind = "passwd"
        /\ \A k \in i .. j - 1 : /\ heard[k + 1] # <<>> /\ Gap(k) <= LOGIN_TIMEOUT
                                 /\ heard[k + 1][1][1].kind # "logout"
RunByLogin ==
    ~AllowNoPasswd =>
        \A d \in Devices : \A i \in DOMAIN ran[d] :
            \E j \in DOMAIN heard : heard[j] # <<>> /\ heard[j][1][1] = ran[d][i] /\ LoggedIn(j)

\* A process carries out commands for itself only, each once, in the order typed.
RunByTarget ==
    \A d \in Devices :
        /\ \A i \in DOMAIN ran[d] : ran[d][i].kind = "command" /\ ran[d][i].to = d
        /\ \A i \in 1 .. Len(ran[d]) - 1 : ran[d][i].n < ran[d][i + 1].n

\* A command is carried out by whom, and for whom, it may be.
RunAsAllowed == RunByLogin /\ RunByTarget

\* Full FIFOs do not stop the io thread and the processes in a circle.  Only a
\* process that is down or has FIFOs of an earlier life stops the io thread ...
Reading(d) == device[d].at # "down" /\ device[d].of = life
ServerGoesOn == \/ []<>(io.at = "read" /\ inbox = <<>>)
                \/ <>[](\E d \in Devices : ~Reading(d))

\* ... and only a logger that is down, or has made new FIFOs, stops a process.
DeviceGoesOn == \A d \in Devices : \/ []<>(device[d].at \in {"read", "down"})
                                   \/ <>[](~up \/ ~Reading(d))

\* Neither stops the other: the logger's lines and its commands never wait in a
\* circle for the two FIFOs between the logger and a process.
NobodyStuck == ServerGoesOn /\ DeviceGoesOn
=============================================================================
