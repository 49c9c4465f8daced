------------------------------ MODULE McuConfig ------------------------------
(***************************************************************************)
(* Start-up, configuration, shutdown and restart of the printer: Printer   *)
(* of klippy.py, the MCU objects of mcu.py, and on each micro-controller   *)
(* the configuration commands of src/basecmd.c under the shutdown rules of *)
(* src/sched.c and src/command.c.                                          *)
(*                                                                         *)
(* A configuration is a version number, its crc the same number; it        *)
(* creates one object, whose type does not depend on the version.  Within  *)
(* a session commands arrive in order and once (CommandLink).  When an mcu *)
(* resets in mid-session the sequence numbers of the two sides disagree:   *)
(* commands get lost until a number happens to fit, answers are discarded. *)
(***************************************************************************)
EXTENDS Integers, Sequences

CONSTANTS N,            \* micro-controllers, in the order of their sections
          V,            \* contents the configuration file may have
          Methods,      \* restart methods: "arduino" (also cheetah), "rpi_usb",
                        \* "command" (reset), "config_reset"
          Retries,      \* of a query
          MaxRestarts, MaxFaults

Mcus == 1 .. N
Versions == 1 .. V
None == "none"
NoAnswer == [msg |-> "none"]

VARIABLES
    mcu,         \* state of each micro-controller
    pipe, back,  \* commands to it, messages from it
    link,        \* closed, open, or broken by a reset
    host,        \* the MCU object of klippy
    printer,     \* the Printer object
    pc,          \* the connecting greenlet, then Printer.run after the reactor
    async_down,  \* an invoke_async_shutdown waits in the reactor
    file,        \* version of the configuration file
    method, restarts, faults,
    \* history
    unsound,     \* the mcu has reset in a session and has not been restarted since
    silent,      \* the report of its last shutdown was lost
    mixed        \* a command met an object of another version than its own

firmware == <<mcu, pipe, back, link, unsound, silent, mixed>>
klippy == <<host, printer, pc, async_down>>
user == <<file, method, restarts>>
vars == <<firmware, klippy, user, faults>>

Fresh == [alloc |-> FALSE, obj |-> 0, final |-> FALSE, crc |-> 0, down |-> FALSE]
NewMcu == [is_shutdown |-> FALSE, starting |-> FALSE, answer |-> NoAnswer]
NewPrinter(reason, ver) == [state |-> "startup", down |-> FALSE, start_reason |-> reason,
                            run_result |-> None, ver |-> ver]
At(where, m) == [at |-> where, m |-> m, tries |-> 0]

Init ==
    /\ mcu = [m \in Mcus |-> Fresh]
    /\ pipe = [m \in Mcus |-> <<>>] /\ back = [m \in Mcus |-> <<>>]
    /\ link = [m \in Mcus |-> "closed"]
    /\ host = [m \in Mcus |-> NewMcu] /\ async_down = FALSE
    /\ file = 1 /\ printer = NewPrinter("startup", file) /\ pc = At("identify", 1)
    /\ method \in Methods /\ restarts = 0 /\ faults = 0
    /\ unsound = [m \in Mcus |-> FALSE] /\ silent = [m \in Mcus |-> FALSE]
    /\ mixed = FALSE

-----------------------------------------------------------------------------
(* The micro-controller *)

HF_IN_SHUTDOWN == {"get_config", "emergency_stop", "reset", "config_reset"}

\* The command calls shutdown()
Halts(f, cmd) ==
    \/ cmd = "allocate_oids" /\ f.alloc
    \/ cmd = "config" /\ (~f.alloc \/ f.obj # 0 \/ f.final)
    \/ cmd = "finalize_config" /\ f.final
    \/ cmd = "use" /\ f.obj = 0
    \/ cmd = "config_reset" /\ ~f.down
    \/ cmd = "emergency_stop"

\* State of the mcu after a command that it executes
Ran(f, c) ==
    IF Halts(f, c.cmd) THEN [f EXCEPT !.down = TRUE]
    ELSE CASE c.cmd = "allocate_oids" -> [f EXCEPT !.alloc = TRUE]
           [] c.cmd = "config" -> [f EXCEPT !.obj = c.ver]
           [] c.cmd = "finalize_config" -> [f EXCEPT !.final = TRUE, !.crc = c.ver]
           [] c.cmd \in {"reset", "config_reset"} -> Fresh
           [] OTHER -> f

Reports == {"shutdown", "is_shutdown"}

\* Messages on their way with one more; a report right after a report changes nothing
With(msgs, msg) == IF msg.msg \in Reports /\ msgs # <<>> /\ msgs[Len(msgs)].msg \in Reports
                   THEN msgs ELSE Append(msgs, msg)

\* sendf: heard unless no session is open, the link is broken or the message is dropped
Sendf(m, msg) ==
    LET lost(l) == silent' = IF msg.msg = "config" THEN silent ELSE [silent EXCEPT ![m] = l] IN
    \/ /\ link[m] # "closed" /\ back' = [back EXCEPT ![m] = With(@, msg)]
       /\ lost(FALSE) /\ UNCHANGED faults
    \/ /\ link[m] # "open" /\ lost(TRUE) /\ UNCHANGED <<back, faults>>
    \/ /\ link[m] = "open" /\ faults < MaxFaults /\ faults' = faults + 1 /\ lost(TRUE)
       /\ IF "conf" \in DOMAIN msg THEN back' = [back EXCEPT ![m] = Append(@, [msg |-> "acked"])]
          ELSE UNCHANGED back
Quiet == UNCHANGED <<back, silent, faults>>

\* command_dispatch
Dispatch(m) ==
    LET f == mcu[m]  c == Head(pipe[m])  ignored == f.down /\ c.cmd \notin HF_IN_SHUTDOWN IN
    /\ pipe[m] # <<>> /\ link[m] # "broken"
    /\ pipe' = [pipe EXCEPT ![m] = Tail(@)]
    /\ mcu' = IF ignored THEN mcu ELSE [mcu EXCEPT ![m] = Ran(f, c)]
    /\ \/ ignored /\ Sendf(m, [msg |-> "is_shutdown"])
       \/ ~ignored /\ Halts(f, c.cmd) /\ Sendf(m, [msg |-> "shutdown"])
       \/ c.cmd = "get_config" /\ Sendf(m, [msg |-> "config", conf |-> f])
       \/ ~ignored /\ ~Halts(f, c.cmd) /\ c.cmd # "get_config" /\ Quiet
    /\ mixed' = (mixed \/ (c.cmd = "use" /\ ~ignored /\ f.obj \notin {0, c.ver}))
    /\ link' = IF c.cmd = "reset" /\ link[m] = "open" THEN [link EXCEPT ![m] = "broken"] ELSE link
    /\ unsound' = IF c.cmd \in {"reset", "config_reset"} /\ ~Halts(f, c.cmd)
                  THEN [unsound EXCEPT ![m] = FALSE] ELSE unsound
    /\ UNCHANGED <<klippy, user>>

\* A timer that comes too late, a value out of range: shutdown() on the mcu's own account
OwnShutdown(m) ==
    /\ ~mcu[m].down /\ mcu[m].obj # 0
    /\ faults < MaxFaults /\ faults' = faults + 1
    /\ mcu' = [mcu EXCEPT ![m].down = TRUE]
    /\ \/ /\ link[m] # "closed" /\ back' = [back EXCEPT ![m] = With(@, [msg |-> "shutdown"])]
          /\ silent' = [silent EXCEPT ![m] = FALSE]
       \/ UNCHANGED back /\ silent' = [silent EXCEPT ![m] = TRUE]
    /\ UNCHANGED <<pipe, link, unsound, mixed, klippy, user>>

\* Power dip, watchdog: sched_main starts anew, with the sequence numbers of a new session
OwnReset(m) ==
    /\ faults < MaxFaults /\ faults' = faults + 1
    /\ mcu' = [mcu EXCEPT ![m] = Fresh]
    /\ IF link[m] = "closed" THEN pipe' = [pipe EXCEPT ![m] = <<>>] /\ UNCHANGED <<back, link, unsound>>
       ELSE /\ back' \in {back, [back EXCEPT ![m] = Append(@, [msg |-> "starting"])]}
            /\ link' = [link EXCEPT ![m] = "broken"] /\ unsound' = [unsound EXCEPT ![m] = TRUE]
            /\ UNCHANGED pipe
    /\ UNCHANGED <<silent, mixed, klippy, user>>

\* On a broken link the host takes naks that fit its window for acks of commands the mcu
\* has not seen; a query is then notified without an answer
LoseCommand(m) ==
    /\ link[m] = "broken" /\ pipe[m] # <<>>
    /\ pipe' = [pipe EXCEPT ![m] = Tail(@)]
    /\ back' = IF Head(pipe[m]).cmd = "get_config"
               THEN [back EXCEPT ![m] = Append(@, [msg |-> "acked"])] ELSE back
    /\ UNCHANGED <<mcu, link, unsound, silent, mixed, klippy, user, faults>>

Resync(m) ==
    /\ link[m] = "broken"
    /\ link' = [link EXCEPT ![m] = "open"]
    /\ UNCHANGED <<mcu, pipe, back, unsound, silent, mixed, klippy, user, faults>>

-----------------------------------------------------------------------------
(* klippy *)

Running == printer.run_result = None
Send(m, cmds) == pipe' = [pipe EXCEPT ![m] = @ \o [i \in 1 .. Len(cmds) |-> [cmd |-> cmds[i], ver |-> printer.ver]]]
Go(where, m) == pc' = At(where, m)
SetState(p, state) == IF p.state \in {"startup", "ready"} THEN [p EXCEPT !.state = state] ELSE p

\* An exception leaves Printer._connect
Fail == printer' = SetState(printer, "error") /\ Go("done", 1)

\* Printer.request_exit and reactor.end
RequestExit(result) ==
    /\ printer' = [printer EXCEPT !.run_result = result]
    /\ Go(IF result = "firmware_restart" THEN "restart" ELSE "disconnect", 1)

\* MCU._check_restart: TRUE if it asks for a restart
AlwaysRestarts == TRUE
AutoRestarts == printer.start_reason # "firmware_restart"

\* MCU._mcu_identify; what an earlier session has written is read before
McuIdentify ==
    LET m == pc.m IN
    /\ Running /\ pc.at = "identify" /\ pipe[m] = <<>>
    /\ \/ /\ link' = [link EXCEPT ![m] = "open"] /\ back' = [back EXCEPT ![m] = <<>>]
          /\ (IF m < N THEN Go("identify", m + 1) ELSE Go("connect", 1))
          /\ UNCHANGED <<printer, faults>>
       \/ /\ faults < MaxFaults /\ faults' = faults + 1 /\ UNCHANGED <<link, back>>
          /\ Fail \/ (method = "rpi_usb" /\ AutoRestarts /\ RequestExit("firmware_restart"))
    /\ UNCHANGED <<mcu, pipe, unsound, silent, mixed, host, async_down, user>>

\* The next klippy:connect handler, then ready
Connect ==
    LET m == pc.m IN
    /\ Running /\ pc.at = "connect"
    /\ \/ m <= N /\ printer.state # "startup" /\ Go("done", 1) /\ UNCHANGED <<pipe, printer>>
       \/ m <= N /\ printer.state = "startup" /\ Send(m, <<"get_config">>) /\ Go("config", m)
          /\ UNCHANGED printer
       \/ m > N /\ printer' = SetState(printer, "ready") /\ Go("done", 1) /\ UNCHANGED pipe
    /\ UNCHANGED <<mcu, back, link, unsound, silent, mixed, host, async_down, user, faults>>

Answered(where) == Running /\ pc.at = where /\ host[pc.m].answer # NoAnswer
Taken(m) == [host EXCEPT ![m].answer = NoAnswer]
Registered(m) == [host EXCEPT ![m].answer = NoAnswer, ![m].starting = TRUE]

\* SerialRetryCommand: the query was acked but not answered
QueryAgain ==
    LET m == pc.m IN
    /\ pc.at \in {"config", "config2"} /\ Answered(pc.at) /\ host[m].answer.msg = "acked"
    /\ host' = Taken(m)
    /\ \/ /\ pc.tries < Retries /\ pc' = [pc EXCEPT !.tries = @ + 1]
          /\ Send(m, <<"get_config">>) /\ UNCHANGED printer
       \/ pc.tries >= Retries /\ Fail /\ UNCHANGED pipe
    /\ UNCHANGED <<mcu, back, link, unsound, silent, mixed, async_down, user, faults>>

\* MCU._send_config; each command waits for the ack of the one before: how far they get
\* when klippy stops is decided in Disconnect
SendConfig(m) == Send(m, <<"allocate_oids", "config", "finalize_config", "use", "get_config">>)

CrcIgnored(conf) == FALSE
CrcMismatch(conf) == conf.crc # printer.ver

\* MCU._connect up to the second get_config
GotConfig ==
    LET m == pc.m  conf == host[m].answer.conf IN
    /\ Answered("config") /\ host[m].answer.msg = "config"
    /\ \/ /\ host[m].is_shutdown \/ conf.down \/ (conf.final /\ ~AutoRestarts)
          /\ Fail /\ host' = Taken(m) /\ UNCHANGED pipe
       \/ /\ ~host[m].is_shutdown /\ ~conf.down /\ ~conf.final
          /\ IF method = "rpi_usb" /\ AutoRestarts
             THEN RequestExit("firmware_restart") /\ host' = Taken(m) /\ UNCHANGED pipe
             ELSE SendConfig(m) /\ host' = Registered(m) /\ Go("config2", m) /\ UNCHANGED printer
       \/ /\ ~host[m].is_shutdown /\ ~conf.down /\ conf.final /\ AutoRestarts
          /\ IF CrcMismatch(conf)
             THEN RequestExit("firmware_restart") /\ host' = Taken(m) /\ UNCHANGED pipe
             ELSE Send(m, <<"use">>) /\ host' = Registered(m) /\ Go("connect", m + 1) /\ UNCHANGED printer
    /\ UNCHANGED <<mcu, back, link, unsound, silent, mixed, async_down, user, faults>>

\* The rest of MCU._connect after it has sent the configuration
GotConfig2 ==
    LET m == pc.m  conf == host[m].answer.conf IN
    /\ Answered("config2") /\ host[m].answer.msg = "config"
    /\ host' = Taken(m)
    /\ IF host[m].is_shutdown \/ conf.down \/ ~conf.final THEN Fail
       ELSE Go("connect", m + 1) /\ UNCHANGED printer
    /\ UNCHANGED <<firmware, async_down, user, faults>>

\* The background thread of the serial reader
BgThread(m) ==
    LET r == Head(back[m])  h == host[m] IN
    /\ back[m] # <<>> /\ link[m] # "closed"
    /\ back' = [back EXCEPT ![m] = Tail(@)]
    /\ \/ /\ r.msg \in {"config", "acked"}
          /\ host' = [host EXCEPT ![m].answer = r] /\ UNCHANGED async_down
       \/ /\ r.msg \in Reports
          /\ host' = [host EXCEPT ![m].is_shutdown = TRUE]
          /\ async_down' = (async_down \/ ~h.is_shutdown)
       \/ /\ r.msg = "starting"
          /\ async_down' = (async_down \/ (h.starting /\ ~h.is_shutdown)) /\ UNCHANGED host
    /\ UNCHANGED <<mcu, pipe, link, unsound, silent, mixed, printer, pc, user, faults>>

\* MCU._shutdown: the commands to an mcu, the emergency stop among them
StopConfigured(m) == IF link[m] = "closed" \/ host[m].is_shutdown \/ ~host[m].starting THEN pipe[m]
                     ELSE Append(pipe[m], [cmd |-> "emergency_stop", ver |-> printer.ver])
Stopped(m) == IF link[m] = "closed" \/ host[m].is_shutdown THEN pipe[m]
              ELSE Append(pipe[m], [cmd |-> "emergency_stop", ver |-> printer.ver])

\* Printer.invoke_shutdown with the klippy:shutdown handlers of the mcus
InvokeShutdown ==
    /\ IF printer.down THEN UNCHANGED <<printer, pipe>>
       ELSE /\ printer' = [SetState(printer, "shutdown") EXCEPT !.down = TRUE]
            /\ pipe' = [m \in Mcus |-> Stopped(m)]
    /\ UNCHANGED <<mcu, back, link, unsound, silent, mixed, host, pc, user, faults>>

AsyncShutdown == Running /\ async_down /\ async_down' = FALSE /\ InvokeShutdown

\* M112, or MCU.check_active finding no answers to its clock queries
UrgentShutdown ==
    /\ Running /\ ~printer.down
    /\ \/ faults < MaxFaults /\ printer.state \in {"startup", "ready"}
       \/ printer.state = "ready" /\ \E m \in Mcus : link[m] = "broken"
    /\ InvokeShutdown /\ UNCHANGED async_down

\* A command on an object of the mcu, while the printer is in use
UseMcu(m) ==
    /\ Running /\ printer.state = "ready" /\ pipe[m] = <<>> /\ back[m] = <<>>
    /\ Send(m, <<"use">>)
    /\ UNCHANGED <<mcu, back, link, unsound, silent, mixed, klippy, user, faults>>

\* RESTART or FIRMWARE_RESTART, with the configuration file edited or not
UserRestart ==
    /\ Running /\ restarts < MaxRestarts /\ restarts' = restarts + 1
    /\ file' \in Versions
    /\ \E result \in {"restart", "firmware_restart"} : RequestExit(result)
    /\ UNCHANGED <<firmware, host, async_down, method, faults>>

-----------------------------------------------------------------------------
(* Printer.run once the reactor has ended *)

\* Bytes already written may still reach the mcu
Disconnect(m) ==
    /\ link' = [link EXCEPT ![m] = "closed"] /\ back' = [back EXCEPT ![m] = <<>>]
    /\ \E n \in 0 .. Len(pipe[m]) : pipe' = [pipe EXCEPT ![m] = SubSeq(@, 1, n)]

AfterRestart(m) == IF m < N THEN Go("restart", m + 1) ELSE Go("disconnect", 1)

\* MCU._firmware_restart: methods that reset the mcu from outside may fail to
RestartOutside ==
    LET m == pc.m IN
    /\ pc.at = "restart" /\ method \in {"arduino", "rpi_usb"}
    /\ link' = [link EXCEPT ![m] = "closed"] /\ back' = [back EXCEPT ![m] = <<>>]
    /\ pipe' = [pipe EXCEPT ![m] = <<>>]
    /\ \/ /\ mcu' = [mcu EXCEPT ![m] = Fresh] /\ unsound' = [unsound EXCEPT ![m] = FALSE]
          /\ UNCHANGED faults
       \/ faults < MaxFaults /\ faults' = faults + 1 /\ UNCHANGED <<mcu, unsound>>
    /\ AfterRestart(m)
    /\ UNCHANGED <<silent, mixed, host, printer, async_down, user>>

\* MCU._restart_via_command, unless the mcu was not identified or its clock is silent
RestartViaCommand ==
    LET m == pc.m IN
    /\ pc.at = "restart" /\ method \in {"command", "config_reset"}
    /\ \/ link[m] # "open" /\ AfterRestart(m) /\ UNCHANGED <<pipe, host>>
       \/ /\ link[m] # "closed" /\ Go("pause", m)
          /\ IF method = "command" THEN Send(m, <<"reset">>) /\ UNCHANGED host
             ELSE /\ Send(m, <<"emergency_stop", "config_reset">>)
                  /\ host' = [host EXCEPT ![m].is_shutdown = TRUE]
    /\ UNCHANGED <<mcu, back, link, unsound, silent, mixed, printer, async_down, user, faults>>

\* 15 ms later, whether or not the command has arrived
RestartPaused ==
    /\ pc.at = "pause" /\ Disconnect(pc.m) /\ AfterRestart(pc.m)
    /\ UNCHANGED <<mcu, unsound, silent, mixed, host, printer, async_down, user, faults>>

\* klippy:disconnect; after the last mcu a new Printer reads the configuration
DisconnectAll ==
    /\ pc.at = "disconnect" /\ Disconnect(pc.m)
    /\ IF pc.m < N THEN Go("disconnect", pc.m + 1) /\ UNCHANGED <<host, printer, async_down>>
       ELSE /\ printer' = NewPrinter(printer.run_result, file) /\ Go("identify", 1)
            /\ host' = [m \in Mcus |-> NewMcu] /\ async_down' = FALSE
    /\ UNCHANGED <<mcu, unsound, silent, mixed, user, faults>>

Greenlet == \/ McuIdentify \/ Connect \/ QueryAgain \/ GotConfig \/ GotConfig2
            \/ RestartOutside \/ RestartViaCommand \/ RestartPaused \/ DisconnectAll

Next == \/ Greenlet \/ AsyncShutdown \/ UrgentShutdown \/ UserRestart
        \/ \E m \in Mcus : \/ Dispatch(m) \/ OwnShutdown(m) \/ OwnReset(m)
                            \/ LoseCommand(m) \/ Resync(m) \/ BgThread(m) \/ UseMcu(m)

Spec == Init /\ [][Next]_vars
-----------------------------------------------------------------------------
(* Properties *)

Configured(m) == mcu[m].final /\ mcu[m].crc = printer.ver /\ mcu[m].obj = printer.ver

\* When the printer says it is ready, every mcu has been given exactly the configuration
\* this run of klippy has read: whatever was configured before, restarts that did not reset
\* an mcu, answers lost, a configuration cut off by a restart.  Only an mcu that has reset
\* in the middle of a session can be otherwise (MCU._connect, _send_config), and even then
\* none executes a command of one configuration on an object of another (oid_lookup).
ReadyMeansConfigured ==
    /\ Running /\ printer.state = "ready" => \A m \in Mcus : Configured(m) \/ unsound[m]
    /\ ~mixed

\* The host comes to rest in ready, error or shutdown: automated restarts do not go on for
\* ever (_check_restart) and no start-up waits for ever, unless a link stays broken.
HostComesToRest ==
    []<>(\/ Running /\ pc.at = "done"
         \/ \E m \in Mcus : link[m] = "broken")

\* A shutdown is on its way to all mcus: an mcu that is down is so in the host's eyes too,
\* or its report is on the way, as long as the report was not lost; and once the printer
\* is shut down every mcu it has configured is down or has the emergency stop before it
\* (_handle_shutdown, invoke_shutdown, _shutdown).  An mcu that has reset has lost both.
ShutdownSpreads ==
    Running => \A m \in Mcus :
        /\ mcu[m].down /\ host[m].starting /\ ~silent[m] /\ ~unsound[m]
              => printer.down \/ async_down \/ \E i \in 1 .. Len(back[m]) :
                     back[m][i].msg \in Reports
        /\ printer.down /\ host[m].starting /\ ~unsound[m]
              => mcu[m].down \/ \E i \in 1 .. Len(pipe[m]) : pipe[m][i].cmd = "emergency_stop"
=============================================================================
