---------------------------- MODULE HomingSession ----------------------------
(***************************************************************************)
(* The control of a homing move over several micro-controllers: home_start *)
(* and home_wait of MCU_endstop, start and stop of MCU_trsync              *)
(* (klippy/mcu.py), the fast readers of chelper/trdispatch.c, serialhdl's  *)
(* background thread, and trsync.c and endstop.c on every mcu.             *)
(*                                                                         *)
(* Clocks are left out: a timer that is armed may fire at any moment, and  *)
(* a command with a clock may come too late for it.  How far expiries are  *)
(* extended is the subject of TriggerTimeout.  Links are FIFO and deliver  *)
(* every command once (CommandLink); an mcu may drop a report when its     *)
(* transmit buffer is full.                                                *)
(***************************************************************************)
EXTENDS Trsync

CONSTANTS SampleCount,  \* ENDSTOP_SAMPLE_COUNT
          Retries,      \* resends of SerialRetryCommand.get_response
          Droppable,    \* messages that may be dropped: "report", "trigger", "answer"
          Sessions,     \* bound
          Faults,       \* bound: messages dropped and commands that came too late
          Backlog       \* bound: periodic reports of an mcu on their way

ASSUME SessionAssumption ==
    /\ SampleCount \in Nat \ {0} /\ Retries \in Nat
    /\ Droppable \subseteq {"report", "trigger", "answer"}
    /\ Sessions \in Nat /\ Faults \in Nat /\ Backlog \in Nat

Armed == 1   \* a timer that is in the timer list
None == -1   \* last_params is None

VARIABLES
    \* micro-controllers
    ts,         \* the trsync of each mcu
    es,         \* struct endstop of mcu 1
    moving,     \* the stepper may execute steps of the homing move
    halted,     \* the mcu is in shutdown
    past,       \* the mcu's clock has passed the end of the move: 0 or 1
    \* links
    toMcu,      \* commands of the trsync's command queue
    estop,      \* mcus an emergency_stop is on its way to
    toHost,     \* messages not yet handled by the serialqueue thread
    pyq,        \* messages not yet handled by serialhdl's _bg_thread
    \* host, chelper/trdispatch.c
    td_is_active, td_can_trigger,
    fast,       \* mcus whose fast reader is registered
    \* host, klippy/mcu.py and klippy/serialhdl.py
    pc, at,     \* control of the homing greenlet, place in the list of trsyncs
    handler,    \* handler registered for trsync_state
    waiting,    \* MCU_trsyncs whose _trigger_completion is not None
    completed,  \* the completion the MCU_trsyncs of a session share
    home_end,   \* _home_end_clock of the endstop's MCU_trsync
    last,       \* last_params of the query
    acked, tries,
    res,        \* reasons collected by home_wait
    outcome, found,
    shutdown,   \* the printer is in shutdown
    session, faults

mcuVars == <<ts, es, moving, halted>>
tdVars == <<td_is_active, td_can_trigger, fast>>
bgVars == <<waiting, completed, home_end, last, acked>>
ctlVars == <<pc, at, handler, tries, res, outcome, found, session>>
vars == <<mcuVars, past, toMcu, estop, toHost, pyq, tdVars, bgVars, ctlVars, shutdown, faults>>

Note(m) == [m |-> m, can |-> FALSE, reason |-> NoReason, clock |-> 0]

Init ==
    /\ ts = [m \in Mcus |-> Cleared]
    /\ es = [time |-> Never, sampling |-> FALSE, count |-> 0, nextwake |-> 0]
    /\ moving = [m \in Mcus |-> FALSE] /\ halted = [m \in Mcus |-> FALSE] /\ past = 0
    /\ toMcu = [m \in Mcus |-> <<>>] /\ toHost = [m \in Mcus |-> <<>>]
    /\ pyq = [m \in Mcus |-> <<>>] /\ estop = {}
    /\ td_is_active = FALSE /\ td_can_trigger = FALSE /\ fast = {}
    /\ pc = "idle" /\ at = 1
    /\ handler = [m \in Mcus |-> "none"] /\ waiting = {} /\ completed = FALSE
    /\ home_end = Never /\ last = None /\ acked = FALSE /\ tries = 0
    /\ res = [m \in Mcus |-> NoReason] /\ outcome = "none" /\ found = 0
    /\ shutdown = FALSE /\ session = 0 /\ faults = 0

-----------------------------------------------------------------------------
(* Micro-controller *)

\* A timer added with a time already past shuts the mcu down ("Timer too
\* close"): timers are dropped, trsyncs cleared, steppers stopped.
Halt(m) ==
    /\ halted' = [halted EXCEPT ![m] = TRUE]
    /\ ts' = [ts EXCEPT ![m] = Cleared]
    /\ es' = IF m = 1 THEN [es EXCEPT !.time = Never] ELSE es
    /\ moving' = [moving EXCEPT ![m] = FALSE]
    /\ toHost' = [toHost EXCEPT ![m] = Append(@, Note("shutdown"))]

\* Its clock is past when a command arrives that arms a timer.
TooLate(m) ==
    /\ faults < Faults /\ faults' = faults + 1
    /\ Halt(m)

\* The trsync becomes t after trsync_do_trigger was called.
Becomes(m, t) ==
    /\ ts' = [ts EXCEPT ![m] = t]
    /\ moving' = [moving EXCEPT ![m] = @ /\ ~Stops(ts[m])]
    /\ UNCHANGED halted

\* sendf drops the message when the transmit buffer is full; acks get through.
Sendf(m, msg, acks) ==
    /\ toHost' = [toHost EXCEPT ![m] = Append(@, msg) \o acks]
    /\ UNCHANGED faults

SendfFull(m, acks) ==
    /\ faults < Faults /\ faults' = faults + 1
    /\ toHost' = [toHost EXCEPT ![m] = @ \o acks]

McuOnly == UNCHANGED <<past, estop, pyq, tdVars, bgVars, ctlVars, shutdown>>

Command(m, c) ==
    /\ toMcu[m] # <<>> /\ Head(toMcu[m]).c = c
    /\ toMcu' = [toMcu EXCEPT ![m] = Tail(@)]
    /\ McuOnly

Acks(m) == IF Head(toMcu[m]).c = "query" THEN <<Note("ack")>> ELSE <<>>

\* command_trsync_start
CommandStart(m) ==
    /\ ~halted[m] /\ Command(m, "start")
    /\ \/ TooLate(m)
       \/ /\ ts' = [ts EXCEPT ![m] = Started(Armed)]
          /\ UNCHANGED <<es, moving, halted, toHost, faults>>

\* command_stepper_stop_on_trigger; a signal added twice is a shutdown. The
\* steps of the move may follow at once.
CommandSignal(m) ==
    /\ ~halted[m] /\ Command(m, "signal")
    /\ \/ ts[m].signal /\ Halt(m) /\ UNCHANGED faults
       \/ /\ ~ts[m].signal
          /\ ts' = [ts EXCEPT ![m].signal = TRUE]
          /\ moving' = [moving EXCEPT ![m] = TRUE]
          /\ UNCHANGED <<es, halted, toHost, faults>>

\* command_trsync_set_timeout
CommandTimeout(m) ==
    /\ ~halted[m] /\ Command(m, "timeout")
    /\ \/ ts[m].can /\ TooLate(m)
       \/ /\ ts' = [ts EXCEPT ![m] = TimeoutSet(ts[m], Armed)]
          /\ UNCHANGED <<es, moving, halted, toHost, faults>>

\* command_trsync_trigger, sent by trdispatch, by the host or as a query
CommandTrigger(m) ==
    LET t == CommandTriggered(ts[m], Head(toMcu[m]).x) IN
    /\ ~halted[m] /\ (Command(m, "trigger") \/ Command(m, "query"))
    /\ Becomes(m, t) /\ UNCHANGED es
    /\ \/ Sendf(m, State(FALSE, t.reason, 0), Acks(m))
       \/ "answer" \in Droppable /\ SendfFull(m, Acks(m))

\* command_endstop_home; clock Never stands for sample_count = 0
CommandHome(m) ==
    LET clock == Head(toMcu[m]).x IN
    /\ ~halted[m] /\ Command(m, "home")
    /\ \/ clock # Never /\ TooLate(m)
       \/ /\ es' = [es EXCEPT !.time = clock, !.sampling = FALSE,
                              !.count = IF clock = Never THEN 0 ELSE SampleCount]
          /\ UNCHANGED <<ts, moving, halted, toHost, faults>>

\* In shutdown the mcu acknowledges commands and ignores them.
CommandInShutdown(m) ==
    /\ halted[m] /\ toMcu[m] # <<>> /\ Command(m, Head(toMcu[m]).c)
    /\ toHost' = [toHost EXCEPT ![m] = @ \o Acks(m)]
    /\ UNCHANGED <<mcuVars, faults>>

\* emergency_stop, which travels in another command queue
CommandEmergencyStop(m) ==
    /\ m \in estop /\ estop' = estop \ {m}
    /\ IF halted[m] THEN UNCHANGED <<mcuVars, toHost, faults>> ELSE Halt(m) /\ UNCHANGED faults
    /\ UNCHANGED <<past, toMcu, pyq, tdVars, bgVars, ctlVars, shutdown>>

\* trsync_report_event
ReportEvent(m) ==
    /\ ts[m].rtime = Armed /\ ~ts[m].report
    /\ Len(toHost[m]) + Len(pyq[m]) < Backlog
    /\ ts' = [ts EXCEPT ![m] = ReportDue(ts[m], 0)]
    /\ UNCHANGED <<es, moving, halted, toMcu, toHost, faults>> /\ McuOnly

\* trsync_expire_event
ExpireEvent(m) ==
    /\ ts[m].etime = Armed
    /\ Becomes(m, Expired(ts[m]))
    /\ UNCHANGED <<es, toMcu, toHost, faults>> /\ McuOnly

\* endstop_event and endstop_oversample_event with the pin's value read.
\* nextwake, a clock, is kept as the session it belongs to.
EndstopEvent(pin) ==
    LET hit == pin /\ es.count = 1 IN
    /\ es.time = Armed
    /\ es' = [time     |-> IF hit THEN Never ELSE Armed,
              sampling |-> pin,
              count    |-> IF ~pin THEN SampleCount ELSE IF hit THEN 1 ELSE es.count - 1,
              nextwake |-> IF pin /\ ~es.sampling THEN session ELSE es.nextwake]
    /\ IF hit THEN Becomes(1, Triggered(ts[1], REASON_ENDSTOP_HIT))
       ELSE UNCHANGED <<ts, moving, halted>>
    /\ UNCHANGED <<toMcu, toHost, faults>> /\ McuOnly

\* trsync_task
TrsyncTask(m) ==
    /\ ts[m].report
    /\ ts' = [ts EXCEPT ![m] = Reported(ts[m])]
    /\ \/ Sendf(m, State(ts[m].can, ts[m].reason, past), <<>>)
       \/ /\ (IF ts[m].can THEN "report" ELSE "trigger") \in Droppable
          /\ SendfFull(m, <<>>)
    /\ UNCHANGED <<es, moving, halted, toMcu>> /\ McuOnly

McuCommand(m) ==
    \/ CommandStart(m) \/ CommandSignal(m) \/ CommandTimeout(m) \/ CommandTrigger(m)
    \/ CommandHome(m) \/ CommandEmergencyStop(m) \/ CommandInShutdown(m)

Mcu(m) ==
    \/ McuCommand(m)
    \/ ReportEvent(m) \/ ExpireEvent(m) \/ TrsyncTask(m)

-----------------------------------------------------------------------------
(* Host: the serialqueue thread of an mcu and its fast reader *)

\* handle_trsync_state; which mcus get an extension is left open
HandleTrsyncState(msg) ==
    \/ ~td_can_trigger /\ UNCHANGED <<td_can_trigger, toMcu>>
    \/ /\ td_can_trigger /\ ~msg.can
       /\ td_can_trigger' = FALSE
       /\ toMcu' = [i \in Mcus |-> Append(toMcu[i], Cmd("trigger", REASON_HOST_REQUEST))]
    \/ /\ td_can_trigger /\ msg.can
       /\ \E extended \in SUBSET {i \in Mcus : Len(toMcu[i]) < Backlog} :
            toMcu' = [i \in Mcus |-> IF i \in extended THEN Append(toMcu[i], Cmd("timeout", Armed))
                                     ELSE toMcu[i]]
       /\ td_can_trigger' = td_can_trigger

Arrive(m) ==
    /\ toHost[m] # <<>>
    /\ toHost' = [toHost EXCEPT ![m] = Tail(@)]
    /\ pyq' = [pyq EXCEPT ![m] = Append(@, Head(toHost[m]))]
    /\ IF m \in fast /\ Head(toHost[m]).m = "state" THEN HandleTrsyncState(Head(toHost[m]))
       ELSE UNCHANGED <<td_can_trigger, toMcu>>
    /\ UNCHANGED <<mcuVars, past, estop, td_is_active, fast, bgVars, ctlVars, shutdown, faults>>

-----------------------------------------------------------------------------
(* Host: serialhdl's _bg_thread runs the handler registered for a message *)

\* MCU_trsync._handle_trsync_state
HandleState(m, msg) ==
    \/ /\ ~msg.can
       /\ completed' = (completed \/ m \in waiting)
       /\ waiting' = waiting \ {m}
       /\ UNCHANGED <<home_end, toMcu>>
    \/ /\ msg.can /\ m = 1 /\ home_end # Never /\ msg.clock >= home_end
       /\ home_end' = Never
       /\ toMcu' = [toMcu EXCEPT ![m] = Append(@, Cmd("trigger", REASON_PAST_END_TIME))]
       /\ UNCHANGED <<completed, waiting>>
    \/ /\ msg.can /\ ~(m = 1 /\ home_end # Never /\ msg.clock >= home_end)
       /\ UNCHANGED <<completed, waiting, home_end, toMcu>>

BgThread(m) ==
    LET msg == Head(pyq[m]) IN
    /\ pyq[m] # <<>> /\ msg.m # "shutdown"
    /\ pyq' = [pyq EXCEPT ![m] = Tail(@)]
    /\ acked' = (acked \/ msg.m = "ack")
    /\ last' = IF msg.m = "state" /\ handler[m] = "query" THEN msg.reason ELSE last
    /\ IF msg.m = "state" /\ handler[m] = "state" THEN HandleState(m, msg)
       ELSE UNCHANGED <<completed, waiting, home_end, toMcu>>
    /\ UNCHANGED <<mcuVars, past, estop, toHost, tdVars, ctlVars, shutdown, faults>>

\* An mcu reports its shutdown: the printer's "klippy:shutdown" handlers stop
\* every mcu (MCU._shutdown) and release the homing move (MCU_trsync._shutdown).
PrinterShutdown(m) ==
    /\ pyq[m] # <<>> /\ Head(pyq[m]).m = "shutdown"
    /\ pyq' = [pyq EXCEPT ![m] = Tail(@)]
    /\ shutdown' = TRUE
    /\ IF shutdown THEN UNCHANGED <<estop, completed, waiting>>
       ELSE /\ estop' = Mcus \ {m}
            /\ completed' = (completed \/ waiting # {})
            /\ waiting' = {}
    /\ UNCHANGED <<mcuVars, past, toMcu, toHost, tdVars, home_end, last, acked, ctlVars, faults>>

-----------------------------------------------------------------------------
(* Host: the homing greenlet *)

HostOnly == UNCHANGED <<mcuVars, estop, toHost, pyq, shutdown, faults>>

\* The greenlet goes on with the next trsync, after the last one to step p.
ForEach(p) == IF at < N THEN pc' = pc /\ at' = at + 1 ELSE pc' = p /\ at' = 1

\* homing_move, home_start
HomeStart ==
    /\ pc = "idle" /\ ~shutdown /\ session < Sessions
    /\ pc' = "start" /\ session' = session + 1
    /\ past' = 0
    /\ completed' = FALSE /\ outcome' = "none" /\ found' = 0
    /\ last' = None /\ acked' = FALSE /\ tries' = 0
    /\ res' = [m \in Mcus |-> NoReason]
    /\ UNCHANGED <<toMcu, tdVars, waiting, home_end, at, handler>>
    /\ HostOnly

\* MCU_trsync.start
TrsyncStart ==
    /\ pc = "start" /\ ForEach("dispatch")
    /\ waiting' = waiting \cup {at}
    /\ home_end' = IF at = 1 THEN Never ELSE home_end
    /\ handler' = [handler EXCEPT ![at] = "state"]
    /\ toMcu' = [toMcu EXCEPT ![at] = @ \o <<Cmd("start", Armed), Cmd("signal", 0),
                                             Cmd("timeout", Armed)>>]
    /\ UNCHANGED <<past, tdVars, completed, last, acked, tries, res, outcome, found, session>>
    /\ HostOnly

\* trdispatch_start: the flags under the lock, then the fast readers
DispatchStart ==
    /\ pc = "dispatch"
    /\ td_is_active' = TRUE
    /\ td_can_trigger' = IF at = 1 THEN TRUE ELSE td_can_trigger
    /\ fast' = fast \cup {at}
    /\ ForEach("home")
    /\ UNCHANGED <<past, toMcu, bgVars, handler, tries, res, outcome, found, session>>
    /\ HostOnly

\* home_start sends endstop_home; the drip move follows
HomeCommand ==
    /\ pc = "home" /\ pc' = "drip"
    /\ toMcu' = [toMcu EXCEPT ![1] = Append(@, Cmd("home", Armed))]
    /\ UNCHANGED <<past, tdVars, bgVars, at, handler, tries, res, outcome, found, session>>
    /\ HostOnly

\* Variant of DripMove without set_home_end_time.
DripMoveNoEnd ==
    /\ pc = "drip" /\ pc' = "wait"
    /\ UNCHANGED <<past, toMcu, tdVars, bgVars, at, handler, tries, res, outcome, found, session>>
    /\ HostOnly

\* drip_move returns, early once the completion is done; home_wait sets the end
DripMove ==
    /\ pc = "drip" /\ pc' = "wait"
    /\ home_end' = 1
    /\ UNCHANGED <<past, toMcu, tdVars, waiting, completed, last, acked, at, handler, tries, res,
                   outcome, found, session>>
    /\ HostOnly

\* home_wait: the completion is done, endstop_home switches the endstop off
HomeOff ==
    /\ pc = "wait" /\ completed /\ pc' = "undispatch"
    /\ toMcu' = [toMcu EXCEPT ![1] = Append(@, Cmd("home", Never))]
    /\ UNCHANGED <<past, tdVars, bgVars, at, handler, tries, res, outcome, found, session>>
    /\ HostOnly

\* trdispatch_stop
DispatchStop ==
    /\ pc = "undispatch" /\ ForEach("stop")
    /\ td_is_active' = FALSE
    /\ fast' = fast \ {at}
    /\ UNCHANGED <<past, td_can_trigger, toMcu, bgVars, handler, tries, res, outcome, found, session>>
    /\ HostOnly

SendQuery ==
    /\ toMcu' = [toMcu EXCEPT ![at] = Append(@, Cmd("query", REASON_HOST_REQUEST))]
    /\ acked' = FALSE

\* MCU_trsync.stop
TrsyncStop ==
    /\ pc = "stop" /\ pc' = "query"
    /\ handler' = [handler EXCEPT ![at] = "query"]
    /\ waiting' = waiting \ {at}
    /\ last' = None /\ tries' = Retries
    /\ SendQuery
    /\ UNCHANGED <<past, tdVars, completed, home_end, at, res, outcome, found, session>>
    /\ HostOnly

\* SerialRetryCommand.get_response: the last trsync_state seen is the answer
QueryAnswered ==
    /\ pc = "query" /\ acked /\ last # None
    /\ res' = [res EXCEPT ![at] = last]
    /\ handler' = [handler EXCEPT ![at] = "none"]
    /\ IF at < N THEN pc' = "stop" /\ at' = at + 1 ELSE pc' = "result" /\ at' = 1
    /\ UNCHANGED <<past, toMcu, tdVars, bgVars, tries, outcome, found, session>>
    /\ HostOnly

QueryRetry ==
    /\ pc = "query" /\ acked /\ last = None /\ tries > 0
    /\ tries' = tries - 1 /\ SendQuery
    /\ UNCHANGED <<past, tdVars, waiting, completed, home_end, last, pc, at, handler, res, outcome,
                   found, session>>
    /\ HostOnly

QueryFailed ==
    /\ pc = "query" /\ acked /\ last = None /\ tries = 0
    /\ pc' = "failed" /\ outcome' = "error"
    /\ handler' = [handler EXCEPT ![at] = "none"]
    /\ UNCHANGED <<past, toMcu, tdVars, bgVars, at, tries, res, found, session>>
    /\ HostOnly

\* Variant of HomeResult that only looks for a timeout on the endstop's mcu.
HomeResultFirstOnly ==
    /\ pc = "result" /\ pc' = "idle"
    /\ outcome' = IF res[1] = REASON_COMMS_TIMEOUT THEN "timeout"
                  ELSE IF res[1] # REASON_ENDSTOP_HIT THEN "no trigger" ELSE "hit"
    /\ found' = IF outcome' = "hit" THEN es.nextwake ELSE 0
    /\ UNCHANGED <<past, toMcu, tdVars, bgVars, at, handler, tries, res, session>>
    /\ HostOnly

\* The end of home_wait; on a hit endstop_query_state dates the trigger
HomeResult ==
    /\ pc = "result" /\ pc' = "idle"
    /\ outcome' = IF \E m \in Mcus : res[m] = REASON_COMMS_TIMEOUT THEN "timeout"
                  ELSE IF res[1] # REASON_ENDSTOP_HIT THEN "no trigger" ELSE "hit"
    /\ found' = IF outcome' = "hit" THEN es.nextwake ELSE 0
    /\ UNCHANGED <<past, toMcu, tdVars, bgVars, at, handler, tries, res, session>>
    /\ HostOnly

Home ==
    \/ TrsyncStart \/ DispatchStart \/ HomeCommand \/ DripMove \/ HomeOff \/ DispatchStop
    \/ TrsyncStop \/ QueryAnswered \/ QueryRetry \/ QueryFailed \/ HomeResult

\* Time passes the end of the homing move, which home_start precedes.
MoveEnds ==
    /\ pc \notin {"idle", "failed", "start", "dispatch", "home"} /\ past = 0 /\ past' = 1
    /\ UNCHANGED <<toMcu, tdVars, bgVars, ctlVars>> /\ HostOnly

Next ==
    \/ \E m \in Mcus : Mcu(m) \/ Arrive(m) \/ BgThread(m) \/ PrinterShutdown(m)
    \/ \E pin \in BOOLEAN : EndstopEvent(pin)
    \/ HomeStart \/ Home \/ MoveEnds

Spec == Init /\ [][Next]_vars

-----------------------------------------------------------------------------
(* Properties *)

\* The state stays well formed.
TypeOK ==
    /\ ts \in [Mcus -> Trsyncs] /\ at \in Mcus /\ past \in {0, 1}
    /\ es \in [time : {Never, Armed}, sampling : BOOLEAN, count : 0..SampleCount,
               nextwake : 0..Sessions]
    /\ moving \in [Mcus -> BOOLEAN] /\ halted \in [Mcus -> BOOLEAN]
    /\ fast \subseteq Mcus /\ estop \subseteq Mcus /\ waiting \subseteq Mcus
    /\ handler \in [Mcus -> {"none", "state", "query"}]
    /\ last \in Reasons \cup {None} /\ res \in [Mcus -> Reasons]

\* When home_wait has returned, no mcu still executes the move: every trsync was triggered,
\* if by nothing else by the query of MCU_trsync.stop, and its stepper stopped.
StoppedEverywhere == pc = "idle" => \A m \in Mcus : ~moving[m] /\ ~ts[m].signal

\* When home_wait has returned on live mcus, nothing of the session is left in a queue, a timer
\* or a fast reader: no trigger, timeout or report of it can reach the next session.
NothingInFlight ==
    pc = "idle" /\ ~(\E m \in Mcus : halted[m]) =>
        /\ \A m \in Mcus : /\ toMcu[m] = <<>> /\ toHost[m] = <<>> /\ pyq[m] = <<>>
                           /\ ts[m].rtime = Never /\ ts[m].etime = Never /\ ~ts[m].report
        /\ es.time = Never /\ fast = {}

\* The state is well formed, and between sessions everything stands and nothing of the last
\* one is left: the three above.
SessionInv == TypeOK /\ StoppedEverywhere /\ NothingInFlight

\* home_wait reports a hit only if the endstop stopped mcu 1, with a sample of this very
\* session, and no mcu stopped on a communication timeout (when no answer was dropped).
OutcomeIsTrue ==
    pc = "idle" /\ outcome = "hit" =>
        /\ \A m \in Mcus : ~halted[m] => ts[m].reason # REASON_COMMS_TIMEOUT
        /\ ts[1].reason = REASON_ENDSTOP_HIT \/ halted[1]
        /\ found = session

\* A session ends, with a result or an error, also when reports are dropped and when the
\* endstop is never hit: the end of the move is reported by the first mcu's next report.
SessionEnds == pc = "start" ~> pc \in {"idle", "failed"}

=============================================================================
