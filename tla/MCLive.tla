-------------------------------- MODULE MCLive --------------------------------
(***************************************************************************)
(* What must eventually happen, in one run: a behaviour is one of          *)
(* HomingSession, McuConfig, SerialThreads or Toolhead, as part says.      *)
(* Fairness is stated here, for each action under the condition that its   *)
(* component runs.                                                         *)
(***************************************************************************)
EXTENDS SerialThreads

CONSTANTS McuCount, SampleCount, Retries, Droppable, Sessions, Faults, Backlog,
          V, Methods, MaxRestarts, MaxFaults,
          Durations, MaxQueue, Delays, MinKin, Start, Low, High, Prime, Second, DripLead,
          DripSegment, MaxLate, Past, MaxLead

VARIABLES part,
          ts, es, moving, halted, past, toMcu, estop, toHost, pyq, td_is_active, td_can_trigger, fast,
          pc, at, handler, waiting, completed, home_end, last, acked, tries, res, outcome, found,
          shutdown, session, faults,
          mcu, pipe, back, link, host, printer, connecting, async_down, file, method, restarts,
          lost, unsound, silent, mixed,
          th, greenlet, can_pause, drip_done

Mcus == 1 .. McuCount

Homing == INSTANCE HomingSession WITH N <- McuCount
Config == INSTANCE McuConfig WITH N <- McuCount, pc <- connecting, faults <- lost
Motion == INSTANCE Toolhead WITH main <- greenlet

homingvars == <<ts, es, moving, halted, past, toMcu, estop, toHost, pyq, td_is_active, td_can_trigger, fast,
                pc, at, handler, waiting, completed, home_end, last, acked, tries, res, outcome, found,
                shutdown, session, faults>>
configvars == <<mcu, pipe, back, link, host, printer, connecting, async_down, file, method, restarts,
                lost, unsound, silent, mixed>>
motionvars == <<th, greenlet, can_pause, drip_done>>
MCvars == <<part, vars, homingvars, configvars, motionvars>>

MCInit ==
    /\ part \in {"homing", "config", "threads", "motion"}
    /\ Homing!Init /\ Config!Init /\ Init /\ Motion!Init
    /\ part # "config" => method = "arduino"

MCNext ==
    \/ part = "homing" /\ Homing!Next /\ UNCHANGED <<part, vars, configvars, motionvars>>
    \/ part = "config" /\ Config!Next /\ UNCHANGED <<part, vars, homingvars, motionvars>>
    \/ part = "threads" /\ Next /\ UNCHANGED <<part, homingvars, configvars, motionvars>>
    \/ part = "motion" /\ Motion!Next /\ UNCHANGED <<part, vars, homingvars, configvars>>

\* The threads of the host and the interrupts and tasks of the mcus keep running,
\* time passes; whether the endstop is ever hit is not assumed.
HomingFair ==
    /\ WF_homingvars(part = "homing" /\ Homing!Home) /\ WF_homingvars(part = "homing" /\ Homing!MoveEnds)
    /\ \A m \in Mcus :
        /\ WF_homingvars(part = "homing" /\ Homing!McuCommand(m))
        /\ WF_homingvars(part = "homing" /\ Homing!ReportEvent(m))
        /\ WF_homingvars(part = "homing" /\ Homing!TrsyncTask(m))
        /\ WF_homingvars(part = "homing" /\ Homing!Arrive(m))
        /\ WF_homingvars(part = "homing" /\ Homing!BgThread(m))
        /\ WF_homingvars(part = "homing" /\ Homing!PrinterShutdown(m))

\* The reactor, the mcus and the threads that read from them run; nothing is assumed of
\* faults, of users, or that a broken link finds back into step.
ConfigFair ==
    /\ WF_configvars(part = "config" /\ Config!Greenlet)
    /\ WF_configvars(part = "config" /\ Config!AsyncShutdown)
    /\ \A m \in Mcus : /\ WF_configvars(part = "config" /\ Config!Dispatch(m))
                       /\ WF_configvars(part = "config" /\ Config!BgThread(m))

\* Every thread that is not waiting runs; nobody need start or stop a homing session.
ThreadsFair ==
    /\ WF_vars(part = "threads" /\ Join)
    /\ WF_vars(part = "threads" /\ main.at = "exit" /\ Disconnect)
    /\ \A i \in Sqs : /\ WF_vars(part = "threads" /\ Bg(i))
                      /\ WF_vars(part = "threads" /\ Pull(i))

\* Time passes, the reactor runs timers and greenlets that are due.  For FlushHandler and
\* DripEnd this is said of the conditions under which they are enabled, which they end.
MotionFair ==
    /\ WF_motionvars(part = "motion" /\ Motion!Tick)
    /\ WF_motionvars(part = "motion" /\ Motion!Stall) /\ WF_motionvars(part = "motion" /\ Motion!Drip)
    /\ WF_motionvars(part = "motion" /\ greenlet.at = "wait" /\ Motion!WaitMoves)
    /\ WF_motionvars(part = "motion" /\ \E d \in Durations : Motion!DripStart(d))
    /\ []<>(part = "motion" => ~Motion!FlushDue) /\ []<>(part = "motion" => ~Motion!DripOver)

MCFairSpec == MCInit /\ [][MCNext]_MCvars /\ HomingFair /\ ConfigFair /\ ThreadsFair /\ MotionFair

\* The host comes to rest in ready, error or shutdown, unless a link stays broken.
HostComesToRest == part = "config" => Config!HostComesToRest

\* A homing session ends, with a result or an error.
SessionEnds == Homing!SessionEnds

\* Every motion command returns.
CommandsReturn == Motion!CommandsReturn
=============================================================================
