------------------------------- MODULE Toolhead -------------------------------
(***************************************************************************)
(* The toolhead of klippy/toolhead.py: print_time, the states of its       *)
(* queuing (Flushed, Priming, main and Drip), the flush timer, and the     *)
(* greenlet of the gcode commands, which pauses inside them while the      *)
(* flush timer runs.                                                       *)
(*                                                                         *)
(* Times are integers relative to the estimated print time of the present, *)
(* so that Tick moves them all back by one; a time more than Past ago is   *)
(* only known to be so.  A move is its duration; which moves a lazy flush  *)
(* of the look-ahead queue hands out is free here, see LookAhead.  The     *)
(* counter print_stall is left out.                                        *)
(***************************************************************************)
EXTENDS Integers, SequencesExt

CONSTANTS Durations, MaxQueue,
          Delays,                       \* scan times of kinematics and extruders
          MinKin, Start, Low, High,     \* MIN_KIN_TIME, buffer_time_start, _low and _high
          Prime,                        \* the 0.100 of _check_stall
          Second,                       \* its longest pause
          DripLead, DripSegment,        \* DRIP_TIME + move_flush_time, DRIP_SEGMENT_TIME
          MaxLate,                      \* by how much a timer or a pause may be late
          Past,
          MaxLead                       \* bound: the scan time changes only up to this print_time

NEVER == 1000
Always == -1000     \* need_check_stall = -1.: before any print_time

VARIABLES
    th,          \* attributes of ToolHead; history: sg, the last flush time of the step
                 \* generators, and sound, whether all moves were appended in time
    main,        \* greenlet of the gcode command: [at, wake, target, next]
    can_pause,
    drip_done    \* drip_completion.test()

vars == <<th, main, can_pause, drip_done>>

Idle == [at |-> "idle", wake |-> 0, target |-> 0, next |-> "idle"]

Init ==
    /\ th = [queue |-> <<>>, print_time |-> 0, state |-> "Flushed", need_check_stall |-> Always,
             flush_timer |-> NEVER, force_flush_time |-> 0, last_kin_move_time |-> 0,
             kin_flush_delay |-> Min(Delays), sg |-> 0, sound |-> TRUE]
    /\ main = Idle /\ can_pause = TRUE /\ drip_done = FALSE

-----------------------------------------------------------------------------
(* Methods of ToolHead, from attributes to attributes *)

\* _update_move_time: its last round
UpdateMoveTime(t, next) ==
    LET sg == Max({t.force_flush_time, next - t.kin_flush_delay})
    IN [t EXCEPT !.print_time = next, !.sg = sg, !.sound = @ /\ sg >= t.sg]

CalcNoForce(t) == [t EXCEPT !.print_time = Max({@, Start, MinKin + t.kin_flush_delay})]
CalcPrintTime(t) ==
    LET kin_time == Max({MinKin, t.force_flush_time}) + t.kin_flush_delay
    IN [t EXCEPT !.print_time = Max({@, Start, kin_time})]

\* _process_moves up to the step generation
Resync(t) ==
    IF t.state = "" THEN t
    ELSE IF t.state = "Drip" THEN CalcPrintTime(t)
    ELSE CalcPrintTime([t EXCEPT !.state = "", !.need_check_stall = Always, !.flush_timer = 0])
Appended(t) == [t EXCEPT !.sound = @ /\ t.print_time >= t.sg + t.kin_flush_delay /\ t.print_time > 0]
AppendMoves(t) == Appended(Resync(t))

\* The rest of it, outside the drip state
GenerateSteps(t, next) ==
    [UpdateMoveTime(t, next) EXCEPT !.last_kin_move_time = Max({@, next})]

Duration(moves) == FoldLeft(LAMBDA d, m : d + m, 0, moves)

\* MoveQueue.flush when it hands out the first n moves
Processed(t, n) == [GenerateSteps(t, t.print_time + Duration(SubSeq(t.queue, 1, n)))
                       EXCEPT !.queue = SubSeq(@, n + 1, Len(@))]
FlushMoves(t, n) == IF n = 0 THEN t ELSE Processed(AppendMoves(t), n)
FlushAll(t) == FlushMoves(t, Len(t.queue))

\* flush_step_generation
FlushTime(t) == Max({t.print_time - t.kin_flush_delay, t.last_kin_move_time + t.kin_flush_delay})
ForceFlush(t) == UpdateMoveTime(t, Max({t.print_time, t.force_flush_time}))
FlushWindows(t, flush_time) ==
    ForceFlush([IF flush_time > t.print_time THEN UpdateMoveTime(t, flush_time) ELSE t
                   EXCEPT !.force_flush_time = Max({@, flush_time})])
EnterFlushed(t) == [t EXCEPT !.state = "Flushed", !.need_check_stall = Always, !.flush_timer = NEVER]
ToFlushed(t) == FlushWindows(t, FlushTime(t))
FlushStepGeneration(t) == ToFlushed(EnterFlushed(FlushAll(t)))

FlushLookahead(t) == IF t.state # "" THEN FlushStepGeneration(t) ELSE FlushAll(t)

SyncPrintTime(t) == IF t.state # "" THEN CalcPrintTime(t) ELSE t
GetLastMoveTime(t) == SyncPrintTime(FlushLookahead(t))

\* _check_stall up to its loop
PrimeUnarmed(t) ==
    IF t.state = "" THEN t ELSE [t EXCEPT !.state = "Priming", !.need_check_stall = Always]
EnterPriming(t) ==
    IF t.state = "" THEN t
    ELSE [t EXCEPT !.state = "Priming", !.need_check_stall = Always, !.flush_timer = Prime]

Dwelt(t, d) == EnterPriming(UpdateMoveTime(t, t.print_time + d))
DwellFor(t, d) == Dwelt(GetLastMoveTime(t), d)

-----------------------------------------------------------------------------
(* The gcode greenlet *)

\* A command may start; a shutdown takes the handlers of gcode commands away
Ready == main.at = "idle" /\ can_pause

Return(next) == main' = [Idle EXCEPT !.at = next]

\* need_check_stall in the main state
NextCheckOfPrint(t) == t.print_time + High + Prime
NextCheck(t) == High + Prime

\* The loop of _check_stall, once; then the command goes on to next
StallLoop(t, next) ==
    LET stall_time == t.print_time - High IN
    \/ /\ stall_time <= 0 /\ Return(next)
       /\ th' = IF t.state = "" THEN [t EXCEPT !.need_check_stall = NextCheck(t)] ELSE t
    \/ /\ stall_time > 0 /\ ~can_pause /\ Return(next)
       /\ th' = [t EXCEPT !.need_check_stall = NEVER]
    \/ /\ stall_time > 0 /\ can_pause /\ th' = t
       /\ main' = [Idle EXCEPT !.at = "stall", !.wake = Min({Second, stall_time}), !.next = next]

\* move, with add_move
MoveAdded(t) ==
    IF t.print_time > t.need_check_stall THEN StallLoop(EnterPriming(t), "idle")
    ELSE th' = t /\ UNCHANGED main
Move(d) ==
    /\ Ready /\ Len(th.queue) < MaxQueue
    /\ \E n \in 0 .. Len(th.queue) : MoveAdded(FlushMoves([th EXCEPT !.queue = Append(@, d)], n))
    /\ UNCHANGED <<can_pause, drip_done>>

Dwell(d) == Ready /\ StallLoop(DwellFor(th, d), "idle") /\ UNCHANGED <<can_pause, drip_done>>

Stall ==
    /\ main.at = "stall" /\ main.wake <= 0 /\ StallLoop(th, main.next)
    /\ UNCHANGED <<can_pause, drip_done>>

\* wait_moves
WaitLoop(t) ==
    /\ th' = t
    /\ IF (t.state = "" \/ t.print_time >= 0) /\ can_pause
       THEN main' = [Idle EXCEPT !.at = "wait", !.wake = 1]
       ELSE Return("idle")
WaitMoves ==
    /\ \/ Ready /\ WaitLoop(FlushLookahead(th))
       \/ main.at = "wait" /\ main.wake <= 0 /\ WaitLoop(th)
    /\ UNCHANGED <<can_pause, drip_done>>

\* get_last_move_time; set_position; note_step_generation_scan_time
LastMoveTime == Ready /\ th' = GetLastMoveTime(th) /\ UNCHANGED <<main, can_pause, drip_done>>
SetPosition == Ready /\ th' = FlushStepGeneration(th) /\ UNCHANGED <<main, can_pause, drip_done>>
NoteScanTime(d) ==
    /\ Ready /\ th.print_time <= MaxLead
    /\ th' = [FlushStepGeneration(th) EXCEPT !.kin_flush_delay = d]
    /\ UNCHANGED <<main, can_pause, drip_done>>

\* drip_move: its dwell
DripMove ==
    /\ Ready /\ StallLoop(DwellFor(th, th.kin_flush_delay), "drip start")
    /\ drip_done' = FALSE /\ UNCHANGED can_pause

\* drip_move up to the first round of _update_drip_move_time; the move may be refused
EnterDrip(t) == [t EXCEPT !.state = "Drip", !.need_check_stall = NEVER, !.flush_timer = NEVER]
DripStart(d) ==
    /\ main.at = "drip start"
    /\ \/ /\ th' = AppendMoves([EnterDrip(FlushAll(th)) EXCEPT !.queue = <<d>>])
          /\ main' = [Idle EXCEPT !.at = "drip", !.target = th'.print_time + d]
       \/ th' = FlushStepGeneration(EnterDrip(FlushAll(th))) /\ Return("idle")
    /\ UNCHANGED <<can_pause, drip_done>>

\* _update_drip_move_time, once
Drip ==
    LET wait_time == th.print_time - DripLead - th.kin_flush_delay IN
    /\ main.at = "drip" /\ main.wake <= 0 /\ th.print_time < main.target /\ ~drip_done
    /\ IF wait_time > 0 /\ can_pause
       THEN main' = [main EXCEPT !.wake = wait_time] /\ UNCHANGED th
       ELSE /\ th' = UpdateMoveTime(th, Min({th.print_time + DripSegment, main.target}))
            /\ UNCHANGED main
    /\ UNCHANGED <<can_pause, drip_done>>

\* The rest of drip_move, after the end signal or the rest of _process_moves
DripOver == main.at = "drip" /\ (drip_done \/ th.print_time >= main.target)
DripEnd ==
    /\ DripOver /\ Return("idle")
    /\ th' = FlushStepGeneration([IF th.print_time < main.target THEN th
                                  ELSE GenerateSteps(th, main.target) EXCEPT !.queue = <<>>])
    /\ UNCHANGED <<can_pause, drip_done>>

-----------------------------------------------------------------------------
(* What happens meanwhile *)

Paused == main.at # "drip start"

\* _flush_handler
FlushDue == Paused /\ th.flush_timer <= 0
FlushOnce ==
    /\ FlushDue
    /\ th' = IF th.print_time > Low THEN [th EXCEPT !.flush_timer = NEVER] ELSE FlushStepGeneration(th)
    /\ UNCHANGED <<main, can_pause, drip_done>>
FlushHandler ==
    /\ FlushDue
    /\ th' = IF th.print_time > Low THEN [th EXCEPT !.flush_timer = th.print_time - Low]
             ELSE FlushStepGeneration(th)
    /\ UNCHANGED <<main, can_pause, drip_done>>

\* drip_completion.complete, by a trigger or a failure
Complete == ~drip_done /\ drip_done' = TRUE /\ UNCHANGED <<th, main, can_pause>>

\* _handle_shutdown
Shutdown ==
    /\ Paused /\ can_pause /\ can_pause' = FALSE /\ th' = [th EXCEPT !.queue = <<>>]
    /\ UNCHANGED <<main, drip_done>>

Earlier(time) == IF time \in {NEVER, Always} THEN time ELSE Max({time - 1, -Past})
Tick ==
    /\ Paused /\ th.flush_timer > -MaxLate
    /\ main.at \in {"stall", "wait", "drip"} => main.wake > -MaxLate
    /\ th' = [f \in DOMAIN th |->
                 IF f \in {"print_time", "need_check_stall", "flush_timer", "force_flush_time",
                           "last_kin_move_time", "sg"} THEN Earlier(th[f]) ELSE th[f]]
    /\ main' = IF main.at = "idle" THEN main
               ELSE [main EXCEPT !.wake = Earlier(@), !.target = Earlier(@)]
    /\ UNCHANGED <<can_pause, drip_done>>

Next ==
    \/ \E d \in Durations : Move(d) \/ Dwell(d) \/ DripStart(d)
    \/ WaitMoves \/ Stall \/ LastMoveTime \/ SetPosition \/ (\E d \in Delays : NoteScanTime(d))
    \/ DripMove \/ Drip \/ DripEnd \/ FlushHandler \/ Complete \/ Shutdown \/ Tick

Spec == Init /\ [][Next]_vars

-----------------------------------------------------------------------------
(* Properties *)

\* Moves are appended to the trapq later than the present and not before the last flush time
\* of the step generators plus the window they scan, and that flush time never goes back; so
\* no step already generated would have been another one, in whatever order moves, dwells,
\* drip moves, changes of the scan window and the flush timer come.
AppendsAhead == th.sound

\* Queued moves do not wait for more input: while the queue holds a move, or the toolhead is
\* in its main state, the flush timer is armed, and in time to flush before the buffer is low.
FlushInTime ==
    Paused /\ main.at # "drip" /\ (th.queue # <<>> \/ th.state = "") =>
        th.flush_timer <= Max({th.print_time - Low, IF th.state = "" THEN 0 ELSE Prime})

\* The host does not run ahead: when a move or a dwell returns, motion is planned at most
\* buffer_time_high and 0.1 seconds ahead, though the check is not made on each move
\* (need_check_stall).
BufferBounded ==
    [][ can_pause /\ main'.at = "idle" /\ th'.print_time > High + Prime
        => ~(Stall \/ \E d \in Durations : Move(d) \/ Dwell(d)) ]_vars

\* Every command returns: a stalled one when the buffer has drained, M400 because the flush
\* timer ends the main state, a drip move at its end or when its completion is set.
CommandsReturn == main.at # "idle" ~> main.at = "idle"
=============================================================================
