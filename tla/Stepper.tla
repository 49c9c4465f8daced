------------------------------- MODULE Stepper -------------------------------
(***************************************************************************)
(* One stepper of a micro-controller (src/stepper.c) with the pool of move *)
(* nodes (src/basecmd.c), and the host's view of it: the messages of       *)
(* chelper/stepcompress.c and MCU_stepper.note_homing_end.  Steps are      *)
(* executed from the timer interrupt; a homing trigger or a shutdown stops *)
(* the stepper at any moment, also while queue_step is being handled and   *)
(* while steps the host sent before it knew are still on their way.        *)
(*                                                                         *)
(* The position is a word of the mcu whose top bit is also the direction:  *)
(* it counts modulo 4 * BIAS here (2^32 in the code).  Step times are left *)
(* out: an armed step timer may fire at any moment.                        *)
(***************************************************************************)
EXTENDS Integers, Sequences, Functions

CONSTANTS BIAS,         \* POSITION_BIAS
          SingleSched,  \* may SF_SINGLE_SCHED be set, may it not
          move_count,   \* nodes of the pool
          Counts,       \* step counts of the moves queued
          MaxMoves, MaxHomings, MaxRestarts  \* bounds

ASSUME StepperAssumption ==
    /\ BIAS \in Nat \ {0} /\ SingleSched \subseteq BOOLEAN
    /\ move_count \in Nat
    /\ Counts \subseteq Nat \ {0}
    /\ MaxMoves \in Nat /\ MaxHomings \in Nat /\ MaxRestarts \in Nat

WORD == 4 * BIAS
Wrap(x) == x % WORD

VARIABLES
    \* struct stepper
    single_sched, \* SF_SINGLE_SCHED, set by command_config_stepper
    count, position, mq,
    last_dir, next_dir, need_reset,
    dir_pin, step_pin,
    signal,      \* stop_signal is registered with a trsync
    \* basecmd.c, and the command being handled
    free,        \* move_free_list
    hand,        \* node command_queue_step has allocated and not yet queued
    is_shutdown,
    \* host
    pipe,        \* stepcompress messages the mcu has not handled, in order
    sdir,        \* direction last sent, -1: unknown
    last_position,
    connected,   \* "no", "config": position not read yet, "yes"
    homing,
    \* history
    taken,       \* where the stepper really is
    going,       \* direction the host gave the move being executed
    moves, homings, restarts

motion == <<count, position, mq, last_dir, next_dir, need_reset, dir_pin, step_pin,
            free, taken, going>>
host == <<sdir, last_position, connected, homing, moves, homings>>
vars == <<single_sched, motion, signal, hand, is_shutdown, pipe, host, restarts>>

Events == IF single_sched THEN 1 ELSE 2   \* timer events per step

Reset == [c |-> "reset_step_clock"]
SetDir(d) == [c |-> "set_next_step_dir", dir |-> d]
QueueStep(d, n) == [c |-> "queue_step", dir |-> d, count |-> n]

\* The nodes by their place in move_list; move_reset links them in that order.
Nodes == 1 .. move_count
NoNode == 0
AllNodes == [i \in Nodes |-> i]

\* command_config_stepper and move_finalize; the host has sent its configuration
Init ==
    /\ single_sched \in SingleSched
    /\ count = 0 /\ position = Wrap(-BIAS) /\ mq = <<>>
    /\ last_dir = 0 /\ next_dir = 0 /\ need_reset = FALSE
    /\ dir_pin = 0 /\ step_pin = 0 /\ signal = FALSE
    /\ free = AllNodes /\ hand = NoNode /\ is_shutdown = FALSE
    /\ pipe = <<Reset>> /\ sdir = -1 /\ last_position = 0
    /\ connected = "config" /\ homing = FALSE
    /\ taken = 0 /\ going = 0
    /\ moves = 0 /\ homings = 0 /\ restarts = 0

-----------------------------------------------------------------------------
(* Step execution *)

\* stepper_get_position
GetPosition ==
    LET pos == Wrap(position - count \div Events) IN
    IF pos >= 2 * BIAS THEN Wrap(-pos) ELSE pos

\* command_stepper_get_position, the argument of the answer read as a signed word
ReportedPosition ==
    LET pos == Wrap(GetPosition - BIAS) IN
    IF pos >= 2 * BIAS THEN pos - WORD ELSE pos

\* stepper_load_next, the moves q being queued
LoadNext(q) ==
    IF q = <<>>
    THEN count' = 0 /\ mq' = q /\ UNCHANGED <<position, dir_pin, free, going>>
    ELSE LET m == Head(q) IN
         /\ count' = m.count * Events
         /\ position' = Wrap((IF m.flip THEN -position ELSE position) + m.count)
         /\ dir_pin' = IF m.flip THEN 1 - dir_pin ELSE dir_pin
         /\ mq' = Tail(q)
         /\ free' = <<m.node>> \o free
         /\ going' = m.dir

\* stepper_event: the timer of an active stepper toggles the step pin
StepEvent ==
    /\ count > 0
    /\ step_pin' = 1 - step_pin
    /\ taken' = IF single_sched \/ step_pin = 0
                THEN taken + (IF dir_pin = 1 THEN 1 ELSE -1) ELSE taken
    /\ IF count > 1
       THEN count' = count - 1 /\ UNCHANGED <<position, dir_pin, mq, free, going>>
       ELSE LoadNext(mq)
    /\ UNCHANGED <<last_dir, next_dir, need_reset, signal, hand, is_shutdown, pipe, host,
                   restarts>>

\* Variant of StopSteps that does not set SF_NEED_RESET.
StopNeedsNoReset ==
    /\ position' = Wrap(-GetPosition)
    /\ count' = 0 /\ mq' = <<>>
    /\ last_dir' = 0 /\ next_dir' = 0
    /\ dir_pin' = 0
    /\ step_pin' = IF single_sched THEN step_pin ELSE 0
    /\ UNCHANGED <<need_reset, taken, going>>

\* stepper_stop, but for the nodes it frees
StopSteps ==
    /\ position' = Wrap(-GetPosition)
    /\ count' = 0 /\ mq' = <<>>
    /\ last_dir' = 0 /\ next_dir' = 0 /\ need_reset' = TRUE
    /\ dir_pin' = 0
    /\ step_pin' = IF single_sched THEN step_pin ELSE 0
    /\ UNCHANGED <<taken, going>>

\* The free list after stepper_stop with the moves q queued and the nodes f free
Freed(q, f) == [i \in 1..Len(q) |-> q[Len(q) - i + 1].node] \o f

\* trsync_do_trigger invokes the callback of stepper_stop_on_trigger
Trigger ==
    /\ signal
    /\ signal' = FALSE
    /\ StopSteps
    /\ free' = Freed(mq, free)
    /\ UNCHANGED <<hand, is_shutdown, pipe, host, restarts>>

-----------------------------------------------------------------------------
(* Shutdown *)

\* Variant of QueueClear that leaves the moves queued.
QueueKept(q) == q

\* move_queue_clear
QueueClear(q) == <<>>

\* The free list once run_shutdown has called move_reset and stepper_shutdown,
\* in the order of the link
ResetAndStopped == {Freed(QueueClear(mq), AllNodes), AllNodes}

\* run_shutdown; the commands on their way are ignored by a mcu that is shut down
RunShutdown ==
    /\ StopSteps
    /\ free' \in ResetAndStopped
    /\ signal' = FALSE /\ hand' = NoNode
    /\ is_shutdown' = TRUE
    /\ pipe' = <<>>
    /\ connected' = "no" /\ homing' = FALSE
    /\ UNCHANGED <<sdir, last_position, moves, homings, restarts>>

\* emergency_stop, or a shutdown raised elsewhere in the mcu
CommandEmergencyStop ==
    /\ connected = "yes"
    /\ RunShutdown

\* command_clear_shutdown
CommandClearShutdown ==
    /\ is_shutdown
    /\ is_shutdown' = FALSE
    /\ UNCHANGED <<motion, signal, hand, pipe, host, restarts>>

-----------------------------------------------------------------------------
(* Commands *)

Receive(c) == hand = NoNode /\ pipe # <<>> /\ Head(pipe).c = c

\* command_queue_step up to irq_disable: the node is allocated
CommandQueueStepAlloc ==
    /\ Receive("queue_step")
    /\ IF free = <<>>
       THEN RunShutdown
       ELSE /\ hand' = Head(free) /\ free' = Tail(free)
            /\ UNCHANGED <<count, position, mq, last_dir, next_dir, need_reset, dir_pin,
                           step_pin, taken, going, signal, is_shutdown, pipe, host, restarts>>

\* The move that command_queue_step makes of message m
NewMove(m) == [node |-> hand, count |-> m.count, dir |-> m.dir,
               flip |-> last_dir # next_dir]

\* Variant of CommandQueueStep that does not check SF_NEED_RESET.
QueueStepUnchecked ==
    /\ hand # NoNode
    /\ LET m == NewMove(Head(pipe)) IN
       \/ /\ count > 0
          /\ mq' = Append(mq, m) /\ last_dir' = next_dir
          /\ UNCHANGED <<count, position, dir_pin, free, going>>
       \/ /\ count = 0
          /\ last_dir' = next_dir
          /\ LoadNext(<<m>>)
    /\ hand' = NoNode /\ pipe' = Tail(pipe)
    /\ UNCHANGED <<next_dir, need_reset, step_pin, taken, signal, is_shutdown, host, restarts>>

\* command_queue_step, with interrupts disabled
CommandQueueStep ==
    /\ hand # NoNode
    /\ LET m == NewMove(Head(pipe)) IN
       \/ /\ count > 0
          /\ mq' = Append(mq, m) /\ last_dir' = next_dir
          /\ UNCHANGED <<count, position, dir_pin, free, going>>
       \/ /\ count = 0 /\ need_reset
          /\ free' = <<hand>> \o free
          /\ UNCHANGED <<count, position, mq, last_dir, dir_pin, going>>
       \/ /\ count = 0 /\ ~need_reset
          /\ last_dir' = next_dir
          /\ LoadNext(<<m>>)
    /\ hand' = NoNode /\ pipe' = Tail(pipe)
    /\ UNCHANGED <<next_dir, need_reset, step_pin, taken, signal, is_shutdown, host, restarts>>

\* command_set_next_step_dir
CommandSetNextStepDir ==
    /\ Receive("set_next_step_dir")
    /\ next_dir' = Head(pipe).dir
    /\ pipe' = Tail(pipe)
    /\ UNCHANGED <<count, position, mq, last_dir, need_reset, dir_pin, step_pin, free,
                   taken, going, signal, hand, is_shutdown, host, restarts>>

\* command_reset_step_clock
CommandResetStepClock ==
    /\ Receive("reset_step_clock")
    /\ IF count > 0
       THEN RunShutdown
       ELSE /\ need_reset' = FALSE
            /\ pipe' = Tail(pipe)
            /\ UNCHANGED <<count, position, mq, last_dir, next_dir, dir_pin, step_pin, free,
                           taken, going, signal, hand, is_shutdown, host, restarts>>

-----------------------------------------------------------------------------
(* Host *)

\* stepcompress: set_next_step_dir when the direction changes, then add_move
AddMove(d, n) ==
    /\ connected = "yes" /\ moves < MaxMoves
    /\ pipe' = pipe \o (IF sdir = d THEN <<>> ELSE <<SetDir(d)>>) \o <<QueueStep(d, n)>>
    /\ sdir' = d
    /\ last_position' = last_position + (IF d = 1 THEN n ELSE -n)
    /\ moves' = moves + 1
    /\ UNCHANGED <<motion, signal, hand, is_shutdown, connected, homing, homings, restarts>>

\* MCU_trsync.start: stepper_stop_on_trigger, all earlier moves having ended
HomingStart ==
    /\ connected = "yes" /\ ~homing /\ homings < MaxHomings
    /\ pipe = <<>> /\ count = 0
    /\ homing' = TRUE /\ signal' = TRUE /\ homings' = homings + 1
    /\ UNCHANGED <<motion, hand, is_shutdown, pipe, sdir, last_position, connected, moves,
                   restarts>>

\* Variant of StepcompressReset that believes the direction is still set.
ResetKeepsDir == UNCHANGED sdir

\* stepcompress_reset: the direction the mcu is set to is no longer known
StepcompressReset == sdir' = -1

\* MCU_stepper.note_homing_end, after home_wait: the trsync has triggered
NoteHomingEnd ==
    /\ homing /\ ~signal
    /\ homing' = FALSE
    /\ StepcompressReset
    /\ pipe' = Append(pipe, Reset)
    /\ last_position' = ReportedPosition
    /\ UNCHANGED <<motion, signal, hand, is_shutdown, connected, moves, homings, restarts>>

\* A new host process connects, whatever the old one was doing: reset_step_clock
\* is among the restart commands.  A trsync left armed has expired by then.
HostConnect ==
    /\ ~is_shutdown /\ ~signal /\ hand = NoNode /\ restarts < MaxRestarts
    /\ pipe' = <<Reset>> /\ StepcompressReset
    /\ connected' = "config" /\ homing' = FALSE
    /\ restarts' = restarts + 1
    /\ UNCHANGED <<motion, signal, hand, is_shutdown, last_position, moves, homings>>

\* _query_mcu_position at klippy:connect
QueryMcuPosition ==
    /\ connected = "config" /\ pipe = <<>>
    /\ connected' = "yes"
    /\ last_position' = ReportedPosition
    /\ UNCHANGED <<motion, signal, hand, is_shutdown, pipe, sdir, homing, moves, homings,
                   restarts>>

Next ==
    /\ \/ StepEvent \/ Trigger
       \/ CommandEmergencyStop \/ CommandClearShutdown
       \/ CommandQueueStepAlloc \/ CommandQueueStep
       \/ CommandSetNextStepDir \/ CommandResetStepClock
       \/ \E d \in {0, 1}, n \in Counts : AddMove(d, n)
       \/ HomingStart \/ NoteHomingEnd \/ HostConnect \/ QueryMcuPosition
    /\ UNCHANGED single_sched

Spec == Init /\ [][Next]_vars

-----------------------------------------------------------------------------
(* Properties *)

Moves == [node : Nodes, count : Counts, dir : {0, 1}, flip : BOOLEAN]
Messages == [c : {"reset_step_clock"}] \cup [c : {"set_next_step_dir"}, dir : {0, 1}]
            \cup [c : {"queue_step"}, dir : {0, 1}, count : Counts]

\* Every variable keeps its type; the position word keeps its width.
TypeOK ==
    /\ count \in Nat /\ position \in 0 .. WORD - 1 /\ mq \in Seq(Moves)
    /\ last_dir \in {0, 1} /\ next_dir \in {0, 1} /\ dir_pin \in {0, 1}
    /\ step_pin \in {0, 1} /\ going \in {0, 1}
    /\ single_sched \in BOOLEAN /\ need_reset \in BOOLEAN /\ signal \in BOOLEAN
    /\ is_shutdown \in BOOLEAN /\ homing \in BOOLEAN
    /\ free \in Seq(Nodes) /\ hand \in Nodes \cup {NoNode} /\ pipe \in Seq(Messages)
    /\ sdir \in {-1, 0, 1} /\ last_position \in Int /\ taken \in Int
    /\ connected \in {"no", "config", "yes"}

\* stepper_get_position reports exactly the steps the motor was given, in the middle of
\* a move or of a pulse, after a stop and after a shutdown.
PositionReported == ReportedPosition = taken

\* Each step is made in the direction the host gave its move, although only changes of
\* direction are sent and moves and directions are dropped at a stop.
DirectionFollowed == count > 0 => dir_pin = going

\* The mcu's position is the motor's, and the motor goes where the host meant: the two above.
PositionExact == PositionReported /\ DirectionFollowed

\* No move node is ever in two places, and none is lost while no command holds one:
\* free list, move queue and the command being handled share the pool out.
NodesPartitioned ==
    LET queued == [i \in 1..Len(mq) |-> mq[i].node] IN
    /\ IsInjective(free) /\ IsInjective(queued)
    /\ Range(free) \cap Range(queued) = {} /\ hand \notin Range(free) \cup Range(queued)
    /\ Nodes \subseteq Range(free) \cup Range(queued) \cup {hand}

\* When no steps are outstanding the host's last_position is where the motor is:
\* after a homing move it was cut short, after a restart, after a shutdown.
HostKnowsPosition ==
    connected = "yes" /\ ~homing /\ pipe = <<>> /\ count = 0 => last_position = taken

\* Every variable has its type and every move node its one place.
PoolInv == TypeOK /\ NodesPartitioned

\* The reset_step_clock of note_homing_end never meets an active stepper, for which
\* the mcu would shut down: steps sent before it are discarded at the stop.
ResetMeetsIdleStepper ==
    connected = "yes" /\ pipe # <<>> /\ Head(pipe) = Reset => count = 0

\* A stopped stepper stands still until the host has acknowledged the stop: no
\* queue_step sent earlier makes it move.
StoppedUntilReset == need_reset => count = 0 /\ mq = <<>>

\* A stop holds until the host answers it, and finds the stepper idle when it does:
\* the two above.
StopHolds == ResetMeetsIdleStepper /\ StoppedUntilReset

-----------------------------------------------------------------------------
(* The inductive invariant behind them *)

Is(i, c) == pipe[i].c = c

\* A homing move that has triggered, and the reset_step_clock that follows it, find the
\* stepper stopped; there is one such message at a time.
HomingInv ==
    /\ signal => homing
    /\ homing => connected = "yes" /\ (signal \/ need_reset)
    /\ homing => \A i \in DOMAIN pipe : ~Is(i, "reset_step_clock")
    /\ connected = "yes" =>
           \A i \in DOMAIN pipe : Is(i, "reset_step_clock") =>
               /\ need_reset
               /\ \A j \in DOMAIN pipe : Is(j, "reset_step_clock") => i = j

\* A queue_step in hand is the one at the head of the pipe.
HandInv == hand # NoNode => pipe # <<>> /\ Is(1, "queue_step")

\* A move at place i of the pipe will find next_dir = d, or be discarded.
Finds(i, d) ==
    \/ need_reset /\ \A j \in 1 .. i - 1 : ~Is(j, "reset_step_clock")
    \/ next_dir = d /\ \A j \in 1 .. i - 1 : ~Is(j, "set_next_step_dir")
    \/ \E j \in 1 .. i - 1 : /\ Is(j, "set_next_step_dir") /\ pipe[j].dir = d
                             /\ \A k \in j + 1 .. i - 1 : ~Is(k, "set_next_step_dir")

\* The directions the host leaves out are those the mcu knows.
PipeInv ==
    /\ \A i \in DOMAIN pipe : Is(i, "queue_step") => Finds(i, pipe[i].dir)
    /\ sdir # -1 => Finds(Len(pipe) + 1, sdir)

\* The direction the stepper has before move i of its queue.
DirBefore(i) == IF i = 1 THEN dir_pin ELSE mq[i - 1].dir

\* The changes of direction of the moves queued lead from dir_pin to last_dir.
QueueInv ==
    /\ count = 0 => mq = <<>>
    /\ last_dir = DirBefore(Len(mq) + 1)
    /\ \A i \in 1 .. Len(mq) : mq[i].flip = (mq[i].dir # DirBefore(i))

\* The position word and the steps still to make give where the stepper is, in the sign of
\* its direction; with two events to a step the step pin tells which one is next.
PositionInv ==
    /\ Wrap(position - count \div Events)
         = Wrap(IF dir_pin = 1 THEN taken + BIAS ELSE -(taken + BIAS))
    /\ ~single_sched => step_pin = count % 2

\* The stepper is within POSITION_BIAS steps of where it was at power up.
InRange == taken \in -BIAS .. BIAS

StopInv == HomingInv /\ HandInv /\ PipeInv /\ QueueInv /\ StoppedUntilReset /\ DirectionFollowed
=============================================================================
