------------------------------ MODULE MCStepping ------------------------------
(***************************************************************************)
(* The stepper and the sharing of the mcu's move queue in one run: a       *)
(* behaviour is one of Stepper or one of StepperSync, as part says.        *)
(***************************************************************************)
EXTENDS Stepper

CONSTANTS Steppers, NUM_MOVES, CLOCK_DIFF_MAX, PulseTicks, LinkTicks, Intervals, Lengths,
          Lookahead, FlushAhead, MaxClock, MaxShared, MaxStops

VARIABLES part, now, last_step_clock, msg_queue, move_clocks, flushing, flushed, cq, busy,
          queued, dropping, nodes, overflow, shared, stops

Sync == INSTANCE StepperSync WITH mq <- queued, free <- nodes, moves <- shared, MaxMoves <- MaxShared

syncvars == <<now, last_step_clock, msg_queue, move_clocks, flushing, flushed, cq, busy,
              queued, dropping, nodes, overflow, shared, stops>>
MCvars == <<part, vars, syncvars>>
MCInit == part \in {"stepper", "sync"} /\ Init /\ Sync!Init
          /\ (part = "sync" => single_sched)
MCNext == \/ part = "stepper" /\ Next /\ UNCHANGED <<part, syncvars>>
          \/ part = "sync" /\ Sync!Next /\ UNCHANGED <<part, vars>>
MCSpec == MCInit /\ [][MCNext]_MCvars

\* No "Move queue overflow", and the heap of slots in order.
NeverOverflows == Sync!NeverOverflows

\* No message is held back beyond its first step.
LeavesInTime == Sync!LeavesInTime
=============================================================================
