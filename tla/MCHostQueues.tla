----------------------------- MODULE MCHostQueues -----------------------------
(***************************************************************************)
(* From moves to messages, in one run: a behaviour is one of LookAhead,    *)
(* Toolhead or CommandQueues, as part says.                                *)
(***************************************************************************)
EXTENDS LookAhead, TLC

CONSTANTS Durations, MaxMoves, Delays, MinKin, Start, Low, High, Prime, Second, DripLead,
          DripSegment, MaxLate, Past, MaxLead,
          Queues, Senders, Clocks, MaxTime, MaxMsgs, ReqDelta, BgDelta, Far, PayloadMax, MaxPending

VARIABLES part, th, main, can_pause, drip_done,
          now, upcoming, ready, pending_queues, need_kick_clock, pipe, kicking, unacked, idle_time,
          timer, bg, eventtime, buflen, block, queued, sent, held

Motion == INSTANCE Toolhead WITH MaxQueue <- MaxMoves
Commands == INSTANCE CommandQueues

motionvars == <<th, main, can_pause, drip_done>>
commandvars == <<now, upcoming, ready, pending_queues, need_kick_clock, pipe, kicking, unacked,
                 idle_time, timer, bg, eventtime, buflen, block, queued, sent, held>>
MCvars == <<part, vars, motionvars, commandvars>>
MCInit == part \in {"lookahead", "motion", "commands"} /\ Init /\ Motion!Init /\ Commands!Init
MCNext == \/ part = "lookahead" /\ Next /\ UNCHANGED <<part, motionvars, commandvars>>
          \/ part = "motion" /\ Motion!Next /\ UNCHANGED <<part, vars, commandvars>>
          \/ part = "commands" /\ Commands!Next /\ UNCHANGED <<part, vars, motionvars>>
MCSpec == MCInit /\ [][MCNext]_MCvars

\* Threads that send are alike, and so are command queues
Alike == Permutations(Senders) \cup Permutations(Queues)

\* Moves reach the step generators in time and not too early.
AppendsAhead == part = "motion" => Motion!AppendsAhead
FlushInTime == part = "motion" => Motion!FlushInTime
BufferBounded == Motion!BufferBounded

\* No wake-up of the background thread is lost.
WakesInTime == part = "commands" => Commands!WakesInTime

\* Commands are sent once, in order, and not before their time.
QueuesInOrder == part = "commands" => Commands!QueuesInOrder
=============================================================================
