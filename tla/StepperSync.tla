----------------------------- MODULE StepperSync -----------------------------
(***************************************************************************)
(* Sharing out the move queue of a micro-controller.  The mcu holds a      *)
(* limited number of queued moves for all its steppers and shuts down when *)
(* it has no room for one more.  The host never asks: steppersync_flush in *)
(* chelper/stepcompress.c works out, from the moves it has sent, when a    *)
(* slot becomes free, and serialqueue holds a message back until then.     *)
(*                                                                         *)
(* The clock of the mcu is known to the host exactly.  A move is the clock *)
(* of its first and of its last step.  PulseTicks is the time from a step  *)
(* to the timer event that loads the next move, LinkTicks the least time a *)
(* message takes.  A message arrives before its first step is due, if the  *)
(* host lets it leave in time: that is LeavesInTime.                       *)
(***************************************************************************)
EXTENDS MoveHeap, Sequences, Functions, FiniteSetsExt

CONSTANTS Steppers,
          CLOCK_DIFF_MAX,
          PulseTicks, LinkTicks,   \* PulseTicks <= LinkTicks
          Intervals, Lengths, \* first step after the previous one, last after first
          Lookahead,        \* how far ahead of the mcu moves are generated
          FlushAhead,       \* how far ahead of the mcu they are flushed
          MaxClock, MaxMoves, MaxStops   \* bounds

VARIABLES
    now,
    last_step_clock, msg_queue,  \* per stepper: struct stepcompress
    move_clocks,     \* binary heap of steppersync (MoveHeap)
    flushing,        \* move_clock of the steppersync_flush in progress, or
                     \* Generating (step generators run), or NoFlush
    flushed,         \* clock up to which steps have been generated and flushed
    cq,              \* messages given to serialqueue that have not arrived, in order
    busy,            \* per stepper: clock its timer loads the next move, or Idle
    mq,              \* per stepper: moves queued on the mcu
    dropping,        \* per stepper: "stopped", queue_step is discarded until the reset,
                     \* "noted", the host has sent that reset, or "no"
    free,            \* free move nodes of the mcu
    overflow, moves, stops

vars == <<now, last_step_clock, msg_queue, move_clocks, flushing, flushed, cq,
          busy, mq, dropping, free, overflow, moves, stops>>
hostVars == <<last_step_clock, msg_queue, move_clocks, flushing, flushed, moves>>
mcuVars == <<busy, mq, dropping, free, overflow>>

NoFlush == -1
Generating == -2
Idle == -1
Never == MaxClock + Lookahead + 1

Init ==
    /\ now = 1
    /\ last_step_clock = [s \in Steppers |-> 0]
    /\ msg_queue = [s \in Steppers |-> <<>>]
    /\ move_clocks = [i \in Slots |-> 0]
    /\ flushing = NoFlush /\ flushed = 1
    /\ cq = <<>>
    /\ busy = [s \in Steppers |-> Idle]
    /\ mq = [s \in Steppers |-> <<>>]
    /\ dropping = [s \in Steppers |-> "no"]
    /\ free = NUM_MOVES /\ overflow = FALSE /\ moves = 0 /\ stops = 0

-----------------------------------------------------------------------------
(* stepcompress.c *)

\* Variant of QueueStep that counts the slot as free when the move was queued.
QueueStepFreesEarly(s, first, last) ==
    [s |-> s, c |-> "queue_step", min |-> 1, req |-> last_step_clock[s],
     first |-> first, last |-> last]

\* Variant of QueueStep that counts the slot as used beyond the last step.
QueueStepFreesLate(s, first, last) ==
    [s |-> s, c |-> "queue_step", min |-> last + CLOCK_DIFF_MAX, req |-> last_step_clock[s],
     first |-> first, last |-> last]

\* add_move: the slot is in use until the move is loaded, when the step before it is made
QueueStep(s, first, last) ==
    LET prev == last_step_clock[s] IN
    [s |-> s, c |-> "queue_step", min |-> prev,
     req |-> IF first = last /\ first >= prev + CLOCK_DIFF_MAX THEN first ELSE prev,
     first |-> first, last |-> last]

\* A move of stepper s is generated: its steps lie after those already flushed.
\* The first step after a reset is not relative to an earlier one.
AddMove(s, i, n) ==
    LET first == IF last_step_clock[s] = 0 THEN flushed + i ELSE last_step_clock[s] + i IN
    /\ flushing \in {NoFlush, Generating} /\ moves < MaxMoves
    /\ flushing' = Generating
    /\ first > flushed /\ first > now + LinkTicks /\ first + n <= now + Lookahead
    /\ msg_queue' = [msg_queue EXCEPT ![s] = Append(@, QueueStep(s, first, first + n))]
    /\ last_step_clock' = [last_step_clock EXCEPT ![s] = first + n]
    /\ moves' = moves + 1
    /\ UNCHANGED <<now, move_clocks, flushed, cq, mcuVars, stops>>

\* steppersync_flush: every stepcompress is flushed, then the messages are batched.
\* Nothing is sent before the batch is complete: the other actions wait for it.
FlushStart(clock) ==
    /\ flushing \in {NoFlush, Generating}
    /\ clock > flushed
    /\ flushing' = clock /\ flushed' = clock
    /\ UNCHANGED <<now, last_step_clock, msg_queue, move_clocks, cq, mcuVars, moves, stops>>

Pending == {s \in Steppers : msg_queue[s] # <<>>}
First(s) == Head(msg_queue[s])
\* The stepper with the lowest req_clock, the first one of equals
Earliest == CHOOSE s \in Pending : \A t \in Pending :
                \/ First(s).req < First(t).req
                \/ First(s).req = First(t).req /\ s <= t
More == Pending # {} /\ (First(Earliest).min = 0 \/ First(Earliest).req <= flushing)

\* The next message is given the clock at which a slot is free
FlushNext ==
    /\ flushing > 0 /\ More
    /\ LET s == Earliest
           m == First(s) IN
       /\ move_clocks' = IF m.min # 0 THEN HeapReplace(move_clocks, m.min) ELSE move_clocks
       /\ cq' = Append(cq, [m EXCEPT !.min = move_clocks[0]])
       /\ msg_queue' = [msg_queue EXCEPT ![s] = Tail(@)]
    /\ UNCHANGED <<now, last_step_clock, flushing, flushed, mcuVars, moves, stops>>

FlushEnd ==
    /\ flushing > 0 /\ ~More
    /\ flushing' = NoFlush
    /\ UNCHANGED <<now, last_step_clock, msg_queue, move_clocks, flushed, cq, mcuVars,
                   moves, stops>>

\* MCU_stepper.note_homing_end, after drip_move's flush_step_generation has flushed
\* all steps: stepcompress_reset and reset_step_clock
NoteHomingEnd(s) ==
    /\ flushing = NoFlush /\ Pending = {}
    /\ \A t \in Steppers : last_step_clock[t] <= flushed
    /\ dropping[s] = "stopped"
    /\ dropping' = [dropping EXCEPT ![s] = "noted"]
    /\ last_step_clock' = [last_step_clock EXCEPT ![s] = 0]
    /\ msg_queue' = [msg_queue EXCEPT ![s] =
          Append(@, [s |-> s, c |-> "reset_step_clock", min |-> 0, req |-> 0,
                     first |-> Never, last |-> Never])]
    /\ UNCHANGED <<now, move_clocks, flushing, flushed, cq, busy, mq, free, overflow, moves,
                   stops>>

-----------------------------------------------------------------------------
(* Micro-controller: src/stepper.c and src/basecmd.c *)

TimerDue == \E s \in Steppers : busy[s] = now

\* stepper_event at the end of a move: stepper_load_next frees the node of the next one
LoadNext(s) ==
    /\ flushing = NoFlush
    /\ busy[s] = now
    /\ IF mq[s] = <<>>
       THEN busy' = [busy EXCEPT ![s] = Idle] /\ UNCHANGED <<mq, free>>
       ELSE /\ busy' = [busy EXCEPT ![s] = Head(mq[s]).last + PulseTicks]
            /\ mq' = [mq EXCEPT ![s] = Tail(@)]
            /\ free' = free + 1
    /\ UNCHANGED <<now, hostVars, cq, dropping, overflow, stops>>

\* check_send_command in serialqueue.c holds the queue back until min_clock
MayLeave == flushing = NoFlush /\ cq # <<>> /\ Head(cq).min <= now
Arrives == MayLeave /\ Head(cq).min + LinkTicks <= now /\ ~TimerDue

\* command_queue_step: an idle stepper loads the move at once
CommandQueueStep ==
    /\ Arrives /\ Head(cq).c = "queue_step"
    /\ LET m == Head(cq) IN
       IF free = 0
       THEN overflow' = TRUE /\ UNCHANGED <<busy, mq, free>>
       ELSE /\ overflow' = overflow
            /\ \/ /\ busy[m.s] # Idle
                  /\ mq' = [mq EXCEPT ![m.s] = Append(@, m)]
                  /\ free' = free - 1 /\ UNCHANGED busy
               \/ /\ busy[m.s] = Idle /\ dropping[m.s] # "no"
                  /\ UNCHANGED <<busy, mq, free>>
               \/ /\ busy[m.s] = Idle /\ dropping[m.s] = "no"
                  /\ busy' = [busy EXCEPT ![m.s] = m.last + PulseTicks]
                  /\ UNCHANGED <<mq, free>>
    /\ cq' = Tail(cq)
    /\ UNCHANGED <<now, hostVars, dropping, stops>>

CommandResetStepClock ==
    /\ Arrives /\ Head(cq).c = "reset_step_clock"
    /\ dropping' = [dropping EXCEPT ![Head(cq).s] = "no"]
    /\ cq' = Tail(cq)
    /\ UNCHANGED <<now, hostVars, busy, mq, free, overflow, stops>>

\* stepper_stop, from a homing trigger
StepperStop(s) ==
    /\ flushing = NoFlush
    /\ busy[s] # Idle /\ stops < MaxStops
    /\ busy' = [busy EXCEPT ![s] = Idle]
    /\ free' = free + Len(mq[s])
    /\ mq' = [mq EXCEPT ![s] = <<>>]
    /\ dropping' = [dropping EXCEPT ![s] = "stopped"]
    /\ stops' = stops + 1
    /\ UNCHANGED <<now, hostVars, cq, overflow>>

\* The link keeps up: no message is late for its first step
Tick ==
    /\ now < MaxClock /\ ~TimerDue /\ flushing = NoFlush
    /\ \A k \in 1 .. Len(cq) : cq[k].first > now
    /\ now' = now + 1
    /\ UNCHANGED <<hostVars, cq, mcuVars, stops>>

Next ==
    \/ \E s \in Steppers, i \in Intervals, n \in Lengths : AddMove(s, i, n)
    \/ \E ahead \in FlushAhead : FlushStart(now + ahead)
    \/ FlushNext \/ FlushEnd
    \/ \E s \in Steppers : NoteHomingEnd(s) \/ LoadNext(s) \/ StepperStop(s)
    \/ CommandQueueStep \/ CommandResetStepClock \/ Tick

Spec == Init /\ [][Next]_vars

-----------------------------------------------------------------------------
(* Properties *)

\* heap_replace keeps the heap order, so that steppersync_flush finds in
\* move_clocks[0] the slot that is free first, among slots of all steppers.
HeapOrdered == \A i \in Slots \ {0} : move_clocks[(i - 1) \div 2] <= move_clocks[i]

\* The mcu never runs out of move nodes ("Move queue overflow"), whatever the order
\* of the steppers' moves and however early the host sends them.
NeverOverflows == HeapOrdered /\ ~overflow

\* No message is held back beyond its first step, by its own min_clock or by that of
\* a message before it in the queue: sharing the slots cannot make a step late.
LeavesInTime ==
    \A k \in 1 .. Len(cq) : \A j \in 1 .. k : cq[j].min <= cq[k].first
=============================================================================
