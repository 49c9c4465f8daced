---------------------------- MODULE CommandQueues ----------------------------
(***************************************************************************)
(* How commands wait in the host before they become blocks: the command    *)
(* queues of klippy/chelper/serialqueue.c, filled by any thread, and its   *)
(* background thread, which sleeps in pollreactor.c until a command is     *)
(* due, an ack arrives or it is kicked.                                    *)
(*                                                                         *)
(* Every command has length one; the line is fast (no bit times) and the   *)
(* clock estimate exact, so clocks are times.  What becomes of the blocks  *)
(* is in SerialProtocol.                                                   *)
(***************************************************************************)
EXTENDS Integers, Sequences, FiniteSetsExt

CONSTANTS Queues, Senders,
          Clocks,        \* that min_clock and req_clock may have
          MaxTime, MaxMsgs,
          ReqDelta,      \* MIN_REQTIME_DELTA
          BgDelta,       \* MIN_BACKGROUND_DELTA
          Far,           \* the 2^31 clocks of serialqueue_send_batch
          PayloadMax,    \* commands that fill a block
          MaxPending     \* MAX_PENDING_BLOCKS

BACKGROUND == 1000
MAX_CLOCK == 2000
PR_NOW == 0
PR_NEVER == 2000

VARIABLES
    now,
    upcoming, ready,   \* the two lists of each command_queue
    pending_queues,
    need_kick_clock,
    pipe,              \* a kick waits in the pipe
    kicking,           \* threads that have yet to call kick_bg_thread
    unacked,           \* send_seq - receive_seq
    idle_time,
    timer,             \* SQPT_COMMAND
    bg,                \* background thread: poll, timers, check or build
    eventtime,
    buflen,            \* blocks built in this command_event
    block,             \* commands in the block being built
    queued, sent,      \* history: commands queued so far, and sent: [q, id, early]
    held               \* history: the last check found the window full

queues == <<upcoming, ready, pending_queues>>
thread == <<timer, bg, eventtime, buflen, block>>
vars == <<now, queues, need_kick_clock, pipe, kicking, unacked, idle_time, thread, queued, sent, held>>

Init ==
    /\ now = 0
    /\ upcoming = [q \in Queues |-> <<>>] /\ ready = [q \in Queues |-> <<>>] /\ pending_queues = {}
    /\ need_kick_clock = MAX_CLOCK /\ pipe = FALSE /\ kicking = {}
    /\ unacked = 0 /\ idle_time = 0
    /\ timer = PR_NEVER /\ bg = "poll" /\ eventtime = 0 /\ buflen = 0 /\ block = 0
    /\ queued = 0 /\ sent = <<>> /\ held = FALSE

Tick == now < MaxTime /\ now' = now + 1
        /\ UNCHANGED <<queues, need_kick_clock, pipe, kicking, unacked, idle_time, thread, queued, sent, held>>

-----------------------------------------------------------------------------
(* The threads that send *)

Locked == bg \in {"check", "build"}

MinClock(min, req) == IF min + Far < req /\ req # BACKGROUND THEN req - Far ELSE min

\* serialqueue_send_batch decides whether the background thread must be woken
MustWakeIfReady(min) == min <= now
MustWake(min) == min < need_kick_clock

\* serialqueue_send_batch up to the unlock
SendBatch(s, q, min, req) ==
    LET m == [id |-> queued + 1, min |-> MinClock(min, req), req |-> req]  wake == MustWake(m.min) IN
    /\ ~Locked /\ s \notin kicking /\ queued < MaxMsgs
    /\ queued' = queued + 1
    /\ pending_queues' = IF ready[q] = <<>> /\ upcoming[q] = <<>> THEN pending_queues \cup {q}
                         ELSE pending_queues
    /\ upcoming' = [upcoming EXCEPT ![q] = Append(@, m)]
    /\ need_kick_clock' = IF wake THEN 0 ELSE need_kick_clock
    /\ kicking' = IF wake THEN kicking \cup {s} ELSE kicking
    /\ UNCHANGED <<now, ready, pipe, unacked, idle_time, thread, sent, held>>

\* kick_bg_thread
Kick(s) ==
    /\ s \in kicking /\ kicking' = kicking \ {s} /\ pipe' = TRUE
    /\ UNCHANGED <<now, queues, need_kick_clock, unacked, idle_time, thread, queued, sent, held>>

-----------------------------------------------------------------------------
(* The background thread *)

\* poll returns for acks (handle_message, update_receive_seq), a kick (kick_event) or a timeout
PollReturns ==
    /\ bg = "poll" /\ bg' = "timers" /\ eventtime' = now
    /\ \E acks \in 0 .. unacked :
        /\ acks > 0 \/ pipe \/ timer <= now
        /\ unacked' = unacked - acks
        /\ timer' = IF acks > 0 \/ pipe THEN PR_NOW ELSE timer
    /\ pipe' = FALSE
    /\ UNCHANGED <<now, queues, need_kick_clock, kicking, idle_time, buflen, block, queued, sent, held>>

\* pollreactor_check_timers
CheckTimers ==
    /\ bg = "timers" /\ bg' = IF eventtime >= timer THEN "check" ELSE "poll"
    /\ UNCHANGED <<now, queues, need_kick_clock, pipe, kicking, unacked, idle_time,
                   timer, eventtime, buflen, block, queued, sent, held>>

Idletime == Max({eventtime, idle_time})

\* Commands of the upcoming queue whose min_clock has come
DueAtOnce(q) == Len(upcoming[q])
Due(q) == Max({n \in 0 .. Len(upcoming[q]) : \A i \in 1 .. n : upcoming[q][i].min <= Idletime})
ReadyThen(q) == ready[q] \o SubSeq(upcoming[q], 1, Due(q))
StalledThen(q) == SubSeq(upcoming[q], Due(q) + 1, Len(upcoming[q]))

\* req_clock of the head of a ready queue; background commands wait for an idle line
HeadClock(q) ==
    IF Head(ReadyThen(q)).req = BACKGROUND
    THEN (IF buflen > 0 THEN Idletime ELSE idle_time) + ReqDelta + BgDelta
    ELSE Head(ReadyThen(q)).req

MinReady == Min({MAX_CLOCK} \cup {HeadClock(q) : q \in {p \in pending_queues : ReadyThen(p) # <<>>}})
MinStalled == Min({MAX_CLOCK} \cup {Head(StalledThen(q)).min : q \in {p \in pending_queues : StalledThen(p) # <<>>}})
ReadyBytes == FoldSet(LAMBDA q, n : n + Len(ReadyThen(q)), 0, Queues)

\* The clock at which check_send_command wants to look again
WantClock == Min({MinReady - ReqDelta, MinStalled})

\* command_event writes its blocks and goes back to poll
Return(wake) ==
    /\ bg' = "poll" /\ timer' = wake /\ buflen' = 0
    /\ idle_time' = IF buflen > 0 THEN Idletime ELSE idle_time

\* check_send_command with the window full
CheckHeld ==
    /\ bg = "check" /\ unacked > 0     \* receive_window may be short of space before MaxPending
    /\ Return(PR_NEVER) /\ held' = TRUE
    /\ UNCHANGED <<now, queues, need_kick_clock, pipe, kicking, unacked, eventtime, block, queued, sent>>

\* check_send_command, the rest
CheckSend ==
    /\ bg = "check" /\ unacked < MaxPending /\ held' = FALSE
    /\ ready' = [q \in Queues |-> IF q \in pending_queues THEN ReadyThen(q) ELSE ready[q]]
    /\ upcoming' = [q \in Queues |-> IF q \in pending_queues THEN StalledThen(q) ELSE upcoming[q]]
    /\ IF ReadyBytes >= PayloadMax \/ MinReady <= Idletime + ReqDelta
       THEN bg' = "build" /\ UNCHANGED <<need_kick_clock, timer, buflen, idle_time>>
       ELSE need_kick_clock' = WantClock /\ Return(WantClock)
    /\ UNCHANGED <<now, pending_queues, pipe, kicking, unacked, eventtime, block, queued, sent>>

\* build_and_send_command takes the command with the lowest req_clock
Heads == {q \in pending_queues : ready[q] # <<>>}
BuildAppend ==
    /\ bg = "build" /\ block < PayloadMax /\ block' = block + 1
    /\ \E q \in Heads : LET m == Head(ready[q]) IN
        /\ \A p \in Heads : m.req <= Head(ready[p]).req
        /\ ready' = [ready EXCEPT ![q] = Tail(@)]
        /\ pending_queues' = IF ready'[q] = <<>> /\ upcoming[q] = <<>> THEN pending_queues \ {q}
                             ELSE pending_queues
        /\ sent' = Append(sent, [q |-> q, id |-> m.id, early |-> eventtime < m.min])
    /\ UNCHANGED <<now, upcoming, need_kick_clock, pipe, kicking, unacked, idle_time,
                   timer, bg, eventtime, buflen, queued, held>>

BuildSend ==
    /\ bg = "build" /\ (block = PayloadMax \/ Heads = {})
    /\ bg' = "check" /\ block' = 0 /\ buflen' = buflen + 1 /\ unacked' = unacked + 1
    /\ UNCHANGED <<now, queues, need_kick_clock, pipe, kicking, idle_time,
                   timer, eventtime, queued, sent, held>>

Next ==
    \/ Tick \/ PollReturns \/ CheckTimers \/ CheckHeld \/ CheckSend \/ BuildAppend \/ BuildSend
    \/ \E s \in Senders : \/ Kick(s)
                          \/ \E q \in Queues, min \in Clocks, req \in Clocks \cup {BACKGROUND} :
                                min <= req /\ SendBatch(s, q, min, req)

Spec == Init /\ [][Next]_vars

-----------------------------------------------------------------------------
(* Properties *)

\* The time at which the background thread must look at a queue again
LookAt(q) ==
    Min({MAX_CLOCK}
        \cup (IF upcoming[q] = <<>> THEN {} ELSE {Head(upcoming[q]).min})
        \cup (IF ready[q] = <<>> THEN {}
              ELSE {IF Head(ready[q]).req = BACKGROUND THEN idle_time + BgDelta
                    ELSE Head(ready[q]).req - ReqDelta}))

\* No wake-up is lost: when the background thread sleeps with no kick on the way and not for
\* want of an ack, it wakes before any command, whoever queued it meanwhile, has to be
\* looked at (need_kick_clock in serialqueue_send_batch and check_send_command).
WakesInTime ==
    bg = "poll" /\ ~pipe /\ kicking = {} =>
        \A q \in Queues : timer <= LookAt(q) \/ (held /\ unacked > 0)

\* Commands of a queue are sent once, in the order they were queued, and none before its
\* min_clock; a queue is in pending_queues exactly as long as it holds a command.
QueuesInOrder ==
    /\ \A i, j \in 1 .. Len(sent) : i < j /\ sent[i].q = sent[j].q => sent[i].id < sent[j].id
    /\ \A i \in 1 .. Len(sent) : ~sent[i].early
    /\ \A q \in Queues : q \in pending_queues <=> ready[q] # <<>> \/ upcoming[q] # <<>>
    /\ Len(sent) + FoldSet(LAMBDA q, n : n + Len(ready[q]) + Len(upcoming[q]), 0, Queues) = queued
=============================================================================
