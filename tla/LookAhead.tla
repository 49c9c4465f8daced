------------------------------ MODULE LookAhead ------------------------------
(***************************************************************************)
(* The look-ahead queue of klippy/toolhead.py: MoveQueue and the parts of  *)
(* Move that decide at which speeds moves start, cruise and end.           *)
(*                                                                         *)
(* Speeds are squared as in the code, and even integers, so that the means *)
(* it takes are exact.  A move has delta_v2, what its length allows the    *)
(* squared speed to change; smooth_delta_v2; and max_cruise_v2.  What      *)
(* calc_junction derives from angle, deviation and extruder is a limit     *)
(* from a set.  When a lazy flush is due depends on times: it may always   *)
(* be.                                                                     *)
(***************************************************************************)
EXTENDS Integers, Sequences, FiniteSetsExt

CONSTANTS Cruises, Deltas, Smooths, Junctions, MaxQueue

VARIABLES
    queue,
    batch,     \* moves of the last _process_moves, with their speeds
    last_end   \* history: end_v2 of the move processed before the batch

vars == <<queue, batch, last_end>>

Init == queue = <<>> /\ batch = <<>> /\ last_end = 0

\* Move.__init__: the first move starts from a standstill
Moves == {m \in [max_start_v2 : {0}, max_smoothed_v2 : {0}, max_cruise_v2 : Cruises,
                 delta_v2 : Deltas, smooth_delta_v2 : Smooths] :
             m.smooth_delta_v2 <= m.delta_v2}

\* Move.calc_junction; a limit of zero also stands for its early returns
CalcJunction(move, prev, limit) ==
    LET start == Min({limit, move.max_cruise_v2, prev.max_cruise_v2, prev.max_start_v2 + prev.delta_v2})
    IN [move EXCEPT !.max_start_v2 = start,
                    !.max_smoothed_v2 = Min({start, prev.max_smoothed_v2 + prev.smooth_delta_v2})]

-----------------------------------------------------------------------------
(* MoveQueue.flush *)

Unset == [start |-> -1, cruise |-> -1, end |-> -1]
SetJunction(start, cruise, end) == [start |-> start, cruise |-> cruise, end |-> end]

\* Speeds of a delayed move: mc_v2 is the least of peak_cruise_v2 and the start speeds of
\* the delayed moves up to it
DelayedAtPeak(s, peak, j) ==
    SetJunction(Min({s.start[j], peak}), peak, Min({s.start[j + 1], peak}))
DelayedSpeeds(s, peak, j) ==
    LET mc == Min({peak} \cup {s.start[k] : k \in {d \in s.delayed : d <= j}})
    IN SetJunction(Min({s.start[j], mc}), mc, Min({s.start[j + 1], mc}))

\* Whether a lazy flush may end before a move at which the toolhead can reach a peak
EndsAtFirstPeak(s) == s.update
EndsHere(s) == s.update /\ s.peak # 0

\* One turn of the loop over the queue q, for move i; s is what the turns for later moves left
Turn(q, s, i) ==
    LET move == q[i]
        next_end_v2 == s.start[i + 1]
        reachable_start_v2 == next_end_v2 + move.delta_v2
        start_v2 == Min({move.max_start_v2, reachable_start_v2})
        reachable_smoothed_v2 == s.smoothed + move.smooth_delta_v2
        smoothed_v2 == Min({move.max_smoothed_v2, reachable_smoothed_v2})
        accelerates == smoothed_v2 < reachable_smoothed_v2
        peaks == accelerates /\ (smoothed_v2 + move.smooth_delta_v2 > s.smoothed \/ s.delayed # {})
        counts == peaks /\ EndsHere(s)
        count == IF counts THEN i - 1 ELSE s.count
        update == s.update /\ ~counts
        peak == IF peaks THEN Min({move.max_cruise_v2, (smoothed_v2 + reachable_smoothed_v2) \div 2})
                ELSE s.peak
        flushes == ~update /\ i <= count
        cruise_v2 == Min({(start_v2 + reachable_start_v2) \div 2, move.max_cruise_v2, peak})
        speeds(j) == IF flushes /\ peaks /\ j \in s.delayed THEN DelayedSpeeds(s, peak, j)
                     ELSE IF flushes /\ accelerates /\ j = i
                     THEN SetJunction(Min({start_v2, cruise_v2}), cruise_v2, Min({next_end_v2, cruise_v2}))
                     ELSE s.speeds[j]
    IN [start |-> [s.start EXCEPT ![i] = start_v2], smoothed |-> smoothed_v2,
        peak |-> peak, count |-> count, update |-> update,
        delayed |-> IF ~accelerates THEN s.delayed \cup {i} ELSE IF peaks THEN {} ELSE s.delayed,
        speeds |-> [j \in 1 .. Len(q) |-> speeds(j)]]

\* The whole loop
Traversed(q, lazy) ==
    LET n == Len(q)
        first == [start |-> [j \in 1 .. n + 1 |-> 0], smoothed |-> 0, peak |-> 0, count |-> n,
                  update |-> lazy, delayed |-> {}, speeds |-> [j \in 1 .. n |-> Unset]]
        after[k \in 0 .. n] == IF k = 0 THEN first ELSE Turn(q, after[k - 1], n + 1 - k)
    IN after[n]

\* flush: nothing happens, or the moves ready go to _process_moves
Flush(q, lazy) ==
    LET s == Traversed(q, lazy) IN
    IF s.update \/ s.count = 0 THEN queue' = q /\ batch' = <<>>
    ELSE /\ batch' = [i \in 1 .. s.count |-> [move |-> q[i], v2 |-> s.speeds[i]]]
         /\ queue' = SubSeq(q, s.count + 1, Len(q))

-----------------------------------------------------------------------------
(* Actions *)

Processed == last_end' = IF batch = <<>> THEN last_end ELSE batch[Len(batch)].v2.end

\* ToolHead.move and MoveQueue.add_move
AddMove(m, limit) ==
    LET n == Len(queue)  q == Append(queue, IF n = 0 THEN m ELSE CalcJunction(m, queue[n], limit)) IN
    /\ n < MaxQueue /\ Processed
    /\ \/ queue' = q /\ batch' = <<>>
       \/ n > 0 /\ Flush(q, TRUE)

\* flush_step_generation, get_last_move_time: the toolhead is to stop after the last move
FlushAll == queue # <<>> /\ Processed /\ Flush(queue, FALSE)

Next == FlushAll \/ \E m \in Moves, limit \in Junctions : AddMove(m, limit)
Spec == Init /\ [][Next]_vars

-----------------------------------------------------------------------------
(* Properties *)

\* The toolhead's speed never jumps: each move starts at the speed at which the one before
\* ended, within a batch and from a batch to the next, whatever moves were added in between;
\* and it stands still when the queue is empty (MoveQueue.flush, lazy or not).
SpeedContinuous ==
    /\ batch # <<>> => batch[1].v2.start = last_end
    /\ \A i \in 1 .. Len(batch) - 1 : batch[i].v2.end = batch[i + 1].v2.start
    /\ queue = <<>> => IF batch = <<>> THEN last_end = 0 ELSE batch[Len(batch)].v2.end = 0

\* Every processed move has been given its speeds, keeps the limits of its junction and its
\* cruise speed, and is long enough to get from its start speed to the cruise speed and on to
\* its end speed at its acceleration (the distances of set_junction are not negative).
MovesFeasible ==
    \A i \in 1 .. Len(batch) : LET m == batch[i].move  v == batch[i].v2 IN
        /\ v # Unset /\ 0 <= v.start /\ v.start <= m.max_start_v2
        /\ v.start <= v.cruise /\ v.end <= v.cruise /\ v.cruise <= m.max_cruise_v2
        /\ v.cruise > 0
        /\ (v.cruise - v.start) + (v.cruise - v.end) <= m.delta_v2
=============================================================================
