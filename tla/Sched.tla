-------------------------------- MODULE Sched --------------------------------
(***************************************************************************)
(* The timers of a micro-controller: the linked list of src/sched.c with   *)
(* its periodic, deleted and sentinel timers and its last_insert hint, and *)
(* the hardware timer that src/generic/timer_irq.c programs from it.       *)
(*                                                                         *)
(* The clock counts modulo 2 * HALF (2^32 in the code) and wraps; times    *)
(* are compared as timer_is_before does, by the sign of their difference.  *)
(* A callback may delete other timers (endstop and trsync events stop      *)
(* steppers); none adds one.                                               *)
(***************************************************************************)
EXTENDS Integers, FiniteSets, Sequences, SequencesExt

CONSTANTS Users,    \* timers of steppers, endstops, pins, ...
          Periodic, Deleted, Sentinel, NULL,
          HALF,     \* 0x80000000
          PERIOD,   \* timer_from_us(100000)
          Horizon,  \* how far ahead user timers are set
          Lag       \* how late the interrupt may be taken

ASSUME SchedAssumption ==
    /\ {HALF, PERIOD, Horizon, Lag} \subseteq Nat \ {0}
    /\ Horizon + Lag < HALF /\ PERIOD + Lag < HALF
    /\ IsFiniteSet(Users) /\ Cardinality({Periodic, Deleted, Sentinel, NULL}) = 4
    /\ {Periodic, Deleted, Sentinel, NULL} \cap Users = {}

Timers == Users \cup {Periodic, Deleted, Sentinel}
Times == 0 .. 2 * HALF - 1
Wrap(t) == t % (2 * HALF)

\* timer_is_before
Before(a, b) == Wrap(a - b) >= HALF

VARIABLES now, timer_list, next, waketime, last_insert,
          irq,     \* clock the hardware timer is set to
          armed    \* user timers added and neither deleted nor done
vars == <<now, timer_list, next, waketime, last_insert, irq, armed>>
lists == <<timer_list, next, waketime, last_insert, irq, armed>>

Init ==
    /\ now = 0
    /\ timer_list = Periodic /\ last_insert = Periodic
    /\ next = [t \in Timers |-> IF t = Periodic THEN Sentinel ELSE NULL]
    /\ waketime = [t \in Timers |-> IF t = Sentinel THEN HALF ELSE 0]
    /\ irq = 0 /\ armed = {}

-----------------------------------------------------------------------------

\* insert_timer: the successors nx once t is in the list after pos
InsertTimer(nx, wakes, pos, t, w) ==
    LET Prev[p \in Timers] ==
            IF p = Sentinel \/ Before(w, wakes[nx[p]]) THEN p ELSE Prev[nx[p]]
        prev == Prev[pos]
    IN [nx EXCEPT ![t] = nx[prev], ![prev] = t]

Due == ~Before(now, irq)

\* Variant of TimerKick that leaves the interrupt where it is.
NoKick == UNCHANGED irq

\* timer_kick: the interrupt is taken as soon as it can be
TimerKick == irq' = IF Due THEN irq ELSE now

\* sched_timer_reset, from run_shutdown: all user timers are forgotten
TimerReset ==
    /\ timer_list' = Deleted /\ last_insert' = Periodic
    /\ waketime' = [waketime EXCEPT ![Deleted] = waketime[Periodic]]
    /\ next' = [next EXCEPT ![Deleted] = Periodic, ![Periodic] = Sentinel]
    /\ TimerKick /\ armed' = {}
    /\ UNCHANGED now

\* sched_add_timer of a timer before all others: deleted_timer goes in front of it,
\* so that the kicked interrupt finds a timer it may run at once
AddFirst(t, w) ==
    /\ next' = [next EXCEPT
          ![t] = IF timer_list = Deleted THEN next[Deleted] ELSE timer_list,
          ![Deleted] = t]
    /\ waketime' = [waketime EXCEPT ![t] = w, ![Deleted] = w]
    /\ timer_list' = Deleted
    /\ TimerKick

\* sched_add_timer, called with t not in the list; w may just have passed
AddTimer(t, w) ==
    /\ t \notin armed
    /\ \/ /\ Before(w, waketime[timer_list]) /\ Before(w, now)
          /\ TimerReset                               \* "Timer too close"
       \/ /\ ~(Before(w, waketime[timer_list]) /\ Before(w, now))
          /\ IF Before(w, waketime[timer_list])
             THEN AddFirst(t, w)
             ELSE /\ next' = InsertTimer(next, waketime, timer_list, t, w)
                  /\ waketime' = [waketime EXCEPT ![t] = w]
                  /\ UNCHANGED <<timer_list, irq>>
          /\ armed' = armed \cup {t}
          /\ UNCHANGED <<now, last_insert>>

\* The successors after sched_del_timer has taken t out of the middle of the list
Unlinked(nx, t) == [p \in Timers |-> IF nx[p] = t THEN nx[t] ELSE nx[p]]

\* Variant of DelTimer that does not reset the hint.
DelKeepsHint(t) ==
    /\ IF timer_list = t
       THEN /\ waketime' = [waketime EXCEPT ![Deleted] = waketime[t]]
            /\ next' = [next EXCEPT ![Deleted] = next[t]]
            /\ timer_list' = Deleted
       ELSE /\ next' = IF t \in armed THEN Unlinked(next, t) ELSE next
            /\ UNCHANGED <<timer_list, waketime>>
    /\ armed' = armed \ {t}
    /\ UNCHANGED <<now, irq, last_insert>>

\* sched_del_timer, also of a timer that is not in the list
DelTimer(t) ==
    /\ IF timer_list = t
       THEN /\ waketime' = [waketime EXCEPT ![Deleted] = waketime[t]]
            /\ next' = [next EXCEPT ![Deleted] = next[t]]
            /\ timer_list' = Deleted
       ELSE /\ next' = IF t \in armed THEN Unlinked(next, t) ELSE next
            /\ UNCHANGED <<timer_list, waketime>>
    /\ last_insert' = IF last_insert = t THEN Periodic ELSE last_insert
    /\ armed' = armed \ {t}
    /\ UNCHANGED <<now, irq>>

\* The timer being run and what is left of the list once its callback has deleted
\* the timer d (NULL: none)
Without(d) == IF d \in armed THEN Unlinked(next, d) ELSE next
InsertHint(d) == IF last_insert = d THEN Periodic ELSE last_insert

\* sched_timer_dispatch, the callback returning SF_DONE
DispatchDone(t, d) ==
    /\ next' = Without(d)
    /\ timer_list' = next'[t]
    /\ last_insert' = IF InsertHint(d) = t THEN next'[t] ELSE InsertHint(d)
    /\ irq' = waketime[next'[t]]
    /\ armed' = armed \ {t, d}
    /\ UNCHANGED <<now, waketime>>

\* sched_timer_dispatch, the callback returning SF_RESCHEDULE with waketime w
DispatchAgain(t, w, wakes, d) ==
    LET nx == Without(d)
        hint == InsertHint(d)
    IN /\ waketime' = wakes
       /\ IF Before(w, wakes[nx[t]])
          THEN /\ next' = nx /\ irq' = w
               /\ last_insert' = hint
               /\ UNCHANGED timer_list
          ELSE /\ timer_list' = nx[t] /\ irq' = wakes[nx[t]]
               /\ next' = InsertTimer(nx, wakes,
                             IF Before(w, wakes[hint]) THEN nx[t] ELSE hint, t, w)
               /\ last_insert' = t
       /\ armed' = armed \ {d}
       /\ UNCHANGED now

\* deleted_event
DispatchDeleted == Due /\ timer_list = Deleted /\ DispatchDone(Deleted, NULL)

\* periodic_event: the sentinel moves along, half the clock's range away
DispatchPeriodic ==
    /\ Due /\ timer_list = Periodic
    /\ LET w == Wrap(waketime[Periodic] + PERIOD) IN
       DispatchAgain(Periodic, w,
           [waketime EXCEPT ![Periodic] = w, ![Sentinel] = Wrap(w + HALF)], NULL)

\* A user's callback, which may stop another user's timer
DispatchUser ==
    /\ Due /\ timer_list \in Users
    /\ \E d \in (Users \ {timer_list}) \cup {NULL} :
       \/ DispatchDone(timer_list, d)
       \/ \E i \in 1 .. Horizon :
          LET w == Wrap(waketime[timer_list] + i) IN
          DispatchAgain(timer_list, w, [waketime EXCEPT ![timer_list] = w], d)

\* Time passes; an interrupt that is due is taken within Lag
Tick ==
    /\ Before(now, Wrap(irq + Lag))
    /\ now' = Wrap(now + 1)
    /\ UNCHANGED lists

Shutdown == TimerReset

Next ==
    \/ \E t \in Users, i \in -1 .. Horizon : AddTimer(t, Wrap(now + i))
    \/ \E t \in Users : DelTimer(t)
    \/ DispatchDeleted \/ DispatchPeriodic \/ DispatchUser
    \/ Tick \/ Shutdown

Spec == Init /\ [][Next]_vars

-----------------------------------------------------------------------------
(* Properties *)

\* The timers in the list, in its order (cut short should the list be a cycle)
Listed ==
    LET Walk[n \in 0 .. Cardinality(Timers)] ==
            IF n = 0 THEN <<timer_list>>
            ELSE LET l == Walk[n - 1] IN
                 IF next[Last(l)] = NULL THEN l ELSE Append(l, next[Last(l)])
    IN Walk[Cardinality(Timers)]

\* What distinguishes states: the fields of timers outside the list are not read again
LiveState ==
    LET l == Listed IN
    <<now, l, [i \in 1 .. Len(l) |-> waketime[l[i]]], last_insert, irq, armed>>

\* Every variable keeps its type.
TypeOK ==
    /\ now \in Times /\ irq \in Times
    /\ timer_list \in Timers /\ last_insert \in Timers
    /\ next \in [Timers -> Timers \cup {NULL}] /\ waketime \in [Timers -> Times]
    /\ armed \subseteq Users

\* The list holds every armed timer exactly once, no other user timer, the periodic
\* timer, and the sentinel at its end: no timer is lost or linked twice, whatever is
\* added, deleted (from a callback too), rescheduled or reset.
ListComplete ==
    LET l == Listed IN
    /\ IsInjective(l)
    /\ Range(l) \ {Deleted} = armed \cup {Periodic, Sentinel}
    /\ Last(l) = Sentinel
    /\ \A i \in 2 .. Len(l) : l[i] # Deleted

\* Up to the sentinel the list is in the order of the waketimes although the clock
\* wraps, so that the head is always the next timer to run.
ListSorted ==
    LET l == Listed IN
    \A i \in 1 .. Len(l) - 2 : ~Before(waketime[l[i + 1]], waketime[l[i]])

\* The hint from which a rescheduled timer is inserted is in the list: a timer
\* inserted behind it is not lost.
HintListed == last_insert \in Range(Listed)

\* "sentinel timer called" never happens: the sentinel never becomes the head.
SentinelNeverRuns == timer_list # Sentinel

\* The timer list is what sched.c needs it to be, in every state: all of the above.
ListInv == TypeOK /\ ListComplete /\ ListSorted /\ HintListed /\ SentinelNeverRuns

\* No timer is missed and none runs early: the interrupt is due already or set for no later
\* than the head's waketime; and when it is due, early because it was kicked for a timer
\* added in front or deleted, a user's timer at the head has reached its waketime.
IrqInTime ==
    /\ Due \/ ~Before(waketime[timer_list], irq)
    /\ Due /\ timer_list \in Users => ~Before(now, waketime[timer_list])
=============================================================================
