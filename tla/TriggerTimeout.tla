---------------------------- MODULE TriggerTimeout ----------------------------
(***************************************************************************)
(* The communication timeout of a homing move that spans several           *)
(* micro-controllers: src/trsync.c on every mcu, chelper/trdispatch.c in   *)
(* the serialqueue threads of the host.  The host pushes the expiry of     *)
(* every trsync forward from the reports of the others, so that an mcu     *)
(* that no longer hears of them stops by itself.                           *)
(*                                                                         *)
(* One session.  Links are FIFO and deliver every command once             *)
(* (CommandLink), however late; an mcu may drop a report when its transmit *)
(* buffer is full.  Clock estimates are exact: time is one tick count.     *)
(***************************************************************************)
EXTENDS Trsync, FiniteSetsExt

CONSTANTS ExpireTicks,  \* TRSYNC_TIMEOUT
          ReportTicks,  \* expire_timeout * .4
          MinExtend,    \* expire_timeout * .4 * .8
          MaxTime,      \* bound
          Backlog       \* bound: messages of an mcu unhandled when time moves on

ASSUME TicksAssumption ==
    /\ ExpireTicks \in Nat /\ ReportTicks \in Nat \ {0} /\ MinExtend \in Nat
    /\ MaxTime \in Nat /\ Backlog \in Nat

VARIABLES
    now,
    ts,         \* the trsync of each mcu
    moving,     \* the mcu's stepper may execute steps of the move
    halted,     \* the mcu is in shutdown
    toMcu,      \* commands the mcu has not handled
    toHost,     \* messages the serialqueue thread has not handled
    td_can_trigger,
    tdm,        \* struct trdispatch_mcu: last_status_clock, expire_clock
    host,       \* how far MCU_endstop.home_start has come
    start,      \* clock the session starts at
    endstop,    \* the endstop's timer is in the timer list of mcu 1
    trigTime    \* history: when the mcu stopped being able to trigger

vars == <<now, ts, moving, halted, toMcu, toHost, td_can_trigger, tdm, host, start,
          endstop, trigTime>>

Init ==
    /\ now = 1
    /\ ts = [m \in Mcus |-> Cleared]
    /\ moving = [m \in Mcus |-> FALSE] /\ halted = [m \in Mcus |-> FALSE]
    /\ toMcu = [m \in Mcus |-> <<>>] /\ toHost = [m \in Mcus |-> <<>>]
    /\ td_can_trigger = FALSE
    /\ tdm = [m \in Mcus |-> [status |-> 0, expire |-> 0]]
    /\ host = "idle" /\ start = Never /\ endstop = FALSE
    /\ trigTime = [m \in Mcus |-> Never]

-----------------------------------------------------------------------------
(* Micro-controller *)

\* A timer added with a time already past shuts the mcu down ("Timer too
\* close"): timers are dropped, trsyncs cleared and steppers stopped.
TooClose(clock) == clock < now

Halt(m) ==
    /\ halted' = [halted EXCEPT ![m] = TRUE]
    /\ ts' = [ts EXCEPT ![m] = Cleared]
    /\ moving' = [moving EXCEPT ![m] = FALSE]
    /\ endstop' = (endstop /\ m # 1)
    /\ trigTime' = [trigTime EXCEPT ![m] = IF @ = Never THEN now ELSE @]

\* The trsync becomes t after trsync_do_trigger was called.
Becomes(m, t) ==
    /\ ts' = [ts EXCEPT ![m] = t]
    /\ moving' = [moving EXCEPT ![m] = @ /\ ~Stops(ts[m])]
    /\ trigTime' = [trigTime EXCEPT ![m] = IF ts[m].can THEN now ELSE @]
    /\ UNCHANGED halted

HostUnchanged == UNCHANGED <<td_can_trigger, tdm, host, start>>

Command(m, c) ==
    /\ ~halted[m] /\ toMcu[m] # <<>> /\ Head(toMcu[m]).c = c
    /\ toMcu' = [toMcu EXCEPT ![m] = Tail(@)]
    /\ now' = now /\ HostUnchanged

\* command_trsync_start
CommandStart(m) ==
    LET clock == Head(toMcu[m]).x IN
    /\ Command(m, "start") /\ UNCHANGED toHost
    /\ \/ TooClose(clock) /\ Halt(m)
       \/ /\ ~TooClose(clock)
          /\ ts' = [ts EXCEPT ![m] = Started(clock)]
          /\ UNCHANGED <<moving, halted, endstop, trigTime>>

\* command_stepper_stop_on_trigger; the steps of the move may follow at once.
CommandSignal(m) ==
    /\ Command(m, "signal")
    /\ ts' = [ts EXCEPT ![m].signal = TRUE]
    /\ moving' = [moving EXCEPT ![m] = TRUE]
    /\ UNCHANGED <<halted, toHost, endstop, trigTime>>

\* command_trsync_set_timeout
CommandTimeout(m) ==
    LET clock == Head(toMcu[m]).x IN
    /\ Command(m, "timeout") /\ UNCHANGED toHost
    /\ \/ ts[m].can /\ TooClose(clock) /\ Halt(m)
       \/ /\ ~(ts[m].can /\ TooClose(clock))
          /\ ts' = [ts EXCEPT ![m] = TimeoutSet(ts[m], clock)]
          /\ UNCHANGED <<moving, halted, endstop, trigTime>>

\* command_endstop_home
CommandHome(m) ==
    LET clock == Head(toMcu[m]).x IN
    /\ Command(m, "home") /\ UNCHANGED toHost
    /\ \/ TooClose(clock) /\ Halt(m)
       \/ /\ ~TooClose(clock) /\ endstop' = TRUE
          /\ UNCHANGED <<ts, moving, halted, trigTime>>

\* sendf drops the message when the transmit buffer is full.
Sendf(m, msg) == toHost' = toHost \/ toHost' = [toHost EXCEPT ![m] = Append(@, msg)]

\* command_trsync_trigger
CommandTrigger(m) ==
    LET t == CommandTriggered(ts[m], Head(toMcu[m]).x) IN
    /\ Command(m, "trigger")
    /\ Becomes(m, t) /\ UNCHANGED endstop
    /\ Sendf(m, State(FALSE, t.reason, 0))

\* In shutdown the mcu ignores the commands.
CommandInShutdown(m) ==
    /\ halted[m] /\ toMcu[m] # <<>>
    /\ toMcu' = [toMcu EXCEPT ![m] = Tail(@)]
    /\ UNCHANGED <<now, ts, moving, halted, toHost, endstop, trigTime>> /\ HostUnchanged

Due(t) == t # Never /\ t <= now

\* trsync_report_event
ReportEvent(m) ==
    /\ Due(ts[m].rtime)
    /\ ts' = [ts EXCEPT ![m] = ReportDue(ts[m], ReportTicks)]
    /\ UNCHANGED <<now, moving, halted, toMcu, toHost, endstop, trigTime>> /\ HostUnchanged

\* trsync_expire_event
ExpireEvent(m) ==
    /\ Due(ts[m].etime)
    /\ Becomes(m, Expired(ts[m]))
    /\ UNCHANGED <<now, toMcu, toHost, endstop>> /\ HostUnchanged

\* endstop_oversample_event, which runs from the start clock on, finds a hit;
\* its timer is not rescheduled.
EndstopHit(m) ==
    /\ m = 1 /\ endstop /\ start <= now
    /\ endstop' = FALSE
    /\ Becomes(m, Triggered(ts[m], REASON_ENDSTOP_HIT))
    /\ UNCHANGED <<now, toMcu, toHost>> /\ HostUnchanged

\* trsync_task
TrsyncTask(m) ==
    /\ ts[m].report
    /\ ts' = [ts EXCEPT ![m] = Reported(ts[m])]
    /\ Sendf(m, State(ts[m].can, ts[m].reason, now))
    /\ UNCHANGED <<now, moving, halted, toMcu, endstop, trigTime>> /\ HostUnchanged

-----------------------------------------------------------------------------
(* Host *)

McuUnchanged == UNCHANGED <<now, ts, moving, halted, endstop, trigTime>>

\* MCU_endstop.home_start: MCU_trsync.start of every mcu, one tick ahead.
HomeStart ==
    /\ host = "idle" /\ host' = "started" /\ start' = now + 1
    /\ tdm' = [m \in Mcus |-> [status |-> start', expire |-> start' + ExpireTicks]]
    /\ toMcu' = [m \in Mcus |-> <<Cmd("start", start'), Cmd("signal", 0),
                                  Cmd("timeout", start' + ExpireTicks)>>]
    /\ UNCHANGED <<toHost, td_can_trigger>> /\ McuUnchanged

\* trdispatch_start
DispatchStart ==
    /\ host = "started" /\ host' = "dispatching"
    /\ td_can_trigger' = TRUE
    /\ UNCHANGED <<toMcu, toHost, tdm, start>> /\ McuUnchanged

\* The last command of home_start, in the command queue of the first trsync.
SendHome ==
    /\ host = "dispatching" /\ host' = "homing"
    /\ toMcu' = [toMcu EXCEPT ![1] = Append(@, Cmd("home", start))]
    /\ UNCHANGED <<toHost, td_can_trigger, tdm, start>> /\ McuUnchanged

\* handle_trsync_state is registered as a fast reader of every mcu.
Fast == host \in {"dispatching", "homing"}

\* The earliest acknowledged time among the mcus, and the first mcu with it.
MinStatus(d) == Min({d[i].status : i \in Mcus})
MinMcu(d) == Min({i \in Mcus : d[i].status = MinStatus(d)})

\* Variant of NextExpire that extends an mcu from its own reports.
NextExpireOwn(d, i) == d[i].status + ExpireTicks

\* Variant of NextExpire that ignores the mcus that have not reported yet.
NextExpireHeard(d, i) ==
    LET heard == {d[j].status : j \in Mcus} \ {start} IN
    ExpireTicks + (IF heard = {} THEN start ELSE Min(heard))

\* The slowest mcu is extended from the second slowest, the others from it.
NextExpire(d, i) ==
    LET rest == {d[j].status : j \in Mcus \ {i}} IN
    ExpireTicks + (IF i = MinMcu(d) /\ rest # {} THEN Min(rest) ELSE MinStatus(d))

\* The mcus whose timeout is due for an extension; the difference is compared
\* as an unsigned number, so that one below zero counts as large.
Extended(d) == {i \in Mcus : LET diff == NextExpire(d, i) - d[i].expire IN
                             diff < 0 \/ diff >= MinExtend}

\* handle_trsync_state when the trsync that reports has triggered
PropagateTrigger ==
    /\ td_can_trigger' = FALSE /\ tdm' = tdm
    /\ toMcu' = [i \in Mcus |-> Append(toMcu[i], Cmd("trigger", REASON_HOST_REQUEST))]

\* handle_trsync_state when it can still trigger; d is tdm with the new status
ExtendTimeouts(d) ==
    /\ td_can_trigger' = td_can_trigger
    /\ tdm' = [i \in Mcus |-> [status |-> d[i].status,
                               expire |-> IF i \in Extended(d) THEN NextExpire(d, i)
                                          ELSE d[i].expire]]
    /\ toMcu' = [i \in Mcus |-> IF i \in Extended(d)
                                THEN Append(toMcu[i], Cmd("timeout", NextExpire(d, i)))
                                ELSE toMcu[i]]

\* The serialqueue thread of the mcu passes a message to its fast reader.
HandleTrsyncState(m) ==
    LET msg == Head(toHost[m]) IN
    /\ toHost[m] # <<>>
    /\ toHost' = [toHost EXCEPT ![m] = Tail(@)]
    /\ \/ ~(Fast /\ td_can_trigger) /\ UNCHANGED <<td_can_trigger, tdm, toMcu>>
       \/ Fast /\ td_can_trigger /\ ~msg.can /\ PropagateTrigger
       \/ Fast /\ td_can_trigger /\ msg.can
          /\ ExtendTimeouts([tdm EXCEPT ![m].status = msg.clock])
    /\ UNCHANGED <<host, start>> /\ McuUnchanged

\* Timers are served from the timer interrupt: time waits for them.
Tick ==
    /\ host # "idle" /\ now < MaxTime
    /\ \A m \in Mcus : /\ ~Due(ts[m].rtime) /\ ~Due(ts[m].etime)
                       /\ Len(toMcu[m]) + Len(toHost[m]) <= Backlog
    /\ now' = now + 1
    /\ UNCHANGED <<ts, moving, halted, toMcu, toHost, endstop, trigTime>> /\ HostUnchanged

Mcu(m) ==
    \/ CommandStart(m) \/ CommandSignal(m) \/ CommandTimeout(m) \/ CommandTrigger(m)
    \/ CommandHome(m) \/ CommandInShutdown(m) \/ ReportEvent(m) \/ ExpireEvent(m) \/ EndstopHit(m)
    \/ TrsyncTask(m)

Next ==
    \/ \E m \in Mcus : Mcu(m) \/ HandleTrsyncState(m)
    \/ HomeStart \/ DispatchStart \/ SendHome \/ Tick

Spec == Init /\ [][Next]_vars

-----------------------------------------------------------------------------
(* Properties *)

\* The mcu has the stepper's stop signal but not yet the first timeout, the next command.
FirstTimeoutPending(i) ==
    ts[i].etime = Never /\ toMcu[i] # <<>> /\ Head(toMcu[i]).c = "timeout"

\* However late the messages and however many reports are lost, once any mcu of the axis has
\* triggered or shut down, every other mcu that has its first timeout stops its stepper at
\* most ExpireTicks later (handle_trsync_state extends a timeout from the reports of the others).
BoundedOvershoot ==
    \A i, j \in Mcus :
        i # j /\ trigTime[j] # Never /\ moving[i] /\ ~FirstTimeoutPending(i)
        => now <= trigTime[j] + ExpireTicks

\* The extension never shortens a timeout: an mcu that has not triggered by its expiry keeps
\* an expiry at least as late as before (set_timeout commands arrive in increasing order).
TimeoutsGrow ==
    [][\A m \in Mcus : ts[m].can /\ ts'[m].can /\ ts[m].etime # Never
                       => ts'[m].etime >= ts[m].etime]_vars

-----------------------------------------------------------------------------
(* The inductive invariant behind them *)

Commands == [c : {"start", "signal", "timeout", "home"}, x : Nat] \cup [c : {"trigger"}, x : Reasons]
Messages == [m : {"state"}, can : BOOLEAN, reason : Reasons, clock : Nat]
Statuses == [Mcus -> [status : Nat, expire : Nat]]

TypeOK ==
    /\ now \in Nat /\ start \in Nat /\ trigTime \in [Mcus -> Nat]
    /\ ts \in [Mcus -> Trsyncs]
    /\ moving \in [Mcus -> BOOLEAN] /\ halted \in [Mcus -> BOOLEAN] /\ endstop \in BOOLEAN
    /\ toMcu \in [Mcus -> Seq(Commands)] /\ toHost \in [Mcus -> Seq(Messages)]
    /\ td_can_trigger \in BOOLEAN /\ tdm \in Statuses
    /\ host \in {"idle", "started", "dispatching", "homing"}

\* Before the session nothing has happened.
IdleInv ==
    /\ now > 0
    /\ host # "idle" => start > 0
    /\ host = "idle" => /\ start = Never /\ ~endstop /\ ~td_can_trigger
                        /\ \A m \in Mcus : /\ ts[m] = Cleared /\ ~moving[m] /\ ~halted[m]
                                           /\ toMcu[m] = <<>> /\ toHost[m] = <<>>
                                           /\ trigTime[m] = Never

\* A command queue holds the three commands of MCU_trsync.start before any other.
Ordered(q) ==
    \A k \in DOMAIN q :
        /\ q[k].c = "start" => k = 1 /\ Len(q) > 2 /\ q[2].c = "signal"
        /\ q[k].c = "signal" => /\ k = 1 \/ (k = 2 /\ q[1].c = "start")
                                /\ Len(q) > k /\ q[k + 1].c = "timeout"

QueueInv == \A m \in Mcus : Ordered(toMcu[m])

\* The command the mcu handles next.
NextIs(m, c) == toMcu[m] # <<>> /\ Head(toMcu[m]).c = c

\* How the trsync, the stepper and the endstop of an mcu go together.
TrsyncOk(m) ==
    /\ halted[m] => ts[m] = Cleared /\ ~moving[m] /\ trigTime[m] # Never
    /\ ~halted[m] /\ NextIs(m, "start") => ts[m] = Cleared /\ trigTime[m] = Never
    /\ ~halted[m] /\ NextIs(m, "signal") => ts[m].can /\ ts[m].etime = Never
    /\ ts[m].can => trigTime[m] = Never
    /\ moving[m] => /\ ts[m].can /\ ts[m].signal
                    /\ ts[m].etime # Never \/ FirstTimeoutPending(m)
    /\ m = 1 /\ endstop => ~halted[m] /\ ~NextIs(m, "start") /\ ~NextIs(m, "signal")

TrsyncInv == \A m \in Mcus : TrsyncOk(m)

\* No clock of the session is before its start, and no expiry is missed.
ClockInv ==
    \A m \in Mcus :
        /\ trigTime[m] # Never => start <= trigTime[m]
        /\ ts[m].etime # Never => start <= ts[m].etime /\ now <= ts[m].etime
        /\ ts[m].rtime # Never => start <= ts[m].rtime
        /\ ts[m].report \/ toHost[m] # <<>> => start <= now
        /\ start <= tdm[m].status /\ start <= tdm[m].expire
        /\ \A k \in DOMAIN toMcu[m] :
              LET q == toMcu[m][k] IN
              /\ q.c \in {"start", "home"} => q.x = start
              /\ q.c = "home" => m = 1
              /\ q.c = "timeout" => start <= q.x
              /\ q.c = "trigger" => start <= now

\* The last time at which mcu j may have been able to trigger.
Limit(j) == IF trigTime[j] # Never THEN trigTime[j] ELSE IF now < start THEN start ELSE now

\* What the host knows of j, and what it told the others, is from before that.
LimitInv ==
    \A j \in Mcus :
        /\ tdm[j].status <= Limit(j)
        /\ \A k \in DOMAIN toHost[j] : toHost[j][k].can => toHost[j][k].clock <= Limit(j)
        /\ \A i \in Mcus \ {j} :
              /\ tdm[i].expire <= Limit(j) + ExpireTicks
              /\ ts[i].etime <= Limit(j) + ExpireTicks
              /\ \A k \in DOMAIN toMcu[i] :
                    toMcu[i][k].c = "timeout" => toMcu[i][k].x <= Limit(j) + ExpireTicks

\* Reports of an mcu are handled, and its timeouts arrive, in the order of their clocks.
GrowInv ==
    \A m \in Mcus :
        LET in == toHost[m] out == toMcu[m] IN
        /\ tdm[m].expire <= NextExpire(tdm, m)
        /\ ts[m].etime <= tdm[m].expire
        /\ \A k \in DOMAIN in : in[k].can => tdm[m].status <= in[k].clock
        /\ \A k, l \in DOMAIN in : k < l /\ in[k].can /\ in[l].can => in[k].clock <= in[l].clock
        /\ \A k \in DOMAIN in : in[k].can => in[k].clock <= now
        /\ \A k \in DOMAIN out : out[k].c = "timeout" => /\ ts[m].etime <= out[k].x
                                                         /\ out[k].x <= tdm[m].expire
        /\ \A k, l \in DOMAIN out : k < l /\ out[k].c = "timeout" /\ out[l].c = "timeout"
                                    => out[k].x <= out[l].x

TimeoutInv == IdleInv /\ QueueInv /\ TrsyncInv /\ ClockInv /\ LimitInv /\ GrowInv

=============================================================================
