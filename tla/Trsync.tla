-------------------------------- MODULE Trsync --------------------------------
(***************************************************************************)
(* The trsync object of a micro-controller (src/trsync.c) as a record, and *)
(* the functions that change it: TriggerTimeout and HomingSession are      *)
(* built from them.  A trsync triggers once per session, for whatever      *)
(* reason comes first; the stepper whose signal is registered then stops.  *)
(***************************************************************************)
EXTENDS Integers, Sequences, FiniteSets

CONSTANT N    \* micro-controllers with a stepper of the axis; 1 has the endstop

ASSUME NAssumption == N \in Nat \ {0}

Mcus == 1..N
Never == 0    \* a timer that is not in the timer list

NoReason == 0
REASON_ENDSTOP_HIT == 1
REASON_COMMS_TIMEOUT == 2
REASON_HOST_REQUEST == 3
REASON_PAST_END_TIME == 4
Reasons == 0..4

\* can: TSF_CAN_TRIGGER, report: TSF_REPORT, rtime and etime: the waketimes of
\* report_time and expire_time, signal: the stepper is in "signals".
Trsyncs == [can : BOOLEAN, report : BOOLEAN, reason : Reasons,
            rtime : Nat, etime : Nat, signal : BOOLEAN]

\* trsync_clear
Cleared == [can |-> FALSE, report |-> FALSE, reason |-> NoReason,
            rtime |-> Never, etime |-> Never, signal |-> FALSE]

\* trsync_do_trigger
Triggered(t, reason) ==
    IF t.can
    THEN [t EXCEPT !.can = FALSE, !.report = TRUE, !.reason = reason, !.signal = FALSE]
    ELSE t

\* Does trsync_do_trigger run the stop callback of the stepper?
Stops(t) == t.can /\ t.signal

\* trsync_expire_event
Expired(t) == [Triggered(t, REASON_COMMS_TIMEOUT) EXCEPT !.etime = Never]

\* trsync_report_event
ReportDue(t, ticks) == [t EXCEPT !.report = TRUE, !.rtime = t.rtime + ticks]

\* command_trsync_start
Started(clock) == [Cleared EXCEPT !.can = TRUE, !.rtime = clock]

\* command_trsync_set_timeout
TimeoutSet(t, clock) == IF t.can THEN [t EXCEPT !.etime = clock] ELSE t

\* Variant of CommandTriggered that does not call trsync_do_trigger.
CommandOnlyDisarms(t, reason) ==
    [t EXCEPT !.can = FALSE, !.report = FALSE, !.rtime = Never, !.etime = Never]

\* command_trsync_trigger
CommandTriggered(t, reason) ==
    [Triggered(t, reason) EXCEPT !.can = FALSE, !.report = FALSE,
                                 !.rtime = Never, !.etime = Never]

\* trsync_task
Reported(t) == [t EXCEPT !.report = FALSE]

\* Commands of the trsync's command queue, and the trsync_state message.
Cmd(c, x) == [c |-> c, x |-> x]
State(can, reason, clock) == [m |-> "state", can |-> can, reason |-> reason, clock |-> clock]

=============================================================================
