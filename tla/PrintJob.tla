------------------------------ MODULE PrintJob ------------------------------
(***************************************************************************)
(* Printing a file: the virtual sdcard (extras/virtual_sdcard.py), the     *)
(* pause_resume and print_stats objects it shares its state with, and the  *)
(* greenlets that race over them under the G-Code mutex (reactor.py        *)
(* ReactorMutex, gcode.py run_script):                                     *)
(*  - the work handler, which reads the file in chunks and runs its lines; *)
(*  - clients (terminal, api requests) that run one command under the      *)
(*    mutex, and the filament sensor, which calls send_pause_command       *)
(*    outside the mutex and runs PAUSE after a delay ("EVENT").            *)
(* Greenlets only switch where the code calls reactor.pause, so a step     *)
(* here is a stretch of code between two such calls.  A file is FileLen    *)
(* lines whose commands are chosen when they run; positions count lines.   *)
(***************************************************************************)
EXTENDS Naturals, Sequences, FiniteSets

CONSTANTS Clients,      \* greenlets that run commands
          Commands,     \* what clients may run
          SdCommands,   \* what a line of the file may be
          FileLen,      \* lines of the file
          Chunk,        \* lines one read returns
          MaxCommands,  \* bound: commands clients run
          MaxSkips      \* bound: jumps a file makes (SDCARD_LOOP_END)

ASSUME PrintJobAssumption ==
  /\ FileLen \in Nat \ {0} /\ Chunk \in Nat \ {0}
  /\ MaxCommands \in Nat /\ MaxSkips \in Nat

SD == "work_handler"
NoOne == "nobody"

\* The commands modelled; "other" is any that leaves the print job alone, and
\* "EVENT" the filament sensor's send_pause_command.
CommandNames == {"PAUSE", "EVENT", "RESUME", "CLEAR_PAUSE", "CANCEL_PRINT",
                 "SDCARD_RESET_FILE", "SDCARD_PRINT_FILE", "SDCARD_LOOP_END",
                 "M23", "M24", "M25", "M26", "other"}

ASSUME CommandsAssumption ==
  /\ Commands \subseteq CommandNames /\ SdCommands \subseteq CommandNames
  /\ SD \notin Clients /\ NoOne \notin Clients

VARIABLES
  job,      \* the fields of virtual_sdcard, pause_resume and print_stats
  owner,    \* who holds the gcode mutex
  queue,    \* greenlets waiting for it
  client,   \* what each client does: [pc, cmd]
  worker,   \* where the work handler is
  buf,      \* its lines: numbers of the lines read and not run yet
  fpos,     \* position of the file object
  ready,    \* the printer has not shut down
  done,     \* history: lines completed since the position was last set
  stale,    \* history: the print was started over the flags of an older pause
            \* ("flags") or while a sensor was waiting in do_pause ("race")
  issued,   \* commands run so far
  skips     \* jumps made so far

vars == <<job, owner, queue, client, worker, buf, fpos, ready, done, stale,
          issued, skips>>

States == {"standby", "printing", "paused", "complete", "error", "cancelled"}

Job == [work_timer: BOOLEAN, must_pause_work: BOOLEAN, cmd_from_sd: BOOLEAN,
        current_file: BOOLEAN, file_position: 0..FileLen,
        next_file_position: 0..FileLen, is_paused: BOOLEAN,
        sd_paused: BOOLEAN, pause_command_sent: BOOLEAN, state: States,
        print_started: BOOLEAN]

\* The fields of the print job keep their types; positions stay in the file.
TypeOK ==
  /\ job \in Job
  /\ owner \in Clients \union {SD, NoOne}
  /\ queue \in Seq(Clients \union {SD})
  /\ client \in [Clients -> [pc: {"idle", "lock", "pausing", "delay"},
                             cmd: Commands \union {"PAUSE"}]]
  /\ worker \in {"idle", "start", "loop", "line", "on_error"}
  /\ buf \in Seq(1..FileLen) /\ fpos \in 0..FileLen
  /\ ready \in BOOLEAN /\ done \in 0..FileLen /\ stale \in {"no", "flags", "race"}
  /\ issued \in 0..MaxCommands /\ skips \in 0..MaxSkips

Init ==
  /\ job = [work_timer |-> FALSE, must_pause_work |-> FALSE,
            cmd_from_sd |-> FALSE, current_file |-> FALSE,
            file_position |-> 0, next_file_position |-> 0,
            is_paused |-> FALSE, sd_paused |-> FALSE,
            pause_command_sent |-> FALSE, state |-> "standby",
            print_started |-> FALSE]
  /\ owner = NoOne /\ queue = <<>>
  /\ client = [c \in Clients |-> [pc |-> "idle", cmd |-> "PAUSE"]]
  /\ worker = "idle" /\ buf = <<>> /\ fpos = 0
  /\ ready = TRUE /\ done = 0 /\ stale = "no" /\ issued = 0 /\ skips = 0

-----------------------------------------------------------------------------
(* print_stats.py *)

note_start(j) == [j EXCEPT !.print_started = TRUE, !.state = "printing"]

note_pause(j) ==
  [j EXCEPT !.state = IF j.state = "error" THEN @ ELSE "paused"]

note_finish(j, s) ==
  IF j.print_started
  THEN [j EXCEPT !.state = s, !.print_started = FALSE]
  ELSE j

stats_reset(j) == [j EXCEPT !.state = "standby", !.print_started = FALSE]

(* virtual_sdcard.py *)

\* Variant of do_pause that does not tell the work handler.
do_pause_waits(j) == j

\* Variant of do_pause that leaves the work handler going when it runs the command.
do_pause_not_from_sd(j) ==
  IF j.work_timer /\ ~j.cmd_from_sd THEN [j EXCEPT !.must_pause_work = TRUE] ELSE j

\* do_pause up to its loop; the loop ends when ~Waiting.
do_pause(j) == IF j.work_timer THEN [j EXCEPT !.must_pause_work = TRUE] ELSE j

Waiting(j) == j.work_timer /\ ~j.cmd_from_sd

do_resume(j) == [j EXCEPT !.must_pause_work = FALSE, !.work_timer = TRUE]

\* do_cancel and _reset_file after their do_pause.
cancelled(j) ==
  note_finish([j EXCEPT !.current_file = FALSE, !.file_position = 0],
              "cancelled")
reset_file(j) ==
  stats_reset([j EXCEPT !.current_file = FALSE, !.file_position = 0])

load_file(j, pos) ==
  stats_reset([j EXCEPT !.current_file = TRUE, !.file_position = pos])

(* pause_resume.py *)

clear_pause(j) == [j EXCEPT !.is_paused = FALSE, !.pause_command_sent = FALSE]

resumed(j) ==
  [clear_pause(IF j.sd_paused THEN do_resume(j) ELSE j)
     EXCEPT !.sd_paused = FALSE]

-----------------------------------------------------------------------------
(* Commands.  A command that calls do_pause may have to wait for the work  *)
(* handler: Begun is its effect up to the wait, Ended the rest.  Outcomes  *)
(* are those of a command that does not call it: the new fields, and       *)
(* whether it raised an error.                                             *)

Pauses(c, j) ==
  CASE c \in {"PAUSE", "EVENT"} ->
         j.work_timer /\ ~j.pause_command_sent /\ (c = "PAUSE" => ~j.is_paused)
    [] c = "M25" -> TRUE
    [] c = "CANCEL_PRINT" -> j.current_file /\ (j.work_timer \/ j.sd_paused)
    [] c = "SDCARD_RESET_FILE" -> j.current_file /\ ~j.cmd_from_sd
    [] OTHER -> FALSE

Begun(c, j) ==
  IF c \in {"PAUSE", "EVENT"}
  THEN [do_pause(j) EXCEPT !.sd_paused = TRUE]
  ELSE do_pause(j)

Ended(c, j) ==
  CASE c = "PAUSE" -> [j EXCEPT !.pause_command_sent = TRUE, !.is_paused = TRUE]
    [] c = "EVENT" -> [j EXCEPT !.pause_command_sent = TRUE]
    [] c = "CANCEL_PRINT" -> clear_pause(cancelled(j))
    [] c = "SDCARD_RESET_FILE" -> reset_file(j)
    [] c = "M25" -> j

Ok(j) == {[job |-> j, raised |-> FALSE]}
Raise(j) == {[job |-> j, raised |-> TRUE]}

send_pause(j) ==
  IF j.pause_command_sent THEN j
  ELSE [j EXCEPT !.sd_paused = FALSE, !.pause_command_sent = TRUE]

Outcomes(c, j) ==
  CASE c = "PAUSE" -> Ok(IF j.is_paused THEN j
                         ELSE [send_pause(j) EXCEPT !.is_paused = TRUE])
    [] c = "EVENT" -> Ok(send_pause(j))
    [] c = "RESUME" ->
         IF ~j.is_paused THEN Ok(j)
         ELSE IF j.sd_paused /\ j.work_timer THEN Raise(j) ELSE Ok(resumed(j))
    [] c = "CLEAR_PAUSE" -> Ok(clear_pause(j))
    [] c = "CANCEL_PRINT" ->
         Ok(clear_pause(IF j.work_timer \/ j.sd_paused
                        THEN [j EXCEPT !.file_position = 0] ELSE j))
    [] c = "SDCARD_RESET_FILE" ->
         IF j.cmd_from_sd THEN Raise(j) ELSE Ok(reset_file(j))
    [] c = "SDCARD_PRINT_FILE" ->
         IF j.work_timer THEN Raise(j)
         ELSE Raise(reset_file(j))                        \* cannot be opened
              \union UNION {Ok(do_resume(load_file(reset_file(j), p))) :
                              p \in {0, 1}}
    [] c = "M23" ->
         IF j.work_timer THEN Raise(j)
         ELSE Raise(reset_file(j)) \union Ok(load_file(reset_file(j), 0))
    [] c = "M24" -> IF j.work_timer THEN Raise(j) ELSE Ok(do_resume(j))
    [] c = "M26" ->
         IF j.work_timer THEN Raise(j)
         ELSE UNION {Ok([j EXCEPT !.file_position = p]) : p \in 0..FileLen}
    [] c = "other" -> Ok(j) \union Raise(j)
    [] c = "SDCARD_LOOP_END" ->
         IF ~j.cmd_from_sd \/ skips = MaxSkips THEN Raise(j)
         ELSE UNION {Ok([j EXCEPT !.next_file_position = p]) :
                       p \in 0..(j.next_file_position - 1)}

\* A command of a printer that has shut down is refused by cmd_default.
Results(c, j) ==
  IF ~ready THEN Raise(j)
  ELSE IF Pauses(c, j) THEN Ok(Ended(c, Begun(c, j)))
  ELSE Outcomes(c, j)

-----------------------------------------------------------------------------
(* ReactorMutex: leaving hands the mutex to the first greenlet waiting.    *)

Lock(g) ==
  IF owner = NoOne
  THEN owner' = g /\ UNCHANGED queue
  ELSE queue' = Append(queue, g) /\ UNCHANGED owner

Unlock ==
  IF queue = <<>>
  THEN owner' = NoOne /\ UNCHANGED queue
  ELSE owner' = Head(queue) /\ queue' = Tail(queue)

\* __exit__ followed, with no switch in between, by __enter__.
Relock(g) ==
  IF queue = <<>>
  THEN UNCHANGED <<owner, queue>>
  ELSE owner' = Head(queue) /\ queue' = Append(Tail(queue), g)

\* A filament sensor waits in do_pause, its pause_command_sent still to be set.
EventWaits ==
  \E c \in Clients : client[c].pc = "pausing" /\ client[c].cmd = "EVENT"

\* The history of the print j leaves.
Stale(j) ==
  LET started == j.work_timer /\ ~job.work_timer
  IN CASE ~j.pause_command_sent /\ ~EventWaits -> "no"
       [] started /\ stale = "no" -> IF j.pause_command_sent THEN "flags" ELSE "race"
       [] OTHER -> stale

\* A new position, or file, starts a new count of completed lines; the
\* work timer registered by do_resume starts the handler.
Apply(j) ==
  /\ job' = j
  /\ done' = IF j.file_position # job.file_position
                \/ (j.current_file /\ j.state = "standby")
             THEN j.file_position ELSE done
  /\ worker' = IF j.work_timer /\ ~job.work_timer THEN "start" ELSE worker
  /\ stale' = Stale(j)

-----------------------------------------------------------------------------
(* Clients. *)

At(c, pc, cmd) == client' = [client EXCEPT ![c] = [pc |-> pc, cmd |-> cmd]]

\* run_script: take the mutex or queue for it.
Issue(c) ==
  /\ client[c].pc = "idle" /\ issued < MaxCommands
  /\ issued' = issued + 1
  /\ \E cmd \in Commands \ {"EVENT"} : At(c, "lock", cmd)
  /\ Lock(c)
  /\ UNCHANGED <<job, worker, buf, fpos, ready, done, stale, skips>>

\* _runout_event_handler: the pause part runs at once, outside the mutex.
RunoutEvent(c) ==
  /\ client[c].pc = "idle" /\ issued < MaxCommands
  /\ "EVENT" \in Commands
  /\ issued' = issued + 1
  /\ IF Pauses("EVENT", job) /\ Waiting(job)
     THEN /\ Apply(Begun("EVENT", job))
          /\ At(c, "pausing", "EVENT")
     ELSE /\ Apply(IF Pauses("EVENT", job)
                   THEN Ended("EVENT", Begun("EVENT", job))
                   ELSE send_pause(job))
          /\ At(c, "delay", "PAUSE")
  /\ UNCHANGED <<owner, queue, buf, fpos, ready, skips>>

\* ... and its PAUSE script after pause_delay.
RunoutScript(c) ==
  /\ client[c].pc = "delay"
  /\ At(c, "lock", "PAUSE")
  /\ Lock(c)
  /\ UNCHANGED <<job, worker, buf, fpos, ready, done, stale, issued, skips>>

\* The command runs once the mutex is held, up to its end or to do_pause's
\* first reactor.pause.
RunCommand(c) ==
  /\ client[c].pc = "lock" /\ owner = c
  /\ LET cmd == client[c].cmd
     IN  \/ /\ ready /\ Pauses(cmd, job) /\ Waiting(job)
            /\ Apply(Begun(cmd, job))
            /\ At(c, "pausing", cmd)
            /\ UNCHANGED <<owner, queue>>
         \/ /\ ~(ready /\ Pauses(cmd, job) /\ Waiting(job))
            /\ \E r \in Results(cmd, job) : Apply(r.job)
            /\ At(c, "idle", cmd)
            /\ Unlock
  /\ UNCHANGED <<buf, fpos, ready, issued, skips>>

\* do_pause's loop ends, and the rest of the command runs.
PauseDone(c) ==
  /\ client[c].pc = "pausing" /\ ~Waiting(job)
  /\ LET cmd == client[c].cmd
     IN  /\ Apply(Ended(cmd, job))
         /\ IF cmd = "EVENT"
            THEN At(c, "delay", "PAUSE") /\ UNCHANGED <<owner, queue>>
            ELSE At(c, "idle", cmd) /\ Unlock
  /\ UNCHANGED <<buf, fpos, ready, issued, skips>>

-----------------------------------------------------------------------------
(* work_handler. *)

\* From the timer callback to the first loop test.
WorkStart ==
  /\ worker = "start"
  /\ IF job.current_file
     THEN /\ job' = note_start(job)
          /\ worker' = "loop"
          /\ fpos' = job.file_position
     ELSE /\ job' = [job EXCEPT !.work_timer = FALSE]   \* seek raises
          /\ worker' = "idle"
          /\ UNCHANGED fpos
  /\ buf' = <<>>
  /\ UNCHANGED <<owner, queue, client, ready, done, stale, issued, skips>>

\* The end of work_handler, after an error or not.
Exited(j, failed) ==
  LET k == [j EXCEPT !.work_timer = FALSE, !.cmd_from_sd = FALSE]
  IN  IF failed THEN note_finish(k, "error")
      ELSE IF k.current_file THEN note_pause(k)
      ELSE note_finish(k, "complete")

\* must_pause_work ends the loop.
WorkExit ==
  /\ worker = "loop" /\ job.must_pause_work
  /\ job' = Exited(job, FALSE)
  /\ worker' = "idle" /\ buf' = <<>>
  /\ UNCHANGED <<owner, queue, client, fpos, ready, done, stale, issued, skips>>

\* Variant of WorkRead that does not test must_pause_work when lines run out.
WorkReadOn ==
  /\ worker = "loop" /\ buf = <<>>
  /\ \/ /\ fpos < FileLen
        /\ buf' = <<fpos + 1>> /\ fpos' = fpos + 1
        /\ UNCHANGED <<job, worker>>
     \/ /\ fpos = FileLen
        /\ job' = Exited([job EXCEPT !.current_file = FALSE], FALSE)
        /\ worker' = "idle"
        /\ UNCHANGED <<buf, fpos>>
  /\ UNCHANGED <<owner, queue, client, ready, done, stale, issued, skips>>

\* No lines are left: read a chunk, find the end of the file, or fail.
WorkRead ==
  /\ worker = "loop" /\ ~job.must_pause_work /\ buf = <<>>
  /\ \/ /\ fpos < FileLen
        /\ LET n == IF fpos + Chunk > FileLen THEN FileLen - fpos ELSE Chunk
           IN  /\ buf' = [i \in 1..n |-> fpos + i]
               /\ fpos' = fpos + n
        /\ UNCHANGED <<job, worker>>
     \/ /\ fpos = FileLen
        /\ job' = Exited([job EXCEPT !.current_file = FALSE], FALSE)
        /\ worker' = "idle"
        /\ UNCHANGED <<buf, fpos>>
     \/ /\ job' = Exited(job, FALSE)
        /\ worker' = "idle"
        /\ UNCHANGED <<buf, fpos>>
  /\ UNCHANGED <<owner, queue, client, ready, done, stale, issued, skips>>

\* The mutex is free: take it and start the next line.  (Otherwise the
\* handler pauses 100ms and comes back to the loop test.)
WorkDispatch ==
  /\ worker = "loop" /\ ~job.must_pause_work /\ buf # <<>>
  /\ owner = NoOne
  /\ owner' = SD
  /\ job' = [job EXCEPT !.cmd_from_sd = TRUE,
                        !.next_file_position = job.file_position + 1]
  /\ worker' = "line"
  /\ UNCHANGED <<queue, client, buf, fpos, ready, done, stale, issued, skips>>

\* The line completes.
LineOk(j) ==
  LET k == [j EXCEPT !.cmd_from_sd = FALSE,
                     !.file_position = j.next_file_position]
      skip == j.next_file_position # job.next_file_position
  IN  /\ job' = IF skip /\ ~j.current_file
                THEN [k EXCEPT !.work_timer = FALSE] ELSE k
      /\ worker' = IF skip /\ ~j.current_file THEN "idle" ELSE "loop"
      /\ buf' = IF skip THEN <<>> ELSE Tail(buf)
      /\ fpos' = IF skip THEN k.file_position ELSE fpos
      /\ done' = IF skip THEN k.file_position ELSE done + 1
      /\ skips' = IF skip THEN skips + 1 ELSE skips
      /\ stale' = Stale(j)
      /\ Unlock

\* Variant of LineError that takes cmd_from_sd back before on_error_gcode.
LineErrorClears(j) ==
  /\ job' = [j EXCEPT !.cmd_from_sd = FALSE]
  /\ worker' = "on_error"
  /\ buf' = Tail(buf)
  /\ Relock(SD)
  /\ UNCHANGED <<fpos, done, stale, skips>>

\* Variant of LineError that counts the failing line as done.
LineErrorSkips(j) ==
  /\ job' = [j EXCEPT !.file_position = j.next_file_position]
  /\ worker' = "on_error"
  /\ buf' = Tail(buf)
  /\ Relock(SD)
  /\ UNCHANGED <<fpos, done, stale, skips>>

\* It raises gcode.error: the mutex is left and asked for again, to run
\* on_error_gcode; cmd_from_sd stays set.
LineError(j) ==
  /\ job' = j
  /\ worker' = "on_error"
  /\ buf' = Tail(buf)
  /\ Relock(SD)
  /\ UNCHANGED <<fpos, done, stale, skips>>

LineDone ==
  /\ worker = "line"
  /\ \E cmd \in SdCommands : \E r \in Results(cmd, job) :
       IF r.raised THEN LineError(r.job) ELSE LineOk(r.job)
  /\ UNCHANGED <<client, ready, issued>>

\* on_error_gcode (any command, its errors ignored), then the exit.
OnError ==
  /\ worker = "on_error" /\ owner = SD
  /\ \E cmd \in {"other", "PAUSE", "CANCEL_PRINT"} :
       \E r \in Results(cmd, job) :
          job' = Exited(r.job, TRUE) /\ stale' = Stale(r.job)
  /\ worker' = "idle" /\ buf' = <<>>
  /\ Unlock
  /\ UNCHANGED <<client, fpos, ready, done, issued, skips>>

\* invoke_shutdown: virtual_sdcard.handle_shutdown, and no command runs
\* any more.
HandleShutdown ==
  /\ ready /\ ready' = FALSE
  /\ job' = do_pause(job)
  /\ UNCHANGED <<owner, queue, client, worker, buf, fpos, done, stale, issued, skips>>

-----------------------------------------------------------------------------
Work == WorkStart \/ WorkExit \/ WorkRead \/ WorkDispatch \/ LineDone \/ OnError

Run(c) == RunoutScript(c) \/ RunCommand(c) \/ PauseDone(c)

Next ==
  \/ Work
  \/ \E c \in Clients : Issue(c) \/ RunoutEvent(c) \/ Run(c)
  \/ HandleShutdown

Spec == Init /\ [][Next]_vars

\* The reactor runs every timer and greenlet whose time has come.
FairSpec == Spec /\ WF_vars(Work) /\ \A c \in Clients : WF_vars(Run(c))

-----------------------------------------------------------------------------
\* The line that runs is the one after the last that completed: across
\* pauses, errors, chunks and jumps no line is skipped or run again once it
\* completed (file_position, lines and the file object agree).
NextLineRuns ==
  worker = "line" /\ job.current_file =>
    Head(buf) = done + 1 /\ Head(buf) = job.next_file_position

\* A line is only started while its file is open: once CANCEL_PRINT or
\* SDCARD_RESET_FILE closed it, nothing that was read from it runs.
LineOfOpenFile ==
  [][worker = "loop" /\ worker' = "line" => job.current_file]_vars

\* A command waiting in do_pause to close the file still finds it open when
\* the wait ends (current_file.close() on None would shut the printer down).
CloseFindsFile ==
  \A c \in Clients :
    client[c].pc = "pausing"
    /\ client[c].cmd \in {"CANCEL_PRINT", "SDCARD_RESET_FILE"}
      => job.current_file

\* print_stats does not report a print nobody works on.
PrintingMeansWorking == job.state = "printing" => job.work_timer

\* The shared state is well formed, what is reported is true, and whoever waits to
\* close the file finds it: the three above.
JobInv == TypeOK /\ PrintingMeansWorking /\ CloseFindsFile

\* While pause_resume says the printer is paused, the work handler is told
\* to stop and starts no line, unless the print was started over the flags of
\* an older pause (M24 or SDCARD_PRINT_FILE with no RESUME or CLEAR_PAUSE) or
\* while a filament sensor was waiting in do_pause.
PauseHolds ==
  job.is_paused /\ job.work_timer /\ stale = "no" => job.must_pause_work

\* The same with no exception for the sensor.  docs/Config_Reference.md:
\* "When set to True, a PAUSE will execute immediately after a runout is
\* detected."  send_pause_command sets pause_command_sent after do_pause has
\* waited, for whatever print is on then.
RunoutHolds ==
  job.is_paused /\ job.work_timer /\ stale # "flags" => job.must_pause_work

-----------------------------------------------------------------------------
(* The inductive invariant behind JobInv, NextLineRuns, PauseHolds and       *)
(* LineOfOpenFile                                                            *)

\* The flags say where the work handler is; a line runs under the mutex.
WorkerInv ==
  /\ job.work_timer <=> worker # "idle"
  /\ job.cmd_from_sd <=> worker \in {"line", "on_error"}
  /\ worker = "line" => owner = SD /\ job.current_file
  /\ worker = "loop" => job.current_file \/ job.must_pause_work
  /\ job.state = "printing" => worker \notin {"idle", "start"} /\ job.print_started

\* What was read and not run yet follows what was completed.
PositionInv ==
  /\ job.current_file => done = job.file_position
  /\ worker = "line" => /\ buf # <<>>
                        /\ job.next_file_position = job.file_position + 1
  /\ worker \in {"loop", "line"} /\ job.current_file =>
       /\ fpos = job.file_position + Len(buf)
       /\ \A i \in 1..Len(buf) : buf[i] = job.file_position + i

\* Once a pause was sent, or is about to be, the print on then must stop.
PauseInv ==
  /\ job.is_paused => job.pause_command_sent
  /\ job.work_timer /\ stale = "no" /\ (job.pause_command_sent \/ EventWaits) =>
       job.must_pause_work

\* Who waits in do_pause holds the mutex, so that no line starts, and nobody
\* takes the pause back.
WaiterInv ==
  \A c \in Clients :
    client[c].pc = "pausing" =>
      /\ client[c].cmd \in {"PAUSE", "EVENT", "M25", "CANCEL_PRINT", "SDCARD_RESET_FILE"}
      /\ client[c].cmd # "EVENT" => owner = c /\ job.must_pause_work /\ ~job.cmd_from_sd
      /\ client[c].cmd \in {"CANCEL_PRINT", "SDCARD_RESET_FILE"} => job.current_file

PrintInv == WorkerInv /\ PositionInv /\ PauseInv /\ WaiterInv

-----------------------------------------------------------------------------
\* Every command ends, those waiting for the work handler while they hold
\* the mutex the work handler wants included.
CommandsEnd == \A c \in Clients : client[c].pc # "idle" ~> client[c].pc = "idle"
=============================================================================
