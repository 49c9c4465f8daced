--------------------------- MODULE PrintJob_proofs ---------------------------
(***************************************************************************)
(* Proofs about PrintJob: the fields virtual_sdcard, pause_resume and      *)
(* print_stats share stay consistent whatever the clients, the filament    *)
(* sensor and the file itself run, for every number of clients, every file *)
(* and every chunk size.                                                   *)
(***************************************************************************)
EXTENDS PrintJob, SequenceTheorems, TLAPS

\* The inductive invariant.
Inv == TypeOK /\ PrintInv

-----------------------------------------------------------------------------
(* What commands do *)

\* What a command may do to the fields j; most of it is about a print that is
\* on, which no command ends, rewinds or takes a pause back from.
Effect(j, k) ==
  /\ k \in Job
  /\ k.cmd_from_sd = j.cmd_from_sd
  /\ k.state = "printing" => j.state = "printing" /\ (j.print_started => k.print_started)
  /\ (j.is_paused => j.pause_command_sent) => (k.is_paused => k.pause_command_sent)
  /\ k.current_file => k.state = "standby" \/ j.current_file
  /\ j.work_timer =>
       /\ k.work_timer
       /\ j.must_pause_work => k.must_pause_work
       /\ k.current_file => j.current_file /\ k.file_position = j.file_position
       /\ j.current_file /\ ~k.current_file => k.must_pause_work
       /\ k.pause_command_sent => j.pause_command_sent \/ k.must_pause_work \/ EventWaits
  /\ k.next_file_position # j.next_file_position =>
       k.current_file = j.current_file /\ skips < MaxSkips

\* The positions a file is opened at lie in the file.
LEMMA Positions == 0 \in 0..FileLen /\ 1 \in 0..FileLen
BY PrintJobAssumption

\* A command that does nothing.
LEMMA EffectSame == ASSUME NEW j \in Job PROVE Effect(j, j)
BY DEF Effect, Job

\* do_cancel, as a whole.
LEMMA EffectCancelled ==
    ASSUME NEW j \in Job
    PROVE  Effect(j, clear_pause(cancelled(do_pause(j))))
<1> DEFINE k == [do_pause(j) EXCEPT !.current_file = FALSE, !.file_position = 0]
<1>1. /\ k \in Job /\ ~k.current_file /\ (j.work_timer => k.work_timer /\ k.must_pause_work)
      /\ k.cmd_from_sd = j.cmd_from_sd /\ k.state = j.state /\ k.print_started = j.print_started
      /\ k.next_file_position = j.next_file_position
  BY Positions, Zenon DEF Job, do_pause
<1> HIDE DEF k
<1>2. Effect(j, clear_pause(note_finish(k, "cancelled")))
  <2>1. CASE k.print_started
    <3> DEFINE e == [k EXCEPT !.state = "cancelled", !.print_started = FALSE,
                              !.is_paused = FALSE, !.pause_command_sent = FALSE]
    <3>1. clear_pause(note_finish(k, "cancelled")) = e
      BY <1>1, <2>1 DEF Job, note_finish, clear_pause
    <3>2. Effect(j, e)
      BY <1>1, Zenon DEF Effect, Job, States
    <3> QED BY <3>1, <3>2
  <2>2. CASE ~k.print_started
    BY <1>1, <2>2, Zenon DEF Effect, Job, note_finish, clear_pause, States
  <2> QED BY <2>1, <2>2
<1> QED BY <1>2 DEF cancelled, k

\* The commands that call do_pause, as a whole: each of them stops the print
\* that is on before it closes the file.
LEMMA EffectPauses ==
    ASSUME NEW j \in Job, NEW c \in CommandNames, Pauses(c, j)
    PROVE  Effect(j, Ended(c, Begun(c, j)))
<1>1. c \in {"PAUSE", "EVENT", "M25", "CANCEL_PRINT", "SDCARD_RESET_FILE"}
  BY DEF Pauses, CommandNames
<1>2. CASE c \in {"PAUSE", "EVENT"}
  <2>1. CASE c = "PAUSE"
    BY <2>1, Zenon DEF Effect, Job, Ended, Begun, do_pause, Pauses
  <2>2. CASE c = "EVENT"
    BY <2>2, Zenon DEF Effect, Job, Ended, Begun, do_pause, Pauses
  <2> QED BY <1>2, <2>1, <2>2
<1>3. CASE c = "M25"
  <2>1. Ended(c, Begun(c, j)) = do_pause(j)
    BY <1>3 DEF Ended, Begun
  <2>2. Effect(j, do_pause(j))
    BY Zenon DEF Effect, Job, do_pause
  <2> QED BY <2>1, <2>2
<1>4. CASE c = "CANCEL_PRINT"
  <2>1. Ended(c, Begun(c, j)) = clear_pause(cancelled(do_pause(j)))
    BY <1>4 DEF Ended, Begun
  <2> QED BY <2>1, EffectCancelled
<1>5. CASE c = "SDCARD_RESET_FILE"
  <2>1. Ended(c, Begun(c, j)) = reset_file(do_pause(j))
    BY <1>5 DEF Ended, Begun
  <2>2. Effect(j, reset_file(do_pause(j)))
    BY Positions, Zenon DEF Effect, Job, do_pause, reset_file, stats_reset, States
  <2> QED BY <2>1, <2>2
<1> QED BY <1>1, <1>2, <1>3, <1>4, <1>5

\* The commands that do not: those that open a file or start the handler are
\* refused while a print is on.
LEMMA EffectOutcomes ==
    ASSUME NEW j \in Job, NEW c \in CommandNames, ~Pauses(c, j),
           skips \in 0..MaxSkips, NEW r \in Outcomes(c, j)
    PROVE  Effect(j, r.job)
<1> USE DEF Ok, Raise
<1>0. Effect(j, j)
  BY EffectSame
<1>1. CASE c = "PAUSE"
  <2>1. r.job = IF j.is_paused THEN j ELSE [send_pause(j) EXCEPT !.is_paused = TRUE]
    BY <1>1 DEF Outcomes
  <2>2. j.work_timer /\ ~j.is_paused => j.pause_command_sent
    BY <1>1 DEF Pauses
  <2>3. Effect(j, [send_pause(j) EXCEPT !.is_paused = TRUE]) \/ j.is_paused
    BY <2>2, Zenon DEF Effect, Job, send_pause
  <2> QED BY <1>0, <2>1, <2>3
<1>2. CASE c = "EVENT"
  <2>1. r.job = send_pause(j)
    BY <1>2 DEF Outcomes
  <2>2. j.work_timer => j.pause_command_sent
    BY <1>2 DEF Pauses
  <2>3. Effect(j, send_pause(j))
    BY <2>2, Zenon DEF Effect, Job, send_pause
  <2> QED BY <2>1, <2>3
<1>3. CASE c = "RESUME"
  <2>1. \/ r.job = j
        \/ ~(j.sd_paused /\ j.work_timer) /\ r.job = resumed(j)
    BY <1>3 DEF Outcomes
  <2>2. ~(j.sd_paused /\ j.work_timer) => Effect(j, resumed(j))
    <3>1. CASE j.sd_paused
      BY <3>1, Zenon DEF Effect, Job, resumed, clear_pause, do_resume
    <3>2. CASE ~j.sd_paused
      BY <3>2, Zenon DEF Effect, Job, resumed, clear_pause
    <3> QED BY <3>1, <3>2
  <2> QED BY <1>0, <2>1, <2>2
<1>4. CASE c = "CLEAR_PAUSE"
  <2>1. r.job = clear_pause(j)
    BY <1>4 DEF Outcomes
  <2>2. Effect(j, clear_pause(j))
    BY Zenon DEF Effect, Job, clear_pause
  <2> QED BY <2>1, <2>2
<1>5. CASE c = "CANCEL_PRINT"
  <2>1. \/ r.job = clear_pause(j)
        \/ ~j.current_file /\ r.job = clear_pause([j EXCEPT !.file_position = 0])
    BY <1>5 DEF Outcomes, Pauses
  <2>2. Effect(j, clear_pause(j))
    BY Zenon DEF Effect, Job, clear_pause
  <2>3. ~j.current_file => Effect(j, clear_pause([j EXCEPT !.file_position = 0]))
    BY Positions, Zenon DEF Effect, Job, clear_pause
  <2> QED BY <2>1, <2>2, <2>3
<1>6. Effect(j, reset_file(j)) \/ (j.work_timer /\ j.current_file)
  BY Positions, Zenon DEF Effect, Job, reset_file, stats_reset, States
<1>7. CASE c = "SDCARD_RESET_FILE"
  <2>1. r.job = j \/ (~j.current_file /\ r.job = reset_file(j))
    BY <1>7 DEF Outcomes, Pauses
  <2> QED BY <1>0, <1>6, <2>1
<1>8. CASE c = "SDCARD_PRINT_FILE"
  <2>1. \/ r.job = j
        \/ ~j.work_timer /\ r.job = reset_file(j)
        \/ ~j.work_timer /\ \E p \in {0, 1} : r.job = do_resume(load_file(reset_file(j), p))
    BY <1>8 DEF Outcomes
  <2>2. ASSUME ~j.work_timer, NEW p \in {0, 1}
        PROVE  Effect(j, do_resume(load_file(reset_file(j), p)))
    <3>1. p \in 0..FileLen
      BY Positions
    <3> QED BY <2>2, <3>1, Positions, Zenon
            DEF Effect, Job, reset_file, stats_reset, States, load_file, do_resume
  <2> QED BY <1>0, <1>6, <2>1, <2>2
<1>9. CASE c = "M23"
  <2>1. \/ r.job = j
        \/ ~j.work_timer /\ r.job = reset_file(j)
        \/ ~j.work_timer /\ r.job = load_file(reset_file(j), 0)
    BY <1>9 DEF Outcomes
  <2>2. ~j.work_timer => Effect(j, load_file(reset_file(j), 0))
    BY Positions, Zenon DEF Effect, Job, reset_file, stats_reset, States, load_file
  <2> QED BY <1>0, <1>6, <2>1, <2>2
<1>10. CASE c = "M24"
  <2>1. r.job = j \/ (~j.work_timer /\ r.job = do_resume(j))
    BY <1>10 DEF Outcomes
  <2>2. ~j.work_timer => Effect(j, do_resume(j))
    BY Zenon DEF Effect, Job, do_resume
  <2> QED BY <1>0, <2>1, <2>2
<1>11. CASE c = "M26"
  <2>1. \/ r.job = j
        \/ ~j.work_timer /\ \E p \in 0..FileLen : r.job = [j EXCEPT !.file_position = p]
    BY <1>11 DEF Outcomes
  <2>2. ASSUME ~j.work_timer, NEW p \in 0..FileLen
        PROVE  Effect(j, [j EXCEPT !.file_position = p])
    BY <2>2 DEF Effect, Job
  <2> QED BY <1>0, <2>1, <2>2, Zenon
<1>12. CASE c = "other"
  BY <1>0, <1>12 DEF Outcomes
<1>13. CASE c = "SDCARD_LOOP_END"
  <2>1. \/ r.job = j
        \/ /\ skips # MaxSkips
           /\ \E p \in 0..(j.next_file_position - 1) : r.job = [j EXCEPT !.next_file_position = p]
    BY <1>13 DEF Outcomes
  <2>2. ASSUME skips # MaxSkips, NEW p \in 0..(j.next_file_position - 1)
        PROVE  Effect(j, [j EXCEPT !.next_file_position = p])
    <3>1. j.next_file_position \in 0..FileLen
      BY DEF Job
    <3>2. p \in 0..FileLen /\ skips < MaxSkips
      BY <2>2, <3>1, PrintJobAssumption
    <3> QED BY <3>2 DEF Effect, Job
  <2> QED BY <1>0, <2>1, <2>2, Zenon
<1>14. CASE c = "M25"
  BY <1>14 DEF Pauses
<1> QED BY <1>1, <1>2, <1>3, <1>4, <1>5, <1>7, <1>8, <1>9, <1>10, <1>11, <1>12, <1>13, <1>14
        DEF CommandNames

\* Any command run to its end.
LEMMA EffectResults ==
    ASSUME NEW j \in Job, NEW c \in CommandNames, skips \in 0..MaxSkips, NEW r \in Results(c, j)
    PROVE  Effect(j, r.job)
<1>1. CASE ~ready
  BY <1>1, EffectSame DEF Results, Raise
<1>2. CASE ready /\ Pauses(c, j)
  BY <1>2, EffectPauses DEF Results, Ok
<1>3. CASE ready /\ ~Pauses(c, j)
  BY <1>3, EffectOutcomes DEF Results
<1> QED BY <1>1, <1>2, <1>3

\* A command up to its wait in do_pause: the work handler is told to stop.
LEMMA EffectBegun ==
    ASSUME NEW j \in Job, NEW c, Waiting(j)
    PROVE  LET k == Begun(c, j)
           IN  /\ Effect(j, k) /\ k.must_pause_work
               /\ k.current_file = j.current_file
               /\ k.next_file_position = j.next_file_position
<1>1. CASE c \in {"PAUSE", "EVENT"}
  BY <1>1, Zenon DEF Effect, Job, Begun, do_pause, Waiting
<1>2. CASE c \notin {"PAUSE", "EVENT"}
  BY <1>2, Zenon DEF Effect, Job, Begun, do_pause, Waiting
<1> QED BY <1>1, <1>2

\* The rest of the command, with no print on any more.
LEMMA EffectEnded ==
    ASSUME NEW j \in Job, ~j.work_timer,
           NEW c \in {"PAUSE", "EVENT", "M25", "CANCEL_PRINT", "SDCARD_RESET_FILE"}
    PROVE  Effect(j, Ended(c, j))
<1>1. CASE c = "PAUSE"
  BY <1>1, Zenon DEF Effect, Job, Ended
<1>2. CASE c = "EVENT"
  BY <1>2, Zenon DEF Effect, Job, Ended
<1>3. CASE c = "M25"
  <2>1. Ended(c, j) = j
    BY <1>3 DEF Ended
  <2> QED BY <2>1, EffectSame
<1>4. CASE c = "CANCEL_PRINT"
  <2>1. Ended(c, j) = clear_pause(cancelled(j))
    BY <1>4 DEF Ended
  <2>2. Effect(j, clear_pause(cancelled(j)))
    BY Positions, ZenonT(40) DEF Effect, Job, cancelled, note_finish, clear_pause, States
  <2> QED BY <2>1, <2>2
<1>5. CASE c = "SDCARD_RESET_FILE"
  <2>1. Ended(c, j) = reset_file(j)
    BY <1>5 DEF Ended
  <2>2. Effect(j, reset_file(j))
    BY Positions, Zenon DEF Effect, Job, reset_file, stats_reset, States
  <2> QED BY <2>1, <2>2
<1> QED BY <1>1, <1>2, <1>3, <1>4, <1>5

\* What the filament sensor does outside the mutex leaves file and positions
\* alone, and takes no pause back.
LEMMA EffectSensor ==
    ASSUME NEW j \in Job,
           NEW k \in {send_pause(j), Ended("EVENT", Begun("EVENT", j)), Ended("EVENT", j)}
    PROVE  /\ k.current_file = j.current_file /\ k.next_file_position = j.next_file_position
           /\ k.must_pause_work \in {j.must_pause_work, TRUE}
<1>1. CASE k = send_pause(j)
  BY <1>1 DEF Job, send_pause
<1>2. CASE k = Ended("EVENT", j)
  BY <1>2, Zenon DEF Job, Ended
<1>3. CASE k = Ended("EVENT", Begun("EVENT", j))
  BY <1>3, Zenon DEF Job, Ended, Begun, do_pause
<1> QED BY <1>1, <1>2, <1>3, Zenon

-----------------------------------------------------------------------------
(* How a command takes effect *)

\* A command that takes effect while no line runs, or that leaves the file and
\* the positions alone, keeps the invariant; a sensor that starts to wait has
\* told the work handler to stop.
LEMMA ApplyKeeps ==
    ASSUME TypeOK, WorkerInv, PositionInv, PauseInv,
           NEW k, Effect(job, k), Apply(k), UNCHANGED <<buf, fpos>>,
           worker = "line" => /\ owner' = owner /\ k.current_file
                              /\ k.next_file_position = job.next_file_position,
           EventWaits' => EventWaits \/ k.must_pause_work
    PROVE  /\ job' \in Job /\ done' \in 0..FileLen
           /\ worker' \in {"idle", "start", "loop", "line", "on_error"}
           /\ stale' \in {"no", "flags", "race"}
           /\ WorkerInv' /\ PositionInv' /\ PauseInv'
<1>0. /\ job \in Job /\ worker \in {"idle", "start", "loop", "line", "on_error"}
      /\ done \in 0..FileLen /\ stale \in {"no", "flags", "race"}
  BY DEF TypeOK
<1>1. /\ job' = k /\ k \in Job
      /\ worker' = IF k.work_timer /\ ~job.work_timer THEN "start" ELSE worker
      /\ done' = IF k.file_position # job.file_position \/ (k.current_file /\ k.state = "standby")
                 THEN k.file_position ELSE done
      /\ stale' = Stale(k)
  BY DEF Apply, Effect
<1>2. /\ k.cmd_from_sd = job.cmd_from_sd
      /\ k.state = "printing" => job.state = "printing" /\ (job.print_started => k.print_started)
      /\ (job.is_paused => job.pause_command_sent) => (k.is_paused => k.pause_command_sent)
      /\ k.current_file => k.state = "standby" \/ job.current_file
      /\ job.work_timer =>
           /\ k.work_timer
           /\ job.must_pause_work => k.must_pause_work
           /\ k.current_file => job.current_file /\ k.file_position = job.file_position
           /\ job.current_file /\ ~k.current_file => k.must_pause_work
           /\ k.pause_command_sent =>
                job.pause_command_sent \/ k.must_pause_work \/ EventWaits
  BY DEF Effect
<1>3. k.file_position \in 0..FileLen
  BY <1>1 DEF Job
<1>4. done' \in 0..FileLen /\ worker' \in {"idle", "start", "loop", "line", "on_error"}
  BY <1>0, <1>1, <1>3
<1>5. stale' \in {"no", "flags", "race"}
  BY <1>0, <1>1 DEF Stale
<1>6. WorkerInv'
  <2>1. job'.work_timer <=> worker' # "idle"
    BY <1>1, <1>2 DEF WorkerInv
  <2>2. job'.cmd_from_sd <=> worker' \in {"line", "on_error"}
    BY <1>1, <1>2 DEF WorkerInv
  <2>3. worker' = "line" => owner' = SD /\ job'.current_file
    BY <1>1 DEF WorkerInv
  <2>4. worker' = "loop" => job'.current_file \/ job'.must_pause_work
    BY <1>1, <1>2 DEF WorkerInv
  <2>5. job'.state = "printing" => worker' \notin {"idle", "start"} /\ job'.print_started
    BY <1>1, <1>2 DEF WorkerInv
  <2> QED BY <2>1, <2>2, <2>3, <2>4, <2>5 DEF WorkerInv
<1>7. PositionInv'
  <2>1. job'.current_file => done' = job'.file_position
    BY <1>1, <1>2 DEF PositionInv
  <2>2. worker' = "line" => buf' # <<>> /\ job'.next_file_position = job'.file_position + 1
    BY <1>1, <1>2 DEF PositionInv, WorkerInv
  <2>3. worker' \in {"loop", "line"} /\ job'.current_file =>
          /\ worker \in {"loop", "line"} /\ job.current_file
          /\ job'.file_position = job.file_position
    BY <1>1, <1>2 DEF WorkerInv
  <2> QED BY <2>1, <2>2, <2>3 DEF PositionInv
<1>8. PauseInv'
  <2>1. job'.is_paused => job'.pause_command_sent
    BY <1>1, <1>2 DEF PauseInv
  <2>2. ASSUME job'.work_timer, stale' = "no", job'.pause_command_sent \/ EventWaits'
        PROVE  job'.must_pause_work
    <3>1. CASE ~k.pause_command_sent /\ ~EventWaits
      BY <1>1, <2>2, <3>1
    <3>2. CASE k.pause_command_sent \/ EventWaits
      <4>1. job.work_timer /\ stale = "no"
        BY <1>1, <2>2, <3>2 DEF Stale
      <4> QED BY <1>1, <1>2, <2>2, <3>2, <4>1 DEF PauseInv
    <3> QED BY <3>1, <3>2
  <2> QED BY <2>1, <2>2 DEF PauseInv
<1> QED BY <1>1, <1>4, <1>5, <1>6, <1>7, <1>8

-----------------------------------------------------------------------------
(* The mutex and the clients *)

\* ReactorMutex hands itself on to greenlets that asked for it.
LEMMA MutexTypes ==
    ASSUME TypeOK, NEW g \in Clients \union {SD}, Lock(g) \/ Unlock \/ Relock(g)
    PROVE  /\ owner' \in Clients \union {SD, NoOne}
           /\ queue' \in Seq(Clients \union {SD})
<1> DEFINE G == Clients \union {SD}
<1>1. owner \in Clients \union {SD, NoOne} /\ queue \in Seq(G)
  BY DEF TypeOK
<1>2. CASE Lock(g)
  BY <1>1, <1>2, AppendProperties DEF Lock
<1>3. queue # <<>> => Head(queue) \in G /\ Tail(queue) \in Seq(G)
  BY <1>1, HeadTailProperties
<1>4. CASE Unlock
  BY <1>1, <1>3, <1>4 DEF Unlock
<1>5. CASE Relock(g)
  <2>1. queue # <<>> => Append(Tail(queue), g) \in Seq(G)
    BY <1>3, AppendProperties
  <2> QED BY <1>1, <1>3, <1>5, <2>1, Zenon DEF Relock
<1> QED BY <1>2, <1>4, <1>5

\* A greenlet's own step changes what it does and nobody else's doing.
LEMMA AtTypes ==
    ASSUME TypeOK, NEW c \in Clients, NEW pc \in {"idle", "lock", "pausing", "delay"},
           NEW cmd \in Commands \union {"PAUSE"}, At(c, pc, cmd)
    PROVE  /\ client' \in [Clients -> [pc: {"idle", "lock", "pausing", "delay"},
                                       cmd: Commands \union {"PAUSE"}]]
           /\ client'[c].pc = pc /\ client'[c].cmd = cmd
           /\ \A d \in Clients : d # c => client'[d] = client[d]
BY DEF TypeOK, At

\* Taking the mutex, or a place in its queue, disturbs nobody.
LEMMA StepLock ==
    ASSUME Inv, NEW c \in Clients, NEW cmd \in Commands \union {"PAUSE"},
           At(c, "lock", cmd), Lock(c), issued' \in 0..MaxCommands,
           client[c].pc # "pausing",
           UNCHANGED <<job, worker, buf, fpos, ready, done, stale, skips>>
    PROVE  Inv'
<1> TypeOK /\ PrintInv
  BY DEF Inv
<1>1. /\ client' \in [Clients -> [pc: {"idle", "lock", "pausing", "delay"},
                                  cmd: Commands \union {"PAUSE"}]]
      /\ client'[c].pc = "lock" /\ \A d \in Clients : d # c => client'[d] = client[d]
  BY AtTypes
<1>2. owner' \in Clients \union {SD, NoOne} /\ queue' \in Seq(Clients \union {SD})
  BY MutexTypes
<1>3. owner # NoOne => owner' = owner
  BY DEF Lock
<1>4. TypeOK'
  BY <1>1, <1>2 DEF TypeOK
<1>5. WorkerInv'
  BY <1>3 DEF PrintInv, WorkerInv, SD, NoOne
<1>6. PositionInv'
  BY DEF PrintInv, PositionInv
<1>7. PauseInv'
  <2>1. EventWaits' => EventWaits
    BY <1>1 DEF EventWaits
  <2> QED BY <2>1 DEF PrintInv, PauseInv
<1>8. WaiterInv'
  BY <1>1, <1>3, CommandsAssumption DEF PrintInv, WaiterInv
<1> QED BY <1>4, <1>5, <1>6, <1>7, <1>8 DEF Inv, PrintInv

\* run_script asks for the mutex.
LEMMA StepIssue ==
    ASSUME Inv, NEW c \in Clients, Issue(c) \/ RunoutScript(c)
    PROVE  Inv'
<1> TypeOK /\ PrintInv
  BY DEF Inv
<1>1. CASE Issue(c)
  <2>1. PICK cmd \in Commands \ {"EVENT"} : At(c, "lock", cmd)
    BY <1>1 DEF Issue
  <2>2. issued' \in 0..MaxCommands
    BY <1>1, PrintJobAssumption DEF Issue, TypeOK
  <2>3. /\ client[c].pc # "pausing" /\ Lock(c)
        /\ UNCHANGED <<job, worker, buf, fpos, ready, done, stale, skips>>
    BY <1>1 DEF Issue
  <2> QED BY <2>1, <2>2, <2>3, StepLock
<1>2. CASE RunoutScript(c)
  <2>1. /\ client[c].pc # "pausing" /\ Lock(c) /\ At(c, "lock", "PAUSE")
        /\ UNCHANGED <<job, worker, buf, fpos, ready, done, stale, skips>>
        /\ issued' \in 0..MaxCommands
    BY <1>2 DEF RunoutScript, TypeOK
  <2> QED BY <2>1, StepLock
<1> QED BY <1>1, <1>2

\* What the sensor does outside the mutex keeps the invariant.
LEMMA SensorKeeps ==
    ASSUME Inv, NEW c \in Clients, "EVENT" \in Commands,
           NEW k, NEW pc \in {"pausing", "delay"}, NEW cmd \in {"EVENT", "PAUSE"},
           Apply(k), At(c, pc, cmd), Effect(job, k),
           pc = "pausing" => cmd = "EVENT" /\ k.must_pause_work,
           k.current_file = job.current_file, k.next_file_position = job.next_file_position,
           k.must_pause_work \in {job.must_pause_work, TRUE},
           issued' \in 0..MaxCommands, UNCHANGED <<owner, queue, buf, fpos, ready, skips>>
    PROVE  Inv'
<1> TypeOK /\ PrintInv
  BY DEF Inv
<1>1. /\ client' \in [Clients -> [pc: {"idle", "lock", "pausing", "delay"},
                                  cmd: Commands \union {"PAUSE"}]]
      /\ client'[c].pc = pc /\ client'[c].cmd = cmd
      /\ \A d \in Clients : d # c => client'[d] = client[d]
  BY AtTypes
<1>2. EventWaits' => EventWaits \/ k.must_pause_work
  BY <1>1 DEF EventWaits
<1>3. /\ job' \in Job /\ done' \in 0..FileLen /\ stale' \in {"no", "flags", "race"}
      /\ worker' \in {"idle", "start", "loop", "line", "on_error"}
      /\ WorkerInv' /\ PositionInv' /\ PauseInv'
  <2>1. worker = "line" => owner' = owner /\ k.current_file
    BY Zenon DEF PrintInv, WorkerInv
  <2> QED BY <1>2, <2>1, ApplyKeeps DEF Inv, PrintInv
<1>4. WaiterInv'
  <2>1. /\ job'.current_file = job.current_file /\ (job.must_pause_work => job'.must_pause_work)
        /\ job'.cmd_from_sd = job.cmd_from_sd
    BY Zenon DEF Apply, Effect
  <2> QED BY <1>1, <2>1 DEF PrintInv, WaiterInv
<1>5. TypeOK'
  BY <1>1, <1>3 DEF TypeOK
<1> QED BY <1>3, <1>4, <1>5 DEF Inv, PrintInv

\* _runout_event_handler: send_pause_command acts on the print that is on.
LEMMA StepEvent ==
    ASSUME Inv, NEW c \in Clients, RunoutEvent(c)
    PROVE  Inv'
<1> TypeOK /\ PrintInv
  BY DEF Inv
<1>1. /\ "EVENT" \in Commands /\ "EVENT" \in CommandNames
      /\ UNCHANGED <<owner, queue, buf, fpos, ready, skips>> /\ job \in Job
  BY DEF RunoutEvent, TypeOK, CommandNames
<1>2. issued' \in 0..MaxCommands
  BY PrintJobAssumption DEF RunoutEvent, TypeOK
<1>3. CASE Pauses("EVENT", job) /\ Waiting(job)
  <2> DEFINE k == Begun("EVENT", job)
  <2>1. Apply(k) /\ At(c, "pausing", "EVENT")
    BY <1>3, Zenon DEF RunoutEvent
  <2>2. /\ Effect(job, k) /\ k.must_pause_work
        /\ k.current_file = job.current_file /\ k.next_file_position = job.next_file_position
    BY <1>1, <1>3, EffectBegun, Zenon
  <2>3. k.must_pause_work = TRUE
    BY <2>2 DEF Effect, Job
  <2> HIDE DEF k
  <2> QED BY <1>1, <1>2, <2>1, <2>2, <2>3, SensorKeeps, Zenon
<1>4. CASE ~(Pauses("EVENT", job) /\ Waiting(job)) /\ Pauses("EVENT", job)
  <2> DEFINE k == Ended("EVENT", Begun("EVENT", job))
  <2>1. Apply(k) /\ At(c, "delay", "PAUSE")
    BY <1>4 DEF RunoutEvent
  <2>2. Effect(job, k)
    BY <1>1, <1>4, EffectPauses
  <2>3. /\ k.current_file = job.current_file /\ k.next_file_position = job.next_file_position
        /\ k.must_pause_work \in {job.must_pause_work, TRUE}
    BY <1>1, EffectSensor, Zenon
  <2> HIDE DEF k
  <2> QED BY <1>1, <1>2, <2>1, <2>2, <2>3, SensorKeeps, Zenon
<1>5. CASE ~Pauses("EVENT", job)
  <2> DEFINE k == send_pause(job)
  <2>1. Apply(k) /\ At(c, "delay", "PAUSE")
    BY <1>5 DEF RunoutEvent
  <2>2. Effect(job, k)
    <3>1. [job |-> k, raised |-> FALSE] \in Outcomes("EVENT", job)
      BY DEF Outcomes, Ok
    <3>2. skips \in 0..MaxSkips
      BY DEF TypeOK
    <3> QED BY <1>1, <1>5, <3>1, <3>2, EffectOutcomes
  <2>3. /\ k.current_file = job.current_file /\ k.next_file_position = job.next_file_position
        /\ k.must_pause_work \in {job.must_pause_work, TRUE}
    BY <1>1, EffectSensor, Zenon
  <2> HIDE DEF k
  <2> QED BY <1>1, <1>2, <2>1, <2>2, <2>3, SensorKeeps, Zenon
<1> QED BY <1>3, <1>4, <1>5

\* A command that a client runs under the mutex.  No line runs meanwhile, and
\* nobody else waits in do_pause under it.
LEMMA CommandKeeps ==
    ASSUME Inv, NEW c \in Clients, owner = c,
           NEW k, NEW pc \in {"idle", "pausing"}, NEW cmd \in Commands \union {"PAUSE"},
           Apply(k), At(c, pc, cmd), Effect(job, k),
           pc = "pausing" =>
             /\ cmd \in {"PAUSE", "EVENT", "M25", "CANCEL_PRINT", "SDCARD_RESET_FILE"}
             /\ owner' = c /\ k.must_pause_work /\ ~k.cmd_from_sd
             /\ cmd \in {"CANCEL_PRINT", "SDCARD_RESET_FILE"} => k.current_file,
           Unlock \/ UNCHANGED <<owner, queue>>,
           UNCHANGED <<buf, fpos, ready, issued, skips>>,
           \A d \in Clients : d # c /\ client[d].pc = "pausing" => client[d].cmd = "EVENT"
    PROVE  Inv'
<1> TypeOK /\ PrintInv
  BY DEF Inv
<1>1. /\ client' \in [Clients -> [pc: {"idle", "lock", "pausing", "delay"},
                                  cmd: Commands \union {"PAUSE"}]]
      /\ client'[c].pc = pc /\ client'[c].cmd = cmd
      /\ \A d \in Clients : d # c => client'[d] = client[d]
  BY AtTypes
<1>2. owner' \in Clients \union {SD, NoOne} /\ queue' \in Seq(Clients \union {SD})
  <2>1. CASE Unlock
    BY <2>1, MutexTypes
  <2>2. CASE UNCHANGED <<owner, queue>>
    BY <2>2, Zenon DEF TypeOK
  <2> QED BY <2>1, <2>2
<1>3. EventWaits' => EventWaits \/ k.must_pause_work
  BY <1>1, Zenon DEF EventWaits
<1>4. worker # "line"
  BY CommandsAssumption, Zenon DEF PrintInv, WorkerInv
<1>5. /\ job' \in Job /\ done' \in 0..FileLen /\ stale' \in {"no", "flags", "race"}
      /\ worker' \in {"idle", "start", "loop", "line", "on_error"}
      /\ WorkerInv' /\ PositionInv' /\ PauseInv'
  BY <1>3, <1>4, ApplyKeeps, Zenon DEF PrintInv
<1>6. WaiterInv'
  <2>1. job' = k
    BY Zenon DEF Apply
  <2> QED BY <1>1, <2>1, Zenon DEF WaiterInv
<1>7. TypeOK'
  BY <1>1, <1>2, <1>5, Zenon DEF TypeOK
<1> QED BY <1>5, <1>6, <1>7 DEF Inv, PrintInv

\* run_script runs its command to the end, or to the wait in do_pause.
LEMMA StepRun ==
    ASSUME Inv, NEW c \in Clients, RunCommand(c)
    PROVE  Inv'
<1> TypeOK /\ PrintInv
  BY DEF Inv
<1> DEFINE cmd == client[c].cmd
<1>1. /\ client[c].pc = "lock" /\ owner = c
      /\ UNCHANGED <<buf, fpos, ready, issued, skips>>
      /\ job \in Job /\ skips \in 0..MaxSkips /\ cmd \in Commands \union {"PAUSE"}
  BY DEF RunCommand, TypeOK
<1>2. \A d \in Clients : d # c /\ client[d].pc = "pausing" => client[d].cmd = "EVENT"
  BY <1>1 DEF PrintInv, WaiterInv
<1>3. cmd \in CommandNames
  BY <1>1, CommandsAssumption, Zenon DEF CommandNames
<1>4. CASE /\ Pauses(cmd, job) /\ Waiting(job) /\ Apply(Begun(cmd, job))
           /\ At(c, "pausing", cmd) /\ UNCHANGED <<owner, queue>>
  <2> DEFINE k == Begun(cmd, job)
  <2>1. /\ Effect(job, k) /\ k.must_pause_work /\ k.current_file = job.current_file
        /\ ~k.cmd_from_sd
    BY <1>1, <1>4, EffectBegun, ZenonT(40) DEF Effect, Waiting
  <2>2. /\ cmd \in {"PAUSE", "EVENT", "M25", "CANCEL_PRINT", "SDCARD_RESET_FILE"}
        /\ cmd \in {"CANCEL_PRINT", "SDCARD_RESET_FILE"} => job.current_file
    BY <1>3, <1>4 DEF Pauses, CommandNames
  <2>3. owner' = c
    BY <1>1, <1>4
  <2>4. Apply(k)
    BY <1>4
  <2> HIDE DEF k
  <2>5. cmd \in {"CANCEL_PRINT", "SDCARD_RESET_FILE"} => k.current_file
    BY <2>1, <2>2
  <2> HIDE DEF cmd
  <2> QED BY <1>1, <1>2, <1>4, <2>1, <2>2, <2>3, <2>4, <2>5, CommandKeeps
<1>5. CASE /\ \E r \in Results(cmd, job) : Apply(r.job)
           /\ At(c, "idle", cmd) /\ Unlock
  <2>1. PICK r \in Results(cmd, job) : Apply(r.job)
    BY <1>5, Zenon
  <2>2. Effect(job, r.job)
    BY <1>1, <1>3, EffectResults
  <2> HIDE DEF cmd
  <2> QED BY <1>1, <1>2, <1>5, <2>1, <2>2, CommandKeeps, Zenon
<1> QED BY <1>4, <1>5 DEF RunCommand

\* do_pause's loop ends: under the mutex the print has come to rest; the sensor
\* may also find that the handler is running a line.
LEMMA StepPauseDone ==
    ASSUME Inv, NEW c \in Clients, PauseDone(c)
    PROVE  Inv'
<1> TypeOK /\ PrintInv
  BY DEF Inv
<1> DEFINE cmd == client[c].cmd
           k == Ended(cmd, job)
<1>1. /\ client[c].pc = "pausing" /\ ~Waiting(job) /\ Apply(k)
      /\ UNCHANGED <<buf, fpos, ready, issued, skips>>
      /\ job \in Job /\ issued \in 0..MaxCommands /\ cmd \in Commands \union {"PAUSE"}
  BY Zenon DEF PauseDone, TypeOK
<1>2. /\ cmd \in {"PAUSE", "EVENT", "M25", "CANCEL_PRINT", "SDCARD_RESET_FILE"}
      /\ cmd # "EVENT" => owner = c
  BY <1>1 DEF PrintInv, WaiterInv
<1>3. CASE cmd = "EVENT"
  <2>1. EventWaits /\ "EVENT" \in Commands
    BY <1>1, <1>3 DEF EventWaits
  <2>2. /\ Effect(job, k) /\ k.current_file = job.current_file
        /\ k.next_file_position = job.next_file_position
        /\ k.must_pause_work \in {job.must_pause_work, TRUE}
    BY <1>1, <1>3, <2>1, Zenon DEF Effect, Job, Ended
  <2>3. At(c, "delay", "PAUSE") /\ UNCHANGED <<owner, queue>>
    BY <1>3, Zenon DEF PauseDone
  <2> HIDE DEF k
  <2> QED BY <1>1, <2>1, <2>2, <2>3, SensorKeeps, Zenon
<1>4. CASE cmd # "EVENT"
  <2>1. ~job.work_timer
    BY <1>1, <1>4, Zenon DEF PrintInv, WaiterInv, Waiting
  <2>2. Effect(job, k)
    BY <1>1, <1>2, <2>1, EffectEnded, Zenon
  <2>3. At(c, "idle", cmd) /\ Unlock
    BY <1>4 DEF PauseDone
  <2>4. \A d \in Clients : d # c /\ client[d].pc = "pausing" => client[d].cmd = "EVENT"
    BY <1>2, <1>4, Zenon DEF PrintInv, WaiterInv
  <2> HIDE DEF k
  <2> QED BY <1>1, <1>2, <1>4, <2>2, <2>3, <2>4, CommandKeeps, Zenon
<1> QED BY <1>3, <1>4, Zenon

-----------------------------------------------------------------------------
(* The work handler *)

\* The end of work_handler leaves file and pause alone; nothing is reported as
\* printing after it.
LEMMA ExitedEffect ==
    ASSUME NEW j \in Job, NEW failed \in BOOLEAN, j.state = "printing" => j.print_started
    PROVE  LET e == Exited(j, failed)
           IN  /\ e \in Job /\ ~e.work_timer /\ ~e.cmd_from_sd /\ e.state # "printing"
               /\ e.current_file = j.current_file /\ e.file_position = j.file_position
               /\ e.is_paused = j.is_paused /\ e.pause_command_sent = j.pause_command_sent
               /\ e.must_pause_work = j.must_pause_work
<1> DEFINE k == [j EXCEPT !.work_timer = FALSE, !.cmd_from_sd = FALSE]
<1>1. /\ k \in Job /\ ~k.work_timer /\ ~k.cmd_from_sd
      /\ k.state = j.state /\ k.print_started = j.print_started
      /\ k.current_file = j.current_file /\ k.file_position = j.file_position
      /\ k.is_paused = j.is_paused /\ k.pause_command_sent = j.pause_command_sent
      /\ k.must_pause_work = j.must_pause_work
  BY Zenon DEF Job
<1>2. Exited(j, failed) = IF failed THEN note_finish(k, "error")
                          ELSE IF k.current_file THEN note_pause(k)
                          ELSE note_finish(k, "complete")
  BY DEF Exited
<1> HIDE DEF k
<1>3. ASSUME NEW s \in {"error", "complete"}, NEW e, e = note_finish(k, s)
      PROVE  /\ e \in Job /\ ~e.work_timer /\ ~e.cmd_from_sd /\ e.state # "printing"
             /\ e.current_file = k.current_file /\ e.file_position = k.file_position
             /\ e.is_paused = k.is_paused /\ e.pause_command_sent = k.pause_command_sent
             /\ e.must_pause_work = k.must_pause_work
  <2>1. CASE k.print_started
    <3>1. e = [k EXCEPT !.state = s, !.print_started = FALSE]
      BY <1>3, <2>1 DEF note_finish
    <3>2. s \in States /\ s # "printing"
      BY DEF States
    <3>3. k \in Job /\ ~k.work_timer /\ ~k.cmd_from_sd
      BY <1>1
    <3> QED BY <3>1, <3>2, <3>3, Zenon DEF Job
  <2>2. CASE ~k.print_started
    BY <1>1, <1>3, <2>2 DEF note_finish
  <2> QED BY <2>1, <2>2
<1>4. ASSUME NEW e, e = note_pause(k)
      PROVE  /\ e \in Job /\ ~e.work_timer /\ ~e.cmd_from_sd /\ e.state # "printing"
             /\ e.current_file = k.current_file /\ e.file_position = k.file_position
             /\ e.is_paused = k.is_paused /\ e.pause_command_sent = k.pause_command_sent
             /\ e.must_pause_work = k.must_pause_work
  BY <1>1, <1>4, Zenon DEF Job, note_pause, States
<1> QED BY <1>1, <1>2, <1>3, <1>4

\* The handler comes to rest.
LEMMA ExitKeeps ==
    ASSUME Inv, NEW j \in Job, NEW failed \in BOOLEAN, job' = Exited(j, failed),
           j.state = "printing" => j.print_started,
           j.current_file => job.current_file /\ j.file_position = job.file_position,
           (job.is_paused => job.pause_command_sent) => (j.is_paused => j.pause_command_sent),
           \A c \in Clients :
             client[c].pc = "pausing" /\ client[c].cmd # "EVENT" =>
               owner' = owner /\ j.current_file = job.current_file /\ j.must_pause_work,
           worker' = "idle", buf' \in {buf, <<>>}, UNCHANGED <<client, fpos, ready, done, issued, skips>>,
           owner' \in Clients \union {SD, NoOne}, queue' \in Seq(Clients \union {SD}),
           stale' \in {"no", "flags", "race"}
    PROVE  Inv'
<1> TypeOK /\ PrintInv
  BY Zenon DEF Inv
<1>1. /\ job' \in Job /\ ~job'.work_timer /\ ~job'.cmd_from_sd /\ job'.state # "printing"
      /\ job'.current_file = j.current_file /\ job'.file_position = j.file_position
      /\ job'.is_paused = j.is_paused /\ job'.pause_command_sent = j.pause_command_sent
      /\ job'.must_pause_work = j.must_pause_work
  BY ExitedEffect
<1>2. buf' \in Seq(1..FileLen)
  <2>1. buf \in Seq(1..FileLen) /\ <<>> \in Seq(1..FileLen)
    BY EmptySeq, Zenon DEF TypeOK
  <2> QED BY <2>1, Zenon
<1>3. TypeOK'
  BY <1>1, <1>2, Zenon DEF TypeOK
<1>4. WorkerInv'
  BY <1>1, Zenon DEF WorkerInv
<1>5. PositionInv'
  BY <1>1, Zenon DEF PrintInv, PositionInv
<1>6. PauseInv'
  BY <1>1, Zenon DEF PrintInv, PauseInv
<1>7. WaiterInv'
  BY <1>1 DEF PrintInv, WaiterInv
<1> QED BY <1>3, <1>4, <1>5, <1>6, <1>7, Zenon DEF Inv, PrintInv

\* work_handler starts: it seeks to file_position, or finds no file.
LEMMA StepWorkStart ==
    ASSUME Inv, WorkStart
    PROVE  Inv'
<1> TypeOK /\ PrintInv
  BY DEF Inv
<1>1. /\ worker = "start" /\ buf' = <<>>
      /\ UNCHANGED <<owner, queue, client, ready, done, stale, issued, skips>>
      /\ job \in Job /\ fpos \in 0..FileLen
  BY DEF WorkStart, TypeOK
<1>2. Len(buf') = 0 /\ buf' \in Seq(1..FileLen)
  BY <1>1
<1>3. job.work_timer /\ ~job.cmd_from_sd /\ job.state # "printing"
  BY <1>1 DEF PrintInv, WorkerInv
<1>4. EventWaits' = EventWaits
  BY <1>1 DEF EventWaits
<1>5. CASE job.current_file
  <2>1. job' = note_start(job) /\ worker' = "loop" /\ fpos' = job.file_position
    BY <1>5 DEF WorkStart
  <2>2. /\ job' \in Job /\ job'.work_timer /\ ~job'.cmd_from_sd /\ job'.print_started
        /\ job'.current_file /\ job'.file_position = job.file_position
        /\ job'.is_paused = job.is_paused /\ job'.pause_command_sent = job.pause_command_sent
        /\ job'.must_pause_work = job.must_pause_work
    BY <1>1, <1>3, <1>5, <2>1, Zenon DEF Job, note_start, States
  <2>3. job'.file_position \in 0..FileLen
    BY <2>2 DEF Job
  <2>4. TypeOK'
    BY <1>1, <1>2, <2>1, <2>2, <2>3, Zenon DEF TypeOK
  <2>5. WorkerInv'
    BY <2>1, <2>2, Zenon DEF WorkerInv
  <2>6. PositionInv'
    <3>1. fpos' = job'.file_position + 0
      BY <2>1, <2>2, <2>3, SMTT(30)
    <3> QED BY <1>1, <1>2, <1>5, <2>1, <2>2, <3>1, SMTT(30) DEF PrintInv, PositionInv
  <2>7. PauseInv'
    BY <1>1, <1>3, <1>4, <2>2, Zenon DEF PrintInv, PauseInv
  <2>8. WaiterInv'
    BY <1>1, <2>2, Zenon DEF PrintInv, WaiterInv
  <2> QED BY <2>4, <2>5, <2>6, <2>7, <2>8 DEF Inv, PrintInv
<1>6. CASE ~job.current_file
  <2>1. job' = [job EXCEPT !.work_timer = FALSE] /\ worker' = "idle" /\ fpos' = fpos
    BY <1>6 DEF WorkStart
  <2>2. /\ job' \in Job /\ ~job'.work_timer /\ ~job'.cmd_from_sd /\ job'.state # "printing"
        /\ ~job'.current_file
        /\ job'.is_paused = job.is_paused /\ job'.pause_command_sent = job.pause_command_sent
        /\ job'.must_pause_work = job.must_pause_work
    BY <1>1, <1>3, <1>6, <2>1, Zenon DEF Job
  <2>3. TypeOK'
    BY <1>1, <1>2, <2>1, <2>2 DEF TypeOK
  <2>4. WorkerInv'
    BY <2>1, <2>2 DEF WorkerInv
  <2>5. PositionInv'
    BY <2>1, <2>2 DEF PositionInv
  <2>6. PauseInv'
    BY <2>2, Zenon DEF PrintInv, PauseInv
  <2>7. WaiterInv'
    BY <1>1, <1>6, <2>2 DEF PrintInv, WaiterInv
  <2> QED BY <2>3, <2>4, <2>5, <2>6, <2>7 DEF Inv, PrintInv
<1> QED BY <1>5, <1>6

\* must_pause_work ends the loop.
LEMMA StepWorkExit ==
    ASSUME Inv, WorkExit
    PROVE  Inv'
<1> TypeOK /\ PrintInv
  BY DEF Inv
<1>1. /\ job' = Exited(job, FALSE) /\ job.must_pause_work
      /\ worker' = "idle" /\ buf' = <<>>
      /\ UNCHANGED <<owner, queue, client, fpos, ready, done, stale, issued, skips>>
  BY DEF WorkExit
<1>2. /\ job \in Job /\ owner \in Clients \union {SD, NoOne}
      /\ queue \in Seq(Clients \union {SD}) /\ stale \in {"no", "flags", "race"}
  BY DEF TypeOK
<1>3. job.state = "printing" => job.print_started
  BY DEF PrintInv, WorkerInv
<1> QED BY <1>1, <1>2, <1>3, ExitKeeps, Zenon

\* work_handler reads on where it stopped, or ends with the file.
LEMMA StepWorkRead ==
    ASSUME Inv, WorkRead
    PROVE  Inv'
<1> TypeOK /\ PrintInv
  BY DEF Inv
<1>1. /\ worker = "loop" /\ ~job.must_pause_work /\ buf = <<>>
      /\ UNCHANGED <<owner, queue, client, ready, done, stale, issued, skips>>
  BY DEF WorkRead
<1>2. /\ job \in Job /\ owner \in Clients \union {SD, NoOne}
      /\ queue \in Seq(Clients \union {SD}) /\ stale \in {"no", "flags", "race"}
      /\ fpos \in 0..FileLen
  BY Zenon DEF TypeOK
<1>3. /\ job.state = "printing" => job.print_started
      /\ job.is_paused => job.pause_command_sent
      /\ \A c \in Clients : ~(client[c].pc = "pausing" /\ client[c].cmd # "EVENT")
  BY <1>1, Zenon DEF PrintInv, WorkerInv, WaiterInv, PauseInv
<1> DEFINE n == IF fpos + Chunk > FileLen THEN FileLen - fpos ELSE Chunk
<1>4. CASE /\ fpos < FileLen /\ buf' = [i \in 1..n |-> fpos + i] /\ fpos' = fpos + n
           /\ UNCHANGED <<job, worker>>
  <2>1. n \in Nat /\ fpos \in Nat /\ fpos + n \in 0..FileLen
    BY <1>2, <1>4, PrintJobAssumption
  <2> HIDE DEF n
  <2>2. \A i \in 1..n : fpos + i \in 1..FileLen
    BY <2>1, PrintJobAssumption
  <2>3. buf' \in Seq(1..FileLen) /\ Len(buf') = n /\ \A i \in 1..n : buf'[i] = fpos + i
    BY <1>4, <2>1, <2>2, SMTT(30)
  <2>4. TypeOK'
    BY <1>1, <1>4, <2>1, <2>3, Zenon DEF TypeOK
  <2>5. WorkerInv'
    BY <1>1, <1>4 DEF PrintInv, WorkerInv
  <2>6. PositionInv'
    <3>1. Len(buf) = 0 /\ job.file_position \in Nat
      BY <1>1, <1>2 DEF Job
    <3>2. job.current_file => fpos = job.file_position
      BY <1>1, <3>1 DEF PrintInv, PositionInv
    <3> QED BY <1>1, <1>4, <2>1, <2>3, <3>2 DEF PrintInv, PositionInv
  <2>7. PauseInv'
    BY <1>1, <1>4, Zenon DEF PrintInv, PauseInv, EventWaits
  <2>8. WaiterInv'
    BY <1>1, <1>4 DEF PrintInv, WaiterInv
  <2> QED BY <2>4, <2>5, <2>6, <2>7, <2>8 DEF Inv, PrintInv
<1>5. CASE /\ job' = Exited([job EXCEPT !.current_file = FALSE], FALSE)
           /\ worker' = "idle" /\ UNCHANGED <<buf, fpos>>
  <2> DEFINE j == [job EXCEPT !.current_file = FALSE]
  <2>1. /\ j \in Job /\ ~j.current_file /\ j.state = job.state
        /\ j.print_started = job.print_started /\ j.is_paused = job.is_paused
        /\ j.pause_command_sent = job.pause_command_sent
    BY <1>2, Zenon DEF Job
  <2>2. job' = Exited(j, FALSE)
    BY <1>5
  <2> HIDE DEF j
  <2> QED BY <1>1, <1>2, <1>3, <1>5, <2>1, <2>2, ExitKeeps, Zenon
<1>6. CASE job' = Exited(job, FALSE) /\ worker' = "idle" /\ UNCHANGED <<buf, fpos>>
  BY <1>1, <1>2, <1>3, <1>6, ExitKeeps, Zenon
<1> QED BY <1>4, <1>5, <1>6, Zenon DEF WorkRead

\* work_handler starts the next line of a file that is open.
LEMMA StepWorkDispatch ==
    ASSUME Inv, WorkDispatch
    PROVE  Inv' /\ job.current_file
<1> TypeOK /\ PrintInv
  BY DEF Inv
<1>1. /\ worker = "loop" /\ ~job.must_pause_work /\ buf # <<>> /\ owner = NoOne /\ owner' = SD
      /\ job' = [job EXCEPT !.cmd_from_sd = TRUE, !.next_file_position = job.file_position + 1]
      /\ worker' = "line"
      /\ UNCHANGED <<queue, client, buf, fpos, ready, done, stale, issued, skips>>
  BY DEF WorkDispatch
<1>2. job \in Job /\ buf \in Seq(1..FileLen) /\ job.file_position \in Nat
  BY DEF TypeOK, Job
<1>3. job.current_file /\ job.work_timer
  BY <1>1 DEF PrintInv, WorkerInv
<1>4. job.file_position + 1 \in 0..FileLen
  <2>1. Len(buf) \in Nat /\ Len(buf) # 0
    BY <1>1, <1>2, EmptySeq, LenProperties
  <2>2. 1 \in 1..Len(buf)
    BY <2>1
  <2>3. buf[1] \in 1..FileLen /\ buf[1] = job.file_position + 1
    BY <1>1, <1>2, <1>3, <2>2, ElementOfSeq, Zenon DEF PrintInv, PositionInv
  <2> QED BY <2>3, PrintJobAssumption
<1>5. /\ job' \in Job /\ job'.cmd_from_sd /\ job'.work_timer /\ job'.current_file
      /\ job'.next_file_position = job.file_position + 1
      /\ job'.file_position = job.file_position /\ job'.state = job.state
      /\ job'.print_started = job.print_started /\ job'.is_paused = job.is_paused
      /\ job'.pause_command_sent = job.pause_command_sent
      /\ job'.must_pause_work = job.must_pause_work
  BY <1>1, <1>2, <1>3, <1>4, Zenon DEF Job
<1>6. TypeOK'
  BY <1>1, <1>5 DEF TypeOK
<1>7. WorkerInv'
  BY <1>1, <1>5 DEF PrintInv, WorkerInv
<1>8. PositionInv'
  BY <1>1, <1>3, <1>5 DEF PrintInv, PositionInv
<1>9. PauseInv'
  BY <1>1, <1>3, <1>5 DEF PrintInv, PauseInv, EventWaits
<1>10. WaiterInv'
  BY <1>1, CommandsAssumption DEF PrintInv, WaiterInv
<1> QED BY <1>3, <1>6, <1>7, <1>8, <1>9, <1>10 DEF Inv, PrintInv

\* While a line runs, or its error is handled, no client waits under the mutex.
LEMMA NobodyWaits ==
    ASSUME Inv, owner = SD
    PROVE  \A c \in Clients : ~(client[c].pc = "pausing" /\ client[c].cmd # "EVENT")
BY CommandsAssumption, Zenon DEF Inv, PrintInv, WaiterInv

\* The pause part of the invariant, when a line changes the fields to j.
LEMMA LinePause ==
    ASSUME Inv, NEW j, Effect(job, j), job.work_timer, job' \in Job,
           stale' \in {Stale(j), stale}, client' = client,
           job'.is_paused = j.is_paused, job'.pause_command_sent = j.pause_command_sent,
           job'.must_pause_work = j.must_pause_work
    PROVE  PauseInv' /\ stale' \in {"no", "flags", "race"}
<1> TypeOK /\ PrintInv
  BY Zenon DEF Inv
<1>1. stale \in {"no", "flags", "race"} /\ EventWaits' = EventWaits
  BY Zenon DEF TypeOK, EventWaits
<1>2. /\ j.work_timer /\ (job.must_pause_work => j.must_pause_work)
      /\ j.pause_command_sent => job.pause_command_sent \/ j.must_pause_work \/ EventWaits
      /\ (job.is_paused => job.pause_command_sent) => (j.is_paused => j.pause_command_sent)
  BY DEF Effect
<1>3. stale' = stale \/ (~j.pause_command_sent /\ ~EventWaits)
  BY DEF Stale
<1>4. stale' \in {"no", "flags", "race"}
  BY <1>1 DEF Stale
<1> QED BY <1>1, <1>2, <1>3, <1>4, Zenon DEF PrintInv, PauseInv

\* A line completes: file_position moves on to the line after it, or to where
\* the line jumped.
LEMMA StepLineOk ==
    ASSUME Inv, worker = "line", NEW j, Effect(job, j), LineOk(j),
           UNCHANGED <<client, ready, issued>>
    PROVE  Inv'
<1> TypeOK /\ PrintInv
  BY Zenon DEF Inv
<1> DEFINE k == [j EXCEPT !.cmd_from_sd = FALSE, !.file_position = j.next_file_position]
           skip == j.next_file_position # job.next_file_position
<1>1. /\ job \in Job /\ j \in Job /\ buf \in Seq(1..FileLen) /\ fpos \in 0..FileLen
      /\ skips \in 0..MaxSkips /\ done \in 0..FileLen
  BY DEF TypeOK, Effect
<1>2. owner = SD /\ job.current_file /\ job.work_timer
  BY DEF PrintInv, WorkerInv
<1>3. /\ buf # <<>> /\ job.next_file_position = job.file_position + 1 /\ done = job.file_position
      /\ fpos = job.file_position + Len(buf)
      /\ \A i \in 1..Len(buf) : buf[i] = job.file_position + i
  BY <1>2, SMTT(30) DEF PrintInv, PositionInv
<1>4. /\ j.work_timer /\ (j.current_file \/ j.must_pause_work)
      /\ j.state = "printing" => j.print_started
      /\ skip => j.current_file /\ skips < MaxSkips
  BY <1>2, Zenon DEF Effect, PrintInv, WorkerInv
<1>5. /\ job' = k /\ worker' = "loop" /\ Unlock /\ stale' = Stale(j)
      /\ buf' = IF skip THEN <<>> ELSE Tail(buf)
      /\ fpos' = IF skip THEN k.file_position ELSE fpos
      /\ done' = IF skip THEN k.file_position ELSE done + 1
      /\ skips' = IF skip THEN skips + 1 ELSE skips
  BY <1>4 DEF LineOk
<1>6. /\ k \in Job /\ k.work_timer /\ ~k.cmd_from_sd /\ k.current_file = j.current_file
      /\ k.must_pause_work = j.must_pause_work /\ k.file_position = j.next_file_position
      /\ k.state = j.state /\ k.print_started = j.print_started /\ k.is_paused = j.is_paused
      /\ k.pause_command_sent = j.pause_command_sent
  BY <1>1, <1>4, Zenon DEF Job
<1>7. j.next_file_position \in 0..FileLen /\ job.file_position \in 0..FileLen
  BY <1>1, Zenon DEF Job
<1> HIDE DEF k
<1>8. /\ owner' \in Clients \union {SD, NoOne} /\ queue' \in Seq(Clients \union {SD})
  BY <1>5, MutexTypes, Zenon
<1>9. PauseInv' /\ stale' \in {"no", "flags", "race"}
  BY <1>2, <1>5, <1>6, LinePause, Zenon
<1>10. WaiterInv'
  BY <1>2, NobodyWaits, Zenon DEF PrintInv, WaiterInv
<1>11. WorkerInv'
  BY <1>4, <1>5, <1>6, Zenon DEF WorkerInv
<1>12. /\ buf' \in Seq(1..FileLen) /\ fpos' \in 0..FileLen /\ done' \in 0..FileLen
       /\ skips' \in 0..MaxSkips /\ PositionInv'
  <2>1. CASE skip
    <3>1. buf' = <<>> /\ fpos' = k.file_position /\ done' = k.file_position /\ skips' = skips + 1
      BY <1>5, <2>1
    <3>2. Len(buf') = 0 /\ buf' \in Seq(1..FileLen)
      BY <3>1, EmptySeq, Zenon
    <3>3. job'.file_position \in 0..FileLen /\ fpos' = job'.file_position
      BY <1>5, <1>6, <1>7, <3>1, Zenon
    <3>4. fpos' = job'.file_position + Len(buf')
      BY <3>2, <3>3, SMTT(30)
    <3>5. PositionInv'
      BY <1>5, <3>1, <3>2, <3>4, SMTT(30) DEF PositionInv
    <3>6. skips' \in 0..MaxSkips
      BY <1>1, <1>4, <2>1, <3>1, PrintJobAssumption, SMTT(30)
    <3> QED BY <1>6, <1>7, <3>1, <3>2, <3>5, <3>6, Zenon
  <2>2. CASE ~skip
    <3>1. buf' = Tail(buf) /\ fpos' = fpos /\ done' = done + 1 /\ skips' = skips
      BY <1>5, <2>2, Zenon
    <3>2. job'.file_position = job.file_position + 1
      BY <1>3, <1>5, <1>6, <2>2, Zenon
    <3>3. /\ buf' \in Seq(1..FileLen) /\ Len(buf') = Len(buf) - 1 /\ Len(buf) \in Nat
          /\ \A i \in 1..(Len(buf) - 1) : buf'[i] = buf[i + 1]
      BY <1>1, <1>3, <3>1, HeadTailProperties, LenProperties, Zenon
    <3>4. \A i \in 1..Len(buf') : buf'[i] = job'.file_position + i
      <4> TAKE i \in 1..Len(buf')
      <4>1. i + 1 \in 1..Len(buf) /\ buf'[i] = buf[i + 1]
        BY <3>3, SMTT(30)
      <4>2. buf[i + 1] = job.file_position + (i + 1)
        BY <4>1, <1>3, Zenon
      <4>3. i \in Int /\ job.file_position \in Int
        BY <1>7, <3>3, SMTT(30)
      <4> HIDE <1>3, <3>3
      <4> QED BY <4>1, <4>2, <4>3, <3>2, SMTT(30)
    <3>5. fpos' = job'.file_position + Len(buf')
      BY <1>3, <1>7, <3>1, <3>2, <3>3, SMTT(30)
    <3>6. PositionInv'
      BY <1>3, <1>5, <3>1, <3>2, <3>4, <3>5, Zenon DEF PositionInv
    <3>7. done' \in 0..FileLen
      BY <1>3, <1>7, <2>2, <3>1, Zenon
    <3> QED BY <1>1, <3>1, <3>3, <3>6, <3>7, Zenon
  <2> QED BY <2>1, <2>2, SMTT(30)
<1>13. TypeOK'
  BY <1>5, <1>6, <1>8, <1>9, <1>12, Zenon DEF TypeOK
<1> QED BY <1>9, <1>10, <1>11, <1>12, <1>13 DEF Inv, PrintInv

\* A line raises an error: work_handler asks for the mutex again.
LEMMA StepLineError ==
    ASSUME Inv, worker = "line", NEW j, Effect(job, j), LineError(j),
           UNCHANGED <<client, ready, issued>>
    PROVE  Inv'
<1> TypeOK /\ PrintInv
  BY DEF Inv
<1>1. /\ job' = j /\ worker' = "on_error" /\ buf' = Tail(buf) /\ Relock(SD)
      /\ UNCHANGED <<fpos, done, stale, skips>>
  BY DEF LineError
<1>2. owner = SD /\ job.current_file /\ job.work_timer /\ job.cmd_from_sd
  BY Zenon DEF PrintInv, WorkerInv
<1>3. /\ j \in Job /\ j.cmd_from_sd /\ j.work_timer /\ (j.state = "printing" => j.print_started)
      /\ j.current_file => j.file_position = job.file_position
  BY <1>2, Zenon DEF Effect, PrintInv, WorkerInv
<1>4. buf' \in Seq(1..FileLen)
  BY <1>1, HeadTailProperties, Zenon DEF TypeOK, PrintInv, PositionInv
<1>5. /\ owner' \in Clients \union {SD, NoOne} /\ queue' \in Seq(Clients \union {SD})
  BY <1>1, MutexTypes, Zenon
<1>6. TypeOK'
  BY <1>1, <1>3, <1>4, <1>5, Zenon DEF TypeOK
<1>7. WorkerInv'
  BY <1>1, <1>3, Zenon DEF WorkerInv
<1>8. PositionInv'
  BY <1>1, <1>2, <1>3, Zenon DEF PrintInv, PositionInv
<1>9. PauseInv'
  BY <1>1, <1>2, <1>3, LinePause, Zenon
<1>10. WaiterInv'
  BY <1>2, NobodyWaits, Zenon DEF PrintInv, WaiterInv
<1> QED BY <1>6, <1>7, <1>8, <1>9, <1>10, Zenon DEF Inv, PrintInv

\* A line runs.
LEMMA StepLineDone ==
    ASSUME Inv, LineDone
    PROVE  Inv'
<1> TypeOK /\ PrintInv
  BY DEF Inv
<1>1. worker = "line" /\ UNCHANGED <<client, ready, issued>>
  BY DEF LineDone
<1>2. PICK cmd \in SdCommands : \E r \in Results(cmd, job) :
        IF r.raised THEN LineError(r.job) ELSE LineOk(r.job)
  BY DEF LineDone
<1>3. PICK r \in Results(cmd, job) : IF r.raised THEN LineError(r.job) ELSE LineOk(r.job)
  BY <1>2, Zenon
<1>4. Effect(job, r.job)
  BY EffectResults, CommandsAssumption, SMTT(30) DEF TypeOK
<1> QED BY <1>1, <1>3, <1>4, StepLineOk, StepLineError, Zenon

\* on_error_gcode runs under the mutex, then the handler ends.
LEMMA StepOnError ==
    ASSUME Inv, OnError
    PROVE  Inv'
<1> TypeOK /\ PrintInv
  BY DEF Inv
<1>1. /\ worker = "on_error" /\ owner = SD /\ worker' = "idle" /\ buf' = <<>> /\ Unlock
      /\ UNCHANGED <<client, fpos, ready, done, issued, skips>>
  BY DEF OnError
<1>2. PICK cmd \in {"other", "PAUSE", "CANCEL_PRINT"} : \E r \in Results(cmd, job) :
        job' = Exited(r.job, TRUE) /\ stale' = Stale(r.job)
  BY Zenon DEF OnError
<1>3. PICK r \in Results(cmd, job) : job' = Exited(r.job, TRUE) /\ stale' = Stale(r.job)
  BY <1>2, Zenon
<1> DEFINE j == r.job
<1>4. Effect(job, j)
  BY EffectResults DEF TypeOK, CommandNames
<1>5. job.work_timer /\ (job.state = "printing" => job.print_started)
  BY <1>1 DEF PrintInv, WorkerInv
<1> HIDE DEF j
<1>6. /\ j \in Job /\ (j.state = "printing" => j.print_started)
      /\ j.current_file => job.current_file /\ j.file_position = job.file_position
      /\ (job.is_paused => job.pause_command_sent) => (j.is_paused => j.pause_command_sent)
  BY <1>4, <1>5, Zenon DEF Effect
<1>7. /\ owner' \in Clients \union {SD, NoOne} /\ queue' \in Seq(Clients \union {SD})
  BY <1>1, MutexTypes
<1>8. stale' \in {"no", "flags", "race"}
  BY <1>3 DEF Stale, TypeOK
<1>9. job' = Exited(j, TRUE)
  BY <1>3, Zenon DEF j
<1> QED BY <1>1, <1>6, <1>7, <1>8, <1>9, NobodyWaits, ExitKeeps, Zenon

\* handle_shutdown tells the work handler to stop.
LEMMA StepShutdown ==
    ASSUME Inv, HandleShutdown
    PROVE  Inv'
<1> TypeOK /\ PrintInv
  BY DEF Inv
<1>1. /\ job' = do_pause(job) /\ ready' = FALSE
      /\ UNCHANGED <<owner, queue, client, worker, buf, fpos, done, stale, issued, skips>>
  BY DEF HandleShutdown
<1>2. job \in Job
  BY DEF TypeOK
<1>3. /\ job' \in Job /\ job'.work_timer = job.work_timer /\ job'.cmd_from_sd = job.cmd_from_sd
      /\ job'.current_file = job.current_file /\ job'.file_position = job.file_position
      /\ job'.next_file_position = job.next_file_position /\ job'.state = job.state
      /\ job'.print_started = job.print_started /\ job'.is_paused = job.is_paused
      /\ job'.pause_command_sent = job.pause_command_sent
      /\ job.must_pause_work => job'.must_pause_work
  BY <1>1, <1>2, Zenon DEF Job, do_pause
<1>4. TypeOK'
  BY <1>1, <1>3, ZenonT(40) DEF TypeOK
<1>5. WorkerInv'
  BY <1>1, <1>3, Zenon DEF PrintInv, WorkerInv
<1>6. PositionInv'
  BY <1>1, <1>3, Zenon DEF PrintInv, PositionInv
<1>7. PauseInv'
  BY <1>1, <1>3, Zenon DEF PrintInv, PauseInv, EventWaits
<1>8. WaiterInv'
  BY <1>1, <1>3 DEF PrintInv, WaiterInv
<1> QED BY <1>4, <1>5, <1>6, <1>7, <1>8 DEF Inv, PrintInv

-----------------------------------------------------------------------------
(* The invariant, and what follows *)

LEMMA PrintInit == Init => Inv
<1> SUFFICES ASSUME Init PROVE TypeOK /\ PrintInv
  BY Zenon DEF Inv
<1>1. job \in Job
  BY Positions, Zenon DEF Init, Job, States
<1>2. client \in [Clients -> [pc: {"idle", "lock", "pausing", "delay"},
                              cmd: Commands \union {"PAUSE"}]]
  BY Zenon DEF Init
<1>3. /\ queue \in Seq(Clients \union {SD}) /\ buf \in Seq(1..FileLen)
      /\ owner \in Clients \union {SD, NoOne}
  BY EmptySeq, Zenon DEF Init
<1>4. /\ ready \in BOOLEAN /\ stale = "no" /\ worker = "idle" /\ done \in 0..FileLen
      /\ fpos \in 0..FileLen /\ issued \in 0..MaxCommands /\ skips \in 0..MaxSkips
  BY Positions, PrintJobAssumption, SMTT(30) DEF Init
<1>5. TypeOK
  BY <1>1, <1>2, <1>3, <1>4, Zenon DEF TypeOK
<1>6. /\ ~job.work_timer /\ ~job.cmd_from_sd /\ ~job.current_file /\ ~job.is_paused
      /\ job.state = "standby"
  BY Zenon DEF Init
<1>7. \A c \in Clients : client[c].pc = "idle"
  BY Zenon DEF Init
<1>8. PrintInv
  BY <1>4, <1>6, <1>7, Zenon DEF PrintInv, WorkerInv, PositionInv, PauseInv, WaiterInv
<1> QED BY <1>5, <1>8

LEMMA PrintStep == Inv /\ [Next]_vars => Inv'
<1> SUFFICES ASSUME Inv, [Next]_vars PROVE Inv'
  OBVIOUS
<1>1. ASSUME Work PROVE Inv'
  BY <1>1, StepWorkStart, StepWorkExit, StepWorkRead, StepWorkDispatch, StepLineDone,
     StepOnError, Zenon DEF Work
<1>2. ASSUME NEW c \in Clients, Issue(c) \/ RunoutEvent(c) \/ Run(c)
      PROVE  Inv'
  BY <1>2, StepIssue, StepEvent, StepRun, StepPauseDone, Zenon DEF Run
<1>3. ASSUME HandleShutdown PROVE Inv'
  BY <1>3, StepShutdown
<1>4. ASSUME UNCHANGED vars PROVE Inv'
  <2> TypeOK /\ PrintInv
    BY Zenon DEF Inv
  <2>1. TypeOK'
    BY <1>4, SMTT(30) DEF TypeOK, vars
  <2>2. PrintInv'
    BY <1>4, Zenon DEF PrintInv, WorkerInv, PositionInv, PauseInv, WaiterInv, EventWaits, vars
  <2> QED BY <2>1, <2>2 DEF Inv
<1> QED BY <1>1, <1>2, <1>3, <1>4 DEF Next

LEMMA PrintInvariant == Spec => []Inv
BY PrintInit, PrintStep, PTL DEF Spec

\* The shared fields keep their types and positions stay in the file;
\* print_stats reports "printing" only while the work handler is registered;
\* a CANCEL_PRINT or SDCARD_RESET_FILE that waits in do_pause finds the file
\* still open when it closes it.  For any clients, commands and file.
THEOREM JobIsConsistent == Spec => []JobInv
<1>1. Inv => JobInv
  <2> SUFFICES ASSUME Inv PROVE JobInv
    OBVIOUS
  <2> TypeOK /\ PrintInv
    BY DEF Inv
  <2>1. PrintingMeansWorking
    BY Zenon DEF PrintInv, WorkerInv, PrintingMeansWorking
  <2>2. CloseFindsFile
    BY Zenon DEF PrintInv, WaiterInv, CloseFindsFile
  <2> QED BY <2>1, <2>2 DEF JobInv
<1> QED BY <1>1, PrintInvariant, PTL

\* The line work_handler runs is the one after the last completed, across
\* pauses, resumes, errors, chunk boundaries and SDCARD_LOOP_END jumps.
THEOREM LinesRunInOrder == Spec => []NextLineRuns
<1>1. Inv => NextLineRuns
  <2> SUFFICES ASSUME Inv, worker = "line", job.current_file
               PROVE  Head(buf) = done + 1 /\ Head(buf) = job.next_file_position
    BY DEF NextLineRuns
  <2> TypeOK /\ PrintInv
    BY DEF Inv
  <2>1. /\ buf # <<>> /\ job.next_file_position = job.file_position + 1
        /\ done = job.file_position
        /\ \A i \in 1..Len(buf) : buf[i] = job.file_position + i
    BY Zenon DEF PrintInv, PositionInv
  <2>2. 1 \in 1..Len(buf) /\ Head(buf) = buf[1]
    BY <2>1, EmptySeq, LenProperties, SMTT(30) DEF TypeOK
  <2> QED BY <2>1, <2>2
<1> QED BY <1>1, PrintInvariant, PTL

\* A printer pause_resume calls paused has its work handler told to stop,
\* unless the print was started over an older pause or a waiting sensor.
THEOREM PausedPrintStops == Spec => []PauseHolds
<1>1. Inv => PauseHolds
  BY DEF Inv, PrintInv, PauseInv, PauseHolds
<1> QED BY <1>1, PrintInvariant, PTL

\* work_handler starts a line only of a file that is open.
THEOREM NoLineOfClosedFile == Spec => LineOfOpenFile
<1>1. Inv /\ [Next]_vars
        => [worker = "loop" /\ worker' = "line" => job.current_file]_vars
  <2> SUFFICES ASSUME Inv, Next, worker = "loop", worker' = "line"
               PROVE  job.current_file
    OBVIOUS
  <2> TypeOK /\ PrintInv
    BY DEF Inv
  <2>1. ASSUME Work PROVE job.current_file
    <3>1. WorkDispatch
      BY <2>1 DEF Work, WorkStart, WorkExit, WorkRead, LineDone, OnError
    <3> QED BY <3>1, StepWorkDispatch
  <2>2. ASSUME NEW c \in Clients, Issue(c) \/ RunoutEvent(c) \/ Run(c)
        PROVE  FALSE
    <3>1. worker' \in {worker, "start"}
      BY <2>2, Zenon DEF Issue, RunoutEvent, Run, RunoutScript, RunCommand, PauseDone, Apply
    <3> QED BY <3>1, SMTT(30)
  <2>3. ~HandleShutdown
    BY DEF HandleShutdown
  <2> QED BY <2>1, <2>2, <2>3 DEF Next
<1> QED BY <1>1, PrintInvariant, PTL DEF Spec, LineOfOpenFile

=============================================================================
