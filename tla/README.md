# Klipper: TLA+ models, checks and proofs

Klipper splits the firmware of a 3D printer in two. *Klippy*, the host program, reads G-Code,
plans moves and computes the time of every step; micro-controllers (mcus) execute
scheduled steps and pin changes to the tick. Between them is a serial line with a
protocol of its own. This directory models the parts of this system that are concurrent,
distributed or easy to get wrong at a boundary, checks them with TLC on small instances
and proves with TLAPS, for all instances, what matters most about six of them: the serial
protocol, the timeouts of a homing axis, the stepper, the print job, the mcu's transmit buffer
and the host's reader threads.

Line numbers below and in `PROJECT.json` refer to `src/`. `PROJECT.json` maps every
definition that models code to the lines it stands for.

## 1. Inventory

| Part | State | Operations | What makes it hard |
|---|---|---|---|
| Serial protocol (`chelper/serialqueue.c`, `src/command.c`, `serialhdl.py`) | sequence numbers, sent queue, retransmit timer, rtt estimate, notify queue; next_sequence and sync state on the mcu | build and send, retransmit, handle message, find block, dispatch, ack, nak | loss and damage, 4-bit sequence numbers, premature timeouts, acks dropped by a full buffer, notifications racing responses |
| Console of the mcu (`generic/serial_irq.c`, `sched.c` tasks) | receive and transmit buffers shared with interrupts | receive byte, pop input, sendf, transmit byte, sleep | interrupts between any two accesses, shutdown by longjmp |
| Timers of the mcu (`sched.c`, `generic/timer_irq.c`) | sorted list, insertion hint, deleted and sentinel timers | add, delete, dispatch, reset | wrapping clock, additions from tasks and callbacks, stale hint |
| Trigger synchronisation (`trsync.c`, `trdispatch.c`) | can_trigger, report and expiry timers; status and expiry clocks on the host | start, set_timeout, trigger, report, expire, extension | several mcus, lost and late reports, stopping without communication |
| Homing (`mcu.py`, `endstop.c`, `homing.py`, `toolhead.py` drip moves) | completions, registered handlers, endstop sampling | home_start, drip_move, home_wait, query with retries | three threads of the host, a shutdown anywhere, messages of one session meeting the next |
| Steppers (`stepper.c`, `basecmd.c`, `stepcompress.c`, `stepper.py`) | position, queue, direction, need-reset flag, node pool | queue_step, set_next_step_dir, reset_step_clock, get_position, stop, shutdown | stops in mid-pulse, commands in flight, position word arithmetic |
| Move queue sharing (`stepcompress.c` steppersync) | heap of slot clocks, per-stepper message queues | add_move, flush, homing end | a resource of the mcu accounted for on the host only |
| Printing a file (`virtual_sdcard.py`, `pause_resume.py`, `print_stats.py`, sensor, mutex) | job flags, file position, G-Code mutex | print, pause, resume, cancel, reset, M23-M26, loop, runout, shutdown | greenlets polling each other, commands from the file itself, pauses outside the mutex |
| Command queues and threads of the host (`serialqueue.c`, `pollreactor.c`, `trdispatch.c`, `serialhdl.py`) | upcoming and ready queues, need_kick_clock, fast readers, receive queue, four kinds of lock | send_batch, kick, check and build, pull, add and remove fast readers, disconnect | lost wake-ups, callbacks outside the main lock, locks of several mcus taken in each other's threads |
| Mcu configuration, `klippy.py` | configuration and crc, shutdown flags, printer state, start reason | connect, get_config, configure, shutdown, emergency stop, the restart methods | state of the mcu that outlives the host's, resets, lost reports, automatic restarts |
| Look-ahead queue (`toolhead.py` MoveQueue) | moves with limits of squared speeds | add_move, lazy and full flush | speeds are decided for a part of the queue by moves not yet flushed |
| Toolhead (`toolhead.py`) | print_time, queuing state, flush timer, need_check_stall, scan window | move, dwell, wait_moves, drip_move, flush handler, shutdown | a timer and a paused command change the same state, estimates go stale |
| Reactor, G-Code dispatch | timers, greenlets, mutex, command queue | pause, completion, run_script | the mutex is in `PrintJob`, pauses and the flush timer in `Toolhead`; the rest is planned |
| Clock sync, step compression | regression, step queue | see section 8 | planned, as integer algorithms |
| Outputs, heaters, buttons, idle timeout | timers, max_duration, report windows | see section 8 | planned |
| Kinematics, step generation, board support, displays | | | real-valued geometry, register access or user interface: not modelled |

The hazards of this code, each with its line and the properties that would catch it
going wrong, are listed in `PROJECT.json`.

## 2. Modules

    CommandLink   <- implemented by -  SerialProtocol       ConsoleRx, ConsoleTx, Sched
        |  assumed by                                        (mcu internals)
    Trsync -> TriggerTimeout, HomingSession                  PrintJob
    Stepper,  MoveHeap -> StepperSync                        CommandQueues, SerialThreads
    McuConfig                                                (host threads)
    LookAhead, Toolhead

    MCConsole = ConsoleRx | ConsoleTx            MCStepping = Stepper | StepperSync
    MCHostQueues = LookAhead | Toolhead | CommandQueues
    MCLive = HomingSession | McuConfig | SerialThreads | Toolhead

    SerialProtocol_steps -> SerialProtocol_proofs -> SerialProtocol_answers
    TriggerTimeout_steps -> TriggerTimeout_proofs
    Stepper_proofs    PrintJob_proofs    Interleaving_proofs (of ConsoleTx and SerialThreads)

Four runs check several components at once: a behaviour of such an MC module is a behaviour
of one of its components, chosen in the initial state, so that the properties of each are
checked exactly as in a run of its own.

The modules above the link (homing, steppers) take as their link what `CommandLink`
promises: commands arrive in order, once, at any time. `SerialProtocol` is shown to
implement that promise over a line that loses and damages blocks, and `ConsoleRx` and
`ConsoleTx` show what `SerialProtocol` takes for granted of the mcu: a valid block is
found and executed whole, and an accepted message is transmitted whole.

### SerialProtocol, CommandLink

`SerialProtocol` holds the host's `serialqueue` (send_seq, receive_seq, sent_queue,
last_ack_seq, ignore_nak_seq, retransmit_seq, the retransmit timer, the rtt sample,
notify and receive queues), the two directions of the wire, and the mcu's next_sequence
(derived from the dispatched blocks: `McuNext`), CF_NEED_VALID and transmit buffer. Sequence
numbers are kept in full as a ghost of every block; what either side *reads* is the number
modulo SEQ_MOD. Actions: `BuildAndSendCommand`, `RetransmitEvent`, `HandleMessage`
(update_receive_seq, naks, release of notifications), `SetReceiveWindow` on the host,
`DispatchBlock`, `FinishBlock` (pop and ack), `NakBlock`, `SkipGarbage`, `ReportTask` on
the mcu, and loss and damage on the line.

Abstractions: commands are built into blocks one at a time; which command queue a command
comes from is in `CommandQueues`; the rto is a counter of doublings; a timer that is armed
may fire at any moment, so that a timeout races every answer; the wires are empty when the
session opens; an mcu does not reset in mid-session (see `McuConfig`); CAN and debug file
transports are left out.

`CommandLink` is the abstract specification: send, deliver in order, ack what was delivered.

### CommandQueues, SerialThreads

`CommandQueues` is the part of `serialqueue.c` before the blocks: any thread appends to the
upcoming queue of a command queue, computes `mustwake` under the lock and kicks the
background thread after it has released it (`SendBatch`, `Kick`); the background thread
sleeps in `poll`, wakes for acks, kicks and its timer, moves commands whose min_clock has
come to the ready queues, and builds blocks from the command with the lowest req_clock
(`CheckSend`, `BuildAppend`, `BuildSend`). Commands have length one, sending takes no time,
and the clock estimate is exact; the byte count of the receive window is a hold that may
happen whenever a block is not acked. `serialqueue_set_clock_est` does not wake the thread,
so that with a changing estimate a wake-up is as late as the estimate was wrong; this is
outside the model.

`SerialThreads` keeps of several serialqueues only threads and locks: `handle_message` takes
the dispatch lock under the main lock, releases the main lock and calls the fast reader,
which takes the lock of the trdispatch and then the main lock of every serialqueue it sends
to; the reader thread waits in `serialqueue_pull`; the main thread starts and stops homing
sessions and at any moment disconnects. A critical section that takes no further lock is one
step.

### McuConfig

`Printer` of `klippy.py`, one `MCU` object per mcu, and on the mcu the configuration
commands with their crc, the shutdown state and the commands allowed in it. Actions follow
the connecting greenlet (`McuIdentify`, `Connect`, `GotConfig`, `GotConfig2`), the thread
that reads reports (`BgThread`), the asynchronous and urgent shutdowns, restarts by the user
with an edited file, and the restart methods, those that reset the mcu from outside and may
fail to, and those that ask it to reset. An mcu may shut down by itself, drop a report, or
reset. After a reset in mid-session the numbers of the two sides disagree: the host discards
what is ahead of `send_seq` (`serialqueue.c:231`), and a nak whose number happens to fit is
taken for an ack, so that commands are lost until the first one that uses an object finds
none (`LoseCommand`, `Resync`). The waits of the start-up have no timeout in
`raw_send_wait_ack`, and `check_active` only watches mcus that are configured: hence the
exception of a broken link in `HostComesToRest`. The configuration is sent as one batch, cut
anywhere by a disconnect; the reactor stops as soon as an exit is requested. CAN bridges and
output to a file are left out.

### LookAhead, Toolhead

`LookAhead` is `MoveQueue.flush` as an operator, one `Turn` per move from last to first, on
squared speeds that are even integers, so that the two means the code takes are exact. What
angle, deviation and extruder allow at a junction is a limit from a set. A lazy flush may
happen at every `add_move`, whereas the code makes one when 0.25 seconds are queued.

`Toolhead` has `print_time`, the queuing states (Flushed, Priming, main, Drip), the flush
timer and the greenlet of the running command, which may be paused in `_check_stall`,
`wait_moves` or a drip move while the flush timer fires or the printer shuts down. The
methods of `ToolHead` are operators from attributes to attributes, the actions the commands
that call them. Times are relative to the present, and a tick moves them all; timers may be
late by `MaxLate`. The number of moves a lazy flush hands out is free. When the scan window
is changed to and fro without pause, print_time moves ahead a little each time; `MaxLead`
bounds how far. `note_kinematic_activity`, the counter print_stall and commands after a
shutdown are left out.

### ConsoleRx, ConsoleTx, Sched

`ConsoleRx` takes `serial_rx_byte`, `console_task`, `command_find_block`,
`console_pop_input` and the sleep decision of `run_tasks` apart to the points where an
interrupt can strike; blocks are byte sequences `<<b, i>>`, the last byte of each being
SYNC. It assumes that the checksum tells a block from any mixture of bytes, and lets a
shutdown jump out at any point. `ConsoleTx` makes each access of `console_sendf` to the
shared indices a step. A shutdown that abandons `console_sendf` in the middle of a move is
not modelled. The names of its specification start with `Tx`, so that one module of proofs can
extend it and `SerialThreads`. `Sched` is the timer list on a clock of a few ticks that wraps,
with the periodic, sentinel and deleted timers, and the interrupt set for the head of the list.
Callbacks finish, reschedule, or delete other timers; they add none.

### Trsync, TriggerTimeout, HomingSession

`Trsync` holds the transitions of one `struct trsync`, shared by the other two.
`TriggerTimeout` is one session in time: a tick counter, reports that may be dropped, and
`handle_trsync_state` with its minimum over all mcus; clock estimates are exact.
`HomingSession` leaves out time and keeps the control: the homing greenlet (home_start,
drip_move, home_wait, query with retries), the background thread with its registered
handlers, the fast reader, endstop sampling, and shutdown of an mcu or the printer at any
moment. The module allows several sessions; the runs have one, and `NothingInFlight` (in
`SessionInv`) shows that nothing of it is left that could meet the next. One endstop;
unregistering and registering the query's handler is one step; the steps' own command queue
is in `StepperSync`.

### Stepper, StepperSync, MoveHeap

`Stepper` is one `struct stepper` with positions as words of a small width, steps of one or
two timer events, the move nodes of `basecmd.c`, and the host's direction and position, the
pipe of messages between them in order. It covers homing stops, shutdown (also inside
command_queue_step), clear_shutdown from a console, and a host that restarts and reads the
position. A node is its place in `move_list`, which `move_reset` links in that order. Step
times and the inverted direction pin are left out. It is assumed that a
trsync of a former host has expired before the new one connects.

`StepperSync` puts several steppers on one clock: `add_move`, `steppersync_flush` message by
message, the minimum clock at which serialqueue lets a message leave, and the mcu's free
nodes. `heap_replace` is the operator `HeapReplace` of `MoveHeap`. The clock is known
exactly and the link keeps up with the first step of a message that may leave.

### PrintJob

The fields of `virtual_sdcard`, `pause_resume` and `print_stats` in one record, the
G-Code mutex with its queue, the work handler cut at its `reactor.pause` calls and mutex
waits, clients that run any of the commands, and the filament sensor. The commands of the
file are chosen when its lines run. Greenlets switch only in `reactor.pause`, hence
commands are atomic once they hold the mutex, except for the wait in `do_pause`. Left out: I/O
errors of seek on an open file, a last line without newline, layer info and durations.

## 3. Runs

With two workers every run finishes within three minutes. `CHECK_DEADLOCK FALSE` is set
where a bound, a shutdown or the end of the work stops the system. Invariants that belong
together are checked as one conjunction (`ListInv`, `JobInv`, `PoolInv`, `SessionInv`, ...),
the type invariant of the module among them.

| Run | Shows | Bounds, and why they are enough |
|---|---|---|
| serial_once | exactly-once in-order dispatch, refinement of CommandLink (acks never run ahead of dispatches), every block acked in the end | modulus 3, window 2, five blocks, two faults: numbers wrap, and the window is the largest the modulus allows, where the code keeps well below it with 12 of 16 |
| serial_answers | notifications after responses; send times and rtt samples unambiguous; the receive buffer suffices | four blocks with responses, a report, one fault, premature timeouts, a transmit buffer of two, a receive window of two blocks |
| console | receiving: blocks executed once, in order and whole, framing kept, no sleep on a block. Sending: the line carries the accepted messages and forgets none | a receive buffer of 5 for blocks of 2 and 3 bytes: it overflows, and holds parts of two blocks; blocks repeat; one shutdown. A transmit buffer of 4, four messages of 1 to 3 bytes: reset, move, drop and append all happen |
| sched | list complete and sorted, hint valid, no timer early or missed | 3 user timers, a clock of 12 ticks that wraps for ever (timers outside the list are left out of the view) |
| trigger_timeout | bounded overshoot, timeouts grow | 2 mcus, any report lost or delayed; min_extend_ticks is 2, so that both an extension that is made and one that is too small to be sent happen |
| homing | stopped everywhere, nothing left in flight, true outcome | 2 mcus, one dropped answer or one command that comes too late, one retry; a report that is dropped is, without clocks, one not made yet, so that only the run live drops reports |
| live | eventually: a homing session ends, the host comes to rest, a disconnect ends, every motion command returns; always: removed fast readers do not run, reader threads do not sleep on a message | homing: 1 mcu, two samples, one dropped report or late command. Configuration: 1 mcu, 2 versions, one restart and one fault, the restart methods arduino and config_reset. Threads: 2 serialqueues, 2 messages each, one homing session. Motion: 2 moves queued |
| mcu_config | ready means configured with this file; no command on an object of another configuration; a shutdown reaches everyone | 2 mcus, 2 versions, one restart, one fault (shutdown, reset, lost report), the restart methods command and rpi_usb: one mcu fails while the other is at any other stage |
| stepping | one stepper: exact position, right direction, nodes partitioned, host knows the position, stops hold until the reset, which meets an idle stepper. Two steppers: heap order and no overflow, no message held too long | both kinds of step (one and two timer events), 2 nodes, 3 moves, 2 homings, a restart, positions in a word of 64. 3 slots (the heap has two children to choose from), 5 moves, a stop |
| host_queues | look-ahead: no jump in speed, feasible moves. Toolhead: moves appended ahead of generated steps, flushed in time, buffer bounded. Command queues: sent in order and not before min_clock, no wake-up lost | 4 moves in the look-ahead queue: enough for a lazy flush to end between two peaks and for moves delayed until a peak is known. 2 moves queued in the toolhead, two scan windows, timers late by a tick. 2 command queues, 2 sending threads, 3 commands; queues and threads are interchangeable, hence the symmetry |
| print_job | lines run once and in order, of an open file; reported state true; closing finds the file; a pause holds; every command ends | 2 clients, 3 commands (start, pause and one that interferes), 3 lines in chunks of 2, one jump |
| print_runout | *a violation*, see below | the fewest commands that show it |

Every property of a passing run is also checked against a plausible bug: `PROJECT.json`
names, for each, a variant of a definition (in the module, right before the original) under
which TLC finds it violated.

### Findings

* **print_runout** (`pause_resume.py:55`, `virtual_sdcard.py:128`). The filament sensor
  calls `send_pause_command` outside the G-Code mutex, and `do_pause` polls `work_timer`
  every millisecond. If the work handler exits and a client starts another print before the
  next poll, `must_pause_work` is cleared again; `do_pause` returns on a line of the new
  print, the PAUSE that follows finds `pause_command_sent` and only sets `is_paused`. The
  printer says it is paused and prints on. `filament_switch_sensor.py:50` asks for the pause
  to "execute immediately". `PauseHolds`, which print_job checks, excepts this race and
  prints started over the flags of an older pause; `RunoutHolds` only the latter.

Two more things the models show, kept as exceptions of the properties above:

* `is_paused` outlives the pause if the print is started or resumed by SDCARD_PRINT_FILE or
  M24; PAUSE then answers "Print already paused" and does nothing (`pause_resume.py:62`),
  where `docs/G-Codes.md` says "Pauses the current print." `PauseHolds` has its exception
  for these prints.
* `_handle_trsync_state` ends a move that hit no endstop with one trsync_trigger
  (`mcu.py:186`). The trigger also ends the mcu's reports. If the mcu's answer to it is
  dropped by a full transmit buffer, nothing completes the wait in `home_wait`.
  `SessionEnds` is therefore checked with such answers kept (`Droppable`).

## 4. Fairness

* `SerialProtocol`: weak fairness of handling a message, of the retransmit timer once armed
  (pollreactor.c runs due timers) and of the mcu's tasks. Faults are finitely many; with
  infinitely many nothing could be promised.
* `HomingSession` (in `MCLive`): weak fairness of each greenlet and thread, of commands and
  reports of each mcu, and of the end of the move, which is a point in time. The endstop
  need never trigger. Answers to triggers are not dropped in this run (see above), periodic
  reports are.
* `McuConfig` (in `MCLive`): the reactor, the mcus' commands and the reading threads go on;
  users, faults and the repair of a broken link need not happen.
* `SerialThreads` (in `MCLive`): threads that are not waiting go on, and the main thread
  goes on with a disconnect it has begun.
* `Toolhead` (in `MCLive`): time passes, due timers and greenlets run. For the flush handler
  and the end of a drip move this is stated as: the condition under which they are enabled,
  which they end, does not hold for ever.
* `PrintJob`: greenlets that can run do so: reactor timers are served in order. Commands are
  not required to be issued.

## 5. Proofs

All theorems hold for every value of the constants that satisfies the named assumptions of
the module they are about; these are assumptions the code satisfies, and TLC evaluates them
in the runs. Each safety property below is proved from an inductive invariant, which stands
at the end of its module with a comment per conjunct, was checked with TLC first, and is
shown to hold initially and to be kept by every action, one lemma or step per action.

| Theorem | Property | Module |
|---|---|---|
| TypeCorrect, SeqInvariant, AckedOnlyIfDispatched | the inductive invariant, and acks behind dispatches | SerialProtocol_proofs |
| ExactlyOnce | ExactlyOnceInOrder | SerialProtocol_proofs |
| LinkImplemented | ImplementsLink (refinement of `CommandLink`) | SerialProtocol_proofs |
| TimesAreUnambiguous | TimesUnambiguous | SerialProtocol_answers |
| NotifiedAfterResponse | NotifyAfterResponse | SerialProtocol_answers |
| TimeoutInvariant, OvershootBounded, TimeoutsOnlyGrow | BoundedOvershoot, TimeoutsGrow | TriggerTimeout_proofs |
| StepperInvariant, PoolIsShared, StopIsKept, PositionIsExact | PoolInv, StopHolds, PositionExact | Stepper_proofs |
| JobIsConsistent, LinesRunInOrder, PausedPrintStops, NoLineOfClosedFile | JobInv, NextLineRuns, PauseHolds, LineOfOpenFile | PrintJob_proofs |
| TransmitsAll | TransmitInv | Interleaving_proofs |
| ReadersSafe | ReadersInv | Interleaving_proofs |

### Serial protocol

The main assumption is that the window is smaller than the modulus (MAX_PENDING_BLOCKS is 12
and the modulus 16 in the code). That the mcu does not dispatch an old block needs to know
which blocks can be on the wire. `SeqInv` says so. A block on the wire to the mcu has been
sent, is too recent to be taken for the block the mcu expects when it is an older one
(McuNext < seq + SEQ_MOD), and what follows it on the wire lags at most a window behind it
(`ToMcuInv`); acks on the wire to the host are increasing and lie between receive_seq and
McuNext (`ToHostInv`); sent_queue is exactly what is between receive_seq and send_seq
(`SentQueueInv`); and the session opening, in which the first number is learnt from a nak, is
its own phase (`OpeningInv`). Then a number read modulo SEQ_MOD decodes to the number sent, on
both sides, and each action preserves the ranges.

`LinkImplemented` is the refinement without fairness: initial states map to initial states of
`CommandLink`, and under `SeqInv` every step maps to a send, a delivery, an ack or a stutter.
`TimesInv` adds that everything written twice has a number below retransmit_seq and that a
measurement begun since starts at or above it. `ResponseInv` adds that a response carries a
number one above its block's and higher than anything sent before it, so that by the time
`handle_message` releases a notification the response has been handed on.

### Timeouts of a homing axis

`BoundedOvershoot` compares times on two mcus that do not talk to each other. `LimitInv` is
the reason it holds: `Limit(j)` is the last moment at which mcu j can still have been able to
trigger (the time it did, or now), and everything derived from j's reports stays below it:
the status the host keeps, the reports in flight, and, within ExpireTicks, every expiry the
other mcus hold, have on the way to them, or are assigned on the host. An mcu that moves
therefore has an expiry at most ExpireTicks after the first trigger. The other conjuncts say
that the commands of `MCU_trsync.start` come first and in order (`QueueInv`), how trsync,
stepper and endstop go together (`TrsyncInv`), that no clock is before the start of the
session (`ClockInv`), and that reports and timeouts travel in the order of their clocks
(`GrowInv`), from which `TimeoutsGrow` follows. That the minimum over all mcus exists is
taken from the well-foundedness of the naturals. The number of mcus is any.

### Stepper

`NodesPartitioned` is inductive together with the types; the proof is about sequences and
their ranges (`Pool`), since nodes move between the free list, the queue and the command
being handled, and a stop frees the whole queue.

`StopHolds` and the direction of every step rest on `StopInv`. The host sends
set_next_step_dir only when the direction changes, and a stop makes the mcu discard moves
until reset_step_clock. `Finds(i, d)` says that a move at place i of the pipe will find the
direction d, from the mcu or from a message before it, or be discarded; `PipeInv` that this
is so of every queue_step on the way and of the next one the host will send; `HomingInv` that
there is at most one reset on the way and that it meets a stopped stepper; `QueueInv` that
the direction changes noted in the queue lead from the direction pin to last_dir.

`PositionInv` relates the position word to the motor, modulo the word: position less the
steps that remain is the motor's place plus POSITION_BIAS, negated while the direction pin is
low. `PositionIsExact` has the hypothesis `[]InRange`: the stepper stays within POSITION_BIAS
(2^30) steps of where it was at power up. The code needs it too: `stepper_get_position` tells
the sign by the top bit of a 32-bit word. In the run stepping the bound on moves implies it.

### Print job

`WorkerInv` ties the flags of `virtual_sdcard` to the place of the work handler and the
mutex; `PositionInv` the buffer and the file position to the lines completed; `PauseInv` a
sent pause to `must_pause_work`; `WaiterInv` says that who waits in `do_pause` holds the
mutex and finds the file still open. Clients, commands, lines and chunk sizes are arbitrary.

### Transmit buffer and reader threads

`BufferInv` of `ConsoleTx` gives, for every point of `console_sendf` at which the interrupt
may strike, the place of each byte not sent (`Place`, also in the middle of the memmove) and
what the local copies of the indices are worth by then (`ControlInv`). `ThreadsInv` of
`SerialThreads` says which thread can still be on its way to a fast reader at each step of
its removal, and that a reader thread sleeps only where somebody will wake it.
`ReadersSafe` assumes that there is an mcu.

## 6. Model-checked only

* Liveness (EventuallyAcked, SessionEnds, HostComesToRest, DisconnectEnds, CommandsReturn,
  CommandsEnd): out of the prover's reach.
* `ReceiveBufferSuffices` and `HostKnowsPosition` compare sums over a queue (bytes of the
  blocks sent, steps of the moves on the way), and `MovesFeasible`, `SpeedContinuous` and the
  heap of `MoveHeap` what a recursive function computes: for every input these need induction
  over data, which the installed provers cannot do.
* The invariants of `HomingSession`, `McuConfig`, `StepperSync`, `Sched`, `Toolhead`,
  `CommandQueues` and `ConsoleRx` are checked on the instances of section 3. Nothing is known
  to stand in the way of a proof except where the point above applies.

## 7. Not modelled

* Step generation (`itersolve.c`, `kin_*.c`), kinematics, bed meshes and heater control:
  real-valued computation with little control in it.
* Board support (`src/src/stm32` and its siblings), vendored chip headers and libraries
  (`src/lib`), displays and menus: register access and user interface. These make up nearly
  all lines of the repository; the models cover about 3,900 lines of the 24 files they
  concern, out of some 9,000.
* CAN transports, output to a file, port handling and the parsing of the data dictionary.
* Step compression, clock synchronisation, heaters' safety checks, scheduled outputs,
  buttons, idle timeout and G-Code input: planned, see below.
* Memory management (serialqueue_free, the Python finalizers) and the locks inside Python's
  handlers.
* The answer to a query dropped by a full transmit buffer in `home_wait`, beyond what
  section 3 says of it.

## 8. Plan

Modelling, in this order:
1. scheduled outputs with max_duration (`gpiocmds.c`, `pwmcmds.c`) and buttons.
2. `reactor.py` timers, completions and greenlets; `gcode.py` input queue;
`idle_timeout.py`.
3. `stepcompress.c` compression and history as integer algorithms against a reference
definition.
4. `clocksync.py`'s filter.

Proofs, in this order: ListInv of `Sched`; QueuesInOrder and WakesInTime of `CommandQueues`;
ExecutedOnceInOrder of `ConsoleRx`, along the lines of `ConsoleTx`; SessionInv of
`HomingSession`.
