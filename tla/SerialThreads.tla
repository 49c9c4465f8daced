---------------------------- MODULE SerialThreads ----------------------------
(***************************************************************************)
(* The threads around the serialqueues of several micro-controllers and    *)
(* their locks (klippy/chelper/serialqueue.c, trdispatch.c, serialhdl.py): *)
(* the background thread of each serialqueue, which calls a fast reader;   *)
(* the reader thread of each, which waits in serialqueue_pull; and the     *)
(* main thread, which registers and removes fast readers and ends it all.  *)
(*                                                                         *)
(* A critical section that takes no second lock is one step.  So a lock is *)
(* held between steps only where the code takes another one under it:      *)
(* sq->lock at "dlock", fast_reader_dispatch_lock at "func" and "send",    *)
(* td->lock at "send".                                                     *)
(***************************************************************************)
EXTENDS Integers, FiniteSets

CONSTANTS N,            \* serialqueues
          MaxInput,     \* messages that arrive at each
          MaxSessions   \* homing sessions

Sqs == 1 .. N

VARIABLES
    bg,               \* background threads: [at, to]; to is the serialqueue sent to
    reader,           \* reader threads: pull, wait, woken, done
    main,             \* main thread: [at, i]
    receive_queue, receive_waiting, fast_readers, must_exit,
    is_active, can_trigger,   \* of the trdispatch
    input, sessions

vars == <<bg, reader, main, receive_queue, receive_waiting, fast_readers, must_exit, is_active, can_trigger, input, sessions>>

Init ==
    /\ bg = [i \in Sqs |-> [at |-> "poll", to |-> 1]]
    /\ reader = [i \in Sqs |-> "pull"] /\ main = [at |-> "idle", i |-> 1]
    /\ receive_queue = [i \in Sqs |-> 0] /\ receive_waiting = [i \in Sqs |-> FALSE]
    /\ fast_readers = [i \in Sqs |-> FALSE] /\ must_exit = [i \in Sqs |-> FALSE]
    /\ is_active = FALSE /\ can_trigger = FALSE /\ input = [i \in Sqs |-> 0] /\ sessions = 0

LockFree(i) == bg[i].at # "dlock"
DispatchLockFree(i) == bg[i].at \notin {"func", "send"}
TdLockFree == \A i \in Sqs : bg[i].at # "send"

-----------------------------------------------------------------------------
(* The background thread *)

\* check_wake_receive
CheckWakeReceive(i) ==
    /\ receive_waiting' = [receive_waiting EXCEPT ![i] = FALSE]
    /\ reader' = IF receive_waiting[i] THEN [reader EXCEPT ![i] = "woken"] ELSE reader

\* handle_message up to the fast readers; with a match it keeps the lock
HandleMessage(i) ==
    /\ bg[i].at = "poll" /\ LockFree(i)
    /\ input[i] < MaxInput /\ input' = [input EXCEPT ![i] = @ + 1]
    /\ receive_queue' = [receive_queue EXCEPT ![i] = @ + 1]
    /\ \/ fast_readers[i] /\ bg' = [bg EXCEPT ![i].at = "dlock"] /\ UNCHANGED <<receive_waiting, reader>>
       \/ CheckWakeReceive(i) /\ UNCHANGED bg
    /\ UNCHANGED <<main, fast_readers, must_exit, is_active, can_trigger, sessions>>

\* Main lock released, fast_reader_dispatch_lock taken
Dispatch(i) ==
    /\ bg[i].at = "dlock" /\ bg' = [bg EXCEPT ![i].at = "func"]
    /\ CheckWakeReceive(i)
    /\ UNCHANGED <<main, receive_queue, fast_readers, must_exit, is_active, can_trigger, input, sessions>>

\* handle_trsync_state takes td->lock: a trigger goes to all mcus, other reports may extend
\* timeouts; a report of another trsync, or one that extends none, sends nothing
HandleTrsyncState(i) ==
    /\ bg[i].at = "func" /\ TdLockFree
    /\ \/ can_trigger /\ bg' = [bg EXCEPT ![i] = [at |-> "send", to |-> 1]] /\ can_trigger' \in BOOLEAN
       \/ bg' = [bg EXCEPT ![i].at = "poll"] /\ UNCHANGED can_trigger
    /\ UNCHANGED <<reader, main, receive_queue, receive_waiting, fast_readers, must_exit, is_active, input, sessions>>

\* serialqueue_send_one to one mcu after the other, its own included
SendHoldsOwn(i) ==
    /\ bg[i].at = "send" /\ bg[i].to # i /\ LockFree(bg[i].to)
    /\ bg' = [bg EXCEPT ![i] = IF @.to < N THEN [at |-> "send", to |-> @.to + 1] ELSE [at |-> "poll", to |-> 1]]
    /\ UNCHANGED <<reader, main, receive_queue, receive_waiting, fast_readers, must_exit, is_active, can_trigger, input, sessions>>
SendOne(i) ==
    /\ bg[i].at = "send" /\ LockFree(bg[i].to)
    /\ bg' = [bg EXCEPT ![i] = IF @.to < N THEN [at |-> "send", to |-> @.to + 1] ELSE [at |-> "poll", to |-> 1]]
    /\ UNCHANGED <<reader, main, receive_queue, receive_waiting, fast_readers, must_exit, is_active, can_trigger, input, sessions>>

\* background_thread after pollreactor_run
Exit(i) ==
    /\ bg[i].at = "poll" /\ must_exit[i] /\ bg' = [bg EXCEPT ![i].at = "dead"]
    /\ CheckWakeReceive(i)
    /\ UNCHANGED <<main, receive_queue, fast_readers, must_exit, is_active, can_trigger, input, sessions>>

-----------------------------------------------------------------------------
(* The reader thread: serialqueue_pull *)

Pull(i) ==
    /\ reader[i] \in {"pull", "woken"} /\ LockFree(i)
    /\ \/ /\ receive_queue[i] > 0 /\ receive_queue' = [receive_queue EXCEPT ![i] = @ - 1]
          /\ reader' = [reader EXCEPT ![i] = "pull"] /\ UNCHANGED receive_waiting
       \/ /\ receive_queue[i] = 0 /\ must_exit[i]
          /\ reader' = [reader EXCEPT ![i] = "done"] /\ UNCHANGED <<receive_queue, receive_waiting>>
       \/ /\ receive_queue[i] = 0 /\ ~must_exit[i]
          /\ reader' = [reader EXCEPT ![i] = "wait"]
          /\ receive_waiting' = [receive_waiting EXCEPT ![i] = TRUE] /\ UNCHANGED receive_queue
    /\ UNCHANGED <<bg, main, fast_readers, must_exit, is_active, can_trigger, input, sessions>>

-----------------------------------------------------------------------------
(* The main thread *)

Goto(where, i) == main' = IF i <= N THEN [at |-> where, i |-> i] ELSE [at |-> "idle", i |-> 1]

\* trdispatch_start up to the fast readers
TrdispatchStart ==
    /\ main.at = "idle" /\ sessions < MaxSessions /\ TdLockFree /\ ~is_active
    /\ is_active' = TRUE /\ can_trigger' = TRUE /\ sessions' = sessions + 1 /\ Goto("add", 1)
    /\ UNCHANGED <<bg, reader, receive_queue, receive_waiting, fast_readers, must_exit, input>>

\* serialqueue_add_fastreader
AddFastreader ==
    /\ main.at = "add" /\ LockFree(main.i)
    /\ fast_readers' = [fast_readers EXCEPT ![main.i] = TRUE] /\ Goto("add", main.i + 1)
    /\ UNCHANGED <<bg, reader, receive_queue, receive_waiting, must_exit, is_active, can_trigger, input, sessions>>

\* trdispatch_stop up to the fast readers
TrdispatchStop ==
    /\ main.at = "idle" /\ is_active /\ TdLockFree
    /\ is_active' = FALSE /\ Goto("rm", 1)
    /\ UNCHANGED <<bg, reader, receive_queue, receive_waiting, fast_readers, must_exit, can_trigger, input, sessions>>

\* serialqueue_rm_fastreader, its two critical sections
RmFastreader ==
    /\ main.at = "rm" /\ LockFree(main.i)
    /\ fast_readers' = [fast_readers EXCEPT ![main.i] = FALSE] /\ Goto("rm_wait", main.i)
    /\ UNCHANGED <<bg, reader, receive_queue, receive_waiting, must_exit, is_active, can_trigger, input, sessions>>
RmNoWait ==
    /\ main.at = "rm_wait" /\ Goto("rm", main.i + 1)
    /\ UNCHANGED <<bg, reader, receive_queue, receive_waiting, fast_readers, must_exit, is_active, can_trigger, input, sessions>>
RmWait ==
    /\ main.at = "rm_wait" /\ DispatchLockFree(main.i) /\ Goto("rm", main.i + 1)
    /\ UNCHANGED <<bg, reader, receive_queue, receive_waiting, fast_readers, must_exit, is_active, can_trigger, input, sessions>>

\* SerialReader.disconnect: serialqueue_exit up to pthread_join
Disconnect ==
    /\ main.at \in {"idle", "exit"} /\ must_exit' = [must_exit EXCEPT ![main.i] = TRUE]
    /\ Goto("join", main.i)
    /\ UNCHANGED <<bg, reader, receive_queue, receive_waiting, fast_readers, is_active, can_trigger, input, sessions>>

\* pthread_join, then the join of the reader thread
Join ==
    /\ main.at = "join" /\ bg[main.i].at = "dead" /\ reader[main.i] = "done"
    /\ main' = IF main.i < N THEN [at |-> "exit", i |-> main.i + 1] ELSE [at |-> "end", i |-> 1]
    /\ UNCHANGED <<bg, reader, receive_queue, receive_waiting, fast_readers, must_exit, is_active, can_trigger, input, sessions>>

Bg(i) == HandleMessage(i) \/ Dispatch(i) \/ HandleTrsyncState(i) \/ SendOne(i) \/ Exit(i)
Main == TrdispatchStart \/ AddFastreader \/ TrdispatchStop \/ RmFastreader \/ RmWait \/ Disconnect \/ Join
Next == Main \/ \E i \in Sqs : Bg(i) \/ Pull(i)

Spec == Init /\ [][Next]_vars

-----------------------------------------------------------------------------
(* Properties *)

\* Every variable keeps its type; the indices of both loops stay in range.
TypeOK ==
    /\ bg \in [Sqs -> [at : {"poll", "dlock", "func", "send", "dead"}, to : Sqs]]
    /\ reader \in [Sqs -> {"pull", "wait", "woken", "done"}]
    /\ main \in [at : {"idle", "add", "rm", "rm_wait", "exit", "join", "end"}, i : Sqs]
    /\ receive_queue \in [Sqs -> Nat] /\ input \in [Sqs -> Nat]
    /\ receive_waiting \in [Sqs -> BOOLEAN] /\ fast_readers \in [Sqs -> BOOLEAN]
    /\ must_exit \in [Sqs -> BOOLEAN] /\ sessions \in Nat
    /\ is_active \in BOOLEAN /\ can_trigger \in BOOLEAN

\* Once serialqueue_rm_fastreader has returned, the reader's function is not running and
\* will not run, so its memory may be freed (the "goofy locking" of the dispatch lock).
HandlerGone ==
    /\ main.at \in {"rm", "rm_wait"} =>
          \A i \in 1 .. main.i - 1 : bg[i].at \notin {"dlock", "func", "send"}
    /\ main.at = "idle" /\ ~is_active => \A i \in Sqs : bg[i].at \notin {"dlock", "func", "send"}

\* A reader thread does not sleep on a received message, nor after its background thread
\* has ended (receive_waiting, check_wake_receive).
NoSleepOnMessage ==
    \A i \in Sqs : reader[i] = "wait" /\ LockFree(i) => receive_queue[i] = 0 /\ bg[i].at # "dead"

\* Fast readers and reader threads: the two above.
ReadersInv == HandlerGone /\ NoSleepOnMessage

-----------------------------------------------------------------------------
(* The inductive invariant behind ReadersInv *)

\* The fast reader of i is removed and not running.
Gone(i) == ~fast_readers[i] /\ bg[i].at \notin {"dlock", "func", "send"}

\* Fast readers are registered while the trdispatch is active; of the one being removed the
\* function may still run, but no thread is on its way to it under sq->lock.
RemovalInv ==
    /\ main.at \in {"rm", "rm_wait"} => ~is_active /\ \A i \in 1 .. main.i - 1 : Gone(i)
    /\ main.at = "rm_wait" => ~fast_readers[main.i] /\ bg[main.i].at # "dlock"
    /\ main.at = "add" => is_active
    /\ main.at = "idle" => main.i = 1
    /\ main.at = "idle" /\ ~is_active => \A i \in Sqs : Gone(i)

\* receive_waiting is set exactly while the reader thread sleeps; it sleeps on an empty queue
\* or one whose background thread holds sq->lock and will wake it.
SleepInv ==
    \A i \in Sqs :
        /\ reader[i] = "wait" <=> receive_waiting[i]
        /\ reader[i] = "wait" /\ LockFree(i) => receive_queue[i] = 0 /\ bg[i].at # "dead"
        /\ bg[i].at = "dead" => must_exit[i]

ThreadsInv == RemovalInv /\ SleepInv

\* The disconnect of the main thread ends: no two threads wait for each other's locks, and
\* all background and reader threads finish, whatever homing session was under way.
DisconnectEnds == (main.at = "join") ~> (main.at = "end")
=============================================================================
