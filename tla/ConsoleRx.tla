------------------------------ MODULE ConsoleRx ------------------------------
(***************************************************************************)
(* Reception of commands by a micro-controller: the receive interrupt and  *)
(* console_task of src/generic/serial_irq.c, command_find_block and        *)
(* command_dispatch of src/command.c, and the task loop of src/sched.c     *)
(* that console_task runs in.  The interrupt appends bytes while the task  *)
(* moves the rest of the buffer to its front without locking it out, and a *)
(* shutdown, raised by a command or an interrupt, abandons the task at any *)
(* point (longjmp).                                                        *)
(*                                                                         *)
(* Byte i of block b is <<b, i>>; its first byte is its length and its     *)
(* last the SYNC byte.  The checksum is taken to detect any other mixture  *)
(* of bytes, and a byte that is not a length to read as any length.        *)
(***************************************************************************)
EXTENDS Integers, Sequences, SequencesExt

CONSTANTS Size,          \* RX_BUFFER_SIZE
          MESSAGE_MIN, MESSAGE_MAX,
          NumBlocks, LongBlocks, \* blocks of one command (MESSAGE_MAX) or empty (MESSAGE_MIN)
          MaxBlocks,     \* blocks put on the wire, retransmissions included
          MaxShutdowns

Blocks == 1 .. NumBlocks   \* numbered by their sequence number
Length(b) == IF b \in LongBlocks THEN MESSAGE_MAX ELSE MESSAGE_MIN
Block(b) == [i \in 1 .. Length(b) |-> <<b, i>>]

VARIABLES
    receive_buf, receive_pos,
    tasks_status,        \* of SchedStatus
    next_sequence,
    need_sync, need_valid, \* sync_state of command_find_block
    \* the main program: where it is, and the variables of console_pop_input
    pc, pop_count, rpos, copied, src,
    \* the wire
    sending,             \* next byte to arrive, <<b, i>>
    sent,                \* blocks put on the wire
    \* history
    executed, overflowed, shutdowns

buffer == <<receive_buf, receive_pos>>
parser == <<next_sequence, need_sync, need_valid>>
locals == <<pop_count, rpos, copied, src>>
vars == <<buffer, tasks_status, parser, pc, locals, sending, sent, executed, overflowed,
          shutdowns>>

TS_IDLE == -1
TS_REQUESTED == 0
TS_RUNNING == 1

Init ==
    /\ receive_buf = [i \in 1 .. Size |-> <<1, 1>>] /\ receive_pos = 0
    /\ tasks_status = TS_REQUESTED
    /\ next_sequence = 1 /\ need_sync = FALSE /\ need_valid = FALSE
    /\ pc = "run_tasks" /\ pop_count = 0 /\ rpos = 0 /\ copied = 0 /\ src = 0
    /\ sending = <<1, 1>> /\ sent = 1
    /\ executed = <<>> /\ overflowed = FALSE /\ shutdowns = 0

-----------------------------------------------------------------------------
(* Interrupts *)

IsSync(byte) == byte[2] = Length(byte[1])

\* serial_rx_byte: a byte that finds the buffer full is lost
RxByte(byte) ==
    /\ tasks_status' = IF IsSync(byte) THEN TS_REQUESTED ELSE tasks_status
    /\ IF receive_pos >= Size
       THEN overflowed' = TRUE /\ UNCHANGED buffer
       ELSE /\ receive_buf' = [receive_buf EXCEPT ![receive_pos + 1] = byte]
            /\ receive_pos' = receive_pos + 1
            /\ UNCHANGED overflowed

\* After a block the host goes on with the next one or, having missed an
\* acknowledgement, with an earlier one
Arrive ==
    /\ sent <= MaxBlocks
    /\ RxByte(sending)
    /\ \/ ~IsSync(sending) /\ sending' = <<sending[1], sending[2] + 1>> /\ UNCHANGED sent
       \/ /\ IsSync(sending) /\ sent' = sent + 1
          /\ \E b \in Blocks : b <= sending[1] + 1 /\ sending' = <<b, 1>>
    /\ UNCHANGED <<parser, pc, locals, executed, shutdowns>>

\* shutdown() in an interrupt handler: longjmp to sched_main, which runs run_tasks anew
IrqShutdown ==
    /\ shutdowns < MaxShutdowns
    /\ shutdowns' = shutdowns + 1
    /\ pc' = "run_tasks"
    /\ UNCHANGED <<buffer, tasks_status, parser, locals, sending, sent, executed, overflowed>>

\* periodic_event
Periodic ==
    /\ tasks_status = TS_IDLE
    /\ tasks_status' = TS_REQUESTED
    /\ UNCHANGED <<buffer, parser, pc, locals, sending, sent, executed, overflowed, shutdowns>>

-----------------------------------------------------------------------------
(* run_tasks *)

\* Variant of RunTasks that sleeps whatever came in since the tasks ran.
SleepUnchecked ==
    /\ pc = "run_tasks"
    /\ pc' = "sleep" /\ tasks_status' = TS_IDLE
    /\ UNCHANGED <<buffer, parser, locals, sending, sent, executed, overflowed, shutdowns>>

\* The check for sleeping is made again with interrupts disabled
RunTasks ==
    /\ pc = "run_tasks"
    /\ IF tasks_status = TS_REQUESTED
       THEN pc' = "wake" /\ UNCHANGED tasks_status
       ELSE pc' = "sleep" /\ tasks_status' = TS_IDLE
    /\ UNCHANGED <<buffer, parser, locals, sending, sent, executed, overflowed, shutdowns>>

IrqWait ==
    /\ pc = "sleep" /\ tasks_status = TS_REQUESTED
    /\ pc' = "wake"
    /\ UNCHANGED <<buffer, tasks_status, parser, locals, sending, sent, executed, overflowed, shutdowns>>

RunTaskFuncs ==
    /\ pc = "wake"
    /\ tasks_status' = TS_RUNNING
    /\ pc' = "console_task"
    /\ UNCHANGED <<buffer, parser, locals, sending, sent, executed, overflowed, shutdowns>>

-----------------------------------------------------------------------------
(* command_find_block on the first n bytes *)

Bytes1(n) == SubSeq(receive_buf, 1, n)
\* msglen as read from the first byte
MsgLens == IF receive_buf[1][2] = 1 THEN {Length(receive_buf[1][1])}
           ELSE IF IsSync(receive_buf[1]) THEN {MESSAGE_MAX + 1} ELSE 0 .. MESSAGE_MAX
ValidBlock(len) == Bytes1(len) = Block(receive_buf[1][1])

NeedMoreData ==
    /\ pc' = "run_tasks"
    /\ UNCHANGED <<parser, pop_count>>

\* Bytes are discarded up to the next SYNC (of n); one nak is sent for all of them
Discard(n) ==
    LET syncs == {i \in 1 .. n : IsSync(receive_buf[i])} IN
    /\ need_sync' = (syncs = {})
    /\ pop_count' = IF syncs = {} THEN n ELSE Min(syncs)
    /\ need_valid' = TRUE
    /\ pc' = "console_pop_input"
    /\ UNCHANGED next_sequence

\* Leading SYNC bytes are skipped without a nak
SkipSync ==
    /\ pop_count' = 1 /\ pc' = "console_pop_input"
    /\ UNCHANGED parser

FindError(n) == IF IsSync(receive_buf[1]) THEN SkipSync ELSE Discard(n)

\* A valid block: dispatched if it is the next one, else answered with a nak
FoundBlock(len) ==
    /\ need_valid' = FALSE /\ UNCHANGED need_sync
    /\ pop_count' = len
    /\ IF receive_buf[1][1] = next_sequence
       THEN next_sequence' = next_sequence + 1 /\ pc' = "command_dispatch"
       ELSE UNCHANGED next_sequence /\ pc' = "console_pop_input"

FindBlock(n) ==
    IF n > 0 /\ need_sync THEN Discard(n)
    ELSE IF n < MESSAGE_MIN THEN NeedMoreData
    ELSE \E len \in MsgLens :
         IF len < MESSAGE_MIN \/ len > MESSAGE_MAX THEN FindError(n)
         ELSE IF n < len THEN NeedMoreData
         ELSE IF ~ValidBlock(len) THEN FindError(n)
         ELSE FoundBlock(len)

\* console_task up to the end of command_find_block
ConsoleTask ==
    /\ pc = "console_task"
    /\ FindBlock(receive_pos)
    /\ copied' = 0 /\ rpos' = 0 /\ src' = 0
    /\ UNCHANGED <<buffer, tasks_status, sending, sent, executed, overflowed, shutdowns>>

\* command_dispatch: a command may shut the mcu down; the block is then not popped
CommandDispatch ==
    /\ pc = "command_dispatch"
    /\ executed' = Append(executed, Bytes1(pop_count))
    /\ \/ pc' = "console_pop_input" /\ UNCHANGED shutdowns
       \/ /\ shutdowns < MaxShutdowns /\ shutdowns' = shutdowns + 1
          /\ pc' = "run_tasks"
    /\ UNCHANGED <<buffer, tasks_status, parser, locals, sending, sent, overflowed>>

-----------------------------------------------------------------------------
(* console_pop_input *)

NeedCopy == rpos - pop_count

PopRead ==
    /\ pc = "console_pop_input"
    /\ rpos' = receive_pos
    /\ src' = copied
    /\ IF receive_pos > pop_count
       THEN pc' = "memmove" ELSE pc' = "irq_save"
    /\ UNCHANGED <<buffer, tasks_status, parser, pop_count, copied, sending, sent, executed,
                   overflowed, shutdowns>>

\* memmove, a byte at a time
MemMove ==
    /\ pc = "memmove"
    /\ IF src < NeedCopy
       THEN /\ receive_buf' = [receive_buf EXCEPT ![src + 1] = receive_buf[src + pop_count + 1]]
            /\ src' = src + 1
            /\ UNCHANGED <<pc, copied, tasks_status>>
       ELSE /\ copied' = NeedCopy
            /\ tasks_status' = TS_REQUESTED
            /\ pc' = "irq_save"
            /\ UNCHANGED <<receive_buf, src>>
    /\ UNCHANGED <<receive_pos, parser, pop_count, rpos, sending, sent, executed, overflowed, shutdowns>>

\* Variant of PopCommit that does not look for bytes that have come in.
PopCommitBlind ==
    /\ pc = "irq_save"
    /\ pc' = "run_tasks" /\ receive_pos' = NeedCopy
    /\ UNCHANGED <<receive_buf, tasks_status, parser, locals, sending, sent,
                   executed, overflowed, shutdowns>>

\* With interrupts disabled: retry if bytes have come in
PopCommit ==
    /\ pc = "irq_save"
    /\ IF rpos # receive_pos
       THEN pc' = "console_pop_input" /\ UNCHANGED receive_pos
       ELSE pc' = "run_tasks" /\ receive_pos' = NeedCopy
    /\ UNCHANGED <<receive_buf, tasks_status, parser, locals, sending, sent,
                   executed, overflowed, shutdowns>>

Next == \/ Arrive \/ IrqShutdown \/ Periodic
        \/ RunTasks \/ IrqWait \/ RunTaskFuncs
        \/ ConsoleTask \/ CommandDispatch
        \/ PopRead \/ MemMove \/ PopCommit

Spec == Init /\ [][Next]_vars

-----------------------------------------------------------------------------
(* Properties *)

\* Every variable keeps its type; receive_pos stays within the buffer.
TypeOK ==
    /\ receive_pos \in 0 .. Size
    /\ tasks_status \in {TS_IDLE, TS_REQUESTED, TS_RUNNING}
    /\ next_sequence \in 1 .. NumBlocks + 1 /\ {need_sync, need_valid} \subseteq BOOLEAN
    /\ {pop_count, rpos, copied, src} \subseteq 0 .. Size

\* The commands executed are those of the blocks in order, each complete and at most
\* once, although bytes are moved under the receive interrupt, bytes are lost when the
\* buffer is full, blocks come again, and a shutdown leaves a block half popped.  Only
\* a shutdown can make the mcu pass over a block.
ExecutedOnceInOrder ==
    LET Of(k) == executed[k][1][1] IN
    /\ \A k \in 1 .. Len(executed) : executed[k] = Block(Of(k))
    /\ \A k \in 1 .. Len(executed) - 1 : Of(k) < Of(k + 1)
    /\ shutdowns = 0 => \A k \in 1 .. Len(executed) : Of(k) = k

\* As long as the buffer does not overflow and nothing shuts down, the parser never
\* loses the framing: no byte is lost, repeated or reordered by console_pop_input.
FramingKept == ~overflowed /\ shutdowns = 0 => ~need_valid

\* The receive buffer and the parser in every state: TypeOK and FramingKept.
ReceiveInv == TypeOK /\ FramingKept

\* The main program does not go to sleep on a block it could execute: the SYNC byte's
\* wake-up is not lost, wherever between the checks it comes.
NoSleepOnBlock ==
    pc = "sleep" /\ tasks_status = TS_IDLE /\ shutdowns = 0 /\ ~need_sync
    /\ next_sequence <= NumBlocks
        => ~(/\ receive_pos >= Length(next_sequence)
             /\ Bytes1(Length(next_sequence)) = Block(next_sequence))
=============================================================================
