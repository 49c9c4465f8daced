------------------------------ MODULE MCConsole ------------------------------
(***************************************************************************)
(* The two halves of the micro-controller's console in one run: a          *)
(* behaviour is one of ConsoleTx or one of ConsoleRx, as half says.        *)
(***************************************************************************)
EXTENDS ConsoleTx

CONSTANTS RxSize, MESSAGE_MIN, MESSAGE_MAX, NumBlocks, LongBlocks, MaxBlocks, MaxShutdowns

VARIABLES half, receive_buf, receive_pos, tasks_status, next_sequence, need_sync, need_valid,
          rx_pc, pop_count, rpos, copied, rx_src, sending, sent, executed, overflowed, shutdowns

Rx == INSTANCE ConsoleRx WITH Size <- RxSize, pc <- rx_pc, src <- rx_src

rxvars == <<receive_buf, receive_pos, tasks_status, next_sequence, need_sync, need_valid,
            rx_pc, pop_count, rpos, copied, rx_src, sending, sent, executed, overflowed, shutdowns>>
MCvars == <<half, txvars, rxvars>>
MCInit == half \in {"rx", "tx"} /\ TxInit /\ Rx!Init
MCNext == \/ half = "tx" /\ TxNext /\ UNCHANGED <<half, rxvars>>
          \/ half = "rx" /\ Rx!Next /\ UNCHANGED <<half, txvars>>
MCSpec == MCInit /\ [][MCNext]_MCvars

\* Commands are executed whole, once and in order, and the parser keeps its framing.
ExecutedOnceInOrder == Rx!ExecutedOnceInOrder /\ Rx!ReceiveInv

\* The main program does not go to sleep on a block it could execute.
NoSleepOnBlock == Rx!NoSleepOnBlock
=============================================================================
