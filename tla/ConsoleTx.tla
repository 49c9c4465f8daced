------------------------------ MODULE ConsoleTx ------------------------------
(***************************************************************************)
(* Transmission of responses by a micro-controller: command_sendf of       *)
(* src/command.c, and console_sendf and the transmit interrupt of          *)
(* src/generic/serial_irq.c, which share transmit_buf without a lock.      *)
(* Each read and write of transmit_pos and transmit_max is a step.         *)
(*                                                                         *)
(* Message m is the bytes <<m, 1>>, <<m, 2>>, ...; its encoded length may  *)
(* be less than the max_size space is reserved for.                        *)
(***************************************************************************)
EXTENDS Integers, Sequences

CONSTANTS Size,        \* sizeof(transmit_buf)
          MaxSizes,    \* max_size of the encoders
          MaxMessages

ASSUME ConsoleTxAssumption ==
    /\ Size \in Nat \ {0} /\ MaxSizes \subseteq 1 .. Size /\ MaxMessages \in Nat

VARIABLES
    transmit_buf, transmit_pos, transmit_max,
    tx_irq,            \* the transmit interrupt is enabled
    in_sendf,
    pc, tpos, tmax, max_size, src,  \* console_sendf
    line,              \* bytes put on the line
    queued,            \* history: bytes of the messages accepted, in order
    messages

shared == <<transmit_buf, transmit_pos, transmit_max, tx_irq>>
locals == <<tpos, tmax, max_size, src>>
txvars == <<shared, in_sendf, pc, locals, line, queued, messages>>

TxInit ==
    /\ transmit_buf = [i \in 0 .. Size - 1 |-> <<0, 0>>]
    /\ transmit_pos = 0 /\ transmit_max = 0 /\ tx_irq = FALSE
    /\ in_sendf = FALSE /\ pc = "idle"
    /\ tpos = 0 /\ tmax = 0 /\ max_size = 0 /\ src = 0
    /\ line = <<>> /\ queued = <<>> /\ messages = 0

Bytes(m, len) == [i \in 1 .. len |-> <<m, i>>]
Stored(buf, at, s) == [i \in DOMAIN buf |-> IF i \in at .. at + Len(s) - 1
                                           THEN s[i - at + 1] ELSE buf[i]]

\* serial_get_tx_byte, and the board's handler, which disables the interrupt
TxByte ==
    /\ tx_irq
    /\ IF transmit_pos >= transmit_max
       THEN tx_irq' = FALSE /\ UNCHANGED <<transmit_pos, line>>
       ELSE /\ line' = Append(line, transmit_buf[transmit_pos])
            /\ transmit_pos' = transmit_pos + 1
            /\ UNCHANGED tx_irq
    /\ UNCHANGED <<transmit_buf, transmit_max, in_sendf, pc, locals, queued, messages>>

\* command_sendf in the main program
Sendf(size) ==
    /\ pc = "idle" /\ messages < MaxMessages
    /\ in_sendf' = TRUE
    /\ messages' = messages + 1
    /\ max_size' = size
    /\ pc' = "read_pos"
    /\ UNCHANGED <<shared, tpos, tmax, src, line, queued>>

\* command_sendf in an interrupt that found the main program in sendf: dropped
SendfDropped ==
    /\ in_sendf /\ messages < MaxMessages
    /\ messages' = messages + 1
    /\ UNCHANGED <<shared, in_sendf, pc, locals, line, queued>>

Step(from, to) == pc = from /\ pc' = to

ReadPos ==
    /\ Step("read_pos", "read_max")
    /\ tpos' = transmit_pos
    /\ UNCHANGED <<shared, in_sendf, tmax, max_size, src, line, queued, messages>>

\* All sent: the buffer starts anew, transmit_max first
ReadMax ==
    /\ pc = "read_max"
    /\ tmax' = transmit_max
    /\ pc' = IF tpos >= transmit_max THEN "reset_max" ELSE "check"
    /\ UNCHANGED <<shared, in_sendf, tpos, max_size, src, line, queued, messages>>

\* Variant of ResetMax that resets transmit_pos first.
ResetPosFirst ==
    /\ Step("reset_max", "reset_pos")
    /\ tpos' = 0 /\ tmax' = 0
    /\ transmit_pos' = 0
    /\ UNCHANGED <<transmit_buf, transmit_max, tx_irq, in_sendf, max_size, src, line, queued,
                   messages>>

ResetMax ==
    /\ Step("reset_max", "reset_pos")
    /\ tpos' = 0 /\ tmax' = 0
    /\ transmit_max' = 0
    /\ UNCHANGED <<transmit_buf, transmit_pos, tx_irq, in_sendf, max_size, src, line, queued,
                   messages>>

ResetPos ==
    /\ Step("reset_pos", "check")
    /\ transmit_pos' = 0
    /\ UNCHANGED <<transmit_buf, transmit_max, tx_irq, in_sendf, locals, line, queued, messages>>

Leave == in_sendf' = FALSE /\ pc' = "idle"

\* No room behind the bytes queued: drop the message or move the bytes to the front
CheckSpace ==
    /\ pc = "check"
    /\ \/ /\ tmax + max_size <= Size
          /\ pc' = "encode" /\ UNCHANGED in_sendf
       \/ /\ tmax + max_size > Size /\ tmax + max_size - tpos > Size
          /\ Leave
       \/ /\ tmax + max_size > Size /\ tmax + max_size - tpos <= Size
          /\ pc' = "stop_tx" /\ UNCHANGED in_sendf
    /\ UNCHANGED <<shared, locals, line, queued, messages>>

StopTx ==
    /\ Step("stop_tx", "reread_pos")
    /\ transmit_max' = 0
    /\ UNCHANGED <<transmit_buf, transmit_pos, tx_irq, in_sendf, locals, line, queued, messages>>

RereadPos ==
    /\ Step("reread_pos", "memmove")
    /\ tpos' = transmit_pos
    /\ tmax' = tmax - transmit_pos
    /\ src' = 0
    /\ UNCHANGED <<shared, in_sendf, max_size, line, queued, messages>>

MemMove ==
    /\ pc = "memmove"
    /\ IF src < tmax
       THEN /\ transmit_buf' = [transmit_buf EXCEPT ![src] = transmit_buf[tpos + src]]
            /\ src' = src + 1 /\ UNCHANGED pc
       ELSE pc' = "move_pos" /\ UNCHANGED <<transmit_buf, src>>
    /\ UNCHANGED <<transmit_pos, transmit_max, tx_irq, in_sendf, tpos, tmax, max_size, line,
                   queued, messages>>

MovePos ==
    /\ Step("move_pos", "move_max")
    /\ transmit_pos' = 0
    /\ UNCHANGED <<transmit_buf, transmit_max, tx_irq, in_sendf, locals, line, queued, messages>>

MoveMax ==
    /\ Step("move_max", "encode")
    /\ transmit_max' = tmax /\ tx_irq' = TRUE
    /\ UNCHANGED <<transmit_buf, transmit_pos, in_sendf, locals, line, queued, messages>>

\* command_encode_and_frame writes the message behind the bytes queued
Encode(len) ==
    /\ Step("encode", "send")
    /\ len <= max_size
    /\ transmit_buf' = Stored(transmit_buf, tmax, Bytes(messages, len))
    /\ src' = len
    /\ UNCHANGED <<transmit_pos, transmit_max, tx_irq, in_sendf, tpos, tmax, max_size, line,
                   queued, messages>>

StartTransmit ==
    /\ pc = "send"
    /\ transmit_max' = tmax + src /\ tx_irq' = TRUE
    /\ queued' = queued \o SubSeq([i \in 1 .. Size |-> transmit_buf[i - 1]], tmax + 1, tmax + src)
    /\ Leave
    /\ UNCHANGED <<transmit_buf, transmit_pos, locals, line, messages>>

ConsoleSendf ==
    \/ ReadPos \/ ReadMax \/ ResetMax \/ ResetPos \/ CheckSpace
    \/ StopTx \/ RereadPos \/ MemMove \/ MovePos \/ MoveMax
    \/ (\E len \in MaxSizes : Encode(len)) \/ StartTransmit

TxNext == \/ TxByte \/ ConsoleSendf \/ SendfDropped
          \/ \E size \in MaxSizes : Sendf(size)

TxSpec == TxInit /\ [][TxNext]_txvars

-----------------------------------------------------------------------------
(* Properties *)

Byte == Nat \X Nat

\* Every variable keeps its type; no index leaves transmit_buf.
TxTypeOK ==
    /\ transmit_buf \in [0 .. Size - 1 -> Byte]
    /\ transmit_pos \in 0 .. Size /\ transmit_max \in 0 .. Size
    /\ tpos \in 0 .. Size /\ tmax \in 0 .. Size /\ src \in 0 .. Size /\ max_size \in 0 .. Size
    /\ tx_irq \in BOOLEAN /\ in_sendf \in BOOLEAN /\ messages \in 0 .. MaxMessages
    /\ line \in Seq(Byte) /\ queued \in Seq(Byte)

\* The line carries exactly the messages accepted, whole and in order: no byte is
\* skipped, sent twice or taken from a message being written, wherever the interrupt
\* strikes while the buffer is reset, moved or filled.
LineIsPrefix == Len(line) <= Len(queued) /\ line = SubSeq(queued, 1, Len(line))

\* Nothing accepted is forgotten: while the main program is not in console_sendf the
\* buffer holds exactly the bytes not yet sent, and the interrupt is on to send them.
PendingInBuffer ==
    pc = "idle" =>
        /\ [i \in 1 .. transmit_max - transmit_pos |-> transmit_buf[transmit_pos + i - 1]]
             = SubSeq(queued, Len(line) + 1, Len(queued))
        /\ transmit_pos < transmit_max => tx_irq

\* The transmit buffer in every state of console_sendf and of the interrupt: no index is out
\* of bounds, only what was accepted is sent, in order, and nothing of it is forgotten.
TransmitInv == TxTypeOK /\ LineIsPrefix /\ PendingInBuffer

-----------------------------------------------------------------------------
(* The inductive invariant behind them *)

\* console_sendf has taken the buffer from the interrupt and is moving its bytes.
Moving == pc \in {"memmove", "move_pos", "move_max"}

\* The number of bytes accepted and not sent.
Pending ==
    IF pc = "reset_pos" THEN 0
    ELSE IF pc = "reread_pos" THEN tmax - transmit_pos
    ELSE IF Moving THEN tmax
    ELSE transmit_max - transmit_pos

\* The place in transmit_buf of the k-th of them.
Place(k) ==
    IF ~Moving THEN transmit_pos + k
    ELSE IF pc = "memmove" /\ k >= src THEN tpos + k
    ELSE k

\* Whatever the main program is doing, the bytes not sent are in the buffer.
PlacesInv ==
    /\ Pending >= 0 /\ Len(queued) = Len(line) + Pending
    /\ \A k \in 0 .. Pending - 1 : /\ Place(k) \in 0 .. Size - 1
                                   /\ transmit_buf[Place(k)] = queued[Len(line) + 1 + k]

\* What was sent is what was accepted.
SentInv == \A i \in 1 .. Len(line) : line[i] = queued[i]

\* What console_sendf knows at each step; transmit_max is 0 while the interrupt may not send.
ControlInv ==
    /\ transmit_pos < transmit_max => tx_irq
    /\ pc = "read_max" => tpos <= transmit_pos
    /\ pc = "reset_max" => transmit_pos = transmit_max
    /\ pc \in {"reset_pos", "reread_pos", "memmove", "move_pos", "move_max"} => transmit_max = 0
    /\ pc = "reset_pos" => tpos = 0 /\ tmax = 0
    /\ pc \in {"check", "stop_tx", "encode", "send"} => tmax = transmit_max
    /\ pc \in {"check", "stop_tx", "reread_pos"} => tpos <= transmit_pos
    /\ pc \in {"stop_tx", "reread_pos"} => tmax + max_size - tpos <= Size
    /\ pc = "memmove" => tpos = transmit_pos /\ src <= tmax
    /\ pc = "move_max" => transmit_pos = 0
    /\ pc \in {"memmove", "move_pos", "move_max", "encode"} => tmax + max_size <= Size
    /\ pc = "send" => tmax + src <= Size

BufferInv == PlacesInv /\ SentInv /\ ControlInv
=============================================================================
