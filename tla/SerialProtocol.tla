--------------------------- MODULE SerialProtocol ---------------------------
(***************************************************************************)
(* The reliable command link between the host and one micro-controller:    *)
(* the sliding-window sender of klippy/chelper/serialqueue.c and the block *)
(* receiver of src/command.c, over wires that lose and corrupt blocks.     *)
(*                                                                         *)
(* A block on the wire carries its sequence number modulo SEQ_MOD only.    *)
(* The model keeps the full number in the block ("seq") so that properties *)
(* can name the block; every comparison made by the code goes through      *)
(* WireSeq.  Command scheduling (which queued command goes into the next   *)
(* block, and when) is the subject of SerialQueue; here a block is built   *)
(* whenever the window allows.                                             *)
(***************************************************************************)
EXTENDS Integers, Sequences, FiniteSets, FiniteSetsExt

CONSTANTS
    SEQ_MOD,            \* MESSAGE_SEQ_MASK + 1
    MAX_PENDING_BLOCKS, \* blocks the host may have outstanding
    MESSAGE_MAX,        \* longest block, in units of length
    RECEIVE_WINDOW,     \* bytes the mcu can buffer; 0 when it reports none
    MaxSeq,             \* bound: last sequence number the host builds
    WireCap,            \* bound: blocks on the wire to the mcu
    TxCap,              \* messages the mcu's transmit buffer holds
    MAX_RTO,            \* doublings of the retransmit timeout up to its limit
    MaxFaults,          \* bound: losses and corruptions
    MaxReports,         \* bound: unsolicited messages from the mcu
    Notify,             \* may a block ask for a notification, may it not
    Respond             \* may a dispatched block answer, may it not

ASSUME SeqAssumption ==
    /\ SEQ_MOD \in Nat
    /\ MAX_PENDING_BLOCKS \in Nat \ {0}
    /\ MAX_PENDING_BLOCKS < SEQ_MOD

ASSUME BoundsAssumption ==
    /\ MESSAGE_MAX \in Nat \ {0}
    /\ RECEIVE_WINDOW \in Nat
    /\ MaxSeq \in Nat /\ WireCap \in Nat /\ TxCap \in Nat
    /\ MAX_RTO \in Nat
    /\ MaxFaults \in Nat /\ MaxReports \in Nat
    /\ Notify \subseteq BOOLEAN /\ Respond \subseteq BOOLEAN

VARIABLES
    \* host (struct serialqueue)
    send_seq, receive_seq, sent_queue, last_ack_seq, last_ack_bytes,
    ignore_nak_seq, retransmit_seq, retransmit_timer,
    rtt_sample_seq,
    rto,                \* doublings of the timeout since the last rtt sample
    identified,         \* the data dictionary was read, the window is known
    last_receive_sent,  \* last_receive_sent_time: that of a block written
                        \* "once", of one "resent", or "none"
    notify_queue, receive_queue,
    \* wires
    toMcu, toHost,
    \* micro-controller (command.c, console_task)
    mcu_base,           \* full number of next_sequence when the session began
    dispatched,         \* log: full numbers of the blocks dispatched
    need_valid,         \* CF_NEED_VALID
    dispatching,        \* Head(toMcu) is being dispatched, not yet popped
    \* history
    responded, lostResponses, faults, reports

hostVars == <<send_seq, receive_seq, sent_queue, last_ack_seq, last_ack_bytes,
              ignore_nak_seq, retransmit_seq, retransmit_timer,
              rtt_sample_seq, rto, identified, last_receive_sent,
              notify_queue, receive_queue>>
mcuVars == <<mcu_base, dispatched, need_valid, dispatching, responded>>
vars == <<hostVars, mcuVars, toMcu, toHost, lostResponses, faults, reports>>

SentTimes == {"none", "once", "resent"}
Blocks == [seq : Nat, len : 1..MESSAGE_MAX, sent : SentTimes \ {"none"}]
WireBlocks == [seq : Nat, len : 1..MESSAGE_MAX, ok : BOOLEAN]
Replies == [kind : {"ack", "data"}, seq : Nat, of : Nat]
Received == [kind : {"notify", "data"}, of : Nat, sent : SentTimes]

\* The four bits of a sequence number that travel on the wire.
WireSeq(s) == s % SEQ_MOD

\* The full number of the block the mcu expects next (next_sequence).
McuNext == mcu_base + Len(dispatched)

-----------------------------------------------------------------------------
(* Host: klippy/chelper/serialqueue.c *)

\* serialqueue_alloc, against a mcu whose next_sequence can be anything.
Init ==
    /\ send_seq = 1 /\ receive_seq = 1
    /\ sent_queue = <<>> /\ notify_queue = <<>> /\ receive_queue = <<>>
    /\ last_ack_seq = 0 /\ last_ack_bytes = 0
    /\ ignore_nak_seq = 0 /\ retransmit_seq = 0
    /\ retransmit_timer = "never" /\ last_receive_sent = "none"
    /\ rtt_sample_seq = 0 /\ rto = 0 /\ identified = FALSE
    /\ toMcu = <<>> /\ toHost = <<>>
    /\ mcu_base \in 1..SEQ_MOD
    /\ dispatched = <<>> /\ need_valid = FALSE /\ dispatching = FALSE
    /\ responded = {} /\ lostResponses = {}
    /\ faults = 0 /\ reports = 0

\* A block as it is written to the wire, after the flush cut it short, and as
\* it stands in sent_queue after it was written again.
Written(b) == [seq |-> b.seq, len |-> b.len, ok |-> TRUE]
Damaged(b) == [b EXCEPT !.ok = FALSE]
Resent(b) == [b EXCEPT !.sent = "resent"]

BlockBytes(q) == MapThenSumSet(LAMBDA i : q[i].len, DOMAIN q)

\* Variant of WindowOpen that lets one block too many out.
WindowOneTooWide ==
    /\ send_seq - receive_seq <= MAX_PENDING_BLOCKS
    /\ RECEIVE_WINDOW = 0

\* Variant of WindowOpen that forgets the block acked by its response only.
WindowForgetsLastAck ==
    /\ send_seq - receive_seq < MAX_PENDING_BLOCKS
    /\ \/ send_seq = receive_seq
       \/ ~identified \/ RECEIVE_WINDOW = 0
       \/ BlockBytes(sent_queue) + MESSAGE_MAX <= RECEIVE_WINDOW

\* check_send_command: may another block be sent before more is acked?
WindowOpen ==
    LET need_ack_bytes == BlockBytes(sent_queue) + MESSAGE_MAX
                          + (IF last_ack_seq < receive_seq
                             THEN last_ack_bytes ELSE 0)
    IN  /\ send_seq - receive_seq < MAX_PENDING_BLOCKS
        /\ \/ send_seq = receive_seq
           \/ ~identified \/ RECEIVE_WINDOW = 0
           \/ need_ack_bytes <= RECEIVE_WINDOW

\* Variant of TimerOnSend that never starts the timer.
TimerNotStarted == retransmit_timer

TimerOnSend == IF sent_queue = <<>> THEN "armed" ELSE retransmit_timer

\* Variant of SampleOnSend that measures from the oldest outstanding block.
SampleFromOldest == receive_seq

SampleOnSend == IF rtt_sample_seq = 0 THEN send_seq ELSE rtt_sample_seq

NewBlocks == {[seq |-> send_seq, len |-> l, sent |-> "once"] : l \in 1..MESSAGE_MAX}

\* command_event and build_and_send_command.  A session opens with identify
\* commands, each awaited before the next (SerialReader._start_session).
BuildAndSendCommand ==
    /\ WindowOpen
    /\ ~identified => send_seq = receive_seq
    /\ send_seq <= MaxSeq /\ Len(toMcu) < WireCap
    /\ \E b \in NewBlocks, notify \in Notify :
        /\ sent_queue' = Append(sent_queue, b)
        /\ toMcu' = Append(toMcu, Written(b))
        /\ notify_queue' = IF notify THEN Append(notify_queue, send_seq)
                                     ELSE notify_queue
    /\ retransmit_timer' = TimerOnSend
    /\ rtt_sample_seq' = SampleOnSend
    /\ send_seq' = send_seq + 1
    /\ UNCHANGED <<receive_seq, last_ack_seq, last_ack_bytes, ignore_nak_seq,
                   retransmit_seq, rto, identified, last_receive_sent,
                   receive_queue, mcuVars, toHost, lostResponses, faults,
                   reports>>

\* The end of _get_identify_data: the last identify command was acked and its
\* answer read; _start_session sets the receive window.
SetReceiveWindow ==
    /\ ~identified
    /\ receive_seq # 1 /\ send_seq = receive_seq /\ last_ack_seq = receive_seq
    /\ identified' = TRUE
    /\ UNCHANGED <<send_seq, receive_seq, sent_queue, last_ack_seq,
                   last_ack_bytes, ignore_nak_seq, retransmit_seq,
                   retransmit_timer, rtt_sample_seq, rto, last_receive_sent,
                   notify_queue, receive_queue, mcuVars, toMcu, toHost,
                   lostResponses, faults, reports>>

\* Blocks still in the tty's output queue when tcflush(TCOFLUSH) runs are
\* dropped; the block being shifted out is cut short.  What the mcu holds in
\* its own buffer is out of reach.
FlushPoints == (IF dispatching THEN 1 ELSE 0)..Len(toMcu)

Flushed(keep, cut) ==
    IF cut /\ keep < Len(toMcu)
    THEN Append(SubSeq(toMcu, 1, keep), Damaged(toMcu[keep + 1]))
    ELSE SubSeq(toMcu, 1, keep)

\* The timeout doubles up to MAX_RTO (5 seconds), which exceeds every round
\* trip of a full window: at that value the timer only expires on idle wires.
TimeoutElapsed == rto = MAX_RTO => toMcu = <<>> /\ toHost = <<>>

DoubledRto == IF rto < MAX_RTO THEN rto + 1 ELSE rto

\* retransmit_event: resend everything outstanding, on a nak (the timer was
\* set to PR_NOW) or on a timeout.
RetransmitEvent ==
    /\ \/ retransmit_timer = "now"
       \/ retransmit_timer = "armed" /\ TimeoutElapsed
    /\ \E keep \in FlushPoints, cut \in BOOLEAN :
        /\ Len(Flushed(keep, cut)) + Len(sent_queue) <= WireCap
        /\ toMcu' = Flushed(keep, cut)
                    \o [i \in DOMAIN sent_queue |-> Written(sent_queue[i])]
    /\ ignore_nak_seq' =
         IF retransmit_timer = "now"
         THEN IF receive_seq < retransmit_seq THEN retransmit_seq
                                              ELSE receive_seq
         ELSE send_seq
    /\ retransmit_seq' = send_seq
    /\ rto' = IF retransmit_timer = "armed" THEN DoubledRto ELSE rto
    /\ rtt_sample_seq' = 0
    /\ retransmit_timer' = "armed"
    /\ sent_queue' = [i \in DOMAIN sent_queue |-> Resent(sent_queue[i])]
    /\ UNCHANGED <<send_seq, receive_seq, last_ack_seq, last_ack_bytes,
                   identified, last_receive_sent, notify_queue,
                   receive_queue, mcuVars, toHost, lostResponses, faults,
                   reports>>

\* handle_message: the full number that a received sequence number stands for.
ReceiveSeq(wire) ==
    LET r == (receive_seq - WireSeq(receive_seq)) + wire
    IN  IF r < receive_seq THEN r + SEQ_MOD ELSE r

\* update_receive_seq: drop the acked blocks from sent_queue; running out of
\* blocks before reaching rseq means the connection is being initialised.
\* An rtt sample brings the timeout back to its least value.
UpdateReceiveSeq(rseq) ==
    LET acked == rseq - receive_seq
        found == acked <= Len(sent_queue)
    IN  /\ receive_seq' = rseq
        /\ sent_queue' = IF found
                         THEN SubSeq(sent_queue, acked + 1, Len(sent_queue))
                         ELSE <<>>
        /\ send_seq' = IF found THEN send_seq ELSE rseq
        /\ last_receive_sent' = IF found THEN sent_queue[acked].sent ELSE "none"
        /\ last_ack_bytes' = IF found THEN sent_queue[acked].len
                                      ELSE last_ack_bytes
        /\ IF rtt_sample_seq # 0 /\ rseq > rtt_sample_seq /\ found
           THEN rto' = 0 /\ rtt_sample_seq' = 0
           ELSE UNCHANGED <<rto, rtt_sample_seq>>

\* The entries at the head of notify_queue that are not newer than wake_seq;
\* wake_seq is unsigned: below 0 it wraps round to the largest number there is
\* and releases everything.
NotAfter(wake_seq) ==
    Min({n \in 0..Len(notify_queue) :
            n < Len(notify_queue) => wake_seq >= 0 /\ notify_queue[n + 1] > wake_seq})

\* Variant of Released that takes a response for the ack of its block.
ReleasedByResponse(rseq, kind) == NotAfter(rseq - 1)

\* The notify_queue entries a message with sequence rseq releases: those of
\* the blocks it acks, less the newest one if the message is a response that
\* may precede that block's ack.
Released(rseq, kind) == NotAfter(rseq - 1 - (IF kind = "data" THEN 1 ELSE 0))

\* A data message carries the send time of the block it acks only if that
\* block was built after the last retransmission.
TrustSentTime(rseq) == rseq > retransmit_seq

HandleValid(m, rseq) ==
    LET released == Released(rseq, m.kind)
    IN  /\ IF rseq # receive_seq
           THEN UpdateReceiveSeq(rseq)
           ELSE UNCHANGED <<receive_seq, sent_queue, send_seq,
                            last_receive_sent, last_ack_bytes, rto,
                            rtt_sample_seq>>
        /\ notify_queue' = SubSeq(notify_queue, released + 1, Len(notify_queue))
        /\ receive_queue' =
             receive_queue
             \o [i \in 1..released |-> [kind |-> "notify",
                                        of |-> notify_queue[i],
                                        sent |-> last_receive_sent']]
             \o (IF m.kind = "data"
                 THEN <<[kind |-> "data", of |-> m.of,
                         sent |-> IF TrustSentTime(rseq)
                                  THEN last_receive_sent' ELSE "none"]>>
                 ELSE <<>>)
        /\ last_ack_seq' = IF m.kind = "ack" /\ last_ack_seq < rseq
                           THEN rseq ELSE last_ack_seq
        /\ retransmit_timer' =
             IF /\ m.kind = "ack" /\ last_ack_seq >= rseq
                /\ rseq > ignore_nak_seq /\ sent_queue' # <<>>
             THEN "now"
             ELSE IF rseq = receive_seq THEN retransmit_timer
             ELSE IF sent_queue' = <<>> THEN "never" ELSE "armed"

\* input_event and handle_message.
HandleMessage ==
    /\ toHost # <<>>
    /\ toHost' = Tail(toHost)
    /\ LET m == Head(toHost)
           rseq == ReceiveSeq(WireSeq(m.seq))
       IN  IF rseq > send_seq /\ receive_seq # 1
           THEN UNCHANGED <<send_seq, receive_seq, sent_queue, last_ack_seq,
                            last_ack_bytes, retransmit_timer, rto,
                            rtt_sample_seq, last_receive_sent, notify_queue,
                            receive_queue>>
           ELSE HandleValid(m, rseq)
    /\ UNCHANGED <<ignore_nak_seq, retransmit_seq, identified, mcuVars, toMcu,
                   lostResponses, faults, reports>>

-----------------------------------------------------------------------------
(* Micro-controller: src/command.c and console_task of generic/serial_irq.c *)

\* console_sendf: a message that does not fit the transmit buffer is dropped.
Sent(msgs) == IF Len(toHost) + Len(msgs) <= TxCap THEN toHost \o msgs
                                                  ELSE toHost

AckNak(next) == <<[kind |-> "ack", seq |-> next, of |-> 0]>>

\* command_find_block: a valid block with the expected sequence number, and
\* the part of command_dispatch that runs before the block is popped; its
\* handlers may answer.
DispatchBlock ==
    /\ toMcu # <<>> /\ ~dispatching
    /\ LET b == Head(toMcu)
       IN  /\ b.ok /\ WireSeq(b.seq) = WireSeq(McuNext)
           /\ dispatched' = Append(dispatched, b.seq)
           /\ \E respond \in Respond :
               LET msg == <<[kind |-> "data", seq |-> McuNext + 1, of |-> b.seq]>>
               IN IF respond
                  THEN /\ responded' = responded \cup {b.seq}
                       /\ toHost' = Sent(msg)
                       /\ lostResponses' = IF toHost' = toHost
                                           THEN lostResponses \cup {b.seq}
                                           ELSE lostResponses
                  ELSE UNCHANGED <<responded, toHost, lostResponses>>
    /\ dispatching' = TRUE /\ need_valid' = FALSE
    /\ UNCHANGED <<hostVars, mcu_base, toMcu, faults, reports>>

\* console_pop_input and command_send_ack, after the dispatch.
FinishBlock ==
    /\ dispatching
    /\ dispatching' = FALSE
    /\ toMcu' = Tail(toMcu)
    /\ toHost' = Sent(AckNak(McuNext))
    /\ UNCHANGED <<hostVars, mcu_base, dispatched, need_valid, responded,
                   lostResponses, faults, reports>>

\* command_find_block: a valid block out of sequence is nak'ed.
NakBlock ==
    /\ toMcu # <<>> /\ ~dispatching
    /\ Head(toMcu).ok /\ WireSeq(Head(toMcu).seq) # WireSeq(McuNext)
    /\ toMcu' = Tail(toMcu)
    /\ toHost' = Sent(AckNak(McuNext))
    /\ need_valid' = FALSE
    /\ UNCHANGED <<hostVars, mcu_base, dispatched, dispatching, responded,
                   lostResponses, faults, reports>>

\* command_find_block: garbage is skipped, and nak'ed once until the next
\* valid block.
SkipGarbage ==
    /\ toMcu # <<>> /\ ~dispatching
    /\ ~Head(toMcu).ok
    /\ toMcu' = Tail(toMcu)
    /\ toHost' = IF need_valid THEN toHost ELSE Sent(AckNak(McuNext))
    /\ need_valid' = TRUE
    /\ UNCHANGED <<hostVars, mcu_base, dispatched, dispatching, responded,
                   lostResponses, faults, reports>>

\* A task of the mcu sends an unsolicited message (command_sendf).
ReportTask ==
    /\ reports < MaxReports /\ ~dispatching
    /\ reports' = reports + 1
    /\ toHost' = Sent(<<[kind |-> "data", seq |-> McuNext, of |-> 0]>>)
    /\ UNCHANGED <<hostVars, mcuVars, toMcu, lostResponses, faults>>

-----------------------------------------------------------------------------
(* The wires (external) *)

Without(q, i) == SubSeq(q, 1, i - 1) \o SubSeq(q, i + 1, Len(q))

\* The block being dispatched is in the mcu's memory, out of the wire's reach.
OnWire == {i \in DOMAIN toMcu : dispatching => i > 1}

LoseBlock ==
    /\ faults < MaxFaults
    /\ \E i \in OnWire : toMcu' = Without(toMcu, i)
    /\ faults' = faults + 1
    /\ UNCHANGED <<hostVars, mcuVars, toHost, lostResponses, reports>>

CorruptBlock ==
    /\ faults < MaxFaults
    /\ \E i \in OnWire : /\ toMcu[i].ok
                         /\ toMcu' = [toMcu EXCEPT ![i] = Damaged(@)]
    /\ faults' = faults + 1
    /\ UNCHANGED <<hostVars, mcuVars, toHost, lostResponses, reports>>

\* A damaged message is dropped by msgblock_check on the host.
LoseMessage ==
    /\ faults < MaxFaults
    /\ \E i \in DOMAIN toHost :
        /\ toHost' = Without(toHost, i)
        /\ lostResponses' = IF toHost[i].kind = "data"
                            THEN lostResponses \cup {toHost[i].of}
                            ELSE lostResponses
    /\ faults' = faults + 1
    /\ UNCHANGED <<hostVars, mcuVars, toMcu, reports>>

-----------------------------------------------------------------------------
Mcu == DispatchBlock \/ FinishBlock \/ NakBlock \/ SkipGarbage

Next ==
    \/ BuildAndSendCommand \/ SetReceiveWindow \/ RetransmitEvent
    \/ HandleMessage
    \/ DispatchBlock \/ FinishBlock \/ NakBlock \/ SkipGarbage \/ ReportTask
    \/ LoseBlock \/ CorruptBlock \/ LoseMessage

Spec == Init /\ [][Next]_vars

\* The background thread polls its descriptors and timers forever, and the
\* mcu runs console_task whenever input is buffered.
Fairness ==
    /\ WF_vars(HandleMessage)
    /\ WF_vars(RetransmitEvent) /\ WF_vars(Mcu)

FairSpec == Spec /\ Fairness

-----------------------------------------------------------------------------
(* Properties *)

\* Every variable of serialqueue.c and command.c keeps its type; the retransmit
\* timeout stays within its bounds.
TypeOK ==
    /\ send_seq \in Nat /\ receive_seq \in Nat
    /\ sent_queue \in Seq(Blocks)
    /\ last_ack_seq \in Nat /\ last_ack_bytes \in 0..MESSAGE_MAX
    /\ ignore_nak_seq \in Nat /\ retransmit_seq \in Nat
    /\ retransmit_timer \in {"never", "armed", "now"}
    /\ rtt_sample_seq \in Nat /\ rto \in 0..MAX_RTO /\ identified \in BOOLEAN
    /\ last_receive_sent \in SentTimes
    /\ notify_queue \in Seq(Nat) /\ receive_queue \in Seq(Received)
    /\ toMcu \in Seq(WireBlocks) /\ toHost \in Seq(Replies)
    /\ mcu_base \in 1..SEQ_MOD /\ dispatched \in Seq(Nat)
    /\ need_valid \in BOOLEAN /\ dispatching \in BOOLEAN
    /\ responded \subseteq Nat
    /\ lostResponses \subseteq Nat
    /\ faults \in Nat /\ reports \in Nat

\* Every block is dispatched exactly once and in order: the log of the mcu is
\* mcu_base, mcu_base + 1, ... with no gap and no repetition, although the
\* wire carries numbers modulo SEQ_MOD and blocks are resent.
ExactlyOnceInOrder ==
    \A i \in DOMAIN dispatched : dispatched[i] = mcu_base + i - 1

\* A block leaves sent_queue as acked only after the mcu dispatched it; the
\* opening block of a session is the one exception.
AckedWereDispatched == receive_seq <= McuNext

\* The notification of a block reaches receive_queue after the response to
\* the block, unless the wire lost that response: get_response() of
\* serialhdl.py reads last_params as soon as the notification arrives.  Block 1
\* of a session is excepted, for wake_seq can wrap round while it is
\* outstanding; it carries the first identify command, which is retried.
NotifyAfterResponse ==
    \A i \in DOMAIN receive_queue :
        LET s == receive_queue[i].of
        IN  receive_queue[i].kind = "notify" /\ s >= mcu_base /\ s # 1 =>
              /\ s < McuNext
              /\ s \in responded \ lostResponses =>
                   \E j \in 1..(i - 1) : /\ receive_queue[j].kind = "data"
                                         /\ receive_queue[j].of = s

\* A response carries a send time (clocksync.py pairs it with the receive
\* time) only if the block acked last was written exactly once.
SentTimeUnambiguous ==
    \A i \in DOMAIN receive_queue :
        receive_queue[i].kind = "data" => receive_queue[i].sent # "resent"

\* Every block that could end the running rtt measurement was written exactly
\* once, so the timeout is never computed from an ambiguous round trip.
RttSampleUnambiguous ==
    \A i \in DOMAIN sent_queue :
        rtt_sample_seq # 0 /\ sent_queue[i].seq >= rtt_sample_seq =>
            sent_queue[i].sent = "once"

\* The two above: no time is taken from a block that was written more than once.
TimesUnambiguous == SentTimeUnambiguous /\ RttSampleUnambiguous

\* As long as nothing was resent, all that the host has written and the mcu
\* has not popped fits the mcu's receive buffer.
ReceiveBufferSuffices ==
    identified /\ RECEIVE_WINDOW # 0 /\ retransmit_seq = 0 =>
        BlockBytes(toMcu) <= RECEIVE_WINDOW

\* What the link promises its users, see CommandLink: blocks counted from
\* the first one of the session that the mcu accepts.
Link == INSTANCE CommandLink WITH
    sent <- IF send_seq >= mcu_base THEN send_seq - mcu_base ELSE 0,
    delivered <- [i \in DOMAIN dispatched |-> dispatched[i] - mcu_base + 1],
    acked <- IF receive_seq >= mcu_base THEN receive_seq - mcu_base ELSE 0

\* The sliding-window protocol implements a reliable, ordered link.
ImplementsLink == Link!Spec

-----------------------------------------------------------------------------
(* The inductive invariant behind ExactlyOnceInOrder *)

\* The numbering of host and mcu agree; before, the session is opening and
\* block 1 is the only one ever sent.
Joined == McuNext <= send_seq

OpeningInv ==
    ~Joined =>
        /\ receive_seq = 1 /\ send_seq <= 2 /\ dispatched = <<>>
        /\ \A i \in 1..Len(toMcu) : toMcu[i].seq = 1
        /\ \A i \in 1..Len(toHost) : toHost[i].seq = McuNext

\* sent_queue holds the consecutive blocks from receive_seq up to send_seq.
SentQueueInv ==
    /\ receive_seq >= 1
    /\ Len(sent_queue) = send_seq - receive_seq
    /\ send_seq - receive_seq <= MAX_PENDING_BLOCKS
    /\ \A i \in 1..Len(sent_queue) : sent_queue[i].seq = receive_seq + i - 1

\* Messages to the host arrive in the order of their numbers, none of which
\* is older than receive_seq or newer than the mcu.
ToHostInv ==
    /\ \A i \in 1..Len(toHost) : /\ receive_seq <= toHost[i].seq
                                  /\ toHost[i].seq <= McuNext
    /\ \A i, j \in 1..Len(toHost) : i < j => toHost[i].seq <= toHost[j].seq

\* A block on the wire is too recent to alias the block the mcu expects, and
\* what follows it lags at most a window behind.
ToMcuInv ==
    /\ \A i \in 1..Len(toMcu) : /\ toMcu[i].seq < send_seq
                                 /\ McuNext < toMcu[i].seq + SEQ_MOD
    /\ \A i, j \in 1..Len(toMcu) :
         i < j => toMcu[i].seq < toMcu[j].seq + MAX_PENDING_BLOCKS

\* The whole invariant: with it, equal four-bit numbers mean equal blocks in
\* command_find_block and handle_message.
SeqInv ==
    /\ OpeningInv /\ SentQueueInv /\ ToHostInv /\ ToMcuInv
    /\ receive_seq <= McuNext
    /\ dispatching => toMcu # <<>>
    /\ identified => receive_seq # 1
    /\ ExactlyOnceInOrder

-----------------------------------------------------------------------------
(* The inductive invariants behind TimesUnambiguous and NotifyAfterResponse, *)
(* on top of SeqInv                                                          *)

\* What was written again has a number below retransmit_seq; a measurement
\* started since begins at or above it.
TimesInv ==
    /\ retransmit_seq <= send_seq
    /\ rtt_sample_seq # 0 => rtt_sample_seq >= retransmit_seq
    /\ \A i \in 1..Len(sent_queue) :
         sent_queue[i].sent = "resent" => sent_queue[i].seq < retransmit_seq
    /\ last_receive_sent = "resent" => receive_seq <= retransmit_seq
    /\ SentTimeUnambiguous

\* A response that was not lost is on its way or has been received; it has a
\* higher number than all that was sent before it.
Answers(m) == m.kind = "data" /\ m.of # 0

ResponseInv ==
    /\ receive_seq = 1 => send_seq <= 2
    /\ \A i \in 1..Len(notify_queue) : 1 <= notify_queue[i] /\ notify_queue[i] < send_seq
    /\ \A s \in responded : s # 0 /\ s < McuNext
    /\ \A i \in 1..Len(toHost) : Answers(toHost[i]) => toHost[i].seq = toHost[i].of + 1
    /\ \A i, j \in 1..Len(toHost) :
         i < j /\ Answers(toHost[j]) => toHost[i].seq < toHost[j].seq
    /\ \A s \in responded \ lostResponses :
         \/ \E i \in 1..Len(toHost) : toHost[i].kind = "data" /\ toHost[i].of = s
         \/ \E i \in 1..Len(receive_queue) :
              receive_queue[i].kind = "data" /\ receive_queue[i].of = s
    /\ NotifyAfterResponse

-----------------------------------------------------------------------------
\* Every block sent is eventually acked, whatever finitely many faults occur.
EventuallyAcked ==
    \A s \in 1..MaxSeq : (send_seq = s + 1) ~> (receive_seq > s)

=============================================================================
