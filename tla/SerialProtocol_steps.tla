------------------------ MODULE SerialProtocol_steps ------------------------
(***************************************************************************)
(* Proofs about SerialProtocol, first part: arithmetic of the sequence     *)
(* numbers on the wire and the queues, every step keeps the types, SeqInv  *)
(* holds initially and every step of the micro-controller keeps it.        *)
(* SerialProtocol_proofs goes on with the wires and the host.              *)
(***************************************************************************)
EXTENDS SerialProtocol, WellFoundedInduction, TLAPS

-----------------------------------------------------------------------------
(* Sequence numbers modulo SEQ_MOD *)

\* The division theorem for the modulus of the wire.
LEMMA DivMod ==
    \A a \in Nat : /\ WireSeq(a) \in 0..(SEQ_MOD - 1)
                   /\ (a \div SEQ_MOD) \in Nat
                   /\ a = SEQ_MOD * (a \div SEQ_MOD) + WireSeq(a)
  BY SeqAssumption DEF WireSeq

\* A product with the modulus is at least the modulus.
LEMMA MulMod == \A k \in Int : k >= 1 => SEQ_MOD * k >= SEQ_MOD
  BY SeqAssumption

\* Numbers less than SEQ_MOD apart are told apart by their wire form.
LEMMA WireSeqUnique ==
    ASSUME NEW a \in Nat, NEW b \in Nat, a < b + SEQ_MOD, b < a + SEQ_MOD,
           WireSeq(a) = WireSeq(b)
    PROVE  a = b
<1> DEFINE qa == a \div SEQ_MOD
           qb == b \div SEQ_MOD
           w == WireSeq(a)
<1>1. /\ qa \in Nat /\ qb \in Nat /\ w \in Nat
      /\ a = SEQ_MOD * qa + w /\ b = SEQ_MOD * qb + w
  BY DivMod, SeqAssumption
<1>2. qa - qb >= 1 => SEQ_MOD * (qa - qb) >= SEQ_MOD
  BY <1>1, MulMod
<1>3. qb - qa >= 1 => SEQ_MOD * (qb - qa) >= SEQ_MOD
  BY <1>1, MulMod
<1> HIDE DEF qa, qb, w
<1>4. a - b = SEQ_MOD * (qa - qb) /\ b - a = SEQ_MOD * (qb - qa)
  BY <1>1, SeqAssumption
<1> QED BY <1>1, <1>2, <1>3, <1>4, SeqAssumption

\* What handle_message decodes is the number itself whenever that number is
\* less than SEQ_MOD ahead of receive_seq.
LEMMA ReceiveSeqDecodes ==
    ASSUME receive_seq \in Nat, NEW a \in Nat,
           receive_seq <= a, a < receive_seq + SEQ_MOD
    PROVE  ReceiveSeq(WireSeq(a)) = a
<1> DEFINE qr == receive_seq \div SEQ_MOD
           qa == a \div SEQ_MOD
           wr == WireSeq(receive_seq)
           wa == WireSeq(a)
<1>1. /\ qr \in Nat /\ qa \in Nat
      /\ wr \in 0..(SEQ_MOD - 1) /\ wa \in 0..(SEQ_MOD - 1)
      /\ receive_seq = SEQ_MOD * qr + wr /\ a = SEQ_MOD * qa + wa
  BY DivMod
<1>2. qa - qr >= 2 => SEQ_MOD * (qa - qr - 1) >= SEQ_MOD
  BY <1>1, MulMod
<1>3. qr - qa >= 1 => SEQ_MOD * (qr - qa) >= SEQ_MOD
  BY <1>1, MulMod
<1>4. ReceiveSeq(wa) = LET r == (receive_seq - wr) + wa
                       IN  IF r < receive_seq THEN r + SEQ_MOD ELSE r
  BY DEF ReceiveSeq
<1> SUFFICES ReceiveSeq(wa) = a
  OBVIOUS
<1> HIDE DEF qr, qa, wr, wa
<1>5. /\ SEQ_MOD * (qa - qr - 1) = SEQ_MOD * qa - SEQ_MOD * qr - SEQ_MOD
      /\ SEQ_MOD * (qr - qa) = SEQ_MOD * qr - SEQ_MOD * qa
      /\ SEQ_MOD * (qr + 1) = SEQ_MOD * qr + SEQ_MOD
      /\ SEQ_MOD * qr \in Nat /\ SEQ_MOD * qa \in Nat
  BY <1>1, SeqAssumption
<1>6. qa = qr \/ qa = qr + 1
  <2>1. ~(qa - qr >= 2)
    BY <1>1, <1>2, <1>5, SeqAssumption
  <2>2. ~(qr - qa >= 1)
    BY <1>1, <1>3, <1>5, SeqAssumption, SMTT(30)
  <2> QED BY <2>1, <2>2, <1>1
<1>7. CASE qa = qr
  BY <1>1, <1>4, <1>5, <1>7, SeqAssumption, SMTT(30)
<1>8. CASE qa = qr + 1
  <2>1. a = SEQ_MOD * qr + SEQ_MOD + wa
    BY <1>1, <1>5, <1>8
  <2> QED BY <2>1, <1>1, <1>4, <1>5, SeqAssumption
<1> QED BY <1>6, <1>7, <1>8

\* Whatever arrives, handle_message decodes a number not before receive_seq.
LEMMA ReceiveSeqType ==
    ASSUME receive_seq \in Nat, NEW a \in Nat
    PROVE  ReceiveSeq(WireSeq(a)) \in Nat /\ ReceiveSeq(WireSeq(a)) >= receive_seq
<1> DEFINE qr == receive_seq \div SEQ_MOD
           wr == WireSeq(receive_seq)
           wa == WireSeq(a)
<1>1. /\ qr \in Nat /\ wr \in 0..(SEQ_MOD - 1) /\ wa \in 0..(SEQ_MOD - 1)
      /\ receive_seq = SEQ_MOD * qr + wr
  BY DivMod
<1>2. ReceiveSeq(wa) = LET r == (receive_seq - wr) + wa
                       IN  IF r < receive_seq THEN r + SEQ_MOD ELSE r
  BY DEF ReceiveSeq
<1> HIDE DEF qr, wr, wa
<1>3. SEQ_MOD * qr \in Nat
  BY <1>1, SeqAssumption
<1> QED BY <1>1, <1>2, <1>3, SeqAssumption DEF wa

-----------------------------------------------------------------------------
(* Sequences and the least element of a set of numbers *)

\* What a sequence contains.
LEMMA SeqElement ==
    ASSUME NEW S, NEW s \in Seq(S), NEW i \in 1..Len(s)
    PROVE  s[i] \in S
OBVIOUS

\* The empty sequence is the one of length 0.
LEMMA SeqNone ==
    ASSUME NEW S
    PROVE  <<>> \in Seq(S) /\ Len(<<>>) = 0 /\ \A s \in Seq(S) : s # <<>> => Len(s) \in Nat \ {0}
OBVIOUS

\* A sequence is a function.
LEMMA SeqLength ==
    ASSUME NEW S, NEW s \in Seq(S)
    PROVE  Len(s) \in Nat /\ DOMAIN s = 1..Len(s) /\ s \in [1..Len(s) -> S]
OBVIOUS

\* Replacing one element, as a damaged block replaces the one that was sent.
LEMMA SeqReplace ==
    ASSUME NEW S, NEW s \in Seq(S), NEW i \in 1..Len(s), NEW x \in S
    PROVE  LET t == [s EXCEPT ![i] = x]
           IN  t \in Seq(S) /\ Len(t) = Len(s) /\ \A j \in 1..Len(s) : t[j] = IF j = i THEN x ELSE s[j]
OBVIOUS

\* Two sequences joined.
LEMMA SeqJoin ==
    ASSUME NEW S, NEW s \in Seq(S), NEW t \in Seq(S)
    PROVE  /\ s \o t \in Seq(S) /\ Len(s \o t) = Len(s) + Len(t)
           /\ \A i \in 1..(Len(s) + Len(t)) : (s \o t)[i] = IF i <= Len(s) THEN s[i] ELSE t[i - Len(s)]
OBVIOUS

\* A part of a sequence, as dropping the acked blocks leaves it.
LEMMA SeqPart ==
    ASSUME NEW S, NEW s \in Seq(S), NEW m \in Int, NEW n \in Int, 1 <= m, n <= Len(s)
    PROVE  /\ SubSeq(s, m, n) \in Seq(S)
           /\ Len(SubSeq(s, m, n)) = IF m <= n THEN n - m + 1 ELSE 0
           /\ \A i \in 1..(n - m + 1) : SubSeq(s, m, n)[i] = s[m + i - 1]
OBVIOUS

\* What taking the first element leaves.
LEMMA SeqRest ==
    ASSUME NEW S, NEW s \in Seq(S), s # <<>>
    PROVE  /\ Head(s) \in S /\ Head(s) = s[1] /\ Tail(s) \in Seq(S) /\ Len(Tail(s)) = Len(s) - 1
           /\ \A i \in 1..Len(Tail(s)) : Tail(s)[i] = s[i + 1]
OBVIOUS

\* A sequence with one more element.
LEMMA SeqAdd ==
    ASSUME NEW S, NEW s \in Seq(S), NEW x \in S
    PROVE  /\ Append(s, x) \in Seq(S) /\ Append(s, x) # <<>> /\ Len(Append(s, x)) = Len(s) + 1
           /\ \A i \in 1..Len(s) : Append(s, x)[i] = s[i]
           /\ Append(s, x)[Len(s) + 1] = x
OBVIOUS

\* Append is joining with a sequence of one element.
LEMMA SeqAddJoin ==
    ASSUME NEW S, NEW s \in Seq(S), NEW x \in S
    PROVE  Append(s, x) = s \o <<x>>
OBVIOUS

\* A nonempty set of naturals has a minimum.
LEMMA MinFacts ==
    ASSUME NEW S \in SUBSET Nat, S # {}
    PROVE  Min(S) \in S /\ \A y \in S : Min(S) <= y
<1> DEFINE R == {p \in Nat \X Nat : p[1] < p[2]}
<1>1. IsWellFoundedOn(R, Nat)
  BY NatLessThanWellFounded, Zenon DEF OpToRel
<1>2. PICK x \in S : \A y \in S : ~(<<y, x>> \in R)
  BY <1>1, WFMin, Zenon
<1>3. ASSUME NEW y \in S PROVE ~(y < x)
  BY <1>2, Zenon
<1>4. \A y \in S : x <= y
  BY <1>3
<1> QED BY <1>4, Zenon DEF Min

-----------------------------------------------------------------------------
(* The queues *)

\* Removing one element from a queue.
LEMMA WithoutProperties ==
    ASSUME NEW S, NEW q \in Seq(S), NEW i \in 1..Len(q)
    PROVE  /\ Without(q, i) \in Seq(S)
           /\ Len(Without(q, i)) = Len(q) - 1
           /\ \A j \in 1..(Len(q) - 1) :
                Without(q, i)[j] = IF j < i THEN q[j] ELSE q[j + 1]
<1> DEFINE l == SubSeq(q, 1, i - 1)
           r == SubSeq(q, i + 1, Len(q))
<1>1. /\ l \in Seq(S) /\ Len(l) = i - 1
      /\ \A j \in 1..(i - 1) : l[j] = q[j]
  BY SeqPart, SeqElement, SeqLength
<1>2. /\ r \in Seq(S) /\ Len(r) = Len(q) - i
      /\ \A j \in 1..(Len(q) - i) : r[j] = q[i + j]
  BY SeqPart, SeqElement, SeqLength
<1>3. Without(q, i) = l \o r
  BY DEF Without
<1> HIDE DEF l, r
<1>4. Len(q) \in Nat
  BY SeqLength
<1>5. /\ l \o r \in Seq(S)
      /\ Len(l \o r) = Len(l) + Len(r)
      /\ \A j \in 1..(Len(l) + Len(r)) :
           (l \o r)[j] = IF j <= Len(l) THEN l[j] ELSE r[j - Len(l)]
  BY <1>1, <1>2, SeqJoin, Zenon
<1>6. ASSUME NEW j \in 1..(Len(q) - 1)
      PROVE  (l \o r)[j] = IF j < i THEN q[j] ELSE q[j + 1]
  <2>1. j \in 1..(Len(l) + Len(r))
    BY <1>1, <1>2, <1>4
  <2>2. CASE j < i
    BY <2>1, <2>2, <1>1, <1>5, SMTT(30)
  <2>3. CASE ~(j < i)
    <3>1. (l \o r)[j] = r[j - Len(l)]
      BY <2>1, <2>3, <1>1, <1>5, SMTT(30)
    <3>2. j - Len(l) \in 1..(Len(q) - i) /\ i + (j - Len(l)) = j + 1
      BY <2>1, <2>3, <1>1, <1>2, <1>4
    <3> QED BY <3>1, <3>2, <2>3, <1>2, Zenon
  <2> QED BY <2>2, <2>3, Zenon
<1>7. Len(l) + Len(r) = Len(q) - 1
  BY <1>1, <1>2, <1>4
<1> QED BY <1>3, <1>5, <1>6, <1>7

\* console_sendf appends the message or drops it.
LEMMA SentProperties ==
    ASSUME toHost \in Seq(Replies), NEW m \in Replies
    PROVE  /\ Sent(<<m>>) \in Seq(Replies)
           /\ Sent(<<m>>) = toHost \/ Sent(<<m>>) = Append(toHost, m)
<1>1. toHost \o <<m>> = Append(toHost, m) /\ Append(toHost, m) \in Seq(Replies)
  BY SeqAddJoin, SeqAdd
<1> QED BY <1>1 DEF Sent

\* A corrupted block keeps its number.
LEMMA DamagedBlock ==
    ASSUME NEW b \in WireBlocks
    PROVE  Damaged(b) \in WireBlocks /\ Damaged(b).seq = b.seq
  BY Zenon DEF WireBlocks, Damaged

\* A block keeps its number when it is written, and when it is written again.
LEMMA WrittenBlock ==
    ASSUME NEW b \in Blocks
    PROVE  /\ Written(b) \in WireBlocks /\ Written(b).seq = b.seq
           /\ Resent(b) \in Blocks /\ Resent(b).seq = b.seq
  BY DEF Blocks, WireBlocks, Written, Resent, SentTimes

\* A new block carries send_seq.
LEMMA NewBlock ==
    ASSUME send_seq \in Nat, NEW b \in NewBlocks
    PROVE  b \in Blocks /\ b.seq = send_seq /\ b.sent = "once"
  BY DEF Blocks, NewBlocks, SentTimes

\* tcflush keeps a prefix of the wire, its last block possibly cut short.
LEMMA FlushedProperties ==
    ASSUME toMcu \in Seq(WireBlocks), NEW keep \in 0..Len(toMcu),
           NEW cut \in BOOLEAN
    PROVE  /\ Flushed(keep, cut) \in Seq(WireBlocks)
           /\ Len(Flushed(keep, cut)) <= Len(toMcu)
           /\ Len(Flushed(keep, cut)) >= keep
           /\ \A i \in 1..Len(Flushed(keep, cut)) :
                Flushed(keep, cut)[i].seq = toMcu[i].seq
<1> DEFINE l == SubSeq(toMcu, 1, keep)
           c == Damaged(toMcu[keep + 1])
<1>0. Len(toMcu) \in Nat /\ keep \in Nat
  BY SeqLength
<1>1. /\ l \in Seq(WireBlocks) /\ Len(l) = keep
      /\ \A j \in 1..keep : l[j] = toMcu[j]
  BY <1>0, SeqPart, SeqElement
<1>2. CASE cut /\ keep < Len(toMcu)
  <2>1. c \in WireBlocks /\ c.seq = toMcu[keep + 1].seq
    <3>1. toMcu[keep + 1] \in WireBlocks
      BY <1>0, <1>2, SeqElement
    <3> QED BY <3>1, DamagedBlock
  <2>2. Flushed(keep, cut) = Append(l, c)
    BY <1>2 DEF Flushed
  <2> HIDE DEF l, c
  <2>3. /\ Append(l, c) \in Seq(WireBlocks)
        /\ Len(Append(l, c)) = keep + 1
        /\ \A i \in 1..keep : Append(l, c)[i] = l[i]
        /\ Append(l, c)[keep + 1] = c
    BY <1>1, <2>1, SeqAdd
  <2>4. ASSUME NEW i \in 1..(keep + 1)
        PROVE  Append(l, c)[i].seq = toMcu[i].seq
    <3>1. CASE i \in 1..keep
      BY <3>1, <2>3, <1>1
    <3>2. CASE i = keep + 1
      BY <3>2, <2>3, <2>1
    <3>3. i \in 1..keep \/ i = keep + 1
      BY <1>0
    <3> QED BY <3>1, <3>2, <3>3, Zenon
  <2>5. keep + 1 <= Len(toMcu) /\ keep + 1 >= keep
    BY <1>0, <1>2
  <2> QED BY <2>2, <2>3, <2>4, <2>5
<1>3. CASE ~(cut /\ keep < Len(toMcu))
  <2>1. Flushed(keep, cut) = l
    BY <1>3 DEF Flushed
  <2> HIDE DEF l
  <2> QED BY <1>0, <1>1, <2>1
<1> QED BY <1>2, <1>3

\* The loop of handle_message over notify_queue stops at its end or at the
\* first block that the message does not ack for certain.
LEMMA NotAfterFacts ==
    ASSUME notify_queue \in Seq(Nat), NEW w \in Int
    PROVE  /\ NotAfter(w) \in 0..Len(notify_queue)
           /\ \A i \in 1..NotAfter(w) : w < 0 \/ notify_queue[i] <= w
<1> DEFINE n == Len(notify_queue)
           S == {k \in 0..n : k < n => w >= 0 /\ notify_queue[k + 1] > w}
<1>1. n \in Nat /\ \A i \in 1..n : notify_queue[i] \in Nat
  BY SeqLength, SeqElement
<1>2. S \in SUBSET Nat /\ n \in S
  BY <1>1
<1>3. Min(S) \in S /\ \A y \in S : Min(S) <= y
  BY <1>2, MinFacts, Zenon
<1>4. NotAfter(w) = Min(S)
  BY DEF NotAfter
<1>5. Min(S) \in 0..n
  BY <1>3
<1>6. ASSUME NEW i \in 1..Min(S) PROVE w < 0 \/ notify_queue[i] <= w
  <2>1. i - 1 \in 0..n /\ i - 1 < n /\ i - 1 < Min(S) /\ i - 1 + 1 = i /\ i \in 1..n
    BY <1>1, <1>5
  <2>2. ~(Min(S) <= i - 1)
    BY <1>5, <2>1
  <2>3. i - 1 \notin S
    BY <1>3, <2>2, Zenon
  <2>4. ~(w >= 0 /\ notify_queue[i] > w)
    BY <2>1, <2>3
  <2>5. notify_queue[i] \in Nat
    BY <1>1, <2>1
  <2> QED BY <2>4, <2>5
<1> QED BY <1>4, <1>5, <1>6

\* Never more notifications are released than are queued.
LEMMA ReleasedBound ==
    ASSUME notify_queue \in Seq(Nat), NEW rseq \in Nat, NEW kind
    PROVE  Released(rseq, kind) \in 0..Len(notify_queue)
<1>1. rseq - 1 - (IF kind = "data" THEN 1 ELSE 0) \in Int
  OBVIOUS
<1> QED BY <1>1, NotAfterFacts, Zenon DEF Released

-----------------------------------------------------------------------------
(* Types *)

\* The types hold when serialqueue_alloc returns.
LEMMA TypeInit == Init => TypeOK
<1> SUFFICES ASSUME Init PROVE TypeOK
  OBVIOUS
<1> USE SeqAssumption, BoundsAssumption
<1>1. /\ sent_queue \in Seq(Blocks) /\ notify_queue \in Seq(Nat)
      /\ receive_queue \in Seq(Received) /\ toMcu \in Seq(WireBlocks)
      /\ toHost \in Seq(Replies) /\ dispatched \in Seq(Nat)
  BY SeqNone DEF Init
<1>2. /\ send_seq \in Nat /\ receive_seq \in Nat /\ last_ack_seq \in Nat
      /\ last_ack_bytes \in 0..MESSAGE_MAX /\ ignore_nak_seq \in Nat
      /\ retransmit_seq \in Nat /\ rtt_sample_seq \in Nat
      /\ rto \in 0..MAX_RTO /\ mcu_base \in 1..SEQ_MOD
      /\ faults \in Nat /\ reports \in Nat
  BY DEF Init
<1>3. /\ retransmit_timer \in {"never", "armed", "now"}
      /\ last_receive_sent \in SentTimes
      /\ responded \subseteq Nat /\ lostResponses \subseteq Nat
  BY DEF Init, SentTimes
<1>4. identified \in BOOLEAN /\ need_valid \in BOOLEAN /\ dispatching \in BOOLEAN
  BY Zenon DEF Init
<1> QED BY <1>1, <1>2, <1>3, <1>4, Zenon DEF TypeOK

\* build_and_send_command keeps the types.
LEMMA TypeBuild == TypeOK /\ BuildAndSendCommand => TypeOK'
<1> SUFFICES ASSUME TypeOK, BuildAndSendCommand PROVE TypeOK'
  OBVIOUS
<1>1. PICK b \in NewBlocks, notify \in Notify :
        /\ sent_queue' = Append(sent_queue, b)
        /\ toMcu' = Append(toMcu, Written(b))
        /\ notify_queue' = IF notify THEN Append(notify_queue, send_seq)
                                     ELSE notify_queue
  BY DEF BuildAndSendCommand
<1>2. b \in Blocks /\ Written(b) \in WireBlocks
  BY NewBlock, WrittenBlock DEF TypeOK
<1>4. /\ sent_queue' \in Seq(Blocks) /\ toMcu' \in Seq(WireBlocks)
      /\ notify_queue' \in Seq(Nat)
  BY <1>1, <1>2, SeqAdd, Zenon DEF TypeOK
<1>5. /\ retransmit_timer' \in {"never", "armed", "now"}
      /\ rtt_sample_seq' \in Nat /\ send_seq' \in Nat
  BY DEF BuildAndSendCommand, TimerOnSend, SampleOnSend, TypeOK
<1> QED BY <1>4, <1>5, Zenon DEF BuildAndSendCommand, TypeOK, mcuVars

\* retransmit_event keeps the types.
LEMMA TypeRetransmit == TypeOK /\ RetransmitEvent => TypeOK'
<1> SUFFICES ASSUME TypeOK, RetransmitEvent PROVE TypeOK'
  OBVIOUS
<1> DEFINE again == [i \in DOMAIN sent_queue |-> Written(sent_queue[i])]
<1>1. PICK keep \in FlushPoints, cut \in BOOLEAN :
        toMcu' = Flushed(keep, cut) \o again
  BY Zenon DEF RetransmitEvent
<1>2. keep \in 0..Len(toMcu)
  BY SeqLength DEF FlushPoints, TypeOK
<1>3. Flushed(keep, cut) \in Seq(WireBlocks)
  BY <1>2, FlushedProperties DEF TypeOK
<1>4. /\ DOMAIN sent_queue = 1..Len(sent_queue) /\ Len(sent_queue) \in Nat
      /\ \A i \in 1..Len(sent_queue) : sent_queue[i] \in Blocks
  BY SeqLength, SeqElement DEF TypeOK
<1>5. again \in Seq(WireBlocks)
  BY <1>4, WrittenBlock
<1>6. toMcu' \in Seq(WireBlocks)
  BY <1>1, <1>3, <1>5, SeqJoin, Zenon
<1>7. sent_queue' \in Seq(Blocks)
  BY <1>4, WrittenBlock, SMTT(30) DEF RetransmitEvent
<1>8. /\ ignore_nak_seq' \in Nat /\ retransmit_seq' \in Nat
      /\ rto' \in 0..MAX_RTO /\ rtt_sample_seq' \in Nat
      /\ retransmit_timer' \in {"never", "armed", "now"}
  BY BoundsAssumption DEF RetransmitEvent, DoubledRto, TypeOK
<1> QED BY <1>6, <1>7, <1>8, Zenon DEF RetransmitEvent, TypeOK, mcuVars

\* handle_message keeps the types.
LEMMA TypeHandle == TypeOK /\ HandleMessage => TypeOK'
<1> SUFFICES ASSUME TypeOK, HandleMessage PROVE TypeOK'
  OBVIOUS
<1> DEFINE m == Head(toHost)
           rseq == ReceiveSeq(WireSeq(m.seq))
           acked == rseq - receive_seq
           released == Released(rseq, m.kind)
<1>1. m \in Replies /\ toHost' \in Seq(Replies)
  BY SeqRest DEF HandleMessage, TypeOK
<1>2. m.seq \in Nat /\ m.of \in Nat
  BY <1>1 DEF Replies
<1>3. rseq \in Nat /\ rseq >= receive_seq
  BY <1>2, ReceiveSeqType, Zenon DEF TypeOK
<1>4. CASE HandleValid(m, rseq)
  <2> HIDE DEF m, rseq
  <2>1. /\ receive_seq' \in Nat /\ send_seq' \in Nat
        /\ sent_queue' \in Seq(Blocks) /\ last_receive_sent' \in SentTimes
        /\ last_ack_bytes' \in 0..MESSAGE_MAX
        /\ rto' \in 0..MAX_RTO /\ rtt_sample_seq' \in Nat
    <3>1. CASE rseq = receive_seq
      BY <1>4, <3>1 DEF HandleValid, TypeOK
    <3>2. CASE rseq # receive_seq
      <4>1. UpdateReceiveSeq(rseq)
        BY <1>4, <3>2 DEF HandleValid
      <4>2. Len(sent_queue) \in Nat
        BY SeqLength, Zenon DEF TypeOK
      <4>3. acked \in Nat \ {0}
        BY <1>3, <3>2 DEF TypeOK
      <4>4. CASE acked <= Len(sent_queue)
        <5>1. sent_queue[acked] \in Blocks
          BY <4>2, <4>3, <4>4, SeqElement, SMTT(30) DEF TypeOK
        <5>2. SubSeq(sent_queue, acked + 1, Len(sent_queue)) \in Seq(Blocks)
          <6>1. /\ acked + 1 \in Int /\ 1 <= acked + 1
                /\ Len(sent_queue) \in Int /\ Len(sent_queue) <= Len(sent_queue)
            BY <4>2, <4>3
          <6>2. sent_queue \in Seq(Blocks)
            BY DEF TypeOK
          <6> HIDE DEF acked
          <6> QED BY <6>1, <6>2, SeqPart, Zenon
        <5>3. sent_queue[acked].sent \in SentTimes /\ sent_queue[acked].len \in 0..MESSAGE_MAX
          BY <5>1, BoundsAssumption DEF Blocks
        <5>4. /\ receive_seq' = rseq /\ send_seq' = send_seq
              /\ sent_queue' = SubSeq(sent_queue, acked + 1, Len(sent_queue))
              /\ last_receive_sent' = sent_queue[acked].sent
              /\ last_ack_bytes' = sent_queue[acked].len
          BY <4>1, <4>4, Zenon DEF UpdateReceiveSeq
        <5>5. rto' \in 0..MAX_RTO /\ rtt_sample_seq' \in Nat
          <6>1. \/ rto' = 0 /\ rtt_sample_seq' = 0
                \/ rto' = rto /\ rtt_sample_seq' = rtt_sample_seq
            BY <4>1, Zenon DEF UpdateReceiveSeq
          <6> QED BY <6>1, BoundsAssumption, SMTT(30) DEF TypeOK
        <5> HIDE DEF acked
        <5> QED BY <5>2, <5>3, <5>4, <5>5, <1>3, Zenon DEF TypeOK
      <4>5. CASE ~(acked <= Len(sent_queue))
        BY <4>1, <4>5, <1>3, SeqNone, Zenon DEF UpdateReceiveSeq, TypeOK, SentTimes
      <4> QED BY <4>4, <4>5, Zenon
    <3> QED BY <3>1, <3>2, Zenon
  <2>2. /\ released \in 0..Len(notify_queue) /\ Len(notify_queue) \in Nat
        /\ \A i \in 1..Len(notify_queue) : notify_queue[i] \in Nat
    BY <1>3, ReleasedBound, SeqLength, SeqElement, Zenon DEF TypeOK
  <2>3. notify_queue' \in Seq(Nat)
    <3>1. notify_queue' = SubSeq(notify_queue, released + 1, Len(notify_queue))
      BY <1>4 DEF HandleValid
    <3> HIDE DEF released
    <3> QED BY <3>1, <2>2, SeqPart, SMTT(30)
  <2>4. receive_queue' \in Seq(Received)
    <3> DEFINE notes == [i \in 1..released |-> [kind |-> "notify",
                                               of |-> notify_queue[i],
                                               sent |-> last_receive_sent']]
               data == [kind |-> "data", of |-> m.of,
                        sent |-> IF TrustSentTime(rseq)
                                 THEN last_receive_sent' ELSE "none"]
               answer == IF m.kind = "data" THEN <<data>> ELSE <<>>
    <3>1. receive_queue' = receive_queue \o notes \o answer
      BY <1>4 DEF HandleValid
    <3>2. notes \in Seq(Received)
      <4> HIDE DEF released
      <4> QED BY <2>1, <2>2, SMTT(30) DEF Received
    <3>3. data \in Received
      BY <2>1, <1>2 DEF Received, SentTimes, m
    <3>4. answer \in Seq(Received)
      <4> HIDE DEF data
      <4> QED BY <3>3, SeqNone, SMTT(30)
    <3> HIDE DEF notes, answer
    <3> QED BY <3>1, <3>2, <3>4, SeqJoin, Zenon DEF TypeOK
  <2>5. last_ack_seq' \in Nat /\ retransmit_timer' \in {"never", "armed", "now"}
    BY <1>4, <1>3, Zenon DEF HandleValid, TypeOK
  <2> QED BY <1>1, <2>1, <2>3, <2>4, <2>5, Zenon DEF HandleMessage, TypeOK, mcuVars
<1>5. CASE ~HandleValid(m, rseq)
  BY <1>1, <1>5, Zenon DEF HandleMessage, TypeOK, mcuVars
<1> QED BY <1>4, <1>5, Zenon

\* Every step of the mcu, of its tasks and of the wires keeps the types; the
\* block being dispatched is still the head of the receive buffer.
LEMMA TypeMcu ==
    ASSUME TypeOK, dispatching => toMcu # <<>>,
           \/ DispatchBlock \/ FinishBlock \/ NakBlock \/ SkipGarbage
           \/ ReportTask
    PROVE  TypeOK'
<1>0. McuNext \in Nat /\ Len(dispatched) \in Nat
  BY SeqAssumption, SeqLength, SMTT(30) DEF TypeOK, McuNext
<1>1. \A k \in {"ack", "data"}, s \in Nat, o \in Nat :
        Sent(<<[kind |-> k, seq |-> s, of |-> o]>>) \in Seq(Replies)
  <2>1. \A k \in {"ack", "data"}, s \in Nat, o \in Nat :
          [kind |-> k, seq |-> s, of |-> o] \in Replies
    BY DEF Replies
  <2> QED BY <2>1, SentProperties, Zenon DEF TypeOK
<1>2. Sent(AckNak(McuNext)) \in Seq(Replies)
  BY <1>0, <1>1 DEF AckNak
<1>3. toMcu # <<>> => /\ Tail(toMcu) \in Seq(WireBlocks)
                      /\ Head(toMcu) \in WireBlocks
  BY SeqRest, SMTT(30) DEF TypeOK
<1>4. CASE DispatchBlock
  <2> DEFINE b == Head(toMcu)
  <2>1. b.seq \in Nat
    BY <1>3, <1>4, Zenon DEF DispatchBlock, WireBlocks
  <2>2. dispatched' \in Seq(Nat)
    BY <2>1, <1>4, SeqAdd, Zenon DEF DispatchBlock, TypeOK
  <2>3. /\ toHost' \in Seq(Replies)
        /\ responded' \subseteq Nat /\ lostResponses' \subseteq Nat
    <3>1. PICK respond \in Respond :
            LET msg == <<[kind |-> "data", seq |-> McuNext + 1, of |-> b.seq]>>
            IN IF respond
               THEN /\ responded' = responded \cup {b.seq}
                    /\ toHost' = Sent(msg)
                    /\ lostResponses' = IF toHost' = toHost
                                        THEN lostResponses \cup {b.seq}
                                        ELSE lostResponses
               ELSE UNCHANGED <<responded, toHost, lostResponses>>
      BY <1>4, Zenon DEF DispatchBlock
    <3>2. Sent(<<[kind |-> "data", seq |-> McuNext + 1, of |-> b.seq]>>) \in Seq(Replies)
      BY <1>0, <1>1, <2>1, SMTT(30)
    <3> QED BY <3>1, <3>2, <2>1, Zenon DEF TypeOK
  <2> QED BY <1>4, <2>2, <2>3, Zenon DEF DispatchBlock, TypeOK, hostVars
<1>5. CASE FinishBlock
  BY <1>2, <1>3, <1>5, Zenon DEF FinishBlock, TypeOK, hostVars
<1>6. CASE NakBlock
  BY <1>2, <1>3, <1>6, Zenon DEF NakBlock, TypeOK, hostVars
<1>7. CASE SkipGarbage
  BY <1>2, <1>3, <1>7, ZenonT(40) DEF SkipGarbage, TypeOK, hostVars
<1>8. CASE ReportTask
  BY <1>0, <1>1, <1>8, SMTT(30) DEF ReportTask, TypeOK, hostVars, mcuVars
<1> QED BY <1>4, <1>5, <1>6, <1>7, <1>8, Zenon

\* The wires keep the types.
LEMMA TypeWires ==
    ASSUME TypeOK, LoseBlock \/ CorruptBlock \/ LoseMessage
    PROVE  TypeOK'
<1>0. /\ DOMAIN toMcu = 1..Len(toMcu) /\ DOMAIN toHost = 1..Len(toHost)
      /\ OnWire \subseteq 1..Len(toMcu)
      /\ \A i \in 1..Len(toMcu) : toMcu[i] \in WireBlocks
      /\ \A i \in 1..Len(toHost) : toHost[i] \in Replies
  BY SeqLength, SeqElement, Zenon DEF TypeOK, OnWire
<1>1. CASE LoseBlock
  <2>1. toMcu' \in Seq(WireBlocks)
    BY <1>0, <1>1, WithoutProperties, SMTT(30) DEF LoseBlock, TypeOK
  <2> QED BY <1>1, <2>1, SMTT(30) DEF LoseBlock, TypeOK, hostVars, mcuVars
<1>2. CASE CorruptBlock
  <2>1. toMcu' \in Seq(WireBlocks)
    BY <1>0, <1>2, DamagedBlock, SeqReplace, SMTT(30) DEF CorruptBlock, TypeOK
  <2> QED BY <1>2, <2>1, SMTT(30) DEF CorruptBlock, TypeOK, hostVars, mcuVars
<1>3. CASE LoseMessage
  <2>1. toHost' \in Seq(Replies) /\ lostResponses' \subseteq Nat
    <3>1. PICK i \in 1..Len(toHost) :
            /\ toHost' = Without(toHost, i)
            /\ lostResponses' = IF toHost[i].kind = "data"
                                THEN lostResponses \cup {toHost[i].of}
                                ELSE lostResponses
      BY <1>0, <1>3, Zenon DEF LoseMessage
    <3>2. toHost[i].of \in Nat
      BY <1>0 DEF Replies
    <3> QED BY <3>1, <3>2, WithoutProperties, Zenon DEF TypeOK
  <2> QED BY <1>3, <2>1, SMTT(30) DEF LoseMessage, TypeOK, hostVars, mcuVars
<1> QED BY <1>1, <1>2, <1>3

-----------------------------------------------------------------------------
(* Sequence numbers agree: the inductive invariant *)

\* The invariant holds when serialqueue_alloc returns: nothing was sent.
LEMMA SeqInit == Init => SeqInv
<1> SUFFICES ASSUME Init PROVE SeqInv
  OBVIOUS
<1>1. /\ Len(sent_queue) = 0 /\ Len(toMcu) = 0 /\ Len(toHost) = 0
      /\ Len(dispatched) = 0 /\ McuNext = mcu_base
      /\ mcu_base \in Nat /\ mcu_base >= 1
  BY SeqAssumption, SeqNone, SMTT(30) DEF Init, McuNext
<1>2. DOMAIN dispatched = {}
  BY SMTT(30) DEF Init
<1>3. OpeningInv /\ SentQueueInv /\ ToHostInv /\ ToMcuInv
  BY <1>1, SeqAssumption DEF Init, OpeningInv, Joined, SentQueueInv, ToHostInv, ToMcuInv
<1>4. ~dispatching /\ ~identified /\ receive_seq <= McuNext
  BY <1>1 DEF Init
<1> QED BY <1>2, <1>3, <1>4, Zenon DEF SeqInv, ExactlyOnceInOrder

\* Taking blocks off the wire, or damaging them, keeps the facts about those
\* that remain: f tells where each of them was.
LEMMA FewerToMcu ==
    ASSUME ToMcuInv, send_seq' = send_seq, McuNext' = McuNext,
           toMcu \in Seq(WireBlocks), toMcu' \in Seq(WireBlocks),
           NEW f \in [1..Len(toMcu') -> 1..Len(toMcu)],
           \A i, j \in 1..Len(toMcu') : i < j => f[i] < f[j],
           \A i \in 1..Len(toMcu') : toMcu'[i].seq = toMcu[f[i]].seq
    PROVE  /\ ToMcuInv'
           /\ (\A i \in 1..Len(toMcu) : toMcu[i].seq = 1) =>
                \A i \in 1..Len(toMcu') : toMcu'[i].seq = 1
<1>1. \A i \in 1..Len(toMcu') : f[i] \in 1..Len(toMcu)
  OBVIOUS
<1>2. ASSUME NEW i \in 1..Len(toMcu')
      PROVE  /\ toMcu'[i].seq < send_seq'
             /\ McuNext' < toMcu'[i].seq + SEQ_MOD
  BY <1>1, Zenon DEF ToMcuInv
<1>3. ASSUME NEW i \in 1..Len(toMcu'), NEW j \in 1..Len(toMcu'), i < j
      PROVE  toMcu'[i].seq < toMcu'[j].seq + MAX_PENDING_BLOCKS
  <2>1. f[i] < f[j]
    BY <1>3
  <2> QED BY <1>1, <2>1, Zenon DEF ToMcuInv
<1>4. ToMcuInv'
  BY <1>2, <1>3, Zenon DEF ToMcuInv
<1>5. ASSUME \A i \in 1..Len(toMcu) : toMcu[i].seq = 1,
             NEW i \in 1..Len(toMcu')
      PROVE  toMcu'[i].seq = 1
  <2>1. f[i] \in 1..Len(toMcu)
    BY <1>1, Zenon
  <2>2. toMcu[f[i]].seq = 1
    BY <1>5, <2>1, Zenon
  <2> QED BY <2>2, Zenon
<1> QED BY <1>4, <1>5

\* The same for the messages to the host.
LEMMA FewerToHost ==
    ASSUME ToHostInv, receive_seq' = receive_seq, McuNext' = McuNext,
           toHost \in Seq(Replies), toHost' \in Seq(Replies),
           NEW f \in [1..Len(toHost') -> 1..Len(toHost)],
           \A i, j \in 1..Len(toHost') : i < j => f[i] < f[j],
           \A i \in 1..Len(toHost') : toHost'[i].seq = toHost[f[i]].seq
    PROVE  /\ ToHostInv'
           /\ (\A i \in 1..Len(toHost) : toHost[i].seq = McuNext) =>
                \A i \in 1..Len(toHost') : toHost'[i].seq = McuNext'
  BY Zenon DEF ToHostInv

\* A message that the mcu sends carries its current number, the largest yet.
LEMMA MoreToHost ==
    ASSUME ToHostInv, receive_seq' = receive_seq, receive_seq \in Nat,
           McuNext \in Nat, McuNext' \in Nat, McuNext <= McuNext',
           receive_seq <= McuNext,
           toHost \in Seq(Replies), NEW m \in Replies, m.seq = McuNext',
           toHost' = toHost \/ toHost' = Append(toHost, m)
    PROVE  /\ ToHostInv'
           /\ (McuNext' = McuNext
                 /\ \A i \in 1..Len(toHost) : toHost[i].seq = McuNext) =>
                \A i \in 1..Len(toHost') : toHost'[i].seq = McuNext'
<1>0. /\ Len(toHost) \in Nat
      /\ \A i \in 1..Len(toHost) : toHost[i].seq \in Nat
  <2>1. \A i \in 1..Len(toHost) : toHost[i] \in Replies
    BY SeqElement, Zenon
  <2> QED BY <2>1, SeqLength, Zenon DEF Replies
<1>1. CASE toHost' = toHost
  BY <1>0, <1>1, SMTT(30) DEF ToHostInv
<1>2. CASE toHost' = Append(toHost, m)
  <2>1. /\ Len(toHost') = Len(toHost) + 1
        /\ \A i \in 1..Len(toHost) : toHost'[i] = toHost[i]
        /\ toHost'[Len(toHost) + 1] = m
    BY <1>2, SeqAdd
  <2>2. \A i \in 1..(Len(toHost) + 1) : i \in 1..Len(toHost) \/ i = Len(toHost) + 1
    BY <1>0, SMTT(30)
  <2>3. \A i \in 1..Len(toHost') : /\ receive_seq' <= toHost'[i].seq
                                    /\ toHost'[i].seq <= McuNext'
    BY <1>0, <2>1, <2>2, SMTT(30) DEF ToHostInv
  <2>4. ASSUME NEW i \in 1..Len(toHost'), NEW j \in 1..Len(toHost'), i < j
        PROVE  toHost'[i].seq <= toHost'[j].seq
    <3>1. i \in 1..Len(toHost)
      BY <1>0, <2>1, <2>4, SMTT(30)
    <3>2. CASE j \in 1..Len(toHost)
      BY <2>1, <2>4, <3>1, <3>2, Zenon DEF ToHostInv
    <3>3. CASE j = Len(toHost) + 1
      BY <1>0, <2>1, <3>1, <3>3, SMTT(30) DEF ToHostInv
    <3> QED BY <2>1, <2>2, <3>2, <3>3
  <2>5. \A i \in 1..Len(toHost') :
          toHost'[i].seq = McuNext' \/ \E j \in 1..Len(toHost) : toHost'[i] = toHost[j]
    BY <2>1, <2>2, Zenon
  <2> QED BY <2>3, <2>4, <2>5, Zenon DEF ToHostInv
<1> QED BY <1>1, <1>2

\* Facts used in every step: the lengths, and where the mcu's counter is.
LEMMA SeqFacts ==
    ASSUME TypeOK
    PROVE  /\ Len(toMcu) \in Nat /\ Len(toHost) \in Nat
           /\ Len(sent_queue) \in Nat /\ Len(dispatched) \in Nat
           /\ DOMAIN toMcu = 1..Len(toMcu) /\ DOMAIN toHost = 1..Len(toHost)
           /\ DOMAIN sent_queue = 1..Len(sent_queue)
           /\ DOMAIN dispatched = 1..Len(dispatched)
           /\ \A i \in 1..Len(toMcu) : toMcu[i] \in WireBlocks /\ toMcu[i].seq \in Nat
           /\ \A i \in 1..Len(toHost) : toHost[i] \in Replies /\ toHost[i].seq \in Nat
           /\ \A i \in 1..Len(sent_queue) : sent_queue[i] \in Blocks /\ sent_queue[i].seq \in Nat
           /\ McuNext \in Nat /\ mcu_base \in Nat /\ mcu_base <= SEQ_MOD
           /\ send_seq \in Nat /\ receive_seq \in Nat
<1>1. /\ \A i \in 1..Len(toMcu) : toMcu[i] \in WireBlocks
      /\ \A i \in 1..Len(toHost) : toHost[i] \in Replies
      /\ \A i \in 1..Len(sent_queue) : sent_queue[i] \in Blocks
  BY SeqElement DEF TypeOK
<1>2. /\ \A b \in WireBlocks : b.seq \in Nat
      /\ \A b \in Replies : b.seq \in Nat
      /\ \A b \in Blocks : b.seq \in Nat
  BY DEF WireBlocks, Replies, Blocks
<1>3. /\ Len(toMcu) \in Nat /\ Len(toHost) \in Nat
      /\ Len(sent_queue) \in Nat /\ Len(dispatched) \in Nat
      /\ DOMAIN toMcu = 1..Len(toMcu) /\ DOMAIN toHost = 1..Len(toHost)
      /\ DOMAIN sent_queue = 1..Len(sent_queue)
      /\ DOMAIN dispatched = 1..Len(dispatched)
  BY SeqLength, Zenon DEF TypeOK
<1>4. /\ McuNext \in Nat /\ mcu_base \in Nat /\ mcu_base <= SEQ_MOD
      /\ send_seq \in Nat /\ receive_seq \in Nat
  BY <1>3, SeqAssumption, SMTT(30) DEF TypeOK, McuNext
<1> QED BY <1>1, <1>2, <1>3, <1>4, Zenon

\* command_find_block: a block on the wire that carries the expected four
\* bits is the expected block.
LEMMA SameBlock ==
    ASSUME TypeOK, SeqInv, toMcu # <<>>,
           WireSeq(Head(toMcu).seq) = WireSeq(McuNext)
    PROVE  /\ Head(toMcu) = toMcu[1] /\ 1 \in 1..Len(toMcu)
           /\ Head(toMcu).seq = McuNext
<1> DEFINE b == toMcu[1].seq
<1>1. Head(toMcu) = toMcu[1] /\ 1 \in 1..Len(toMcu)
  BY SeqFacts, SeqNone, SMTT(30) DEF TypeOK
<1>2. b \in Nat /\ McuNext \in Nat /\ send_seq \in Nat /\ receive_seq \in Nat
  BY <1>1, SeqFacts, Zenon
<1>3. b < send_seq /\ McuNext < b + SEQ_MOD
  BY <1>1 DEF SeqInv, ToMcuInv
<1>4. send_seq - receive_seq <= MAX_PENDING_BLOCKS /\ receive_seq <= McuNext
  BY DEF SeqInv, SentQueueInv
<1> HIDE DEF b
<1>5. b < McuNext + SEQ_MOD
  BY <1>2, <1>3, <1>4, SeqAssumption, SMTT(30)
<1>6. WireSeq(b) = WireSeq(McuNext)
  BY <1>1 DEF b
<1> QED BY <1>1, <1>2, <1>3, <1>5, <1>6, WireSeqUnique, ZenonT(40) DEF b

\* handle_message: the number decoded from a message is the one it was sent
\* with.
LEMMA SameMessage ==
    ASSUME TypeOK, SeqInv, toHost # <<>>
    PROVE  /\ Head(toHost) = toHost[1] /\ 1 \in 1..Len(toHost)
           /\ ReceiveSeq(WireSeq(Head(toHost).seq)) = Head(toHost).seq
<1> DEFINE a == toHost[1].seq
<1>1. Head(toHost) = toHost[1] /\ 1 \in 1..Len(toHost)
  BY SeqFacts, SeqNone, SMTT(30) DEF TypeOK
<1>2. /\ a \in Nat /\ McuNext \in Nat /\ send_seq \in Nat /\ receive_seq \in Nat
      /\ mcu_base \in Nat /\ mcu_base <= SEQ_MOD
  BY <1>1, SeqFacts
<1>3. receive_seq <= a /\ a <= McuNext
  BY <1>1 DEF SeqInv, ToHostInv
<1>4. /\ send_seq - receive_seq <= MAX_PENDING_BLOCKS
      /\ ~Joined => receive_seq = 1 /\ McuNext = mcu_base
  <2>1. ~Joined => receive_seq = 1 /\ dispatched = <<>>
    BY DEF SeqInv, OpeningInv
  <2>2. dispatched = <<>> => McuNext = mcu_base
    BY <1>2, SeqNone DEF McuNext
  <2> QED BY <2>1, <2>2, Zenon DEF SeqInv, SentQueueInv
<1> HIDE DEF a
<1>5. a < receive_seq + SEQ_MOD
  BY <1>2, <1>3, <1>4, SeqAssumption, SMTT(30) DEF Joined
<1>6. ReceiveSeq(WireSeq(a)) = a
  BY <1>2, <1>3, <1>5, ReceiveSeqDecodes, Zenon
<1> QED BY <1>1, <1>6, Zenon DEF a

\* Dispatching a block keeps the invariant: it is the block expected, so the
\* mcu stays behind send_seq and no block on the wire becomes too old.
LEMMA SeqDispatch == TypeOK /\ TypeOK' /\ SeqInv /\ DispatchBlock => SeqInv'
<1> SUFFICES ASSUME TypeOK, TypeOK', SeqInv, DispatchBlock PROVE SeqInv'
  BY Zenon
<1> DEFINE b == Head(toMcu)
<1>0. /\ UNCHANGED <<send_seq, receive_seq, sent_queue, identified, mcu_base, toMcu>>
      /\ dispatched' = Append(dispatched, b.seq)
      /\ toMcu # <<>>
  BY DEF DispatchBlock, hostVars
<1>1. b.seq = McuNext /\ b = toMcu[1] /\ 1 \in 1..Len(toMcu)
  BY SameBlock, Zenon DEF DispatchBlock
<1>2. /\ Len(dispatched') = Len(dispatched) + 1
      /\ \A i \in 1..Len(dispatched) : dispatched'[i] = dispatched[i]
      /\ dispatched'[Len(dispatched) + 1] = McuNext
  BY <1>0, <1>1, SeqFacts, SeqAdd, SMTT(30) DEF TypeOK
<1>3. McuNext' = McuNext + 1
  BY <1>0, <1>2, SeqFacts, SMTT(30) DEF McuNext
<1>4. toMcu[1].seq = McuNext /\ 1 \in 1..Len(toMcu)
  BY <1>1
<1>5. McuNext < send_seq
  BY <1>4, Zenon DEF SeqInv, ToMcuInv
<1>6. OpeningInv'
  BY <1>0, <1>3, <1>5, SeqFacts, SMTT(30) DEF OpeningInv, Joined
<1>7. SentQueueInv'
  BY <1>0, Zenon DEF SeqInv, SentQueueInv
<1>8. ToHostInv'
  <2> DEFINE msg == [kind |-> "data", seq |-> McuNext + 1, of |-> b.seq]
  <2>1. toHost' = toHost \/ toHost' = Sent(<<msg>>)
    BY Zenon DEF DispatchBlock
  <2>2. msg \in Replies /\ msg.seq = McuNext'
    BY <1>1, <1>3, SeqFacts, SMTT(30) DEF Replies
  <2> HIDE DEF msg
  <2>3. toHost' = toHost \/ toHost' = Append(toHost, msg)
    BY <2>1, <2>2, SentProperties, Zenon DEF TypeOK
  <2>4. /\ McuNext \in Nat /\ McuNext' \in Nat /\ McuNext <= McuNext'
        /\ receive_seq \in Nat
    BY <1>3, SeqFacts, SMTT(30)
  <2>5. receive_seq' = receive_seq /\ receive_seq <= McuNext /\ ToHostInv
    BY <1>0 DEF SeqInv
  <2>6. toHost \in Seq(Replies)
    BY Zenon DEF TypeOK
  <2> QED BY <2>2, <2>3, <2>4, <2>5, <2>6, MoreToHost, ZenonT(40)
<1>9. ToMcuInv'
  <2>1. ASSUME NEW i \in 1..Len(toMcu)
        PROVE  toMcu[i].seq < send_seq /\ McuNext + 1 < toMcu[i].seq + SEQ_MOD
    <3>1. toMcu[i].seq \in Nat /\ McuNext \in Nat
      BY SeqFacts, Zenon
    <3>2. i = 1 \/ 1 < i
      BY SeqFacts
    <3>3. i = 1 \/ McuNext < toMcu[i].seq + MAX_PENDING_BLOCKS
      BY <1>4, <3>2, Zenon DEF SeqInv, ToMcuInv
    <3>4. McuNext + 1 < toMcu[i].seq + SEQ_MOD
      BY <3>1, <3>3, <1>4, SeqAssumption, SMTT(30)
    <3>5. toMcu[i].seq < send_seq
      BY DEF SeqInv, ToMcuInv
    <3> QED BY <3>4, <3>5, Zenon
  <2> QED BY <1>0, <1>3, <2>1, Zenon DEF SeqInv, ToMcuInv
<1>10. ExactlyOnceInOrder'
  <2>1. ASSUME NEW i \in 1..(Len(dispatched) + 1)
        PROVE  dispatched'[i] = mcu_base + i - 1
    <3>1. CASE i \in 1..Len(dispatched)
      BY <3>1, <1>2, SeqFacts, Zenon DEF SeqInv, ExactlyOnceInOrder
    <3>2. CASE i = Len(dispatched) + 1
      BY <3>2, <1>2, SeqFacts, SMTT(30) DEF McuNext
    <3>3. i \in 1..Len(dispatched) \/ i = Len(dispatched) + 1
      BY SeqFacts, SMTT(30)
    <3> QED BY <3>1, <3>2, <3>3
  <2>2. DOMAIN dispatched' = 1..(Len(dispatched) + 1)
    BY <1>2, SeqLength, Zenon DEF TypeOK
  <2> QED BY <1>0, <2>1, <2>2, Zenon DEF ExactlyOnceInOrder
<1>11. /\ (receive_seq <= McuNext)' /\ (dispatching => toMcu # <<>>)'
       /\ (identified => receive_seq # 1)'
  BY <1>0, <1>3, SeqFacts, SMTT(30) DEF SeqInv
<1> QED BY <1>6, <1>7, <1>8, <1>9, <1>10, <1>11, Zenon DEF SeqInv

\* What a step of the mcu that dispatches nothing, of its tasks or of the
\* wires leaves alone.
LEMMA SeqQuiet ==
    ASSUME TypeOK, SeqInv,
           UNCHANGED <<send_seq, receive_seq, sent_queue, identified,
                       mcu_base, dispatched>>,
           ToMcuInv', ToHostInv', dispatching' => toMcu' # <<>>,
           (\A i \in 1..Len(toMcu) : toMcu[i].seq = 1) =>
                \A i \in 1..Len(toMcu') : toMcu'[i].seq = 1,
           (\A i \in 1..Len(toHost) : toHost[i].seq = McuNext) =>
                \A i \in 1..Len(toHost') : toHost'[i].seq = McuNext'
    PROVE  SeqInv'
<1>1. McuNext' = McuNext
  BY DEF McuNext
<1>2. OpeningInv'
  BY <1>1, Zenon DEF SeqInv, OpeningInv, Joined
<1>3. SentQueueInv'
  BY DEF SeqInv, SentQueueInv
<1>4. ExactlyOnceInOrder'
  BY DEF SeqInv, ExactlyOnceInOrder
<1>5. (receive_seq <= McuNext)' /\ (identified => receive_seq # 1)'
  BY <1>1 DEF SeqInv
<1> QED BY <1>2, <1>3, <1>4, <1>5, Zenon DEF SeqInv

\* Popping the first block.
LEMMA TailToMcu ==
    ASSUME TypeOK, SeqInv, toMcu # <<>>, toMcu' = Tail(toMcu),
           send_seq' = send_seq, McuNext' = McuNext
    PROVE  /\ ToMcuInv'
           /\ (\A i \in 1..Len(toMcu) : toMcu[i].seq = 1) =>
                \A i \in 1..Len(toMcu') : toMcu'[i].seq = 1
<1>1. /\ toMcu \in Seq(WireBlocks) /\ toMcu' \in Seq(WireBlocks)
      /\ Len(toMcu') = Len(toMcu) - 1 /\ Len(toMcu) \in Nat
      /\ \A i \in 1..Len(toMcu') : toMcu'[i] = toMcu[i + 1]
  BY SeqRest, SeqLength, Zenon DEF TypeOK
<1> DEFINE f == [i \in 1..Len(toMcu') |-> i + 1]
<1>2. f \in [1..Len(toMcu') -> 1..Len(toMcu)]
  BY <1>1
<1>3. /\ \A i, j \in 1..Len(toMcu') : i < j => f[i] < f[j]
      /\ \A i \in 1..Len(toMcu') : toMcu'[i].seq = toMcu[f[i]].seq
  BY <1>1
<1>4. ToMcuInv
  BY DEF SeqInv
<1> HIDE DEF f
<1> QED BY <1>1, <1>2, <1>3, <1>4, FewerToMcu, Zenon

\* An ack, a nak or a report of the mcu.
LEMMA AckToHost ==
    ASSUME TypeOK, SeqInv, McuNext' = McuNext, receive_seq' = receive_seq,
           NEW m \in Replies, m.seq = McuNext,
           toHost' = toHost \/ toHost' = Sent(<<m>>)
    PROVE  /\ ToHostInv'
           /\ (\A i \in 1..Len(toHost) : toHost[i].seq = McuNext) =>
                \A i \in 1..Len(toHost') : toHost'[i].seq = McuNext'
<1>1. toHost \in Seq(Replies)
  BY DEF TypeOK
<1>2. toHost' = toHost \/ toHost' = Append(toHost, m)
  BY <1>1, SentProperties, Zenon
<1>3. McuNext \in Nat /\ McuNext' \in Nat /\ receive_seq \in Nat /\ McuNext <= McuNext'
  BY SeqFacts
<1>4. ToHostInv /\ receive_seq <= McuNext
  BY Zenon DEF SeqInv
<1> QED BY <1>1, <1>2, <1>3, <1>4, MoreToHost, Zenon

\* Finishing, naking and skipping a block keep the invariant.
LEMMA SeqMcu ==
    ASSUME TypeOK, SeqInv, FinishBlock \/ NakBlock \/ SkipGarbage
    PROVE  SeqInv'
<1>0. /\ UNCHANGED <<send_seq, receive_seq, sent_queue, identified,
                     mcu_base, dispatched>>
      /\ toMcu # <<>> /\ toMcu' = Tail(toMcu)
      /\ toHost' = toHost \/ toHost' = Sent(AckNak(McuNext))
      /\ ~dispatching'
  BY DEF FinishBlock, NakBlock, SkipGarbage, hostVars, SeqInv
<1>1. McuNext' = McuNext
  BY <1>0, Zenon DEF McuNext
<1>2. [kind |-> "ack", seq |-> McuNext, of |-> 0] \in Replies
  BY SeqFacts, Zenon DEF Replies
<1> DEFINE m == [kind |-> "ack", seq |-> McuNext, of |-> 0]
<1>3. m.seq = McuNext /\ AckNak(McuNext) = <<m>>
  BY DEF AckNak
<1> HIDE DEF m
<1>4. m \in Replies
  BY <1>2 DEF m
<1> QED BY <1>0, <1>1, <1>3, <1>4, AckToHost, TailToMcu, SeqQuiet, Zenon

\* An unsolicited message of the mcu keeps the invariant.
LEMMA SeqReport ==
    ASSUME TypeOK, SeqInv, ReportTask
    PROVE  SeqInv'
<1>0. /\ UNCHANGED <<send_seq, receive_seq, sent_queue, identified,
                     mcu_base, dispatched, toMcu, dispatching>>
      /\ toHost' = Sent(<<[kind |-> "data", seq |-> McuNext, of |-> 0]>>)
  BY Zenon DEF ReportTask, hostVars, mcuVars
<1>1. McuNext' = McuNext
  BY <1>0, Zenon DEF McuNext
<1> DEFINE m == [kind |-> "data", seq |-> McuNext, of |-> 0]
<1>2. m.seq = McuNext /\ m \in Replies
  BY SeqFacts, Zenon DEF Replies
<1> HIDE DEF m
<1>3. toHost' = Sent(<<m>>)
  BY <1>0, Zenon DEF m
<1>4. ToMcuInv' /\ (dispatching' => toMcu' # <<>>)
  BY <1>0, <1>1, Zenon DEF SeqInv, ToMcuInv
<1> QED BY <1>0, <1>1, <1>2, <1>3, <1>4, AckToHost, SeqQuiet, Zenon

=============================================================================
