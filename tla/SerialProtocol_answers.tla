----------------------- MODULE SerialProtocol_answers -----------------------
(***************************************************************************)
(* Proofs about SerialProtocol, third part, from the invariant TypeOK /\   *)
(* SeqInv: no time is taken from a block that was written more than once,  *)
(* and the notification that a block was acked comes after the response    *)
(* to the block.                                                           *)
(***************************************************************************)
EXTENDS SerialProtocol_proofs

-----------------------------------------------------------------------------
(* No time is taken from a block that was written more than once *)

\* Nothing was written when the session begins.
LEMMA TimesInit == Init => TimesInv
<1> SUFFICES ASSUME Init PROVE TimesInv
  OBVIOUS
<1>1. Len(sent_queue) = 0 /\ DOMAIN receive_queue = {}
  BY SeqNone, SMTT(30) DEF Init
<1> QED BY <1>1 DEF Init, TimesInv, SentTimeUnambiguous

\* A new block was written once; it starts a measurement if none is running.
LEMMA TimesBuild ==
    ASSUME TypeOK, SeqInv, TimesInv, BuildAndSendCommand
    PROVE  TimesInv'
<1>1. PICK b \in NewBlocks : sent_queue' = Append(sent_queue, b)
  BY DEF BuildAndSendCommand
<1>2. /\ UNCHANGED <<receive_seq, retransmit_seq, last_receive_sent, receive_queue>>
      /\ send_seq' = send_seq + 1 /\ rtt_sample_seq' \in {send_seq, rtt_sample_seq}
  BY DEF BuildAndSendCommand, SampleOnSend
<1>3. /\ send_seq \in Nat /\ retransmit_seq \in Nat /\ rtt_sample_seq \in Nat
      /\ sent_queue \in Seq(Blocks)
  BY DEF TypeOK
<1>4. b \in Blocks /\ b.sent = "once"
  BY <1>3, NewBlock, Zenon
<1>5. /\ Len(sent_queue') = Len(sent_queue) + 1 /\ Len(sent_queue) \in Nat
      /\ \A i \in 1..Len(sent_queue) : sent_queue'[i] = sent_queue[i]
      /\ sent_queue'[Len(sent_queue) + 1] = b
  BY <1>1, <1>3, <1>4, SeqAdd, SeqLength, SMTT(30)
<1>6. \A i \in 1..Len(sent_queue') :
        sent_queue'[i].sent = "resent" => sent_queue'[i].seq < retransmit_seq
  <2> TAKE i \in 1..Len(sent_queue')
  <2>1. i \in 1..Len(sent_queue) \/ i = Len(sent_queue) + 1
    BY <1>5, LastIndex, Zenon
  <2> QED BY <2>1, <1>4, <1>5, Zenon DEF TimesInv
<1>7. retransmit_seq <= send_seq' /\ (rtt_sample_seq' # 0 => rtt_sample_seq' >= retransmit_seq)
  BY <1>2, <1>3, SMTT(30) DEF TimesInv
<1> QED BY <1>2, <1>6, <1>7, Zenon DEF TimesInv, SentTimeUnambiguous

\* retransmit_event marks all that is outstanding and ends the measurement.
LEMMA TimesRetransmit ==
    ASSUME TypeOK, SeqInv, TimesInv, RetransmitEvent
    PROVE  TimesInv'
<1>1. /\ UNCHANGED <<send_seq, receive_seq, last_receive_sent, receive_queue>>
      /\ retransmit_seq' = send_seq /\ rtt_sample_seq' = 0
      /\ sent_queue' = [i \in DOMAIN sent_queue |-> Resent(sent_queue[i])]
  BY Zenon DEF RetransmitEvent
<1>2. /\ send_seq \in Nat /\ receive_seq \in Nat /\ Len(sent_queue) \in Nat
      /\ DOMAIN sent_queue = 1..Len(sent_queue) /\ retransmit_seq \in Nat
      /\ \A i \in 1..Len(sent_queue) : sent_queue[i] \in Blocks
  BY SeqFacts, Zenon DEF TypeOK
<1>3. /\ Len(sent_queue) = send_seq - receive_seq
      /\ \A i \in 1..Len(sent_queue) : sent_queue[i].seq = receive_seq + i - 1
  BY Zenon DEF SeqInv, SentQueueInv
<1>4. Len(sent_queue') = Len(sent_queue)
  BY <1>1, <1>2
<1>5. \A i \in 1..Len(sent_queue') : sent_queue'[i].seq < send_seq
  BY <1>1, <1>2, <1>3, <1>4, WrittenBlock, SMTT(30)
<1>6. receive_seq <= send_seq
  BY <1>2, <1>3, SMTT(30)
<1> QED BY <1>1, <1>2, <1>5, <1>6, SMTT(30) DEF TimesInv, SentTimeUnambiguous

\* A queue extended twice.
LEMMA ConcatTwice ==
    ASSUME NEW S, NEW p \in Seq(S), NEW q \in Seq(S), NEW r \in Seq(S),
           NEW t, t = p \o q \o r
    PROVE  /\ Len(p) \in Nat /\ Len(q) \in Nat /\ Len(r) \in Nat
           /\ Len(t) = Len(p) + Len(q) + Len(r)
           /\ \A i \in 1..Len(p) : t[i] = p[i]
           /\ \A i \in 1..Len(q) : t[Len(p) + i] = q[i]
           /\ \A i \in 1..Len(r) : t[Len(p) + Len(q) + i] = r[i]
<1>1. Len(p) \in Nat /\ Len(q) \in Nat /\ Len(r) \in Nat
  BY SeqLength, Zenon
<1>2. /\ p \o q \in Seq(S) /\ Len(p \o q) = Len(p) + Len(q)
      /\ \A i \in 1..Len(p) + Len(q) : (p \o q)[i] = IF i <= Len(p) THEN p[i] ELSE q[i - Len(p)]
  BY SeqJoin, Zenon
<1> DEFINE pq == p \o q
<1> HIDE DEF pq
<1>3. /\ Len(pq \o r) = Len(pq) + Len(r)
      /\ \A i \in 1..Len(pq) + Len(r) : (pq \o r)[i] = IF i <= Len(pq) THEN pq[i] ELSE r[i - Len(pq)]
  BY <1>2, SeqJoin, SMTT(30) DEF pq
<1>4. Len(pq) = Len(p) + Len(q) /\ Len(pq \o r) = Len(p) + Len(q) + Len(r)
  BY <1>2, <1>3, Zenon DEF pq
<1>5. \A i \in 1..Len(p) : (pq \o r)[i] = p[i]
  BY <1>1, <1>2, <1>3, <1>4, SMTT(30) DEF pq
<1>6. \A i \in 1..Len(q) : (pq \o r)[Len(p) + i] = q[i]
  <2> TAKE i \in 1..Len(q)
  <2>1. /\ Len(p) + i \in 1..Len(pq) /\ Len(p) + i \in 1..Len(pq) + Len(r) /\ Len(p) + i > Len(p)
        /\ (Len(p) + i) - Len(p) = i /\ Len(p) + i <= Len(pq)
    BY <1>1, <1>4
  <2>2. (pq \o r)[Len(p) + i] = pq[Len(p) + i]
    BY <2>1, <1>3
  <2>3. pq[Len(p) + i] = q[(Len(p) + i) - Len(p)]
    BY <2>1, <1>1, <1>2, <1>4, SMTT(30) DEF pq
  <2> QED BY <2>1, <2>2, <2>3, Zenon
<1>7. \A i \in 1..Len(r) : (pq \o r)[Len(p) + Len(q) + i] = r[i]
  <2> TAKE i \in 1..Len(r)
  <2> DEFINE k == Len(p) + Len(q) + i
  <2>1. k \in 1..Len(pq) + Len(r) /\ ~(k <= Len(pq)) /\ k - Len(pq) = i
    BY <1>1, <1>4, SMTT(30)
  <2> HIDE DEF k
  <2>2. (pq \o r)[k] = r[k - Len(pq)]
    BY <2>1, <1>3
  <2> QED BY <2>1, <2>2, Zenon DEF k
<1> QED BY <1>1, <1>4, <1>5, <1>6, <1>7, Zenon DEF pq

\* What handle_message puts into receive_queue: notifications, then the message.
LEMMA HandleReceives ==
    ASSUME TypeOK, SeqInv, HandleMessage
    PROVE  LET m == toHost[1]
               n == Released(m.seq, m.kind)
               old == Len(receive_queue)
           IN  /\ n \in 0..Len(notify_queue) /\ old \in Nat /\ Len(notify_queue) \in Nat
               /\ Len(receive_queue') = old + n + (IF m.kind = "data" THEN 1 ELSE 0)
               /\ \A i \in 1..old : receive_queue'[i] = receive_queue[i]
               /\ \A i \in 1..n : /\ receive_queue'[old + i].kind = "notify"
                                  /\ receive_queue'[old + i].of = notify_queue[i]
               /\ m.kind = "data" =>
                    /\ receive_queue'[old + n + 1].kind = "data"
                    /\ receive_queue'[old + n + 1].of = m.of
                    /\ receive_queue'[old + n + 1].sent =
                         IF TrustSentTime(m.seq) THEN last_receive_sent' ELSE "none"
<1> DEFINE m == toHost[1]
           n == Released(m.seq, m.kind)
           old == Len(receive_queue)
           notes == [i \in 1..n |-> [kind |-> "notify", of |-> notify_queue[i],
                                     sent |-> last_receive_sent']]
           data == [kind |-> "data", of |-> m.of,
                    sent |-> IF TrustSentTime(m.seq) THEN last_receive_sent' ELSE "none"]
           rest == IF m.kind = "data" THEN <<data>> ELSE <<>>
<1>1. HandleValid(m, m.seq)
  BY HandleIsValid, SMTT(30)
<1>2. receive_queue' = receive_queue \o notes \o rest
  BY <1>1, Zenon DEF HandleValid
<1>3. /\ n \in 0..Len(notify_queue) /\ old \in Nat /\ Len(notify_queue) \in Nat
      /\ receive_queue \in Seq(Received)
  <2>1. m.seq \in Nat
    BY HandleIsValid DEF Replies
  <2>2. notify_queue \in Seq(Nat) /\ receive_queue \in Seq(Received)
    BY Zenon DEF TypeOK
  <2> QED BY <2>1, <2>2, ReleasedBound, SeqLength, Zenon
<1>4. /\ Len(notes) = n /\ notes \in Seq(Received)
      /\ \A i \in 1..n : notes[i].kind = "notify" /\ notes[i].of = notify_queue[i]
  <2>1. n \in Nat /\ n <= Len(notify_queue) /\ last_receive_sent' \in SentTimes
    BY <1>3, TypeHandle, SMTT(30) DEF TypeOK
  <2> HIDE DEF n
  <2>2. \A i \in 1..n : notify_queue[i] \in Nat
    BY <2>1, <1>3, SeqElement, SMTT(60) DEF TypeOK
  <2> QED BY <2>1, <2>2, SMTT(30) DEF Received
<1>5. /\ Len(rest) = (IF m.kind = "data" THEN 1 ELSE 0) /\ rest \in Seq(Received)
      /\ m.kind = "data" => rest[1] = data
  <2>1. data \in Received
    BY HandleIsValid, TypeHandle, Zenon DEF Received, Replies, SentTimes, TypeOK
  <2> HIDE DEF data
  <2> QED BY <2>1, SeqNone
<1> HIDE DEF m, n, old, notes, rest
<1>6. /\ Len(receive_queue') = old + n + Len(rest)
      /\ \A i \in 1..old : receive_queue'[i] = receive_queue[i]
      /\ \A i \in 1..n : receive_queue'[old + i] = notes[i]
      /\ \A i \in 1..Len(rest) : receive_queue'[old + n + i] = rest[i]
  <2>0. receive_queue \in Seq(Received) /\ notes \in Seq(Received) /\ rest \in Seq(Received)
    BY <1>3, <1>4, <1>5, Zenon
  <2>1. /\ Len(receive_queue') = Len(receive_queue) + Len(notes) + Len(rest)
        /\ \A i \in 1..Len(receive_queue) : receive_queue'[i] = receive_queue[i]
        /\ \A i \in 1..Len(notes) : receive_queue'[Len(receive_queue) + i] = notes[i]
        /\ \A i \in 1..Len(rest) :
             receive_queue'[Len(receive_queue) + Len(notes) + i] = rest[i]
    BY <2>0, <1>2, ConcatTwice, SMTT(60)
  <2> QED BY <2>1, <1>4, Zenon DEF old
<1>7. m.kind = "data" => receive_queue'[old + n + 1] = data
  BY <1>5, <1>6
<1> HIDE DEF data
<1>8. \A i \in 1..n : /\ receive_queue'[old + i].kind = "notify"
                      /\ receive_queue'[old + i].of = notify_queue[i]
  BY <1>4, <1>6
<1>9. m.kind = "data" =>
        /\ receive_queue'[old + n + 1].kind = "data"
        /\ receive_queue'[old + n + 1].of = m.of
        /\ receive_queue'[old + n + 1].sent =
             IF TrustSentTime(m.seq) THEN last_receive_sent' ELSE "none"
  BY <1>7 DEF data
<1> QED BY <1>3, <1>5, <1>6, <1>8, <1>9, ZenonT(40) DEF m, n, old

\* What handle_message does to the blocks outstanding: it drops the acked ones
\* and remembers how the newest of them was written, or leaves all as it is.
LEMMA HandleSent ==
    ASSUME TypeOK, SeqInv, HandleMessage
    PROVE  /\ rtt_sample_seq' \in {0, rtt_sample_seq}
           /\ \/ UNCHANGED <<receive_seq, sent_queue, last_receive_sent>>
              \/ sent_queue' = <<>> /\ last_receive_sent' = "none"
              \/ \E k \in 1..Len(sent_queue) :
                   /\ toHost[1].seq = receive_seq + k
                   /\ sent_queue' = SubSeq(sent_queue, k + 1, Len(sent_queue))
                   /\ last_receive_sent' = sent_queue[k].sent
<1> DEFINE a == toHost[1].seq
<1>1. /\ receive_seq <= a /\ toHost[1] \in Replies /\ HandleValid(toHost[1], a)
  BY HandleIsValid, Zenon
<1>2. receive_seq \in Nat /\ Len(sent_queue) \in Nat /\ a \in Nat
  BY <1>1, SeqFacts, Zenon DEF Replies
<1> HIDE DEF a
<1>3. CASE a = receive_seq
  BY <1>1, <1>3, Zenon DEF HandleValid
<1>4. CASE a # receive_seq
  <2>1. UpdateReceiveSeq(a)
    BY <1>1, <1>4, Zenon DEF HandleValid
  <2>2. CASE a - receive_seq <= Len(sent_queue)
    <3> DEFINE k == a - receive_seq
    <3>1. k \in 1..Len(sent_queue) /\ a = receive_seq + k
      BY <1>1, <1>2, <1>4, <2>2, SMTT(30)
    <3>2. /\ sent_queue' = SubSeq(sent_queue, k + 1, Len(sent_queue))
          /\ last_receive_sent' = sent_queue[k].sent
          /\ rtt_sample_seq' \in {0, rtt_sample_seq}
      BY <2>1, <2>2, Zenon DEF UpdateReceiveSeq
    <3> HIDE DEF k
    <3> QED BY <3>1, <3>2, Zenon DEF a
  <2>3. CASE ~(a - receive_seq <= Len(sent_queue))
    BY <2>1, <2>3, Zenon DEF UpdateReceiveSeq
  <2> QED BY <2>2, <2>3, ZenonT(40)
<1> QED BY <1>3, <1>4, SMTT(30)

\* handle_message gives a response the time of the newest block acked only if
\* that block was built after the last retransmission.
LEMMA TimesHandle ==
    ASSUME TypeOK, SeqInv, TimesInv, HandleMessage
    PROVE  TimesInv'
<1> DEFINE a == toHost[1].seq
<1>1. /\ receive_seq <= a /\ toHost[1] \in Replies
  BY HandleIsValid
<1>2. /\ receive_seq' = a /\ retransmit_seq' = retransmit_seq
      /\ send_seq' = send_seq \/ (~Joined /\ send_seq' = McuNext)
  BY HandleNumbers, Zenon
<1>3. /\ receive_seq \in Nat /\ Len(sent_queue) \in Nat /\ a \in Nat /\ send_seq \in Nat
      /\ retransmit_seq \in Nat /\ McuNext \in Nat /\ rtt_sample_seq \in Nat
      /\ sent_queue \in Seq(Blocks)
  BY <1>1, SeqFacts, Zenon DEF Replies, TypeOK
<1>4. /\ rtt_sample_seq' \in {0, rtt_sample_seq}
      /\ \/ UNCHANGED <<receive_seq, sent_queue, last_receive_sent>>
         \/ sent_queue' = <<>> /\ last_receive_sent' = "none"
         \/ \E k \in 1..Len(sent_queue) :
              /\ a = receive_seq + k
              /\ sent_queue' = SubSeq(sent_queue, k + 1, Len(sent_queue))
              /\ last_receive_sent' = sent_queue[k].sent
  BY HandleSent, Zenon
<1> HIDE DEF a
<1>5. retransmit_seq' <= send_seq' /\ (rtt_sample_seq' # 0 => rtt_sample_seq' >= retransmit_seq')
  BY <1>2, <1>3, <1>4, SMTT(30) DEF TimesInv, Joined
<1>6. /\ \A i \in 1..Len(sent_queue') :
            sent_queue'[i].sent = "resent" => sent_queue'[i].seq < retransmit_seq'
      /\ last_receive_sent' = "resent" => a <= retransmit_seq
  <2>1. CASE UNCHANGED <<receive_seq, sent_queue, last_receive_sent>>
    BY <2>1, <1>2, Zenon DEF TimesInv
  <2>2. CASE sent_queue' = <<>> /\ last_receive_sent' = "none"
    BY <2>2, SeqNone, SMTT(30)
  <2>3. ASSUME NEW k \in 1..Len(sent_queue), a = receive_seq + k,
               sent_queue' = SubSeq(sent_queue, k + 1, Len(sent_queue)),
               last_receive_sent' = sent_queue[k].sent
        PROVE  <1>6!1 /\ <1>6!2
    <3>1. /\ Len(sent_queue') = Len(sent_queue) - k
          /\ \A i \in 1..(Len(sent_queue) - k) : sent_queue'[i] = sent_queue[k + i]
      BY <2>3, <1>3, SeqPart, SMTT(30)
    <3>2. \A i \in 1..Len(sent_queue') : k + i \in 1..Len(sent_queue)
      BY <3>1, <1>3, SMTT(30)
    <3>3. sent_queue[k].seq = receive_seq + k - 1
      BY DEF SeqInv, SentQueueInv
    <3>4. last_receive_sent' = "resent" => a <= retransmit_seq
      <4>1. k \in Nat /\ (sent_queue[k].sent = "resent" => sent_queue[k].seq < retransmit_seq)
        BY DEF TimesInv
      <4> QED BY <4>1, <2>3, <3>3, <1>3, SMTT(30)
    <3> QED BY <3>1, <3>2, <3>4, <1>2, Zenon DEF TimesInv
  <2> QED BY <2>1, <2>2, <2>3, <1>4, Zenon
<1>7. SentTimeUnambiguous'
  <2> DEFINE n == Released(a, toHost[1].kind)
             old == Len(receive_queue)
  <2>1. /\ n \in Nat /\ old \in Nat
        /\ Len(receive_queue') = old + n + (IF toHost[1].kind = "data" THEN 1 ELSE 0)
        /\ \A i \in 1..old : receive_queue'[i] = receive_queue[i]
        /\ \A i \in 1..n : receive_queue'[old + i].kind = "notify"
        /\ toHost[1].kind = "data" =>
             receive_queue'[old + n + 1].sent =
               IF TrustSentTime(a) THEN last_receive_sent' ELSE "none"
    BY HandleReceives, SMTT(30) DEF a
  <2> HIDE DEF n
  <2>2. DOMAIN receive_queue = 1..old /\ DOMAIN receive_queue' = 1..Len(receive_queue')
    BY TypeHandle, SeqLength, Zenon DEF TypeOK
  <2> HIDE DEF old
  <2> SUFFICES ASSUME NEW i \in 1..Len(receive_queue'), receive_queue'[i].kind = "data"
               PROVE  receive_queue'[i].sent # "resent"
    BY <2>2, Zenon DEF SentTimeUnambiguous
  <2>3. CASE i \in 1..old
    BY <2>1, <2>2, <2>3, Zenon DEF TimesInv, SentTimeUnambiguous
  <2>4. CASE i \in (old + 1)..(old + n)
    <3>1. i - old \in 1..n /\ old + (i - old) = i
      BY <2>1, <2>4, SMTT(30)
    <3>2. receive_queue'[old + (i - old)].kind = "notify"
      BY <2>1, <3>1, Zenon
    <3> QED BY <3>1, <3>2, Zenon
  <2>5. CASE i = old + n + 1 /\ toHost[1].kind = "data"
    <3>1. TrustSentTime(a) => last_receive_sent' # "resent"
      BY <1>3, <1>6 DEF TrustSentTime
    <3> QED BY <2>1, <2>5, <3>1, Zenon
  <2> QED BY <2>1, <2>3, <2>4, <2>5, SMTT(30)
<1> QED BY <1>2, <1>5, <1>6, <1>7, Zenon DEF TimesInv

\* Every step of the link keeps the invariant.
LEMMA TimesStep == TypeOK /\ SeqInv /\ TimesInv /\ [Next]_vars => TimesInv'
<1> SUFFICES ASSUME TypeOK, SeqInv, TimesInv, [Next]_vars PROVE TimesInv'
  OBVIOUS
<1>1. CASE BuildAndSendCommand
  BY <1>1, TimesBuild
<1>2. CASE RetransmitEvent
  BY <1>2, TimesRetransmit, Zenon
<1>3. CASE HandleMessage
  BY <1>3, TimesHandle
<1>4. CASE \/ SetReceiveWindow \/ DispatchBlock \/ FinishBlock \/ NakBlock \/ SkipGarbage
           \/ ReportTask \/ LoseBlock \/ CorruptBlock \/ LoseMessage \/ UNCHANGED vars
  <2>1. UNCHANGED <<send_seq, receive_seq, sent_queue, retransmit_seq, rtt_sample_seq,
                    last_receive_sent, receive_queue>>
    BY <1>4, Zenon DEF SetReceiveWindow, DispatchBlock, FinishBlock, NakBlock, SkipGarbage,
                ReportTask, LoseBlock, CorruptBlock, LoseMessage, vars, hostVars, mcuVars
  <2> QED BY <2>1, Zenon DEF TimesInv, SentTimeUnambiguous
<1> QED BY <1>1, <1>2, <1>3, <1>4, Zenon DEF Next

\* Neither clocksync.py nor the retransmit timeout ever takes a time from a
\* block that was written more than once.
THEOREM TimesAreUnambiguous == Spec => []TimesUnambiguous
<1>1. Spec => [](TypeOK /\ SeqInv)
  BY SeqInvariant
<1>2. Init => TimesInv
  BY TimesInit
<1>3. TypeOK /\ SeqInv /\ TimesInv /\ [Next]_vars => TimesInv'
  BY TimesStep, SMTT(30)
<1>4. TypeOK /\ TimesInv => TimesUnambiguous
  <2> SUFFICES ASSUME TypeOK, TimesInv,
                      NEW i \in DOMAIN sent_queue,
                      rtt_sample_seq # 0, sent_queue[i].seq >= rtt_sample_seq
               PROVE  sent_queue[i].sent = "once"
    BY Zenon DEF TimesUnambiguous, TimesInv, RttSampleUnambiguous
  <2>1. i \in 1..Len(sent_queue) /\ sent_queue[i] \in Blocks /\ sent_queue[i].seq \in Nat
    BY SeqFacts, Zenon
  <2>2. rtt_sample_seq \in Nat /\ retransmit_seq \in Nat
    BY DEF TypeOK
  <2>3. sent_queue[i].sent # "resent"
    BY <2>1, <2>2 DEF TimesInv
  <2> QED BY <2>1, <2>3, Zenon DEF Blocks, SentTimes
<1> QED BY <1>1, <1>2, <1>3, <1>4, PTL DEF Spec

-----------------------------------------------------------------------------
(* The notification of a block comes after the response to it *)

\* handle_message releases notifications from the head of notify_queue, up to
\* the first block that the message does not ack for certain.
LEMMA ReleasedAreAcked ==
    ASSUME notify_queue \in Seq(Nat), NEW rseq \in Nat, NEW kind,
           NEW i \in 1..Released(rseq, kind)
    PROVE  LET wake_seq == rseq - 1 - (IF kind = "data" THEN 1 ELSE 0)
           IN  wake_seq < 0 \/ notify_queue[i] <= wake_seq
<1>1. rseq - 1 - (IF kind = "data" THEN 1 ELSE 0) \in Int
  OBVIOUS
<1> QED BY <1>1, NotAfterFacts, Zenon DEF Released

\* Nothing is outstanding and nothing was answered when the session begins.
LEMMA ResponseInit == Init => ResponseInv
<1> SUFFICES ASSUME Init PROVE ResponseInv
  OBVIOUS
<1>1. Len(notify_queue) = 0 /\ Len(toHost) = 0 /\ DOMAIN receive_queue = {}
  BY SeqNone DEF Init
<1> QED BY <1>1 DEF Init, ResponseInv, NotifyAfterResponse

\* What was received stays in order when the mcu answers more, or the wire
\* loses more.
LEMMA NotifyKept ==
    ASSUME TypeOK, NotifyAfterResponse, UNCHANGED <<receive_queue, mcu_base>>,
           McuNext' \in Nat, McuNext <= McuNext',
           \A s \in responded' \ lostResponses' : s < McuNext => s \in responded \ lostResponses
    PROVE  NotifyAfterResponse'
<1> SUFFICES ASSUME NEW i \in DOMAIN receive_queue, receive_queue[i].kind = "notify",
                    receive_queue[i].of >= mcu_base, receive_queue[i].of # 1
             PROVE  /\ receive_queue[i].of < McuNext'
                    /\ receive_queue[i].of \in responded' \ lostResponses' =>
                         \E j \in 1..(i - 1) : /\ receive_queue[j].kind = "data"
                                               /\ receive_queue[j].of = receive_queue[i].of
  BY DEF NotifyAfterResponse
<1>1. /\ receive_queue[i].of < McuNext
      /\ receive_queue[i].of \in responded \ lostResponses =>
           \E j \in 1..(i - 1) : /\ receive_queue[j].kind = "data"
                                 /\ receive_queue[j].of = receive_queue[i].of
  BY DEF NotifyAfterResponse
<1>2. McuNext \in Nat /\ receive_queue[i].of \in Nat
  <2>1. receive_queue[i] \in Received
    BY SeqLength, SeqElement, Zenon DEF TypeOK
  <2> QED BY <2>1, SeqFacts, Zenon DEF Received
<1> QED BY <1>1, <1>2, SMTT(30)

\* build_and_send_command asks for the notification of the new block.
LEMMA ResponseBuild ==
    ASSUME TypeOK, SeqInv, ResponseInv, BuildAndSendCommand
    PROVE  ResponseInv'
<1>1. /\ UNCHANGED <<receive_seq, receive_queue, toHost, mcu_base, dispatched,
                     responded, lostResponses>>
      /\ send_seq' = send_seq + 1 /\ (~identified => send_seq = receive_seq)
      /\ notify_queue' = notify_queue \/ notify_queue' = Append(notify_queue, send_seq)
  BY Zenon DEF BuildAndSendCommand, mcuVars
<1>2. /\ send_seq \in Nat /\ receive_seq \in Nat /\ notify_queue \in Seq(Nat)
      /\ receive_seq >= 1 /\ send_seq - receive_seq \in Nat
      /\ identified => receive_seq # 1
  BY SeqFacts, Zenon DEF TypeOK, SeqInv, SentQueueInv
<1>3. receive_seq' = 1 => send_seq' <= 2
  BY <1>1, <1>2, SMTT(30) DEF ResponseInv
<1>4. \A i \in 1..Len(notify_queue') : 1 <= notify_queue'[i] /\ notify_queue'[i] < send_seq'
  <2>1. \A i \in 1..Len(notify_queue) : notify_queue[i] \in Nat
    BY <1>2, SeqElement, Zenon
  <2>2. \A i \in 1..Len(notify_queue) : 1 <= notify_queue[i] /\ notify_queue[i] < send_seq
    BY DEF ResponseInv
  <2>3. CASE notify_queue' = notify_queue
    BY <2>1, <2>2, <2>3, <1>1, <1>2, SMTT(30)
  <2>4. CASE notify_queue' = Append(notify_queue, send_seq)
    <3>1. /\ Len(notify_queue') = Len(notify_queue) + 1 /\ Len(notify_queue) \in Nat
          /\ \A i \in 1..Len(notify_queue) : notify_queue'[i] = notify_queue[i]
          /\ notify_queue'[Len(notify_queue) + 1] = send_seq
      BY <2>4, <1>2, SeqAdd, SeqLength, SMTT(30)
    <3> TAKE i \in 1..Len(notify_queue')
    <3>2. i \in 1..Len(notify_queue) \/ i = Len(notify_queue) + 1
      BY <3>1, LastIndex
    <3> QED BY <3>1, <3>2, <2>1, <2>2, <1>1, <1>2, SMTT(30)
  <2> QED BY <2>3, <2>4, <1>1, Zenon
<1>5. McuNext' = McuNext
  BY <1>1, Zenon DEF McuNext
<1>6. NotifyAfterResponse'
  BY <1>1, <1>5, ZenonT(40) DEF ResponseInv, NotifyAfterResponse
<1> QED BY <1>1, <1>3, <1>4, <1>5, <1>6, Zenon DEF ResponseInv, Answers

\* handle_message releases the notification of a block only when the response
\* to it has been received: the response precedes the ack on the wire.
LEMMA NotifyHandle ==
    ASSUME TypeOK, SeqInv, ResponseInv, HandleMessage
    PROVE  NotifyAfterResponse'
<1> DEFINE a == toHost[1].seq
           kind == toHost[1].kind
           w == a - 1 - (IF kind = "data" THEN 1 ELSE 0)
           n == Released(a, kind)
           old == Len(receive_queue)
<1>1. /\ receive_seq <= a /\ a <= McuNext /\ toHost[1] \in Replies /\ 1 \in 1..Len(toHost)
  BY HandleIsValid, Zenon
<1>2. /\ UNCHANGED <<mcu_base, dispatched, responded, lostResponses>> /\ McuNext' = McuNext
  BY Zenon DEF HandleMessage, mcuVars, McuNext
<1>3. /\ a \in Nat /\ McuNext \in Nat /\ receive_seq \in Nat /\ send_seq \in Nat
      /\ receive_seq >= 1 /\ notify_queue \in Seq(Nat) /\ mcu_base \in Nat
  BY <1>1, SeqFacts, Zenon DEF Replies, TypeOK, SeqInv, SentQueueInv
<1>4. /\ n \in 0..Len(notify_queue) /\ old \in Nat /\ Len(notify_queue) \in Nat
      /\ Len(receive_queue') = old + n + (IF kind = "data" THEN 1 ELSE 0)
      /\ \A i \in 1..old : receive_queue'[i] = receive_queue[i]
      /\ \A i \in 1..n : receive_queue'[old + i].of = notify_queue[i]
      /\ kind = "data" => receive_queue'[old + n + 1].kind = "data"
  BY HandleReceives
<1>5. \A i \in 1..n : w < 0 \/ notify_queue[i] <= w
  BY <1>3, ReleasedAreAcked, Zenon
<1> HIDE DEF a, kind, w, n
<1>6. w \in Int /\ w <= a - 1 /\ (kind = "data" => w = a - 2) /\ (w < 0 => a = 1)
  BY <1>1, <1>3, SMTT(30) DEF w
<1>7. DOMAIN receive_queue = 1..old /\ DOMAIN receive_queue' = 1..Len(receive_queue')
  BY TypeHandle, SeqLength, Zenon DEF TypeOK
<1> HIDE DEF old
<1>8. ASSUME NEW i \in 1..n, notify_queue[i] # 1
      PROVE  /\ notify_queue[i] < McuNext
             /\ notify_queue[i] \in responded \ lostResponses =>
                  \E j \in 1..old : /\ receive_queue[j].kind = "data"
                                   /\ receive_queue[j].of = notify_queue[i]
  <2> DEFINE s == notify_queue[i]
  <2>1. i \in 1..Len(notify_queue) /\ s \in Nat
    BY <1>3, <1>4, SeqElement, SMTT(30)
  <2>2. 1 <= s /\ s < send_seq /\ (receive_seq = 1 => send_seq <= 2)
    BY <2>1 DEF ResponseInv
  <2> HIDE DEF s
  <2>3. w >= 0
    <3> SUFFICES ASSUME w < 0 PROVE FALSE
      BY <1>6, SMTT(30)
    <3>1. receive_seq = 1
      BY <1>1, <1>3, <1>6, SMTT(30) DEF a
    <3>2. s = 1
      BY <3>1, <2>1, <2>2, <1>3, SMTT(30) DEF s
    <3> QED BY <3>2, <1>8, Zenon DEF s
  <2>4. s <= w
    BY <2>3, <1>5, <1>6, SMTT(30) DEF s
  <2>5. s < McuNext
    BY <2>1, <2>4, <1>1, <1>3, <1>6, SMTT(30) DEF s, a
  <2>6. ASSUME s \in responded \ lostResponses
        PROVE  \E j \in 1..old : receive_queue[j].kind = "data" /\ receive_queue[j].of = s
    <3>1. ASSUME NEW k \in 1..Len(toHost), toHost[k].kind = "data", toHost[k].of = s
          PROVE  FALSE
      <4>1. Answers(toHost[k]) /\ toHost[k].seq = s + 1
        BY <2>6, <3>1, Zenon DEF ResponseInv, Answers
      <4>2. CASE k = 1
        <5>1. kind = "data" /\ a = s + 1
          BY <4>1, <4>2, <3>1, Zenon DEF kind, a
        <5> QED BY <5>1, <2>1, <2>4, <1>6, SMTT(30) DEF s
      <4>3. CASE k # 1
        <5>1. 1 < k
          BY <4>3, <1>1, SeqFacts
        <5>2. toHost[1].seq < toHost[k].seq
          BY <5>1, <4>1, <1>1, Zenon DEF ResponseInv
        <5> QED BY <5>2, <4>1, <2>1, <2>4, <1>3, <1>6, SMTT(30) DEF s, a
      <4> QED BY <4>2, <4>3, Zenon
    <3> QED BY <2>6, <3>1 DEF ResponseInv, old
  <2> QED BY <2>5, <2>6, Zenon DEF s
<1> SUFFICES ASSUME NEW i \in 1..Len(receive_queue'), receive_queue'[i].kind = "notify",
                    receive_queue'[i].of >= mcu_base, receive_queue'[i].of # 1
             PROVE  /\ receive_queue'[i].of < McuNext
                    /\ receive_queue'[i].of \in responded \ lostResponses =>
                         \E j \in 1..(i - 1) : /\ receive_queue'[j].kind = "data"
                                               /\ receive_queue'[j].of = receive_queue'[i].of
  BY <1>2, <1>7, Zenon DEF NotifyAfterResponse
<1>9. CASE i \in 1..old
  <2>1. /\ receive_queue[i].of < McuNext
        /\ receive_queue[i].of \in responded \ lostResponses =>
             \E j \in 1..(i - 1) : /\ receive_queue[j].kind = "data"
                                   /\ receive_queue[j].of = receive_queue[i].of
    BY <1>4, <1>7, <1>9, ZenonT(40) DEF ResponseInv, NotifyAfterResponse
  <2>2. receive_queue'[i] = receive_queue[i]
        /\ \A j \in 1..(i - 1) : receive_queue'[j] = receive_queue[j]
    BY <1>4, <1>9, SMTT(30)
  <2> QED BY <2>1, <2>2, Zenon
<1>10. CASE i \in (old + 1)..(old + n)
  <2> DEFINE k == i - old
  <2>1. k \in 1..n /\ old + k = i /\ 1..old \subseteq 1..(i - 1)
    BY <1>4, <1>10, SMTT(30)
  <2> HIDE DEF k
  <2>2. receive_queue'[i].of = notify_queue[k]
    BY <2>1, <1>4, Zenon
  <2>3. /\ notify_queue[k] < McuNext
        /\ notify_queue[k] \in responded \ lostResponses =>
             \E j \in 1..old : receive_queue[j].kind = "data" /\ receive_queue[j].of = notify_queue[k]
    BY <2>1, <2>2, <1>8, Zenon
  <2> QED BY <2>1, <2>2, <2>3, <1>4, Zenon
<1>11. CASE i = old + n + 1 /\ kind = "data"
  BY <1>4, <1>11, Zenon
<1> QED BY <1>4, <1>9, <1>10, <1>11, SMTT(30)

\* handle_message takes the response from the wire to receive_queue.
LEMMA ResponseHandle ==
    ASSUME TypeOK, SeqInv, ResponseInv, HandleMessage
    PROVE  ResponseInv'
<1> DEFINE a == toHost[1].seq
           kind == toHost[1].kind
           n == Released(a, kind)
           old == Len(receive_queue)
<1>1. /\ receive_seq <= a /\ toHost[1] \in Replies /\ HandleValid(toHost[1], a)
  BY HandleIsValid, Zenon
<1>2. /\ UNCHANGED <<mcu_base, dispatched, responded, lostResponses>> /\ McuNext' = McuNext
      /\ toHost # <<>> /\ toHost' = Tail(toHost)
  BY Zenon DEF HandleMessage, mcuVars, McuNext
<1>3. /\ a \in Nat /\ McuNext \in Nat /\ receive_seq \in Nat /\ send_seq \in Nat
      /\ receive_seq >= 1 /\ notify_queue \in Seq(Nat) /\ toHost \in Seq(Replies)
  BY <1>1, SeqFacts, ZenonT(40) DEF Replies, TypeOK, SeqInv, SentQueueInv
<1>4. /\ receive_seq' = a
      /\ send_seq' = send_seq \/ (~Joined /\ send_seq' = McuNext /\ a = McuNext)
  BY HandleNumbers, Zenon
<1>5. /\ n \in 0..Len(notify_queue) /\ old \in Nat /\ Len(notify_queue) \in Nat
      /\ Len(receive_queue') = old + n + (IF kind = "data" THEN 1 ELSE 0)
      /\ \A i \in 1..old : receive_queue'[i] = receive_queue[i]
      /\ kind = "data" => /\ receive_queue'[old + n + 1].kind = "data"
                          /\ receive_queue'[old + n + 1].of = toHost[1].of
  BY HandleReceives, SMTT(30)
<1>6. notify_queue' = SubSeq(notify_queue, n + 1, Len(notify_queue))
  BY <1>1, Zenon DEF HandleValid
<1> HIDE DEF a, kind, n
<1>7. receive_seq' = 1 => send_seq' <= 2
  BY <1>1, <1>3, <1>4, SMTT(30) DEF ResponseInv, Joined, a
<1>8. \A i \in 1..Len(notify_queue') : 1 <= notify_queue'[i] /\ notify_queue'[i] < send_seq'
  <2>1. /\ Len(notify_queue') = Len(notify_queue) - n
        /\ \A i \in 1..(Len(notify_queue) - n) : notify_queue'[i] = notify_queue[n + i]
    BY <1>3, <1>5, <1>6, SeqPart, SMTT(30)
  <2> TAKE i \in 1..Len(notify_queue')
  <2>2. n + i \in 1..Len(notify_queue) /\ notify_queue'[i] = notify_queue[n + i]
    BY <2>1, <1>5, SMTT(30)
  <2>3. notify_queue[n + i] \in Nat
    BY <2>2, <1>3, SeqElement, Zenon
  <2>4. 1 <= notify_queue[n + i] /\ notify_queue[n + i] < send_seq /\ send_seq <= send_seq'
    BY <2>2, <1>3, <1>4, SMTT(30) DEF ResponseInv, Joined
  <2> QED BY <2>2, <2>3, <2>4, <1>3, <1>4, SMTT(30)
<1>9. /\ Len(toHost) \in Nat /\ Len(toHost) >= 1 /\ Len(toHost') = Len(toHost) - 1
      /\ \A i \in 1..(Len(toHost) - 1) : toHost'[i] = toHost[i + 1] /\ i + 1 \in 1..Len(toHost)
  <2>1. /\ Len(toHost') = Len(toHost) - 1 /\ Len(toHost) \in Nat
        /\ \A i \in 1..(Len(toHost) - 1) : toHost'[i] = toHost[i + 1]
    BY <1>2, <1>3, SeqRest, SeqLength, Zenon
  <2>2. Len(toHost) # 0
    BY <1>2, <1>3, SeqNone, Zenon
  <2> QED BY <2>1, <2>2, SMTT(30)
<1>10. \A i \in 1..Len(toHost') : Answers(toHost'[i]) => toHost'[i].seq = toHost'[i].of + 1
  BY <1>9, SMTT(30) DEF ResponseInv
<1>11. \A i, j \in 1..Len(toHost') :
         i < j /\ Answers(toHost'[j]) => toHost'[i].seq < toHost'[j].seq
  <2> SUFFICES ASSUME NEW i \in 1..Len(toHost'), NEW j \in 1..Len(toHost'),
                      i < j, Answers(toHost'[j])
               PROVE  toHost'[i].seq < toHost'[j].seq
    OBVIOUS
  <2>1. /\ i + 1 \in 1..Len(toHost) /\ j + 1 \in 1..Len(toHost) /\ i + 1 < j + 1
        /\ toHost'[i] = toHost[i + 1] /\ toHost'[j] = toHost[j + 1]
    BY <1>9, SMTT(30)
  <2> QED BY <2>1, Zenon DEF ResponseInv
<1>12. ASSUME NEW s \in responded \ lostResponses
       PROVE  \/ \E i \in 1..Len(toHost') : toHost'[i].kind = "data" /\ toHost'[i].of = s
              \/ \E i \in 1..Len(receive_queue') :
                   receive_queue'[i].kind = "data" /\ receive_queue'[i].of = s
  <2>1. ASSUME NEW k \in 1..Len(toHost), toHost[k].kind = "data", toHost[k].of = s
        PROVE  <1>12!2
    <3>1. CASE k = 1
      BY <3>1, <2>1, <1>5, SMTT(30) DEF kind
    <3>2. CASE k # 1
      <4>1. k - 1 \in 1..Len(toHost') /\ toHost'[k - 1] = toHost[k]
        BY <3>2, <1>9, SMTT(30)
      <4> QED BY <4>1, <2>1, Zenon
    <3> QED BY <3>1, <3>2, Zenon
  <2>2. ASSUME NEW k \in 1..old, receive_queue[k].kind = "data", receive_queue[k].of = s
        PROVE  <1>12!2
    <3>1. k \in 1..Len(receive_queue') /\ receive_queue'[k] = receive_queue[k]
      BY <1>5
    <3> QED BY <3>1, <2>2, Zenon
  <2> QED BY <2>1, <2>2, Zenon DEF ResponseInv
<1>13. NotifyAfterResponse'
  BY NotifyHandle, Zenon
<1> QED BY <1>2, <1>7, <1>8, <1>10, <1>11, <1>12, <1>13, ZenonT(40) DEF ResponseInv, Answers

\* A message that the mcu appends answers nothing, or the newest block.
LEMMA ResponseMore ==
    ASSUME TypeOK, SeqInv, ResponseInv, NEW m \in Replies,
           toHost' = toHost \/ toHost' = Append(toHost, m),
           Answers(m) => m.seq = m.of + 1 /\ m.seq > McuNext
    PROVE  /\ \A i \in 1..Len(toHost) : i \in 1..Len(toHost') /\ toHost'[i] = toHost[i]
           /\ toHost' # toHost => \E i \in 1..Len(toHost') : toHost'[i] = m
           /\ \A i \in 1..Len(toHost') : Answers(toHost'[i]) => toHost'[i].seq = toHost'[i].of + 1
           /\ \A i, j \in 1..Len(toHost') :
                i < j /\ Answers(toHost'[j]) => toHost'[i].seq < toHost'[j].seq
<1>1. CASE toHost' = toHost
  BY <1>1, Zenon DEF ResponseInv
<1>2. CASE toHost' = Append(toHost, m)
  <2>1. toHost \in Seq(Replies) /\ Len(toHost) \in Nat /\ McuNext \in Nat /\ m.seq \in Nat
    BY SeqFacts, Zenon DEF TypeOK, Replies
  <2>2. /\ Len(toHost') = Len(toHost) + 1
        /\ \A i \in 1..Len(toHost) : toHost'[i] = toHost[i]
        /\ toHost'[Len(toHost) + 1] = m
    BY <1>2, <2>1, SeqAdd, SMTT(30)
  <2>3. \A i \in 1..Len(toHost) : toHost[i].seq <= McuNext /\ toHost[i].seq \in Nat
    BY SeqFacts, Zenon DEF SeqInv, ToHostInv
  <2>4. \A i \in 1..Len(toHost') : i \in 1..Len(toHost) \/ i = Len(toHost) + 1
    BY <2>1, <2>2, LastIndex, Zenon
  <2>5. \A i \in 1..Len(toHost) : i \in 1..Len(toHost') /\ toHost'[i] = toHost[i]
    BY <2>1, <2>2, SMTT(30)
  <2>6. Len(toHost) + 1 \in 1..Len(toHost')
    BY <2>1, <2>2, SMTT(30)
  <2>7. \A i \in 1..Len(toHost') : Answers(toHost'[i]) => toHost'[i].seq = toHost'[i].of + 1
    BY <2>2, <2>4, Zenon DEF ResponseInv
  <2>8. ASSUME NEW i \in 1..Len(toHost'), NEW j \in 1..Len(toHost'), i < j, Answers(toHost'[j])
        PROVE  toHost'[i].seq < toHost'[j].seq
    <3>1. i \in 1..Len(toHost)
      BY <2>8, <2>1, <2>2, SMTT(30)
    <3>2. CASE j \in 1..Len(toHost)
      BY <2>2, <2>8, <3>1, <3>2, Zenon DEF ResponseInv
    <3>3. CASE j = Len(toHost) + 1
      BY <2>1, <2>2, <2>3, <2>8, <3>1, <3>3, SMTT(30)
    <3> QED BY <3>2, <3>3, <2>4, Zenon
  <2> QED BY <2>2, <2>5, <2>6, <2>7, <2>8, Zenon
<1> QED BY <1>1, <1>2, Zenon

\* command_dispatch answers the block it dispatches, before it acks it.
LEMMA ResponseDispatch ==
    ASSUME TypeOK, TypeOK', SeqInv, ResponseInv, DispatchBlock
    PROVE  ResponseInv'
<1>1. /\ UNCHANGED <<receive_seq, send_seq, notify_queue, receive_queue, mcu_base>>
      /\ toMcu # <<>> /\ WireSeq(Head(toMcu).seq) = WireSeq(McuNext)
      /\ dispatched' = Append(dispatched, Head(toMcu).seq)
  BY Zenon DEF DispatchBlock, hostVars
<1>2. Head(toMcu).seq = McuNext /\ McuNext \in Nat /\ Len(dispatched) \in Nat
  BY <1>1, SameBlock, SeqFacts, Zenon
<1>3. McuNext' = McuNext + 1 /\ McuNext # 0
  <2>1. Len(dispatched') = Len(dispatched) + 1
    BY <1>1, <1>2, SeqAdd, ZenonT(40) DEF TypeOK
  <2>2. mcu_base \in 1..SEQ_MOD /\ SEQ_MOD \in Nat
    BY SeqAssumption, Zenon DEF TypeOK
  <2> QED BY <2>1, <2>2, <1>1, <1>2, SMTT(30) DEF McuNext
<1> DEFINE m == [kind |-> "data", seq |-> McuNext + 1, of |-> McuNext]
<1>4. m \in Replies /\ m.seq = m.of + 1 /\ m.seq > McuNext /\ m.kind = "data" /\ m.of = McuNext
  BY <1>2, SMTT(30) DEF Replies
<1>5. \/ UNCHANGED <<responded, toHost, lostResponses>>
      \/ /\ responded' = responded \cup {McuNext} /\ toHost' = Sent(<<m>>)
         /\ lostResponses' = IF toHost' = toHost THEN lostResponses \cup {McuNext}
                                                 ELSE lostResponses
  BY <1>2, Zenon DEF DispatchBlock
<1> HIDE DEF m
<1>6. toHost' = toHost \/ toHost' = Append(toHost, m)
  BY <1>4, <1>5, SentProperties, Zenon DEF TypeOK
<1>7. /\ \A i \in 1..Len(toHost) : i \in 1..Len(toHost') /\ toHost'[i] = toHost[i]
      /\ toHost' # toHost => \E i \in 1..Len(toHost') : toHost'[i] = m
      /\ \A i \in 1..Len(toHost') : Answers(toHost'[i]) => toHost'[i].seq = toHost'[i].of + 1
      /\ \A i, j \in 1..Len(toHost') :
           i < j /\ Answers(toHost'[j]) => toHost'[i].seq < toHost'[j].seq
  BY <1>4, <1>6, ResponseMore, Zenon
<1>8. \A s \in responded' : s # 0 /\ s < McuNext'
  <2> TAKE s \in responded'
  <2>1. s \in responded \/ s = McuNext
    BY <1>5, Zenon
  <2>2. s \in responded => s \in Nat /\ s # 0 /\ s < McuNext
    BY DEF TypeOK, ResponseInv
  <2> QED BY <2>1, <2>2, <1>2, <1>3, SMTT(30)
<1>9. \A s \in responded' \ lostResponses' :
         \/ s \in responded \ lostResponses
         \/ s = McuNext /\ toHost' # toHost
  BY <1>5, Zenon
<1>10. \A s \in responded' \ lostResponses' :
         \/ \E i \in 1..Len(toHost') : toHost'[i].kind = "data" /\ toHost'[i].of = s
         \/ \E i \in 1..Len(receive_queue') :
              receive_queue'[i].kind = "data" /\ receive_queue'[i].of = s
  <2> TAKE s \in responded' \ lostResponses'
  <2>1. CASE s \in responded \ lostResponses
    BY <2>1, <1>1, <1>7, ZenonT(40) DEF ResponseInv
  <2>2. CASE s = McuNext /\ toHost' # toHost
    BY <2>2, <1>4, <1>7
  <2> QED BY <2>1, <2>2, <1>9, Zenon
<1>11. NotifyAfterResponse'
  <2>1. /\ NotifyAfterResponse /\ UNCHANGED <<receive_queue, mcu_base>>
        /\ McuNext \in Nat /\ McuNext' = McuNext + 1
    BY <1>1, <1>2, <1>3, Zenon DEF ResponseInv
  <2>2. McuNext' \in Nat /\ McuNext <= McuNext' /\ ~(McuNext < McuNext)
    BY <2>1, SMTT(30)
  <2>3. \A s \in responded' \ lostResponses' : s < McuNext => s \in responded \ lostResponses
    BY <1>9, <2>2, Zenon
  <2> QED BY <2>1, <2>2, <2>3, NotifyKept, Zenon
<1> QED BY <1>1, <1>7, <1>8, <1>10, <1>11, ZenonT(40) DEF ResponseInv, Answers

\* Acks, naks and unsolicited messages answer no block.
LEMMA ResponseMcu ==
    ASSUME TypeOK, SeqInv, ResponseInv,
           FinishBlock \/ NakBlock \/ SkipGarbage \/ ReportTask
    PROVE  ResponseInv'
<1> DEFINE ack == [kind |-> "ack", seq |-> McuNext, of |-> 0]
           report == [kind |-> "data", seq |-> McuNext, of |-> 0]
<1>1. /\ UNCHANGED <<receive_seq, send_seq, notify_queue, receive_queue, mcu_base,
                     dispatched, responded, lostResponses>>
      /\ toHost' = toHost \/ toHost' = Sent(<<ack>>) \/ toHost' = Sent(<<report>>)
  BY Zenon DEF FinishBlock, NakBlock, SkipGarbage, ReportTask, hostVars, mcuVars, AckNak
<1>2. McuNext \in Nat /\ McuNext' = McuNext
  BY <1>1, SeqFacts, Zenon DEF McuNext
<1>3. ack \in Replies /\ report \in Replies /\ ~Answers(ack) /\ ~Answers(report)
  BY <1>2, Zenon DEF Replies, Answers
<1> HIDE DEF ack, report
<1>4. PICK m \in {ack, report} : toHost' = toHost \/ toHost' = Append(toHost, m)
  BY <1>1, <1>3, SentProperties, ZenonT(40) DEF TypeOK
<1>5. /\ \A i \in 1..Len(toHost) : i \in 1..Len(toHost') /\ toHost'[i] = toHost[i]
      /\ \A i \in 1..Len(toHost') : Answers(toHost'[i]) => toHost'[i].seq = toHost'[i].of + 1
      /\ \A i, j \in 1..Len(toHost') :
           i < j /\ Answers(toHost'[j]) => toHost'[i].seq < toHost'[j].seq
  <2>1. m \in Replies /\ ~Answers(m)
    BY <1>3, Zenon
  <2> QED BY <2>1, <1>4, ResponseMore, Zenon
<1>6. NotifyAfterResponse'
  BY <1>1, <1>2, ZenonT(40) DEF ResponseInv, NotifyAfterResponse
<1>7. \A s \in responded' \ lostResponses' :
         \/ \E i \in 1..Len(toHost') : toHost'[i].kind = "data" /\ toHost'[i].of = s
         \/ \E i \in 1..Len(receive_queue') :
              receive_queue'[i].kind = "data" /\ receive_queue'[i].of = s
  <2>1. /\ UNCHANGED <<receive_queue, responded, lostResponses>>
        /\ \A i \in 1..Len(toHost) : i \in 1..Len(toHost') /\ toHost'[i] = toHost[i]
    BY <1>1, <1>5, Zenon
  <2>2. \A s \in responded \ lostResponses :
          \/ \E i \in 1..Len(toHost) : toHost[i].kind = "data" /\ toHost[i].of = s
          \/ \E i \in 1..Len(receive_queue) :
               receive_queue[i].kind = "data" /\ receive_queue[i].of = s
    BY Zenon DEF ResponseInv
  <2> QED BY <2>1, <2>2, SMTT(30)
<1> QED BY <1>1, <1>2, <1>5, <1>6, <1>7, ZenonT(40) DEF ResponseInv, Answers

\* A response that the wire loses is recorded as lost.
LEMMA ResponseLose ==
    ASSUME TypeOK, SeqInv, ResponseInv, LoseMessage
    PROVE  ResponseInv'
<1>1. PICK i \in DOMAIN toHost :
        /\ toHost' = Without(toHost, i)
        /\ lostResponses' = IF toHost[i].kind = "data" THEN lostResponses \cup {toHost[i].of}
                                                       ELSE lostResponses
  BY Zenon DEF LoseMessage
<1>2. UNCHANGED <<receive_seq, send_seq, notify_queue, receive_queue, mcu_base,
                  dispatched, responded>>
  BY Zenon DEF LoseMessage, hostVars, mcuVars
<1>3. i \in 1..Len(toHost) /\ Len(toHost) \in Nat /\ toHost \in Seq(Replies)
  BY SeqFacts, Zenon DEF TypeOK
<1>4. /\ Len(toHost') = Len(toHost) - 1
      /\ \A j \in 1..(Len(toHost) - 1) : toHost'[j] = IF j < i THEN toHost[j] ELSE toHost[j + 1]
  BY <1>1, <1>3, WithoutProperties, ZenonT(40)
<1> DEFINE at(j) == IF j < i THEN j ELSE j + 1
<1>5. \A j \in 1..Len(toHost') : at(j) \in 1..Len(toHost) /\ toHost'[j] = toHost[at(j)]
  BY <1>3, <1>4, SMTT(30)
<1>6. \A j, k \in 1..Len(toHost') : j < k => at(j) < at(k)
  BY <1>3, <1>4, SMTT(30)
<1>7. \A k \in 1..Len(toHost) : k # i => \E j \in 1..Len(toHost') : toHost'[j] = toHost[k]
  <2> TAKE k \in 1..Len(toHost)
  <2>1. CASE k < i
    BY <2>1, <1>3, <1>4, SMTT(30)
  <2>2. CASE k > i
    <3>1. k - 1 \in 1..Len(toHost') /\ ~(k - 1 < i) /\ (k - 1) + 1 = k
      BY <2>2, <1>3, <1>4, SMTT(30)
    <3>2. toHost'[k - 1] = toHost[(k - 1) + 1]
      BY <3>1, <1>4, Zenon
    <3> QED BY <3>1, <3>2, Zenon
  <2> QED BY <2>1, <2>2, <1>3, SMTT(30)
<1> HIDE DEF at
<1>8. McuNext' = McuNext /\ McuNext \in Nat
  BY <1>2, SeqFacts, Zenon DEF McuNext
<1>9. \A s \in responded' \ lostResponses' :
         /\ s \in responded \ lostResponses
         /\ ~(toHost[i].kind = "data" /\ toHost[i].of = s)
  BY <1>1, <1>2, Zenon
<1>10. NotifyAfterResponse'
  BY <1>2, <1>8, <1>9, NotifyKept, SMTT(30) DEF ResponseInv
<1>11. \A s \in responded' \ lostResponses' :
         \/ \E j \in 1..Len(toHost') : toHost'[j].kind = "data" /\ toHost'[j].of = s
         \/ \E j \in 1..Len(receive_queue') :
              receive_queue'[j].kind = "data" /\ receive_queue'[j].of = s
  <2> TAKE s \in responded' \ lostResponses'
  <2>1. ASSUME NEW k \in 1..Len(toHost), toHost[k].kind = "data", toHost[k].of = s
        PROVE  \E j \in 1..Len(toHost') : toHost'[j].kind = "data" /\ toHost'[j].of = s
    <3>1. k # i
      BY <2>1, <1>9, Zenon
    <3> QED BY <2>1, <3>1, <1>7, Zenon
  <2> QED BY <2>1, <1>2, <1>9, Zenon DEF ResponseInv
<1>12. \A j \in 1..Len(toHost') : Answers(toHost'[j]) => toHost'[j].seq = toHost'[j].of + 1
  BY <1>5, ZenonT(40) DEF ResponseInv
<1>13. \A j, k \in 1..Len(toHost') :
         j < k /\ Answers(toHost'[k]) => toHost'[j].seq < toHost'[k].seq
  BY <1>5, <1>6, ZenonT(40) DEF ResponseInv
<1> QED BY <1>2, <1>8, <1>10, <1>11, <1>12, <1>13, Zenon DEF ResponseInv, Answers

\* Every step of the link keeps the invariant.
LEMMA ResponseStep ==
    TypeOK /\ SeqInv /\ TypeOK' /\ ResponseInv /\ [Next]_vars => ResponseInv'
<1> SUFFICES ASSUME TypeOK, SeqInv, TypeOK', ResponseInv, [Next]_vars PROVE ResponseInv'
  OBVIOUS
<1>1. CASE BuildAndSendCommand
  BY <1>1, ResponseBuild, Zenon
<1>2. CASE HandleMessage
  BY <1>2, ResponseHandle, Zenon
<1>3. CASE DispatchBlock
  BY <1>3, ResponseDispatch, Zenon
<1>4. CASE FinishBlock \/ NakBlock \/ SkipGarbage \/ ReportTask
  BY <1>4, ResponseMcu, Zenon
<1>5. CASE LoseMessage
  BY <1>5, ResponseLose, Zenon
<1>6. CASE SetReceiveWindow \/ RetransmitEvent \/ LoseBlock \/ CorruptBlock \/ UNCHANGED vars
  <2>1. UNCHANGED <<receive_seq, send_seq, notify_queue, receive_queue, toHost, mcu_base,
                    dispatched, responded, lostResponses>>
    BY <1>6, Zenon DEF SetReceiveWindow, RetransmitEvent, LoseBlock, CorruptBlock, vars, hostVars, mcuVars
  <2>2. McuNext' = McuNext
    BY <2>1 DEF McuNext
  <2> QED BY <2>1, <2>2, SMTT(30) DEF ResponseInv, NotifyAfterResponse, Answers
<1> QED BY <1>1, <1>2, <1>3, <1>4, <1>5, <1>6, Zenon DEF Next

\* get_response() of serialhdl.py never wakes up on the notification of a block
\* before the response to it was received, unless the wire lost the response.
THEOREM NotifiedAfterResponse == Spec => []NotifyAfterResponse
<1>1. Spec => [](TypeOK /\ SeqInv)
  BY SeqInvariant
<1>2. Init => ResponseInv
  BY ResponseInit
<1>3. TypeOK /\ SeqInv /\ TypeOK' /\ ResponseInv /\ [Next]_vars => ResponseInv'
  BY ResponseStep, Zenon
<1>4. ResponseInv => NotifyAfterResponse
  BY DEF ResponseInv
<1> QED BY <1>1, <1>2, <1>3, <1>4, PTL DEF Spec

=============================================================================
