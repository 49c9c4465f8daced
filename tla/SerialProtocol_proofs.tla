------------------------ MODULE SerialProtocol_proofs ------------------------
(***************************************************************************)
(* Proofs about SerialProtocol, second part: the wires and the host keep   *)
(* SeqInv, so TypeOK /\ SeqInv is inductive, and what follows from it, for *)
(* every window smaller than the modulus and every value of the bounds;    *)
(* among it that the protocol implements CommandLink.                      *)
(***************************************************************************)
EXTENDS SerialProtocol_steps

-----------------------------------------------------------------------------
(* Steps of the wires and of the host *)

\* The indices of a sequence that grew by one.
LEMMA LastIndex == \A n \in Nat : \A i \in 1..(n + 1) : i \in 1..n \/ i = n + 1
  BY SMTT(30)

\* Losing a block keeps the invariant.
LEMMA SeqLoseBlock ==
    ASSUME TypeOK, TypeOK', SeqInv, LoseBlock
    PROVE  SeqInv'
<1>0. UNCHANGED <<send_seq, receive_seq, sent_queue, identified,
                  mcu_base, dispatched, toHost, dispatching>>
  BY DEF LoseBlock, hostVars, mcuVars
<1>1. McuNext' = McuNext
  BY <1>0 DEF McuNext
<1>2. PICK k \in 1..Len(toMcu) : /\ toMcu' = Without(toMcu, k)
                                 /\ dispatching => k > 1
  BY SeqFacts DEF LoseBlock, OnWire
<1>3. /\ toMcu \in Seq(WireBlocks) /\ toMcu' \in Seq(WireBlocks)
      /\ Len(toMcu') = Len(toMcu) - 1
      /\ \A j \in 1..(Len(toMcu) - 1) :
           toMcu'[j] = IF j < k THEN toMcu[j] ELSE toMcu[j + 1]
  BY <1>2, WithoutProperties, Zenon DEF TypeOK
<1>4. Len(toMcu) \in Nat
  BY SeqFacts
<1> DEFINE f == [i \in 1..Len(toMcu') |-> IF i < k THEN i ELSE i + 1]
<1>5. f \in [1..Len(toMcu') -> 1..Len(toMcu)]
  BY <1>3, <1>4
<1>6. \A i, j \in 1..Len(toMcu') : i < j => f[i] < f[j]
  BY <1>3, <1>4
<1>7. \A i \in 1..Len(toMcu') : toMcu'[i].seq = toMcu[f[i]].seq
  BY <1>3, <1>4, Zenon
<1> HIDE DEF f
<1>8. /\ ToMcuInv'
      /\ (\A i \in 1..Len(toMcu) : toMcu[i].seq = 1) =>
           \A i \in 1..Len(toMcu') : toMcu'[i].seq = 1
  <2>1. ToMcuInv
    BY DEF SeqInv
  <2> QED BY <1>0, <1>1, <1>3, <1>5, <1>6, <1>7, <2>1, FewerToMcu, Zenon
<1>9. dispatching' => toMcu' # <<>>
  <2>1. dispatching' => Len(toMcu') >= 1
    BY <1>0, <1>2, <1>3, <1>4, SMTT(30)
  <2> QED BY <2>1, SeqNone
<1>10. ToHostInv'
  BY <1>0, <1>1 DEF SeqInv, ToHostInv
<1> QED BY <1>0, <1>1, <1>8, <1>9, <1>10, SeqQuiet, Zenon

\* Corrupting a block keeps the invariant.
LEMMA SeqCorruptBlock ==
    ASSUME TypeOK, TypeOK', SeqInv, CorruptBlock
    PROVE  SeqInv'
<1>0. UNCHANGED <<send_seq, receive_seq, sent_queue, identified,
                  mcu_base, dispatched, toHost, dispatching>>
  BY DEF CorruptBlock, hostVars, mcuVars
<1>1. McuNext' = McuNext
  BY <1>0 DEF McuNext
<1>2. PICK k \in 1..Len(toMcu) : toMcu' = [toMcu EXCEPT ![k] = Damaged(@)]
  BY SeqFacts, ZenonT(40) DEF CorruptBlock, OnWire
<1>3. Damaged(toMcu[k]) \in WireBlocks /\ Damaged(toMcu[k]).seq = toMcu[k].seq
  BY SeqFacts, DamagedBlock
<1>4. /\ toMcu \in Seq(WireBlocks) /\ toMcu' \in Seq(WireBlocks)
      /\ Len(toMcu') = Len(toMcu)
      /\ \A j \in 1..Len(toMcu) :
           toMcu'[j] = IF j = k THEN Damaged(toMcu[k]) ELSE toMcu[j]
  <2>1. toMcu \in Seq(WireBlocks) /\ toMcu' \in Seq(WireBlocks)
    BY DEF TypeOK
  <2>2. toMcu' = [toMcu EXCEPT ![k] = Damaged(toMcu[k])]
    BY <1>2
  <2> QED BY <2>1, <2>2, <1>3, SeqReplace, SMTT(30)
<1> DEFINE f == [i \in 1..Len(toMcu') |-> i]
<1>5. f \in [1..Len(toMcu') -> 1..Len(toMcu)]
  BY <1>4
<1>6. \A i, j \in 1..Len(toMcu') : i < j => f[i] < f[j]
  OBVIOUS
<1>7. \A i \in 1..Len(toMcu') : toMcu'[i].seq = toMcu[f[i]].seq
  BY <1>3, <1>4, Zenon
<1> HIDE DEF f
<1>8. /\ ToMcuInv'
      /\ (\A i \in 1..Len(toMcu) : toMcu[i].seq = 1) =>
           \A i \in 1..Len(toMcu') : toMcu'[i].seq = 1
  <2>1. ToMcuInv
    BY DEF SeqInv
  <2> QED BY <1>0, <1>1, <1>4, <1>5, <1>6, <1>7, <2>1, FewerToMcu, ZenonT(40)
<1>9. toMcu' # <<>>
  <2>1. Len(toMcu') >= 1
    BY <1>4, SeqFacts, SMTT(30)
  <2> QED BY <2>1, SeqNone, SMTT(30)
<1>10. ToHostInv'
  BY <1>0, <1>1 DEF SeqInv, ToHostInv
<1> QED BY <1>0, <1>1, <1>8, <1>9, <1>10, SeqQuiet, ZenonT(40)

\* Losing a message to the host keeps the invariant.
LEMMA SeqLoseMessage ==
    ASSUME TypeOK, TypeOK', SeqInv, LoseMessage
    PROVE  SeqInv'
<1>0. UNCHANGED <<send_seq, receive_seq, sent_queue, identified,
                  mcu_base, dispatched, toMcu, dispatching>>
  BY SMTT(30) DEF LoseMessage, hostVars, mcuVars
<1>1. McuNext' = McuNext
  BY <1>0 DEF McuNext
<1>2. PICK k \in 1..Len(toHost) : toHost' = Without(toHost, k)
  BY SeqFacts, Zenon DEF LoseMessage
<1>3. /\ toHost \in Seq(Replies) /\ toHost' \in Seq(Replies)
      /\ Len(toHost') = Len(toHost) - 1
      /\ \A j \in 1..(Len(toHost) - 1) :
           toHost'[j] = IF j < k THEN toHost[j] ELSE toHost[j + 1]
  BY <1>2, WithoutProperties, ZenonT(40) DEF TypeOK
<1>4. Len(toHost) \in Nat
  BY SeqFacts, Zenon
<1> DEFINE f == [i \in 1..Len(toHost') |-> IF i < k THEN i ELSE i + 1]
<1>5. f \in [1..Len(toHost') -> 1..Len(toHost)]
  BY <1>3, <1>4
<1>6. \A i, j \in 1..Len(toHost') : i < j => f[i] < f[j]
  BY <1>3, <1>4
<1>7. \A i \in 1..Len(toHost') : toHost'[i].seq = toHost[f[i]].seq
  BY <1>3, <1>4
<1> HIDE DEF f
<1>8. /\ ToHostInv'
      /\ (\A i \in 1..Len(toHost) : toHost[i].seq = McuNext) =>
           \A i \in 1..Len(toHost') : toHost'[i].seq = McuNext'
  <2>1. ToHostInv
    BY DEF SeqInv
  <2> QED BY <1>0, <1>1, <1>3, <1>5, <1>6, <1>7, <2>1, FewerToHost, ZenonT(40)
<1>9. ToMcuInv' /\ (dispatching' => toMcu' # <<>>)
  BY <1>0, <1>1, ZenonT(40) DEF SeqInv, ToMcuInv
<1> QED BY <1>0, <1>1, <1>8, <1>9, SeqQuiet, ZenonT(40)

\* Setting the receive window keeps the invariant.
LEMMA SeqWindow ==
    ASSUME TypeOK, SeqInv, SetReceiveWindow
    PROVE  SeqInv'
<1>0. /\ UNCHANGED <<send_seq, receive_seq, sent_queue, mcu_base, dispatched,
                     toMcu, toHost, dispatching>>
      /\ receive_seq # 1
  BY DEF SetReceiveWindow, mcuVars
<1>1. McuNext' = McuNext
  BY <1>0, Zenon DEF McuNext
<1>2. OpeningInv' /\ SentQueueInv' /\ ToHostInv' /\ ToMcuInv' /\ ExactlyOnceInOrder'
  BY <1>0, <1>1, ZenonT(40) DEF SeqInv, OpeningInv, Joined, SentQueueInv, ToHostInv, ToMcuInv,
                    ExactlyOnceInOrder
<1> QED BY <1>0, <1>1, <1>2, Zenon DEF SeqInv

\* build_and_send_command keeps the invariant: the window holds the new
\* block within MAX_PENDING_BLOCKS of receive_seq.
LEMMA SeqBuild ==
    ASSUME TypeOK, TypeOK', SeqInv, BuildAndSendCommand
    PROVE  SeqInv'
<1>0. /\ UNCHANGED <<receive_seq, identified, toHost, mcu_base, dispatched,
                     dispatching>>
      /\ send_seq' = send_seq + 1
      /\ send_seq - receive_seq < MAX_PENDING_BLOCKS
      /\ ~identified => send_seq = receive_seq
  BY DEF BuildAndSendCommand, WindowOpen, mcuVars
<1>1. McuNext' = McuNext
  BY <1>0, Zenon DEF McuNext
<1>2. PICK b \in NewBlocks : /\ sent_queue' = Append(sent_queue, b)
                             /\ toMcu' = Append(toMcu, Written(b))
  BY DEF BuildAndSendCommand
<1>3. /\ b \in Blocks /\ b.seq = send_seq
      /\ Written(b) \in WireBlocks /\ Written(b).seq = send_seq
  <2>1. send_seq \in Nat
    BY SeqFacts, SMTT(30)
  <2>2. b \in Blocks /\ b.seq = send_seq
    BY <2>1, NewBlock, Zenon
  <2> QED BY <2>2, WrittenBlock, Zenon
<1>4. /\ Len(sent_queue') = Len(sent_queue) + 1
      /\ \A i \in 1..Len(sent_queue) : sent_queue'[i] = sent_queue[i]
      /\ sent_queue'[Len(sent_queue) + 1] = b
  BY <1>2, <1>3, SeqAdd, SMTT(30) DEF TypeOK
<1>5. /\ Len(toMcu') = Len(toMcu) + 1 /\ toMcu' # <<>>
      /\ \A i \in 1..Len(toMcu) : toMcu'[i] = toMcu[i]
      /\ toMcu'[Len(toMcu) + 1] = Written(b)
  <2>1. toMcu \in Seq(WireBlocks)
    BY Zenon DEF TypeOK
  <2> QED BY <2>1, <1>2, <1>3, SeqAdd, SMTT(30)
<1>6. /\ Len(toMcu) \in Nat /\ Len(sent_queue) \in Nat /\ send_seq \in Nat
      /\ receive_seq \in Nat /\ McuNext \in Nat /\ mcu_base \in Nat
      /\ mcu_base <= SEQ_MOD
      /\ \A i \in 1..Len(toMcu) : toMcu[i].seq \in Nat
  BY SeqFacts, Zenon
<1>7. /\ receive_seq >= 1 /\ Len(sent_queue) = send_seq - receive_seq
      /\ \A i \in 1..Len(sent_queue) : sent_queue[i].seq = receive_seq + i - 1
      /\ receive_seq <= McuNext
  BY DEF SeqInv, SentQueueInv
<1>8. /\ \A i \in 1..(Len(toMcu) + 1) : i \in 1..Len(toMcu) \/ i = Len(toMcu) + 1
      /\ \A i \in 1..(Len(sent_queue) + 1) :
           i \in 1..Len(sent_queue) \/ i = Len(sent_queue) + 1
  BY <1>6, LastIndex, Zenon
<1>9. ~Joined => /\ receive_seq = 1 /\ send_seq = 1 /\ McuNext = mcu_base
                 /\ \A i \in 1..Len(toMcu) : toMcu[i].seq = 1
                 /\ \A i \in 1..Len(toHost) : toHost[i].seq = McuNext
                 /\ dispatched = <<>>
  <2>1. dispatched = <<>> => McuNext = mcu_base
    BY <1>6, SeqNone, SMTT(30) DEF McuNext
  <2>2. receive_seq = 1 => send_seq = 1
    BY <1>0, Zenon DEF SeqInv
  <2> QED BY <2>1, <2>2, Zenon DEF SeqInv, OpeningInv
<1>10. OpeningInv'
  <2> SUFFICES ASSUME ~Joined'
               PROVE  /\ receive_seq' = 1 /\ send_seq' <= 2 /\ dispatched' = <<>>
                      /\ \A i \in 1..Len(toMcu') : toMcu'[i].seq = 1
                      /\ \A i \in 1..Len(toHost') : toHost'[i].seq = McuNext'
    BY Zenon DEF OpeningInv
  <2>1. ~Joined
    BY <1>0, <1>1, <1>6, SMTT(30) DEF Joined
  <2>2. \A i \in 1..Len(toMcu') : toMcu'[i].seq = 1
    BY <1>3, <1>5, <1>8, <1>9, <2>1, ZenonT(40)
  <2> QED BY <1>0, <1>1, <1>9, <2>1, <2>2, SMTT(30)
<1>11. SentQueueInv'
  <2>1. \A i \in 1..Len(sent_queue') : sent_queue'[i].seq = receive_seq + i - 1
    <3>1. send_seq = receive_seq + (Len(sent_queue) + 1) - 1
      BY <1>6, <1>7, SMTT(30)
    <3> QED BY <3>1, <1>3, <1>4, <1>7, <1>8, ZenonT(40)
  <2> QED BY <2>1, <1>0, <1>4, <1>6, <1>7, SeqAssumption, SMTT(30) DEF SentQueueInv
<1>12. ToHostInv'
  BY <1>0, <1>1, ZenonT(40) DEF SeqInv, ToHostInv
<1>13. ToMcuInv'
  <2>1. ASSUME NEW i \in 1..Len(toMcu')
        PROVE  toMcu'[i].seq < send_seq' /\ McuNext' < toMcu'[i].seq + SEQ_MOD
    <3>1. CASE i \in 1..Len(toMcu)
      <4>1. toMcu[i].seq < send_seq /\ McuNext < toMcu[i].seq + SEQ_MOD
        BY <3>1, Zenon DEF SeqInv, ToMcuInv
      <4>2. toMcu'[i].seq = toMcu[i].seq /\ toMcu[i].seq \in Nat
        BY <3>1, <1>5, <1>6, Zenon
      <4> QED BY <4>1, <4>2, <1>0, <1>1, <1>6, SMTT(30)
    <3>2. CASE i = Len(toMcu) + 1
      <4>1. McuNext < send_seq + SEQ_MOD
        BY <1>6, <1>7, <1>9, SeqAssumption, SMTT(30) DEF Joined
      <4> QED BY <4>1, <3>2, <1>0, <1>1, <1>3, <1>5, <1>6, SMTT(30)
    <3> QED BY <3>1, <3>2, <1>5, <1>8, ZenonT(40)
  <2>2. ASSUME NEW i \in 1..Len(toMcu'), NEW j \in 1..Len(toMcu'), i < j
        PROVE  toMcu'[i].seq < toMcu'[j].seq + MAX_PENDING_BLOCKS
    <3>1. i \in 1..Len(toMcu)
      BY <2>2, <1>5, <1>6, SMTT(30)
    <3>2. CASE j \in 1..Len(toMcu)
      BY <2>2, <3>1, <3>2, <1>5, ZenonT(40) DEF SeqInv, ToMcuInv
    <3>3. CASE j = Len(toMcu) + 1
      <4>1. toMcu[i].seq < send_seq
        BY <3>1, Zenon DEF SeqInv, ToMcuInv
      <4> QED BY <4>1, <3>1, <3>3, <1>3, <1>5, <1>6, SeqAssumption, SMTT(30)
    <3> QED BY <3>2, <3>3, <1>5, <1>8, ZenonT(40)
  <2> QED BY <2>1, <2>2, Zenon DEF ToMcuInv
<1>14. ExactlyOnceInOrder'
  BY <1>0 DEF SeqInv, ExactlyOnceInOrder
<1>15. /\ (receive_seq <= McuNext)' /\ (dispatching => toMcu # <<>>)'
       /\ (identified => receive_seq # 1)'
  BY <1>0, <1>1, <1>5, ZenonT(40) DEF SeqInv
<1> QED BY <1>10, <1>11, <1>12, <1>13, <1>14, <1>15, ZenonT(40) DEF SeqInv

\* retransmit_event keeps the invariant: what it writes again is at most a
\* window behind anything still on the wire.
LEMMA SeqRetransmit ==
    ASSUME TypeOK, TypeOK', SeqInv, RetransmitEvent
    PROVE  SeqInv'
<1> DEFINE again == [i \in DOMAIN sent_queue |-> Written(sent_queue[i])]
<1>0. UNCHANGED <<send_seq, receive_seq, identified, toHost, mcu_base,
                  dispatched, dispatching>>
  BY DEF RetransmitEvent, mcuVars
<1>1. McuNext' = McuNext
  BY <1>0, Zenon DEF McuNext
<1>2. PICK keep \in FlushPoints, cut \in BOOLEAN :
        toMcu' = Flushed(keep, cut) \o again
  BY Zenon DEF RetransmitEvent
<1> DEFINE old == Flushed(keep, cut)
<1>3. /\ Len(toMcu) \in Nat /\ Len(sent_queue) \in Nat /\ send_seq \in Nat
      /\ receive_seq \in Nat /\ McuNext \in Nat /\ mcu_base \in Nat
      /\ mcu_base <= SEQ_MOD
      /\ \A i \in 1..Len(toMcu) : toMcu[i].seq \in Nat
      /\ DOMAIN sent_queue = 1..Len(sent_queue)
      /\ \A i \in 1..Len(sent_queue) : sent_queue[i] \in Blocks /\ sent_queue[i].seq \in Nat
  BY SeqFacts, Zenon
<1>4. keep \in 0..Len(toMcu) /\ (dispatching => keep >= 1)
  BY <1>3, SMTT(30) DEF FlushPoints
<1>5. /\ old \in Seq(WireBlocks) /\ Len(old) <= Len(toMcu) /\ Len(old) >= keep
      /\ \A i \in 1..Len(old) : old[i].seq = toMcu[i].seq
  <2>1. toMcu \in Seq(WireBlocks)
    BY Zenon DEF TypeOK
  <2> QED BY <2>1, <1>4, FlushedProperties, Zenon
<1>6. /\ receive_seq >= 1 /\ Len(sent_queue) = send_seq - receive_seq
      /\ \A i \in 1..Len(sent_queue) : sent_queue[i].seq = receive_seq + i - 1
      /\ send_seq - receive_seq <= MAX_PENDING_BLOCKS
      /\ receive_seq <= McuNext
  BY Zenon DEF SeqInv, SentQueueInv
<1>7. /\ again \in Seq(WireBlocks) /\ Len(again) = Len(sent_queue)
      /\ \A i \in 1..Len(sent_queue) : again[i].seq = receive_seq + i - 1
  <2>1. \A i \in 1..Len(sent_queue) :
          Written(sent_queue[i]) \in WireBlocks /\ Written(sent_queue[i]).seq = sent_queue[i].seq
    BY <1>3, WrittenBlock, Zenon
  <2> QED BY <2>1, <1>3, <1>6, SMTT(30)
<1>8. Len(old) \in Nat /\ Len(again) \in Nat
  BY <1>3, <1>5, <1>7, SeqLength, Zenon
<1> HIDE DEF old, again
<1>9. /\ Len(toMcu') = Len(old) + Len(again)
      /\ \A i \in 1..(Len(old) + Len(again)) :
           toMcu'[i] = IF i <= Len(old) THEN old[i] ELSE again[i - Len(old)]
  <2>1. toMcu' = old \o again
    BY <1>2, Zenon DEF old, again
  <2>2. /\ Len(old \o again) = Len(old) + Len(again)
        /\ \A i \in 1..(Len(old) + Len(again)) :
             (old \o again)[i] = IF i <= Len(old) THEN old[i] ELSE again[i - Len(old)]
    <3>1. old \in Seq(WireBlocks) /\ again \in Seq(WireBlocks)
      BY <1>5, <1>7, Zenon
    <3> QED BY <3>1, SeqJoin, Zenon
  <2> QED BY <2>1, <2>2, Zenon
\* A block on the wire is one that was there or one of sent_queue.
<1>10. \A i \in 1..Len(toMcu') :
         /\ i <= Len(old) => /\ i \in 1..Len(toMcu)
                             /\ toMcu'[i].seq = toMcu[i].seq
         /\ i > Len(old) => /\ i - Len(old) \in 1..Len(sent_queue)
                            /\ toMcu'[i].seq = receive_seq + (i - Len(old)) - 1
  <2> TAKE i \in 1..Len(toMcu')
  <2>1. i \in 1..(Len(old) + Len(again))
    BY <1>9, Zenon
  <2>2. CASE i <= Len(old)
    <3>1. i \in 1..Len(old) /\ i \in 1..Len(toMcu)
      BY <2>1, <2>2, <1>3, <1>5, <1>8, SMTT(30)
    <3> QED BY <3>1, <2>1, <2>2, <1>5, <1>9, <1>8, SMTT(30)
  <2>3. CASE i > Len(old)
    <3>1. i - Len(old) \in 1..Len(sent_queue)
      BY <2>1, <2>3, <1>7, <1>8, SMTT(30)
    <3>2. toMcu'[i] = again[i - Len(old)]
      BY <2>1, <2>3, <1>8, <1>9, SMTT(30)
    <3> QED BY <3>1, <3>2, <2>3, <1>7, <1>8, SMTT(30)
  <2> QED BY <2>1, <2>2, <2>3, <1>8, ZenonT(40)
<1>11. ~Joined => /\ receive_seq = 1 /\ send_seq <= 2 /\ McuNext = mcu_base
                  /\ \A i \in 1..Len(toMcu) : toMcu[i].seq = 1
                  /\ \A i \in 1..Len(toHost) : toHost[i].seq = McuNext
                  /\ dispatched = <<>>
  <2>1. dispatched = <<>> => McuNext = mcu_base
    BY <1>3, SeqNone, SMTT(30) DEF McuNext
  <2> QED BY <2>1, Zenon DEF SeqInv, OpeningInv
<1>12. OpeningInv'
  <2> SUFFICES ASSUME ~Joined'
               PROVE  /\ receive_seq' = 1 /\ send_seq' <= 2 /\ dispatched' = <<>>
                      /\ \A i \in 1..Len(toMcu') : toMcu'[i].seq = 1
                      /\ \A i \in 1..Len(toHost') : toHost'[i].seq = McuNext'
    BY DEF OpeningInv
  <2>1. ~Joined
    BY <1>0, <1>1, Zenon DEF Joined
  <2>2. ASSUME NEW i \in 1..Len(toMcu') PROVE toMcu'[i].seq = 1
    <3>1. CASE i <= Len(old)
      BY <3>1, <2>1, <1>10, <1>11, Zenon
    <3>2. CASE i > Len(old)
      BY <3>2, <2>1, <1>3, <1>6, <1>8, <1>10, <1>11, SMTT(30)
    <3>3. i <= Len(old) \/ i > Len(old)
      BY <1>8
    <3> QED BY <3>1, <3>2, <3>3, ZenonT(40)
  <2> QED BY <1>0, <1>1, <1>11, <2>1, <2>2, Zenon
<1>13. SentQueueInv'
  <2>1. sent_queue' = [i \in 1..Len(sent_queue) |-> Resent(sent_queue[i])]
    BY <1>3, Zenon DEF RetransmitEvent
  <2>2. Len(sent_queue') = Len(sent_queue)
    BY <2>1, <1>3, SMTT(30)
  <2>3. \A i \in 1..Len(sent_queue) : sent_queue'[i].seq = receive_seq + i - 1
    BY <2>1, <1>3, <1>6, WrittenBlock, Zenon
  <2> QED BY <2>2, <2>3, <1>0, <1>6, Zenon DEF SentQueueInv
<1>14. ToHostInv'
  BY <1>0, <1>1, Zenon DEF SeqInv, ToHostInv
<1>15. ToMcuInv'
  <2>1. \A i \in 1..Len(toMcu) : toMcu[i].seq < send_seq /\ McuNext < toMcu[i].seq + SEQ_MOD
    BY Zenon DEF SeqInv, ToMcuInv
  <2>2. McuNext < receive_seq + SEQ_MOD
    BY <1>3, <1>6, <1>11, SeqAssumption, SMTT(30) DEF Joined
  <2>3. ASSUME NEW i \in 1..Len(toMcu')
        PROVE  /\ toMcu'[i].seq < send_seq' /\ McuNext' < toMcu'[i].seq + SEQ_MOD
               /\ i \in Nat
    <3>1. CASE i <= Len(old)
      BY <3>1, <2>1, <1>0, <1>1, <1>10, SMTT(30)
    <3>2. CASE i > Len(old)
      <4> DEFINE k == i - Len(old)
      <4>1. k \in 1..Len(sent_queue) /\ toMcu'[i].seq = receive_seq + k - 1
        BY <3>2, <1>10, Zenon
      <4> HIDE DEF k
      <4> QED BY <4>1, <2>2, <1>0, <1>1, <1>3, <1>6, SeqAssumption, SMTT(30)
    <3> QED BY <3>1, <3>2, <1>8, SMTT(30)
  <2>4. ASSUME NEW i \in 1..Len(toMcu'), NEW j \in 1..Len(toMcu'), i < j
        PROVE  toMcu'[i].seq < toMcu'[j].seq + MAX_PENDING_BLOCKS
    <3>1. CASE j <= Len(old)
      <4>1. i <= Len(old)
        BY <2>4, <3>1, <1>8, SMTT(30)
      <4> QED BY <2>4, <3>1, <4>1, <1>10, Zenon DEF SeqInv, ToMcuInv
    <3>2. CASE j > Len(old)
      <4> DEFINE k == j - Len(old)
      <4>1. k \in 1..Len(sent_queue) /\ toMcu'[j].seq = receive_seq + k - 1
        BY <3>2, <1>10, Zenon
      <4> HIDE DEF k
      <4>2. toMcu'[i].seq < send_seq
        BY <2>3, <1>0, Zenon
      <4>3. toMcu'[i].seq \in Nat
        <5>1. toMcu' \in Seq(WireBlocks)
          BY DEF TypeOK
        <5>2. toMcu'[i] \in WireBlocks
          BY <5>1, SeqElement, Zenon
        <5> QED BY <5>2, Zenon DEF WireBlocks
      <4> QED BY <4>1, <4>2, <4>3, <1>3, <1>6, SeqAssumption, SMTT(30)
    <3> QED BY <3>1, <3>2, <1>8, SMTT(30)
  <2> QED BY <2>3, <2>4, Zenon DEF ToMcuInv
<1>16. ExactlyOnceInOrder'
  BY <1>0, Zenon DEF SeqInv, ExactlyOnceInOrder
<1>17. (dispatching => toMcu # <<>>)'
  <2>1. dispatching => Len(toMcu') >= 1
    BY <1>4, <1>5, <1>8, <1>9, SMTT(30)
  <2> QED BY <2>1, <1>0, SeqNone, SMTT(30)
<1>18. (receive_seq <= McuNext)' /\ (identified => receive_seq # 1)'
  BY <1>0, <1>1, Zenon DEF SeqInv
<1> QED BY <1>12, <1>13, <1>14, <1>15, <1>16, <1>17, <1>18, ZenonT(40) DEF SeqInv

\* handle_message keeps the invariant: it decodes the number the mcu sent, so
\* it drops from sent_queue exactly the blocks below that number.
LEMMA SeqHandle ==
    ASSUME TypeOK, TypeOK', SeqInv, HandleMessage
    PROVE  SeqInv'
<1> DEFINE m == Head(toHost)
           a == m.seq
<1>0. /\ UNCHANGED <<identified, toMcu, mcu_base, dispatched, dispatching>>
      /\ toHost # <<>> /\ toHost' = Tail(toHost)
  BY DEF HandleMessage, mcuVars
<1>1. McuNext' = McuNext
  BY <1>0, Zenon DEF McuNext
<1>2. m = toHost[1] /\ 1 \in 1..Len(toHost) /\ ReceiveSeq(WireSeq(a)) = a
  BY <1>0, SameMessage, Zenon
<1>3. /\ Len(toMcu) \in Nat /\ Len(sent_queue) \in Nat /\ send_seq \in Nat
      /\ receive_seq \in Nat /\ McuNext \in Nat /\ mcu_base \in Nat
      /\ Len(toHost) \in Nat
      /\ \A i \in 1..Len(toMcu) : toMcu[i].seq \in Nat
      /\ \A i \in 1..Len(toHost) : toHost[i].seq \in Nat
      /\ \A i \in 1..Len(sent_queue) : sent_queue[i] \in Blocks
  BY SeqFacts, Zenon
<1>4. a \in Nat /\ receive_seq <= a /\ a <= McuNext
  BY <1>2, <1>3, Zenon DEF SeqInv, ToHostInv
<1>5. /\ Len(toHost') = Len(toHost) - 1
      /\ \A i \in 1..Len(toHost') : toHost'[i] = toHost[i + 1]
  <2>1. toHost \in Seq(Replies)
    BY Zenon DEF TypeOK
  <2> QED BY <2>1, <1>0, SeqRest, Zenon
<1>6. \A i \in 1..Len(toHost') :
        /\ i + 1 \in 1..Len(toHost)
        /\ toHost'[i].seq = toHost[i + 1].seq /\ a <= toHost'[i].seq
        /\ toHost'[i].seq <= McuNext
  <2> TAKE i \in 1..Len(toHost')
  <2>1. i + 1 \in 1..Len(toHost) /\ 1 < i + 1
    BY <1>3, <1>5, SMTT(30)
  <2> QED BY <2>1, <1>2, <1>5, Zenon DEF SeqInv, ToHostInv
<1>6a. ASSUME NEW i \in 1..Len(toHost'), NEW j \in 1..Len(toHost'), i < j
       PROVE  toHost'[i].seq <= toHost'[j].seq
  <2>1. i + 1 \in 1..Len(toHost) /\ j + 1 \in 1..Len(toHost)
    BY <1>6, Zenon
  <2>2. i + 1 < j + 1
    BY <1>6a, <1>3, <1>5, SMTT(30)
  <2>3. toHost[i + 1].seq <= toHost[j + 1].seq
    BY <2>1, <2>2, Zenon DEF SeqInv, ToHostInv
  <2> QED BY <2>3, <1>6, Zenon
<1>7. /\ receive_seq >= 1 /\ Len(sent_queue) = send_seq - receive_seq
      /\ \A i \in 1..Len(sent_queue) : sent_queue[i].seq = receive_seq + i - 1
      /\ send_seq - receive_seq <= MAX_PENDING_BLOCKS
      /\ receive_seq <= McuNext
  BY Zenon DEF SeqInv, SentQueueInv
<1>8. ~Joined => /\ receive_seq = 1 /\ a = McuNext
                 /\ \A i \in 1..Len(toMcu) : toMcu[i].seq = 1
                 /\ \A i \in 1..Len(toHost) : toHost[i].seq = McuNext
                 /\ send_seq <= 2 /\ dispatched = <<>>
  BY <1>2, Zenon DEF SeqInv, OpeningInv
<1>9. /\ \A i \in 1..Len(toMcu) : toMcu[i].seq < send_seq /\ McuNext < toMcu[i].seq + SEQ_MOD
      /\ \A i, j \in 1..Len(toMcu) :
           i < j => toMcu[i].seq < toMcu[j].seq + MAX_PENDING_BLOCKS
  BY Zenon DEF SeqInv, ToMcuInv
<1> HIDE DEF m, a
<1>10. CASE a = receive_seq
  <2>1. UNCHANGED <<receive_seq, send_seq, sent_queue>>
    BY <1>2, <1>10, Zenon DEF HandleMessage, HandleValid, m, a
  <2>2. ToHostInv'
    <3>1. \A i \in 1..Len(toHost') : receive_seq' <= toHost'[i].seq /\ toHost'[i].seq <= McuNext'
      BY <1>1, <1>6, <1>10, <2>1, Zenon
    <3> QED BY <3>1, <1>6a, Zenon DEF ToHostInv
  <2>3. ToMcuInv'
    BY <1>0, <1>1, <1>9, <2>1, Zenon DEF ToMcuInv
  <2>4. (\A i \in 1..Len(toHost) : toHost[i].seq = McuNext) =>
          \A i \in 1..Len(toHost') : toHost'[i].seq = McuNext'
    BY <1>1, <1>6
  <2>5. dispatching' => toMcu' # <<>>
    BY <1>0 DEF SeqInv
  <2> QED BY <1>0, <2>1, <2>2, <2>3, <2>4, <2>5, SeqQuiet, Zenon
<1>11. CASE a # receive_seq
  <2>0. a > receive_seq /\ a - receive_seq \in Nat
    BY <1>3, <1>4, <1>11, SMTT(30)
  <2>1. ~(a > send_seq /\ receive_seq # 1)
    BY <1>3, <1>4, <1>8, SMTT(30) DEF Joined
  <2>2. UpdateReceiveSeq(a)
    BY <1>2, <1>11, <2>1, Zenon DEF HandleMessage, HandleValid, m, a
  <2>3. ToHostInv'
    <3>1. receive_seq' = a
      BY <2>2, Zenon DEF UpdateReceiveSeq
    <3>2. \A i \in 1..Len(toHost') : receive_seq' <= toHost'[i].seq /\ toHost'[i].seq <= McuNext'
      BY <1>1, <1>6, <3>1, Zenon
    <3> QED BY <3>2, <1>6a DEF ToHostInv
  <2>4. OpeningInv' /\ SentQueueInv' /\ ToMcuInv' /\ receive_seq' = a
    <3>1. CASE a - receive_seq <= Len(sent_queue)
      <4>1. /\ receive_seq' = a /\ send_seq' = send_seq
            /\ sent_queue' = SubSeq(sent_queue, (a - receive_seq) + 1, Len(sent_queue))
        BY <2>2, <3>1, Zenon DEF UpdateReceiveSeq
      <4>2. Joined
        BY <3>1, <1>3, <1>4, <1>7, <1>8, SMTT(30) DEF Joined
      <4>3. OpeningInv'
        BY <4>1, <4>2, <1>1, Zenon DEF OpeningInv, Joined
      <4>4. ToMcuInv'
        BY <4>1, <1>0, <1>1, <1>9, Zenon DEF ToMcuInv
      <4> DEFINE k == (a - receive_seq) + 1
                 n == Len(sent_queue)
      <4>5. /\ Len(sent_queue') = IF k <= n THEN n - k + 1 ELSE 0
            /\ \A i \in 1..(n - k + 1) : sent_queue'[i] = sent_queue[k + i - 1]
        <5>1. sent_queue \in Seq(Blocks) /\ n \in Nat
          BY <1>3, Zenon DEF SeqInv, TypeOK
        <5>2. k \in Int /\ n \in Int /\ 1 <= k /\ n <= Len(sent_queue)
          BY <2>0, <5>1, SMTT(30)
        <5>3. sent_queue' = SubSeq(sent_queue, k, n)
          BY <4>1
        <5> HIDE DEF k, n
        <5> QED BY <5>1, <5>2, <5>3, SeqPart, SMTT(30)
      <4>6. Len(sent_queue') = send_seq - a /\ n - k + 1 = send_seq - a
        <5>1. n = send_seq - receive_seq /\ send_seq \in Nat /\ receive_seq \in Nat
          BY <1>3, <1>7, Zenon
        <5>2. Len(sent_queue') = IF k <= n THEN n - k + 1 ELSE 0
          BY <4>5, Zenon
        <5> QED BY <5>1, <5>2, <3>1, <2>0, <1>4, SMTT(30)
      <4>7. ASSUME NEW i \in 1..Len(sent_queue')
            PROVE  sent_queue'[i].seq = a + i - 1
        <5>1. k + i - 1 \in 1..n /\ i \in 1..(n - k + 1)
          BY <4>6, <2>0, <1>3, <1>4, <1>7, SMTT(30)
        <5>2. sent_queue'[i] = sent_queue[k + i - 1]
          BY <5>1, <4>5, Zenon
        <5>3. sent_queue[k + i - 1].seq = receive_seq + (k + i - 1) - 1
          BY <5>1, <1>7, Zenon
        <5>4. receive_seq + (k + i - 1) - 1 = a + i - 1
          BY <2>0, <1>3, <1>4, <4>6, SMTT(30)
        <5> QED BY <5>2, <5>3, <5>4, Zenon
      <4>8. SentQueueInv'
        <5>1. a >= 1 /\ send_seq - a <= MAX_PENDING_BLOCKS
          BY <2>0, <1>3, <1>4, <1>7, SeqAssumption, SMTT(30)
        <5> QED BY <5>1, <4>1, <4>6, <4>7, Zenon DEF SentQueueInv
      <4> QED BY <4>1, <4>3, <4>4, <4>8, Zenon
    <3>2. CASE ~(a - receive_seq <= Len(sent_queue))
      <4>1. receive_seq' = a /\ send_seq' = a /\ sent_queue' = <<>>
        BY <2>2, <3>2, Zenon DEF UpdateReceiveSeq
      <4>2. a > send_seq
        BY <3>2, <1>3, <1>4, <1>7, SMTT(30)
      <4>3. ~Joined
        BY <4>2, <1>3, <1>4, SMTT(30) DEF Joined
      <4>4. OpeningInv'
        BY <4>1, <4>3, <1>1, <1>3, <1>8, SMTT(30) DEF OpeningInv, Joined
      <4>5. SentQueueInv'
        BY <4>1, <2>0, <1>3, <1>4, <1>7, SeqAssumption, SeqNone, SMTT(30) DEF SentQueueInv
      <4>6. ToMcuInv'
        <5>1. \A i \in 1..Len(toMcu) : toMcu[i].seq < a
          BY <4>2, <1>3, <1>4, <1>9, SMTT(30)
        <5> QED BY <4>1, <5>1, <1>0, <1>1, <1>9, ZenonT(40) DEF ToMcuInv
      <4> QED BY <4>1, <4>4, <4>5, <4>6, Zenon
    <3> QED BY <3>1, <3>2, Zenon
  <2>5. ExactlyOnceInOrder'
    BY <1>0, Zenon DEF SeqInv, ExactlyOnceInOrder
  <2>6. /\ (receive_seq <= McuNext)' /\ (identified => receive_seq # 1)'
        /\ (dispatching => toMcu # <<>>)'
    BY <2>0, <2>4, <1>0, <1>1, <1>3, <1>4, <1>7, SMTT(30) DEF SeqInv
  <2> QED BY <2>3, <2>4, <2>5, <2>6, Zenon DEF SeqInv
<1> QED BY <1>10, <1>11, Zenon

\* The types and the invariant together are inductive.
LEMMA TypeSeqStep == TypeOK /\ SeqInv /\ [Next]_vars => (TypeOK /\ SeqInv)'
<1> SUFFICES ASSUME TypeOK, SeqInv, [Next]_vars PROVE TypeOK' /\ SeqInv'
  OBVIOUS
<1>1. CASE BuildAndSendCommand
  BY <1>1, TypeBuild, SeqBuild, Zenon
<1>2. CASE SetReceiveWindow
  <2>1. TypeOK'
    BY <1>2, Zenon DEF SetReceiveWindow, TypeOK, mcuVars
  <2> QED BY <1>2, <2>1, SeqWindow, Zenon
<1>3. CASE RetransmitEvent
  BY <1>3, TypeRetransmit, SeqRetransmit, Zenon
<1>4. CASE HandleMessage
  BY <1>4, TypeHandle, SeqHandle
<1>5. CASE DispatchBlock
  <2>1. dispatching => toMcu # <<>>
    BY DEF SeqInv
  <2> QED BY <1>5, <2>1, TypeMcu, SeqDispatch, Zenon
<1>6. CASE FinishBlock \/ NakBlock \/ SkipGarbage
  <2>1. dispatching => toMcu # <<>>
    BY DEF SeqInv
  <2> QED BY <1>6, <2>1, TypeMcu, SeqMcu, Zenon
<1>7. CASE ReportTask
  <2>1. dispatching => toMcu # <<>>
    BY DEF SeqInv
  <2> QED BY <1>7, <2>1, TypeMcu, SeqReport, Zenon
<1>8. CASE LoseBlock
  BY <1>8, TypeWires, SeqLoseBlock
<1>9. CASE CorruptBlock
  BY <1>9, TypeWires, SeqCorruptBlock, Zenon
<1>10. CASE LoseMessage
  BY <1>10, TypeWires, SeqLoseMessage, Zenon
<1>11. CASE UNCHANGED vars
  <2>1. TypeOK'
    BY <1>11, Zenon DEF vars, hostVars, mcuVars, TypeOK
  <2>2. UNCHANGED <<send_seq, receive_seq, sent_queue, identified, mcu_base,
                    dispatched, toMcu, toHost, dispatching>>
    BY <1>11, Zenon DEF vars, hostVars, mcuVars
  <2>3. McuNext' = McuNext
    BY <2>2, Zenon DEF McuNext
  <2>4. OpeningInv' /\ SentQueueInv' /\ ToHostInv' /\ ToMcuInv' /\ ExactlyOnceInOrder'
    BY <2>2, <2>3, ZenonT(40) DEF SeqInv, OpeningInv, Joined, SentQueueInv, ToHostInv, ToMcuInv,
                      ExactlyOnceInOrder
  <2> QED BY <2>1, <2>2, <2>3, <2>4, Zenon DEF SeqInv
<1> QED BY <1>1, <1>2, <1>3, <1>4, <1>5, <1>6, <1>7, <1>8, <1>9, <1>10, <1>11, ZenonT(40)
        DEF Next

\* SeqInv is an invariant of the protocol for every modulus larger than the
\* window: four-bit sequence numbers are never ambiguous.
THEOREM SeqInvariant == Spec => [](TypeOK /\ SeqInv)
<1>1. Init => TypeOK /\ SeqInv
  BY TypeInit, SeqInit
<1> QED BY <1>1, TypeSeqStep, PTL DEF Spec

\* The types are an invariant of serialqueue.c and command.c as modelled.
THEOREM TypeCorrect == Spec => []TypeOK
  BY SeqInvariant, PTL

\* The mcu dispatches every block exactly once and in order, for every window
\* smaller than the modulus and any number of losses, corruptions and resends.
THEOREM ExactlyOnce == Spec => []ExactlyOnceInOrder
<1>1. SeqInv => ExactlyOnceInOrder
  BY Zenon DEF SeqInv
<1> QED BY <1>1, SeqInvariant, PTL

\* update_receive_seq drops a block from sent_queue only after the mcu has
\* dispatched it.
THEOREM AckedOnlyIfDispatched == Spec => []AckedWereDispatched
<1>1. SeqInv => AckedWereDispatched
  BY Zenon DEF SeqInv, AckedWereDispatched
<1> QED BY <1>1, SeqInvariant, PTL

-----------------------------------------------------------------------------
(* handle_message *)

\* A message of the mcu is never refused: the number handle_message decodes is
\* the one the mcu sent, not before receive_seq and not after the mcu's.
LEMMA HandleIsValid ==
    ASSUME TypeOK, SeqInv, HandleMessage
    PROVE  /\ Head(toHost) = toHost[1] /\ 1 \in 1..Len(toHost)
           /\ toHost[1] \in Replies
           /\ receive_seq <= toHost[1].seq /\ toHost[1].seq <= McuNext
           /\ toHost[1].seq <= send_seq \/ (~Joined /\ toHost[1].seq = McuNext)
           /\ HandleValid(toHost[1], toHost[1].seq)
<1>0. toHost # <<>>
  BY DEF HandleMessage
<1>1. /\ Head(toHost) = toHost[1] /\ 1 \in 1..Len(toHost)
      /\ ReceiveSeq(WireSeq(toHost[1].seq)) = toHost[1].seq
  BY <1>0, SameMessage
<1>2. toHost[1] \in Replies /\ toHost[1].seq \in Nat
  <2>1. toHost \in Seq(Replies)
    BY DEF TypeOK
  <2>2. toHost[1] \in Replies
    BY <2>1, <1>1, SeqElement, Zenon
  <2> QED BY <2>2, Zenon DEF Replies
<1>3. send_seq \in Nat /\ McuNext \in Nat /\ receive_seq \in Nat
  BY SeqFacts, Zenon
<1>4. receive_seq <= toHost[1].seq /\ toHost[1].seq <= McuNext
  BY <1>1, Zenon DEF SeqInv, ToHostInv
<1>5. ~Joined => receive_seq = 1 /\ toHost[1].seq = McuNext
  BY <1>1 DEF SeqInv, OpeningInv
<1>6. ~(toHost[1].seq > send_seq /\ receive_seq # 1)
  BY <1>2, <1>3, <1>4, <1>5, SMTT(30) DEF Joined
<1>7. HandleValid(toHost[1], toHost[1].seq)
  BY <1>1, <1>6 DEF HandleMessage
<1>8. toHost[1].seq <= send_seq \/ (~Joined /\ toHost[1].seq = McuNext)
  BY <1>2, <1>3, <1>4, <1>5, SMTT(30) DEF Joined
<1> QED BY <1>1, <1>2, <1>4, <1>7, <1>8, Zenon

\* What handle_message does to the two numbers: receive_seq becomes the number
\* received; send_seq moves only while the session opens, to the mcu's number.
LEMMA HandleNumbers ==
    ASSUME TypeOK, SeqInv, HandleMessage
    PROVE  /\ receive_seq' = toHost[1].seq
           /\ \/ send_seq' = send_seq
              \/ /\ ~Joined /\ send_seq' = McuNext /\ toHost[1].seq = McuNext
                 /\ sent_queue' = <<>>
           /\ UNCHANGED <<mcu_base, dispatched, retransmit_seq, ignore_nak_seq, identified>>
<1> DEFINE a == toHost[1].seq
<1>1. /\ receive_seq <= a /\ a <= McuNext /\ HandleValid(toHost[1], a)
      /\ a <= send_seq \/ (~Joined /\ a = McuNext)
      /\ toHost[1] \in Replies
  BY HandleIsValid, Zenon
<1>2. /\ send_seq \in Nat /\ McuNext \in Nat /\ receive_seq \in Nat
      /\ Len(sent_queue) \in Nat
  BY SeqFacts, Zenon
<1>2a. a \in Nat
  BY <1>1, Zenon DEF Replies
<1>3. UNCHANGED <<mcu_base, dispatched, retransmit_seq, ignore_nak_seq, identified>>
  BY DEF HandleMessage, mcuVars
<1>4. Len(sent_queue) = send_seq - receive_seq
  BY Zenon DEF SeqInv, SentQueueInv
<1> HIDE DEF a
<1>5. CASE a = receive_seq
  BY <1>1, <1>3, <1>5, SMTT(30) DEF HandleValid, a
<1>6. CASE a # receive_seq
  <2>1. UpdateReceiveSeq(a)
    BY <1>1, <1>6, Zenon DEF HandleValid
  <2>2. CASE a - receive_seq <= Len(sent_queue)
    BY <2>1, <2>2, <1>3, Zenon DEF UpdateReceiveSeq, a
  <2>3. CASE ~(a - receive_seq <= Len(sent_queue))
    <3>1. a > send_seq
      BY <2>3, <1>1, <1>2, <1>2a, <1>4, SMTT(30)
    <3>2. ~Joined /\ a = McuNext
      BY <3>1, <1>1, <1>2, <1>2a, SMTT(30)
    <3> QED BY <2>1, <2>3, <3>2, <1>3, Zenon DEF UpdateReceiveSeq, a
  <2> QED BY <2>2, <2>3, Zenon
<1> QED BY <1>5, <1>6, Zenon

-----------------------------------------------------------------------------
(* The protocol implements CommandLink *)

LinkSent == IF send_seq >= mcu_base THEN send_seq - mcu_base ELSE 0
LinkDelivered == [i \in DOMAIN dispatched |-> dispatched[i] - mcu_base + 1]
LinkAcked == IF receive_seq >= mcu_base THEN receive_seq - mcu_base ELSE 0

\* The variables of CommandLink under the mapping: what was delivered are the
\* first Len(dispatched) blocks, and what was acked was delivered.
LEMMA LinkFacts ==
    ASSUME TypeOK, SeqInv
    PROVE  /\ LinkSent \in Nat /\ LinkAcked \in Nat /\ Len(dispatched) \in Nat
           /\ LinkDelivered = [i \in 1..Len(dispatched) |-> i]
           /\ Len(LinkDelivered) = Len(dispatched)
           /\ LinkAcked <= Len(dispatched)
<1>1. /\ send_seq \in Nat /\ receive_seq \in Nat /\ mcu_base \in Nat
      /\ Len(dispatched) \in Nat /\ DOMAIN dispatched = 1..Len(dispatched)
  BY SeqFacts
<1>2. \A i \in 1..Len(dispatched) : dispatched[i] = mcu_base + i - 1
  BY <1>1 DEF SeqInv, ExactlyOnceInOrder
<1>3. \A i \in 1..Len(dispatched) : dispatched[i] - mcu_base + 1 = i
  BY <1>1, <1>2, SMTT(30)
<1>4. LinkDelivered = [i \in 1..Len(dispatched) |-> i]
  BY <1>1, <1>3 DEF LinkDelivered
<1>5. receive_seq <= mcu_base + Len(dispatched)
  BY DEF SeqInv, McuNext
<1>6. LinkAcked <= Len(dispatched)
  BY <1>1, <1>5 DEF LinkAcked
<1>7. Len(LinkDelivered) = Len(dispatched)
  BY <1>1, <1>4
<1> QED BY <1>1, <1>4, <1>6, <1>7, SMTT(30) DEF LinkSent, LinkAcked

\* serialqueue_alloc starts an empty link, whatever number the mcu is at.
LEMMA LinkInit == Init => Link!Init
<1> SUFFICES ASSUME Init PROVE Link!Init
  OBVIOUS
<1>1. LinkSent = 0 /\ LinkAcked = 0
  BY SeqAssumption DEF Init, LinkSent, LinkAcked
<1>2. LinkDelivered = <<>>
  BY SMTT(30) DEF Init, LinkDelivered
<1> QED BY <1>1, <1>2 DEF Link!Init, LinkSent, LinkAcked, LinkDelivered

\* build_and_send_command sends a block, once the numbering has reached the mcu's.
LEMMA LinkBuild ==
    ASSUME TypeOK, SeqInv, BuildAndSendCommand
    PROVE  Link!Send \/ UNCHANGED Link!linkVars
<1>1. /\ UNCHANGED <<receive_seq, mcu_base, dispatched>> /\ send_seq' = send_seq + 1
  BY DEF BuildAndSendCommand, mcuVars
<1>2. send_seq \in Nat /\ mcu_base \in Nat
  BY SeqFacts
<1>3. LinkDelivered' = LinkDelivered /\ LinkAcked' = LinkAcked
  BY <1>1 DEF LinkDelivered, LinkAcked
<1>4. LinkSent' = LinkSent + 1 \/ LinkSent' = LinkSent
  BY <1>1, <1>2 DEF LinkSent
<1> QED BY <1>3, <1>4, Zenon DEF Link!Send, Link!linkVars, LinkSent, LinkDelivered, LinkAcked

\* command_dispatch delivers the next block of those sent.
LEMMA LinkDispatch ==
    ASSUME TypeOK, TypeOK', SeqInv, SeqInv', DispatchBlock
    PROVE  Link!Deliver
<1>1. /\ UNCHANGED <<receive_seq, send_seq, mcu_base>> /\ toMcu # <<>>
      /\ WireSeq(Head(toMcu).seq) = WireSeq(McuNext)
      /\ dispatched' = Append(dispatched, Head(toMcu).seq)
  BY Zenon DEF DispatchBlock, hostVars
<1>2. Head(toMcu) = toMcu[1] /\ 1 \in 1..Len(toMcu) /\ Head(toMcu).seq = McuNext
  BY <1>1, SameBlock, Zenon
<1>3. McuNext < send_seq
  BY <1>2, Zenon DEF SeqInv, ToMcuInv
<1>4. send_seq \in Nat /\ mcu_base \in Nat /\ Len(dispatched) \in Nat
  BY SeqFacts
<1>5. Len(dispatched) < LinkSent
  BY <1>3, <1>4, SMTT(30) DEF LinkSent, McuNext
<1>6. LinkSent' = LinkSent /\ LinkAcked' = LinkAcked
  BY <1>1 DEF LinkSent, LinkAcked
<1>7. Len(dispatched') = Len(dispatched) + 1
  <2>1. dispatched \in Seq(Nat) /\ Head(toMcu).seq \in Nat
    BY <1>2, SeqFacts, Zenon DEF TypeOK
  <2> QED BY <2>1, <1>1, SeqAdd, Zenon
<1>8. /\ LinkDelivered = [i \in 1..Len(dispatched) |-> i]
      /\ Len(LinkDelivered) = Len(dispatched)
  BY LinkFacts, Zenon
<1>9. LinkDelivered' = [i \in 1..Len(dispatched') |-> i]
  <2>1. DOMAIN dispatched' = 1..Len(dispatched')
    BY SeqLength, Zenon DEF TypeOK
  <2>2. \A i \in 1..Len(dispatched') : dispatched'[i] = mcu_base + i - 1
    BY <1>1, <2>1, Zenon DEF SeqInv, ExactlyOnceInOrder
  <2>3. \A i \in 1..Len(dispatched') : dispatched'[i] - mcu_base' + 1 = i
    BY <2>2, <1>1, <1>4, <1>7, SMTT(30)
  <2> QED BY <2>1, <2>3, Zenon DEF LinkDelivered
<1>10. LinkDelivered' = Append(LinkDelivered, Len(LinkDelivered) + 1)
  BY <1>4, <1>7, <1>8, <1>9, SMTT(30)
<1> QED BY <1>5, <1>6, <1>8, <1>10, Zenon DEF Link!Deliver, LinkSent, LinkDelivered, LinkAcked

\* handle_message acks blocks that were delivered, or none.
LEMMA LinkHandle ==
    ASSUME TypeOK, SeqInv, HandleMessage
    PROVE  Link!Ack \/ UNCHANGED Link!linkVars
<1> DEFINE a == toHost[1].seq
<1>1. /\ receive_seq <= a /\ a <= McuNext /\ toHost[1] \in Replies
  BY HandleIsValid, Zenon
<1>2. /\ receive_seq' = a
      /\ send_seq' = send_seq \/ (~Joined /\ send_seq' = McuNext /\ a = McuNext)
      /\ UNCHANGED <<mcu_base, dispatched>>
  BY HandleNumbers, Zenon
<1>3. a \in Nat
  BY <1>1, Zenon DEF Replies
<1>4. /\ send_seq \in Nat /\ receive_seq \in Nat /\ mcu_base \in Nat
      /\ Len(dispatched) \in Nat /\ McuNext = mcu_base + Len(dispatched)
  BY SeqFacts, Zenon DEF McuNext
<1>5. ~Joined => McuNext = mcu_base /\ receive_seq = 1 /\ send_seq < mcu_base
  BY <1>4, SeqNone, SMTT(30) DEF SeqInv, OpeningInv, Joined
<1> HIDE DEF a
<1>6. LinkDelivered' = LinkDelivered
  BY <1>2, Zenon DEF LinkDelivered
<1>7. LinkSent' = LinkSent
  BY <1>2, <1>4, <1>5, SMTT(30) DEF LinkSent
<1>8. LinkAcked' = LinkAcked \/ LinkAcked' \in (LinkAcked + 1)..Len(dispatched)
  BY <1>1, <1>2, <1>3, <1>4, SMTT(30) DEF LinkAcked
<1>9. Len(LinkDelivered) = Len(dispatched)
  BY LinkFacts
<1> QED BY <1>6, <1>7, <1>8, <1>9, Zenon DEF Link!Ack, Link!linkVars, LinkSent, LinkDelivered, LinkAcked

\* Every step of the protocol is a step of the link or none.
LEMMA LinkStep ==
    TypeOK /\ SeqInv /\ (TypeOK /\ SeqInv)' /\ [Next]_vars => [Link!Next]_(Link!linkVars)
<1> SUFFICES ASSUME TypeOK, SeqInv, TypeOK', SeqInv', [Next]_vars
             PROVE  Link!Next \/ UNCHANGED Link!linkVars
  OBVIOUS
<1>1. CASE BuildAndSendCommand
  BY <1>1, LinkBuild, Zenon DEF Link!Next
<1>2. CASE DispatchBlock
  BY <1>2, LinkDispatch DEF Link!Next
<1>3. CASE HandleMessage
  BY <1>3, LinkHandle, Zenon DEF Link!Next
<1>4. CASE \/ SetReceiveWindow \/ RetransmitEvent \/ FinishBlock \/ NakBlock \/ SkipGarbage
           \/ ReportTask \/ LoseBlock \/ CorruptBlock \/ LoseMessage \/ UNCHANGED vars
  <2>1. UNCHANGED <<send_seq, receive_seq, mcu_base, dispatched>>
    BY <1>4, Zenon DEF SetReceiveWindow, RetransmitEvent, FinishBlock, NakBlock, SkipGarbage,
                ReportTask, LoseBlock, CorruptBlock, LoseMessage, vars, hostVars, mcuVars
  <2> QED BY <2>1, Zenon DEF Link!linkVars
<1> QED BY <1>1, <1>2, <1>3, <1>4, Zenon DEF Next

\* The sliding window of serialqueue.c and command.c implements the reliable,
\* ordered link its users rely on, for every window smaller than the modulus.
THEOREM LinkImplemented == Spec => ImplementsLink
<1>1. Spec => [](TypeOK /\ SeqInv)
  BY SeqInvariant
<1>2. Init => Link!Init
  BY LinkInit
<1>3. TypeOK /\ SeqInv /\ (TypeOK /\ SeqInv)' /\ [Next]_vars => [Link!Next]_(Link!linkVars)
  BY LinkStep
<1> QED BY <1>1, <1>2, <1>3, PTL DEF Spec, ImplementsLink, Link!Spec

=============================================================================
