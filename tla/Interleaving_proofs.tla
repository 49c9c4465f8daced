------------------------- MODULE Interleaving_proofs -------------------------
(***************************************************************************)
(* Proofs about code whose interleavings on shared memory are the point.   *)
(*                                                                         *)
(* ConsoleTx: the transmit buffer of a micro-controller, for every size of *)
(* the buffer and of the messages.  Wherever the interrupt strikes in      *)
(* console_sendf, it sends what was accepted, in order, and nothing of it  *)
(* is lost.                                                                *)
(*                                                                         *)
(* SerialThreads: for every number of serialqueues.                        *)
(* serialqueue_rm_fastreader returns only when the function of the fast    *)
(* reader neither runs nor will run, and no reader thread sleeps on a      *)
(* message.                                                                *)
(***************************************************************************)
EXTENDS ConsoleTx, SerialThreads, TLAPS

TxInv == TxTypeOK /\ BufferInv

-----------------------------------------------------------------------------
(* Sequences *)

\* A sequence is a function.
LEMMA SeqLength ==
    ASSUME NEW S, NEW s \in Seq(S)
    PROVE  Len(s) \in Nat /\ DOMAIN s = 1..Len(s) /\ s \in [1..Len(s) -> S]
OBVIOUS

\* A sequence with one more element, as TxByte appends to the line.
LEMMA SeqAdd ==
    ASSUME NEW S, NEW s \in Seq(S), NEW x \in S
    PROVE  /\ Append(s, x) \in Seq(S) /\ Len(Append(s, x)) = Len(s) + 1
           /\ \A i \in 1..Len(s) : Append(s, x)[i] = s[i]
           /\ Append(s, x)[Len(s) + 1] = x
OBVIOUS

\* Two sequences joined, as a message joins those accepted before it.
LEMMA SeqJoin ==
    ASSUME NEW S, NEW s \in Seq(S), NEW t \in Seq(S)
    PROVE  /\ s \o t \in Seq(S) /\ Len(s \o t) = Len(s) + Len(t)
           /\ \A i \in 1..Len(s) : (s \o t)[i] = s[i]
           /\ \A i \in 1..Len(t) : (s \o t)[Len(s) + i] = t[i]
OBVIOUS

\* A part of a sequence.
LEMMA SeqPart ==
    ASSUME NEW S, NEW s \in Seq(S), NEW m \in Int, NEW n \in Int, 1 <= m, m <= n + 1, n <= Len(s)
    PROVE  /\ SubSeq(s, m, n) \in Seq(S) /\ Len(SubSeq(s, m, n)) = n - m + 1
           /\ \A i \in 1..(n - m + 1) : SubSeq(s, m, n)[i] = s[m + i - 1]
OBVIOUS

\* Two sequences with the same elements are the same.
LEMMA SeqSame ==
    ASSUME NEW S, NEW s \in Seq(S), NEW t, NEW n \in Nat, Len(s) = n,
           t = [i \in 1..n |-> t[i]], \A i \in 1..n : s[i] = t[i]
    PROVE  s = t
OBVIOUS

-----------------------------------------------------------------------------
(* The bytes not sent *)

\* The order of the bytes is not touched by a step that leaves them where they are.
LEMMA SameBytes ==
    ASSUME PlacesInv, SentInv, transmit_buf' = transmit_buf, line' = line, queued' = queued,
           Pending' = Pending, \A k \in 0 .. Pending - 1 : Place(k)' = Place(k)
    PROVE  PlacesInv' /\ SentInv'
BY DEF PlacesInv, SentInv

\* While the interrupt may send, the bytes are those between transmit_pos and transmit_max.
LEMMA Normal ==
    ASSUME pc \notin {"reset_pos", "reread_pos", "memmove", "move_pos", "move_max"}
    PROVE  Pending = transmit_max - transmit_pos /\ \A k \in Int : Place(k) = transmit_pos + k
BY DEF Pending, Place, Moving

\* The same after a step.
LEMMA NormalNext ==
    ASSUME pc' \notin {"reset_pos", "reread_pos", "memmove", "move_pos", "move_max"}
    PROVE  /\ Pending' = transmit_max' - transmit_pos'
           /\ \A k \in Int : Place(k)' = transmit_pos' + k
BY DEF Pending, Place, Moving

\* A step of console_sendf between two states in which the interrupt may send.
LEMMA QuietStep ==
    ASSUME TxInv, transmit_pos' = transmit_pos, transmit_max' = transmit_max,
           transmit_buf' = transmit_buf, line' = line, queued' = queued,
           pc \notin {"reset_pos", "reread_pos", "memmove", "move_pos", "move_max"},
           pc' \notin {"reset_pos", "reread_pos", "memmove", "move_pos", "move_max"}
    PROVE  PlacesInv' /\ SentInv'
<1>1. PlacesInv /\ SentInv /\ Pending \in Int
  BY Normal DEF TxInv, BufferInv, TxTypeOK
<1>2. Pending' = Pending /\ \A k \in 0 .. Pending - 1 : Place(k)' = Place(k)
  BY <1>1, Normal, NormalNext
<1> QED BY <1>1, <1>2, SameBytes

-----------------------------------------------------------------------------
(* One lemma for each action *)

\* command_sendf enters console_sendf.
LEMMA SendfStep == ASSUME TxInv, NEW size \in MaxSizes, Sendf(size) PROVE TxInv'
<1>1. PlacesInv' /\ SentInv'
  BY QuietStep DEF Sendf, shared
<1>2. TxTypeOK'
  BY ConsoleTxAssumption DEF Sendf, shared, TxInv, TxTypeOK
<1>3. ControlInv'
  BY DEF Sendf, shared, TxInv, BufferInv, ControlInv
<1> QED BY <1>1, <1>2, <1>3 DEF TxInv, BufferInv

\* A message dropped by command_sendf in an interrupt changes nothing.
LEMMA DroppedStep == ASSUME TxInv, SendfDropped PROVE TxInv'
<1>1. TxTypeOK'
  BY ConsoleTxAssumption DEF SendfDropped, shared, locals, TxInv, TxTypeOK
<1>2. BufferInv'
  BY DEF SendfDropped, shared, locals, TxInv, BufferInv, PlacesInv, SentInv, ControlInv, Pending,
         Place, Moving
<1> QED BY <1>1, <1>2 DEF TxInv

\* The reads of transmit_pos and of transmit_max.
LEMMA ReadPosStep == ASSUME TxInv, ReadPos PROVE TxInv'
<1>1. PlacesInv' /\ SentInv'
  BY QuietStep DEF ReadPos, Step, shared
<1>2. TxTypeOK'
  BY DEF ReadPos, shared, TxInv, TxTypeOK
<1>3. ControlInv'
  BY DEF ReadPos, Step, shared, TxInv, TxTypeOK, BufferInv, ControlInv
<1> QED BY <1>1, <1>2, <1>3 DEF TxInv, BufferInv

LEMMA ReadMaxStep == ASSUME TxInv, ReadMax PROVE TxInv'
<1>1. PlacesInv' /\ SentInv'
  BY QuietStep DEF ReadMax, shared
<1>2. TxTypeOK'
  BY DEF ReadMax, shared, TxInv, TxTypeOK
<1>3. transmit_pos <= transmit_max
  BY Normal DEF ReadMax, TxInv, TxTypeOK, BufferInv, PlacesInv
<1>4. ControlInv'
  BY <1>3 DEF ReadMax, shared, TxInv, TxTypeOK, BufferInv, ControlInv
<1> QED BY <1>1, <1>2, <1>4 DEF TxInv, BufferInv

\* All was sent: resetting transmit_max and then transmit_pos forgets nothing, and the
\* interrupt sends nothing in between.
LEMMA ResetMaxStep == ASSUME TxInv, ResetMax PROVE TxInv'
<1>1. Pending = 0 /\ Pending' = 0
  BY Normal DEF ResetMax, Step, TxInv, TxTypeOK, BufferInv, ControlInv, Pending
<1>2. PlacesInv' /\ SentInv'
  BY <1>1, SameBytes DEF ResetMax, TxInv, BufferInv
<1>3. TxTypeOK'
  BY ConsoleTxAssumption DEF ResetMax, TxInv, TxTypeOK
<1>4. ControlInv'
  BY DEF ResetMax, Step, TxInv, TxTypeOK, BufferInv, ControlInv
<1> QED BY <1>2, <1>3, <1>4 DEF TxInv, BufferInv

LEMMA ResetPosStep == ASSUME TxInv, ResetPos PROVE TxInv'
<1>1. Pending = 0 /\ Pending' = 0
  BY NormalNext DEF ResetPos, Step, TxInv, TxTypeOK, BufferInv, ControlInv, Pending
<1>2. PlacesInv' /\ SentInv'
  BY <1>1, SameBytes DEF ResetPos, TxInv, BufferInv
<1>3. TxTypeOK'
  BY ConsoleTxAssumption DEF ResetPos, locals, TxInv, TxTypeOK
<1>4. ControlInv'
  BY DEF ResetPos, Step, locals, TxInv, TxTypeOK, BufferInv, ControlInv
<1> QED BY <1>2, <1>3, <1>4 DEF TxInv, BufferInv

\* There is room, or there will be once the bytes are moved, or the message is dropped.
LEMMA CheckSpaceStep == ASSUME TxInv, CheckSpace PROVE TxInv'
<1>1. PlacesInv' /\ SentInv'
  BY QuietStep DEF CheckSpace, Leave, shared
<1>2. TxTypeOK'
  BY Zenon DEF CheckSpace, Leave, shared, locals, TxInv, TxTypeOK
<1>3. ControlInv'
  BY Zenon DEF CheckSpace, Leave, shared, locals, TxInv, TxTypeOK, BufferInv, ControlInv
<1> QED BY <1>1, <1>2, <1>3 DEF TxInv, BufferInv

\* transmit_max = 0 takes the buffer from the interrupt.
LEMMA StopTxStep == ASSUME TxInv, StopTx PROVE TxInv'
<1>1. Pending' = Pending /\ \A k \in Int : Place(k)' = Place(k)
  BY DEF StopTx, Step, locals, TxInv, BufferInv, ControlInv, Pending, Place, Moving
<1>2. PlacesInv' /\ SentInv'
  <2>1. Pending \in Int
    BY Normal DEF StopTx, Step, TxInv, TxTypeOK
  <2> QED BY <1>1, <2>1, SameBytes DEF StopTx, TxInv, BufferInv
<1>3. TxTypeOK'
  BY ConsoleTxAssumption DEF StopTx, locals, TxInv, TxTypeOK
<1>4. ControlInv'
  BY DEF StopTx, Step, locals, TxInv, TxTypeOK, BufferInv, ControlInv
<1> QED BY <1>2, <1>3, <1>4 DEF TxInv, BufferInv

\* The second read of transmit_pos, which no longer changes: what the interrupt sent since
\* the first read is not moved.
LEMMA RereadPosStep == ASSUME TxInv, RereadPos PROVE TxInv'
<1>1. /\ Pending = tmax - transmit_pos /\ Pending' = Pending
      /\ \A k \in 0 .. Pending - 1 : Place(k)' = Place(k)
  BY DEF RereadPos, Step, shared, TxInv, TxTypeOK, Pending, Place, Moving
<1>2. PlacesInv' /\ SentInv'
  BY <1>1, SameBytes DEF RereadPos, shared, TxInv, BufferInv
<1>3. transmit_pos <= tmax
  BY <1>1 DEF TxInv, TxTypeOK, BufferInv, PlacesInv
<1>4. TxTypeOK'
  BY <1>3, ConsoleTxAssumption DEF RereadPos, shared, TxInv, TxTypeOK
<1>5. ControlInv'
  BY <1>3, ConsoleTxAssumption DEF RereadPos, Step, shared, TxInv, TxTypeOK, BufferInv, ControlInv
<1> QED BY <1>2, <1>4, <1>5 DEF TxInv, BufferInv

\* memmove copies upwards: no byte is overwritten before it is copied.
LEMMA MemMoveStep == ASSUME TxInv, MemMove PROVE TxInv'
<1>1. /\ Pending = tmax /\ tmax \in Nat /\ src \in Nat /\ tpos \in Nat /\ src <= tmax
      /\ \A k \in Nat : Place(k) = IF k >= src THEN tpos + k ELSE k
  BY DEF MemMove, TxInv, TxTypeOK, BufferInv, ControlInv, Pending, Place, Moving
<1>2. CASE src < tmax
  <2>1. /\ transmit_buf' = [transmit_buf EXCEPT ![src] = transmit_buf[tpos + src]]
        /\ src' = src + 1 /\ pc = "memmove" /\ pc' = "memmove"
        /\ tmax' = tmax /\ tpos' = tpos /\ line' = line /\ queued' = queued
    BY <1>2 DEF MemMove
  <2>2. /\ Pending' = tmax
        /\ \A k \in Nat : Place(k)' = IF k >= src + 1 THEN tpos + k ELSE k
    BY <2>1 DEF Pending, Place, Moving
  <2>3. \A k \in 0 .. tmax - 1 : /\ Place(k) \in 0 .. Size - 1
                                 /\ transmit_buf[Place(k)] = queued[Len(line) + 1 + k]
    BY <1>1 DEF TxInv, BufferInv, PlacesInv
  <2>4. Len(queued) = Len(line) + tmax
    BY <1>1 DEF TxInv, BufferInv, PlacesInv
  <2>5. /\ src \in 0 .. tmax - 1 /\ Place(src) = tpos + src /\ tpos + src \in 0 .. Size - 1
        /\ src \in 0 .. Size - 1
    <3>1. src \in 0 .. tmax - 1 /\ Place(src) = tpos + src
      BY <1>1, <1>2
    <3>2. tpos + src \in 0 .. Size - 1
      BY <2>3, <3>1
    <3> QED BY <1>1, <1>2, <3>1, <3>2, ConsoleTxAssumption DEF TxInv, TxTypeOK
  <2>6. transmit_buf \in [0 .. Size - 1 -> Byte]
    BY DEF TxInv, TxTypeOK
  <2>7. ASSUME NEW k \in 0 .. tmax - 1
        PROVE  /\ Place(k)' \in 0 .. Size - 1
               /\ transmit_buf'[Place(k)'] = queued[Len(line) + 1 + k]
    <3>1. CASE k < src
      <4>1. Place(k) = k /\ Place(k)' = k /\ k # src
        BY <1>1, <2>2, <3>1
      <4> QED BY <2>1, <2>3, <2>6, <4>1
    <3>2. CASE k = src
      <4>1. Place(k)' = src /\ Place(k) = tpos + src
        BY <1>1, <2>2, <3>2
      <4>2. transmit_buf'[src] = transmit_buf[tpos + src]
        BY <2>1, <2>5, <2>6
      <4> QED BY <2>3, <2>5, <4>1, <4>2
    <3>3. CASE k > src
      <4>1. Place(k) = tpos + k /\ Place(k)' = tpos + k /\ tpos + k # src
        BY <1>1, <2>2, <3>3
      <4> QED BY <2>1, <2>3, <2>6, <4>1
    <3> QED BY <1>1, <3>1, <3>2, <3>3
  <2>8. PlacesInv'
    BY <1>1, <2>1, <2>2, <2>4, <2>7 DEF PlacesInv
  <2>9. SentInv'
    BY <2>1 DEF TxInv, BufferInv, SentInv
  <2>10. TxTypeOK'
    <3>1. transmit_buf[tpos + src] \in Byte
      BY <2>5, <2>6
    <3>2. transmit_buf' \in [0 .. Size - 1 -> Byte]
      BY <2>1, <2>6, <3>1, Zenon
    <3>3. src' \in 0 .. Size
      BY <1>1, <1>2, <2>1, ConsoleTxAssumption DEF TxInv, TxTypeOK
    <3> QED BY <3>2, <3>3 DEF MemMove, TxInv, TxTypeOK
  <2>11. ControlInv'
    BY <1>1, <1>2, <2>1 DEF MemMove, TxInv, BufferInv, ControlInv
  <2> QED BY <2>8, <2>9, <2>10, <2>11 DEF TxInv, BufferInv
<1>3. CASE ~(src < tmax)
  <2>1. pc = "memmove" /\ pc' = "move_pos" /\ transmit_buf' = transmit_buf /\ src' = src
    BY <1>3 DEF MemMove
  <2>2. Pending' = Pending /\ \A k \in 0 .. Pending - 1 : Place(k)' = Place(k)
    BY <1>1, <1>3, <2>1 DEF MemMove, Pending, Place, Moving
  <2>3. PlacesInv' /\ SentInv'
    BY <2>1, <2>2, SameBytes DEF MemMove, TxInv, BufferInv
  <2>4. TxTypeOK'
    BY <2>1 DEF MemMove, TxInv, TxTypeOK
  <2>5. ControlInv'
    BY <2>1 DEF MemMove, TxInv, BufferInv, ControlInv
  <2> QED BY <2>3, <2>4, <2>5 DEF TxInv, BufferInv
<1> QED BY <1>2, <1>3

\* The bytes are at the front of the buffer; transmit_max gives it back to the interrupt.
LEMMA MovePosStep == ASSUME TxInv, MovePos PROVE TxInv'
<1>1. Pending' = Pending /\ \A k \in 0 .. Pending - 1 : Place(k)' = Place(k)
  BY DEF MovePos, Step, locals, Pending, Place, Moving
<1>2. PlacesInv' /\ SentInv'
  BY <1>1, SameBytes DEF MovePos, TxInv, BufferInv
<1>3. TxTypeOK'
  BY ConsoleTxAssumption DEF MovePos, locals, TxInv, TxTypeOK
<1>4. ControlInv'
  BY DEF MovePos, Step, locals, TxInv, TxTypeOK, BufferInv, ControlInv
<1> QED BY <1>2, <1>3, <1>4 DEF TxInv, BufferInv

LEMMA MoveMaxStep == ASSUME TxInv, MoveMax PROVE TxInv'
<1>1. Pending' = Pending /\ \A k \in 0 .. Pending - 1 : Place(k)' = Place(k)
  BY DEF MoveMax, Step, locals, TxInv, TxTypeOK, BufferInv, ControlInv, Pending, Place, Moving
<1>2. PlacesInv' /\ SentInv'
  BY <1>1, SameBytes DEF MoveMax, TxInv, BufferInv
<1>3. TxTypeOK'
  BY DEF MoveMax, locals, TxInv, TxTypeOK
<1>4. ControlInv'
  BY DEF MoveMax, Step, locals, TxInv, TxTypeOK, BufferInv, ControlInv
<1> QED BY <1>2, <1>3, <1>4 DEF TxInv, BufferInv

\* A message is written behind transmit_max, where the interrupt does not read.
LEMMA EncodeStep == ASSUME TxInv, NEW len \in MaxSizes, Encode(len) PROVE TxInv'
<1> DEFINE msg == Bytes(messages, len)
<1>1. /\ len \in Nat /\ len <= max_size /\ messages \in Nat
      /\ tmax \in Nat /\ tmax + len <= Size /\ tmax = transmit_max
  BY ConsoleTxAssumption DEF Encode, Step, TxInv, TxTypeOK, BufferInv, ControlInv
<1>2. /\ msg \in Seq(Byte) /\ Len(msg) = len
  BY <1>1 DEF Bytes, Byte
<1> HIDE DEF msg
<1>3. /\ transmit_buf' \in [0 .. Size - 1 -> Byte]
      /\ \A i \in 0 .. Size - 1 : i < tmax => transmit_buf'[i] = transmit_buf[i]
  <2>1. transmit_buf' = Stored(transmit_buf, tmax, msg) /\ transmit_buf \in [0 .. Size - 1 -> Byte]
    BY DEF Encode, msg, TxInv, TxTypeOK
  <2>2. \A i \in tmax .. tmax + Len(msg) - 1 : msg[i - tmax + 1] \in Byte
    BY <1>1, <1>2
  <2>3. transmit_buf' = [i \in 0 .. Size - 1 |-> IF i \in tmax .. tmax + Len(msg) - 1
                                                 THEN msg[i - tmax + 1] ELSE transmit_buf[i]]
    BY <2>1 DEF Stored
  <2> HIDE DEF Stored
  <2> QED BY <1>1, <1>2, <2>1, <2>2, <2>3
<1>4. /\ Pending = transmit_max - transmit_pos /\ Pending' = Pending
      /\ \A k \in Int : Place(k) = transmit_pos + k /\ Place(k)' = transmit_pos + k
  BY Normal, NormalNext DEF Encode, Step
<1>5. \A k \in 0 .. Pending - 1 : transmit_buf'[Place(k)'] = transmit_buf[Place(k)]
  <2>1. ASSUME NEW k \in 0 .. Pending - 1
        PROVE  Place(k) \in 0 .. Size - 1 /\ Place(k) < tmax /\ Place(k)' = Place(k)
    <3>1. Place(k) \in 0 .. Size - 1
      BY DEF TxInv, BufferInv, PlacesInv
    <3>2. k \in Int /\ transmit_pos + k < transmit_max
      BY <1>4 DEF TxInv, TxTypeOK
    <3> QED BY <1>1, <1>4, <3>1, <3>2
  <2> QED BY <1>3, <2>1
<1>6. line' = line /\ queued' = queued
  BY DEF Encode
<1>7. PlacesInv'
  <2>1. \A k \in 0 .. Pending - 1 : Place(k)' = Place(k)
    BY <1>4
  <2>2. PlacesInv
    BY DEF TxInv, BufferInv
  <2> QED BY <1>4, <1>5, <1>6, <2>1, <2>2 DEF PlacesInv
<1>8. SentInv'
  BY <1>6 DEF TxInv, BufferInv, SentInv
<1>9. TxTypeOK'
  <2>1. src' \in 0 .. Size
    BY <1>1, ConsoleTxAssumption DEF Encode, TxInv, TxTypeOK
  <2> QED BY <1>3, <2>1 DEF Encode, TxInv, TxTypeOK
<1>10. ControlInv'
  BY <1>1 DEF Encode, Step, TxInv, BufferInv, ControlInv
<1> QED BY <1>7, <1>8, <1>9, <1>10 DEF TxInv, BufferInv

\* The message is accepted: the bytes written behind transmit_max join those not sent.
LEMMA StartTransmitStep == ASSUME TxInv, StartTransmit PROVE TxInv'
<1> DEFINE bytes == [i \in 1 .. Size |-> transmit_buf[i - 1]]
           new == SubSeq(bytes, tmax + 1, tmax + src)
<1>1. /\ Size \in Nat /\ tmax \in Nat /\ src \in Nat /\ tmax + src <= Size
      /\ transmit_pos \in Nat /\ tmax = transmit_max
  BY ConsoleTxAssumption DEF StartTransmit, TxInv, TxTypeOK, BufferInv, ControlInv
<1>2. transmit_buf \in [0 .. Size - 1 -> Byte] /\ line \in Seq(Byte) /\ queued \in Seq(Byte)
  BY DEF TxInv, TxTypeOK
<1>4. queued' = queued \o new /\ line' = line /\ transmit_buf' = transmit_buf
  BY DEF StartTransmit
<1>5. /\ new \in Seq(Byte) /\ Len(new) = src
      /\ \A i \in 1 .. src : new[i] = transmit_buf[tmax + i - 1]
  <2>1. bytes \in Seq(Byte) /\ Len(bytes) = Size /\ \A i \in 1 .. Size : bytes[i] = transmit_buf[i - 1]
    BY <1>1, <1>2
  <2> HIDE DEF bytes
  <2>2. new \in Seq(Byte) /\ Len(new) = src /\ \A i \in 1 .. src : new[i] = bytes[tmax + i]
    BY <1>1, <2>1
  <2>3. \A i \in 1 .. src : bytes[tmax + i] = transmit_buf[tmax + i - 1]
    BY <1>1, <2>1
  <2> QED BY <2>2, <2>3
<1> HIDE DEF new
<1>6. /\ queued' \in Seq(Byte) /\ Len(queued') = Len(queued) + src
      /\ \A i \in 1 .. Len(queued) : queued'[i] = queued[i]
      /\ \A i \in 1 .. src : queued'[Len(queued) + i] = transmit_buf[tmax + i - 1]
  BY <1>2, <1>4, <1>5, SeqJoin
<1>7. /\ Pending = tmax - transmit_pos /\ Pending' = tmax + src - transmit_pos
      /\ \A k \in Int : Place(k) = transmit_pos + k /\ Place(k)' = transmit_pos + k
  <2>1. /\ pc = "send" /\ pc' = "idle"
        /\ transmit_max' = tmax + src /\ transmit_pos' = transmit_pos
    BY DEF StartTransmit, Leave
  <2>2. Pending = transmit_max - transmit_pos /\ \A k \in Int : Place(k) = transmit_pos + k
    BY <2>1, Normal
  <2>3. Pending' = transmit_max' - transmit_pos' /\ \A k \in Int : Place(k)' = transmit_pos' + k
    BY <2>1, NormalNext
  <2> QED BY <1>1, <2>1, <2>2, <2>3
<1>8. /\ Pending \in Nat /\ Len(line) \in Nat /\ Len(queued) = Len(line) + Pending
      /\ \A k \in 0 .. Pending - 1 : /\ Place(k) \in 0 .. Size - 1
                                     /\ transmit_buf[Place(k)] = queued[Len(line) + 1 + k]
  BY <1>1, <1>2, <1>7 DEF TxInv, BufferInv, PlacesInv
<1>9. ASSUME NEW k \in 0 .. Pending' - 1
      PROVE  Place(k)' \in 0 .. Size - 1 /\ transmit_buf'[Place(k)'] = queued'[Len(line') + 1 + k]
  <2>1. CASE k < Pending
    <3>1. k \in 0 .. Pending - 1 /\ Place(k)' = Place(k) /\ Len(line) + 1 + k \in 1 .. Len(queued)
      BY <1>7, <1>8, <2>1
    <3> QED BY <1>4, <1>6, <1>8, <3>1, Zenon
  <2>2. CASE ~(k < Pending)
    <3>1. /\ k - Pending + 1 \in 1 .. src /\ tmax + (k - Pending + 1) - 1 = transmit_pos + k
          /\ Len(queued) + (k - Pending + 1) = Len(line) + 1 + k
          /\ transmit_pos + k \in 0 .. Size - 1
      BY <1>1, <1>7, <1>8, <2>2
    <3>2. Place(k)' = transmit_pos + k
      BY <1>7
    <3>3. queued'[Len(queued) + (k - Pending + 1)] = transmit_buf[tmax + (k - Pending + 1) - 1]
      BY <1>6, <3>1, Zenon
    <3> QED BY <1>4, <3>1, <3>2, <3>3, Zenon
  <2> QED BY <2>1, <2>2
<1>10. PlacesInv'
  <2>1. Pending' >= 0 /\ Len(queued') = Len(line') + Pending'
    BY <1>1, <1>4, <1>6, <1>7, <1>8
  <2> QED BY <1>9, <2>1 DEF PlacesInv
<1>11. SentInv'
  BY <1>4, <1>6, <1>8 DEF TxInv, BufferInv, SentInv
<1>12. TxTypeOK'
  <2>1. transmit_max' \in 0 .. Size
    BY <1>1 DEF StartTransmit
  <2> QED BY <1>6, <2>1, Zenon DEF StartTransmit, Leave, locals, TxInv, TxTypeOK
<1>13. ControlInv'
  BY DEF StartTransmit, Leave, ControlInv
<1> QED BY <1>10, <1>11, <1>12, <1>13 DEF TxInv, BufferInv

\* The interrupt sends the first of the bytes not sent, and only while console_sendf has
\* not taken the buffer; it turns itself off only when there are none.
LEMMA TxByteStep == ASSUME TxInv, TxByte PROVE TxInv'
<1>1. CASE transmit_pos >= transmit_max
  <2>1. TxTypeOK'
    BY <1>1, Zenon DEF TxByte, locals, TxInv, TxTypeOK
  <2>2. PlacesInv' /\ SentInv'
    <3>1. Pending' = Pending /\ \A k \in 0 .. Pending - 1 : Place(k)' = Place(k)
      BY <1>1 DEF TxByte, locals, Pending, Place, Moving
    <3> QED BY <1>1, <3>1, SameBytes DEF TxByte, TxInv, BufferInv
  <2>3. ControlInv'
    BY <1>1 DEF TxByte, locals, TxInv, TxTypeOK, BufferInv, ControlInv
  <2> QED BY <2>1, <2>2, <2>3 DEF TxInv, BufferInv
<1>2. CASE ~(transmit_pos >= transmit_max)
  <2>1. /\ line' = Append(line, transmit_buf[transmit_pos]) /\ transmit_pos' = transmit_pos + 1
        /\ transmit_buf' = transmit_buf /\ transmit_max' = transmit_max /\ queued' = queued
        /\ pc' = pc /\ tx_irq' = tx_irq /\ tx_irq
    BY <1>2 DEF TxByte
  <2>2. /\ transmit_pos \in Nat /\ transmit_max \in Nat /\ transmit_pos < transmit_max
        /\ transmit_max <= Size /\ Size \in Nat
    BY <1>2, ConsoleTxAssumption DEF TxInv, TxTypeOK
  <2>3. pc \notin {"reset_pos", "reread_pos", "memmove", "move_pos", "move_max"}
    BY <2>2 DEF TxInv, BufferInv, ControlInv
  <2>4. /\ Pending = transmit_max - transmit_pos /\ Pending' = transmit_max - (transmit_pos + 1)
        /\ \A k \in Int : Place(k) = transmit_pos + k /\ Place(k)' = (transmit_pos + 1) + k
    BY <2>1, <2>3, Normal, NormalNext, Zenon
  <2>5. transmit_buf[transmit_pos] \in Byte /\ line \in Seq(Byte)
    BY <2>2 DEF TxInv, TxTypeOK
  <2>6. /\ line' \in Seq(Byte) /\ Len(line') = Len(line) + 1 /\ Len(line) \in Nat
        /\ \A i \in 1 .. Len(line) : line'[i] = line[i]
        /\ line'[Len(line) + 1] = transmit_buf[transmit_pos]
    BY <2>1, <2>5, SeqAdd, SeqLength
  <2>7. /\ Len(queued) = Len(line) + Pending
        /\ \A k \in 0 .. Pending - 1 : /\ Place(k) \in 0 .. Size - 1
                                       /\ transmit_buf[Place(k)] = queued[Len(line) + 1 + k]
    BY DEF TxInv, BufferInv, PlacesInv
  <2>8. ASSUME NEW k \in 0 .. Pending' - 1
        PROVE  /\ Place(k)' \in 0 .. Size - 1
               /\ transmit_buf'[Place(k)'] = queued'[Len(line') + 1 + k]
    <3>1. /\ k + 1 \in 0 .. Pending - 1 /\ Place(k)' = Place(k + 1)
          /\ Len(line') + 1 + k = Len(line) + 1 + (k + 1)
      <4>1. /\ Pending = transmit_max - transmit_pos /\ Pending' = transmit_max - (transmit_pos + 1)
            /\ Len(line') = Len(line) + 1 /\ Len(line) \in Nat
        BY <2>4, <2>6, Zenon
      <4>2. /\ k \in Int /\ k + 1 \in Int /\ k + 1 \in 0 .. Pending - 1
            /\ Len(line') + 1 + k = Len(line) + 1 + (k + 1)
        BY <2>2, <4>1, SMTT(30)
      <4>3. Place(k)' = (transmit_pos + 1) + k /\ Place(k + 1) = transmit_pos + (k + 1)
        BY <2>4, <4>2, Zenon
      <4> QED BY <2>2, <4>2, <4>3, SMTT(30)
    <3> QED BY <2>1, <2>7, <3>1
  <2>9. PlacesInv'
    <3>1. Pending' >= 0 /\ Len(queued') = Len(line') + Pending'
      BY <2>1, <2>2, <2>4, <2>6, <2>7
    <3> QED BY <2>8, <3>1 DEF PlacesInv
  <2>10. SentInv'
    <3>1. 0 \in 0 .. Pending - 1 /\ Place(0) = transmit_pos /\ Len(line) + 1 + 0 = Len(line) + 1
      BY <2>2, <2>4, <2>6
    <3>2. line'[Len(line) + 1] = queued[Len(line) + 1]
      BY <2>6, <2>7, <3>1
    <3>3. \A i \in 1 .. Len(line) : line'[i] = queued[i]
      BY <2>6 DEF TxInv, BufferInv, SentInv
    <3> QED BY <2>1, <2>6, <3>2, <3>3 DEF SentInv
  <2>11. TxTypeOK'
    <3>1. transmit_pos' \in 0 .. Size
      BY <2>1, <2>2, SMTT(30)
    <3> QED BY <2>1, <2>6, <3>1 DEF TxByte, locals, TxInv, TxTypeOK
  <2>12. ControlInv'
    BY <2>1, <2>2, <2>3 DEF TxByte, locals, TxInv, TxTypeOK, BufferInv, ControlInv
  <2> QED BY <2>9, <2>10, <2>11, <2>12 DEF TxInv, BufferInv
<1> QED BY <1>1, <1>2

-----------------------------------------------------------------------------
(* The theorems *)

\* The buffer is empty at first.
LEMMA TxInitInv == TxInit => TxInv
<1> SUFFICES ASSUME TxInit PROVE TxInv
  OBVIOUS
<1>1. TxTypeOK
  <2>1. <<0, 0>> \in Byte /\ <<>> \in Seq(Byte) /\ 0 \in 0 .. Size /\ 0 \in 0 .. MaxMessages
    BY ConsoleTxAssumption DEF Byte
  <2>2. transmit_buf \in [0 .. Size - 1 -> Byte]
    BY <2>1 DEF TxInit
  <2> QED BY <2>1, <2>2, Zenon DEF TxInit, TxTypeOK
<1>2. BufferInv
  BY ConsoleTxAssumption DEF TxInit, BufferInv, PlacesInv, SentInv, ControlInv, Pending, Place, Moving
<1> QED BY <1>1, <1>2 DEF TxInv

\* Every step of console_sendf and of the interrupt keeps the bytes not sent in the buffer.
LEMMA TxNextInv == TxInv /\ [TxNext]_txvars => TxInv'
<1> SUFFICES ASSUME TxInv, [TxNext]_txvars PROVE TxInv'
  OBVIOUS
<1>1. CASE TxByte
  BY <1>1, TxByteStep
<1>2. CASE ConsoleSendf
  <2>1. CASE ReadPos \/ ReadMax \/ ResetMax \/ ResetPos \/ CheckSpace
    BY <2>1, ReadPosStep, ReadMaxStep, ResetMaxStep, ResetPosStep, CheckSpaceStep
  <2>2. CASE StopTx \/ RereadPos \/ MemMove \/ MovePos \/ MoveMax
    BY <2>2, StopTxStep, RereadPosStep, MemMoveStep, MovePosStep, MoveMaxStep
  <2>3. CASE \E len \in MaxSizes : Encode(len)
    BY <2>3, EncodeStep
  <2>4. CASE StartTransmit
    BY <2>4, StartTransmitStep
  <2> QED BY <1>2, <2>1, <2>2, <2>3, <2>4 DEF ConsoleSendf
<1>3. CASE SendfDropped
  BY <1>3, DroppedStep
<1>4. CASE \E size \in MaxSizes : Sendf(size)
  BY <1>4, SendfStep
<1>5. CASE UNCHANGED txvars
  BY <1>5 DEF txvars, shared, locals, TxInv, TxTypeOK, BufferInv, PlacesInv, SentInv, ControlInv,
              Pending, Place, Moving
<1> QED BY <1>1, <1>2, <1>3, <1>4, <1>5 DEF TxNext

\* The inductive invariant gives the property.
LEMMA InvTransmits == TxInv => TransmitInv
<1> SUFFICES ASSUME TxInv PROVE TransmitInv
  OBVIOUS
<1>1. /\ line \in Seq(Byte) /\ queued \in Seq(Byte) /\ Len(line) \in Nat /\ Len(queued) \in Nat
      /\ Pending >= 0 /\ Len(queued) = Len(line) + Pending
  BY SeqLength DEF TxInv, TxTypeOK, BufferInv, PlacesInv
<1>2. Len(line) <= Len(queued)
  BY <1>1 DEF TxInv, TxTypeOK, Pending, Moving
<1>3. LineIsPrefix
  <2>1. /\ SubSeq(queued, 1, Len(line)) \in Seq(Byte) /\ Len(SubSeq(queued, 1, Len(line))) = Len(line)
        /\ \A i \in 1 .. Len(line) : SubSeq(queued, 1, Len(line))[i] = queued[i]
    BY <1>1, <1>2
  <2>2. \A i \in 1 .. Len(line) : SubSeq(queued, 1, Len(line))[i] = line[i]
    BY <2>1 DEF TxInv, BufferInv, SentInv
  <2>3. line = [i \in 1 .. Len(line) |-> line[i]]
    BY <1>1
  <2>4. SubSeq(queued, 1, Len(line)) = line
    BY <1>1, <2>1, <2>2, <2>3, SeqSame
  <2> QED BY <1>2, <2>4 DEF LineIsPrefix
<1>4. PendingInBuffer
  <2> SUFFICES ASSUME pc = "idle"
               PROVE  /\ [i \in 1 .. transmit_max - transmit_pos |-> transmit_buf[transmit_pos + i - 1]]
                           = SubSeq(queued, Len(line) + 1, Len(queued))
                      /\ transmit_pos < transmit_max => tx_irq
    BY DEF PendingInBuffer
  <2> DEFINE n == transmit_max - transmit_pos
             held == [i \in 1 .. n |-> transmit_buf[transmit_pos + i - 1]]
             rest == SubSeq(queued, Len(line) + 1, Len(queued))
  <2>1. /\ Pending = n /\ \A k \in Int : Place(k) = transmit_pos + k
        /\ transmit_pos \in Int /\ transmit_max \in Int
    BY Normal DEF TxInv, TxTypeOK
  <2>2. n \in Nat /\ Len(queued) = Len(line) + n
    BY <1>1, <2>1
  <2>3. ASSUME NEW i \in 1 .. n PROVE held[i] = queued[Len(line) + i]
    <3>1. /\ i - 1 \in 0 .. Pending - 1 /\ Place(i - 1) = transmit_pos + i - 1
          /\ Len(line) + 1 + (i - 1) = Len(line) + i
      BY <1>1, <2>1, <2>2
    <3>2. transmit_buf[Place(i - 1)] = queued[Len(line) + 1 + (i - 1)]
      BY <3>1 DEF TxInv, BufferInv, PlacesInv
    <3> QED BY <3>1, <3>2
  <2>4. /\ rest \in Seq(Byte) /\ Len(rest) = n /\ \A i \in 1 .. n : rest[i] = queued[Len(line) + i]
    BY <1>1, <2>2, SMTT(30)
  <2>5. held = [i \in 1 .. n |-> held[i]]
    OBVIOUS
  <2> HIDE DEF n, held, rest
  <2>6. rest = held
    BY <2>2, <2>3, <2>4, <2>5, SeqSame
  <2> QED BY <2>6 DEF n, held, rest, TxInv, BufferInv, ControlInv
<1> QED BY <1>3, <1>4 DEF TransmitInv, TxInv

\* The transmit buffer is shared safely without a lock: for every size of transmit_buf and of
\* the messages, and wherever the transmit interrupt strikes in console_sendf, no index leaves
\* the buffer, the line carries the messages accepted, whole and in order, and between two
\* calls the buffer holds exactly the bytes not sent, with the interrupt on to send them.
THEOREM TransmitsAll == TxSpec => []TransmitInv
<1>1. TxSpec => []TxInv
  BY TxInitInv, TxNextInv, PTL DEF TxSpec
<1> QED BY <1>1, InvTransmits, PTL

-----------------------------------------------------------------------------
(* SerialThreads *)

\* What the main thread does with an index.
LEMMA GotoCases ==
    ASSUME N \in Nat \ {0}, NEW where, NEW i \in Nat, i >= 1, Goto(where, i)
    PROVE  \/ i \in Sqs /\ main' = [at |-> where, i |-> i]
           \/ i = N + 1 /\ main' = [at |-> "idle", i |-> 1]
           \/ i > N + 1 /\ main' = [at |-> "idle", i |-> 1]
BY DEF Goto, Sqs

LEMMA OneIsSq == ASSUME N \in Nat \ {0} PROVE 1 \in Sqs
BY DEF Sqs

\* The index of the main thread's loops.
LEMMA MainIndex ==
    ASSUME TypeOK, N \in Nat \ {0}
    PROVE  main.i \in Sqs /\ main.i \in Nat /\ main.i >= 1 /\ main.i + 1 \in Nat /\ main.i + 1 >= 1
<1>1. main.i \in Sqs
  BY DEF TypeOK
<1> QED BY <1>1 DEF Sqs

LEMMA InitInv == ASSUME N \in Nat \ {0}, Init PROVE TypeOK /\ ThreadsInv
<1>1. TypeOK
  BY OneIsSq, Zenon DEF Init, TypeOK
<1>2. RemovalInv
  BY DEF Init, RemovalInv, Gone
<1>3. SleepInv
  BY DEF Init, SleepInv, LockFree
<1> QED BY <1>1, <1>2, <1>3 DEF ThreadsInv

-----------------------------------------------------------------------------
(* Types *)

\* check_wake_receive keeps the types of what it writes.
LEMMA WakeTypes ==
    ASSUME TypeOK, NEW i \in Sqs, CheckWakeReceive(i)
    PROVE  /\ receive_waiting' \in [Sqs -> BOOLEAN] /\ reader' \in [Sqs -> {"pull", "wait", "woken", "done"}]
           /\ \A j \in Sqs : (reader'[j] = "wait") <=> (reader[j] = "wait" /\ (j # i \/ ~receive_waiting[i]))
           /\ \A j \in Sqs : receive_waiting'[j] <=> (receive_waiting[j] /\ j # i)
BY DEF TypeOK, CheckWakeReceive

\* The background threads keep the types.
LEMMA BgTypes ==
    ASSUME N \in Nat \ {0}, TypeOK, NEW i \in Sqs, Bg(i)
    PROVE  TypeOK'
<1>1. CASE HandleMessage(i)
  <2>1. receive_waiting' \in [Sqs -> BOOLEAN] /\ reader' \in [Sqs -> {"pull", "wait", "woken", "done"}]
    BY <1>1, WakeTypes DEF HandleMessage, TypeOK
  <2>2. bg' \in [Sqs -> [at : {"poll", "dlock", "func", "send", "dead"}, to : Sqs]]
    BY <1>1, SMTT(30) DEF HandleMessage, TypeOK
  <2>3. receive_queue' \in [Sqs -> Nat] /\ input' \in [Sqs -> Nat]
    BY <1>1 DEF HandleMessage, TypeOK
  <2>4. UNCHANGED <<main, fast_readers, must_exit, is_active, can_trigger, sessions>>
    BY <1>1 DEF HandleMessage
  <2> QED BY <2>1, <2>2, <2>3, <2>4 DEF TypeOK
<1>2. CASE Dispatch(i)
  <2>1. receive_waiting' \in [Sqs -> BOOLEAN] /\ reader' \in [Sqs -> {"pull", "wait", "woken", "done"}]
    BY <1>2, WakeTypes DEF Dispatch
  <2>2. bg' \in [Sqs -> [at : {"poll", "dlock", "func", "send", "dead"}, to : Sqs]]
    BY <1>2 DEF Dispatch, TypeOK
  <2>3. UNCHANGED <<main, receive_queue, fast_readers, must_exit, is_active, can_trigger, input, sessions>>
    BY <1>2 DEF Dispatch
  <2> QED BY <2>1, <2>2, <2>3 DEF TypeOK
<1>3. CASE HandleTrsyncState(i)
  BY <1>3, OneIsSq, SMTT(30) DEF HandleTrsyncState, TypeOK
<1>4. CASE SendOne(i)
  <2>1. bg' \in [Sqs -> [at : {"poll", "dlock", "func", "send", "dead"}, to : Sqs]]
    <3>1. bg[i].to \in Sqs
      BY DEF TypeOK
    <3>2. bg[i].to < N => bg[i].to + 1 \in Sqs
      BY <3>1 DEF Sqs
    <3> DEFINE b == IF bg[i].to < N THEN [at |-> "send", to |-> bg[i].to + 1]
                    ELSE [at |-> "poll", to |-> 1]
    <3>3. b \in [at : {"poll", "dlock", "func", "send", "dead"}, to : Sqs]
      BY <3>2, OneIsSq, Zenon DEF TypeOK
    <3>4. bg' = [j \in Sqs |-> IF j = i THEN b ELSE bg[j]]
      BY <1>4, Zenon DEF SendOne, TypeOK
    <3> HIDE DEF b
    <3> QED BY <3>3, <3>4 DEF TypeOK
  <2> QED BY <1>4, <2>1 DEF SendOne, TypeOK
<1>5. CASE Exit(i)
  <2>1. receive_waiting' \in [Sqs -> BOOLEAN] /\ reader' \in [Sqs -> {"pull", "wait", "woken", "done"}]
    BY <1>5, WakeTypes DEF Exit
  <2>2. bg' \in [Sqs -> [at : {"poll", "dlock", "func", "send", "dead"}, to : Sqs]]
    BY <1>5 DEF Exit, TypeOK
  <2>3. UNCHANGED <<main, receive_queue, fast_readers, must_exit, is_active, can_trigger, input, sessions>>
    BY <1>5 DEF Exit
  <2> QED BY <2>1, <2>2, <2>3 DEF TypeOK
<1> QED BY <1>1, <1>2, <1>3, <1>4, <1>5 DEF Bg

\* The main thread keeps the types.
LEMMA MainTypes ==
    ASSUME N \in Nat \ {0}, TypeOK, Main
    PROVE  TypeOK'
<1>1. main.i \in Sqs /\ main.i \in Nat /\ main.i >= 1 /\ main.i + 1 \in Nat /\ main.i + 1 >= 1
  BY MainIndex
<1>2. CASE TrdispatchStart
  BY <1>2, GotoCases, OneIsSq DEF TrdispatchStart, TypeOK
<1>3. CASE AddFastreader
  BY <1>1, <1>3, GotoCases, OneIsSq DEF AddFastreader, TypeOK
<1>4. CASE TrdispatchStop
  <2>1. main' = [at |-> "rm", i |-> 1]
    BY <1>4, GotoCases, OneIsSq DEF TrdispatchStop
  <2> QED BY <1>4, <2>1, OneIsSq, Zenon DEF TrdispatchStop, TypeOK
<1>5. CASE RmFastreader
  BY <1>1, <1>5, GotoCases, OneIsSq DEF RmFastreader, TypeOK
<1>6. CASE RmWait
  BY <1>1, <1>6, GotoCases, OneIsSq DEF RmWait, TypeOK
<1>7. CASE Disconnect
  BY <1>1, <1>7, GotoCases, OneIsSq DEF Disconnect, TypeOK
<1>8. CASE Join
  <2>1. main.i < N => main.i + 1 \in Sqs
    BY <1>1, SMTT(30) DEF Sqs
  <2> QED BY <1>8, <2>1, OneIsSq DEF Join, TypeOK
<1> QED BY <1>2, <1>3, <1>4, <1>5, <1>6, <1>7, <1>8 DEF Main

-----------------------------------------------------------------------------
(* Removing fast readers *)

\* A background thread only enters the dispatch of a reader that is registered.
LEMMA BgRemoval ==
    ASSUME N \in Nat \ {0}, TypeOK, RemovalInv, NEW i \in Sqs, Bg(i)
    PROVE  RemovalInv'
<1>1. UNCHANGED <<main, fast_readers, is_active>>
  BY DEF Bg, HandleMessage, Dispatch, HandleTrsyncState, SendOne, Exit
<1>2. \A j \in Sqs : j # i => bg'[j] = bg[j]
  BY DEF Bg, HandleMessage, Dispatch, HandleTrsyncState, SendOne, Exit, TypeOK
<1>3. \/ bg[i].at \in {"dlock", "func", "send"} /\ bg'[i].at # "dlock"
      \/ bg'[i].at = "dlock" /\ fast_readers[i]
      \/ bg'[i].at \notin {"dlock", "func", "send"}
  BY SMTT(30) DEF Bg, HandleMessage, Dispatch, HandleTrsyncState, SendOne, Exit, TypeOK
<1>4. \A j \in Sqs : Gone(j) => Gone(j)'
  BY <1>1, <1>2, <1>3 DEF Gone
<1>5. \A j \in 1 .. main.i - 1 : j \in Sqs
  BY SMTT(30) DEF TypeOK, Sqs
<1>6. main.at = "rm_wait" => bg'[main.i].at # "dlock"
  BY <1>2, <1>3 DEF RemovalInv, TypeOK
<1> QED BY <1>1, <1>4, <1>5, <1>6 DEF RemovalInv

\* The main thread: RmFastreader finds sq->lock free, RmWait the dispatch lock.
LEMMA MainRemoval ==
    ASSUME N \in Nat \ {0}, TypeOK, RemovalInv, Main
    PROVE  RemovalInv'
<1>1. main.i \in Sqs /\ main.i \in 1..N /\ main.i + 1 \in Nat /\ main.i + 1 >= 1
  BY MainIndex DEF Sqs
<1>2. CASE TrdispatchStart
  BY <1>2, GotoCases, OneIsSq, SMTT(30) DEF TrdispatchStart, RemovalInv
<1>3. CASE AddFastreader
  BY <1>1, <1>3, GotoCases, SMTT(30) DEF AddFastreader, RemovalInv
<1>4. CASE TrdispatchStop
  <2>1. main' = [at |-> "rm", i |-> 1] /\ ~is_active'
    BY <1>4, GotoCases, OneIsSq, SMTT(30) DEF TrdispatchStop
  <2> QED BY <2>1 DEF RemovalInv
<1>5. CASE RmFastreader
  <2>1. /\ main.at = "rm" /\ main' = [at |-> "rm_wait", i |-> main.i] /\ bg' = bg
        /\ is_active' = is_active /\ bg[main.i].at # "dlock"
        /\ fast_readers' = [fast_readers EXCEPT ![main.i] = FALSE]
    BY <1>1, <1>5, GotoCases, SMTT(30) DEF RmFastreader, LockFree
  <2>2. ~fast_readers'[main.i] /\ \A j \in Sqs : Gone(j) => Gone(j)'
    BY <1>1, <2>1 DEF Gone, TypeOK
  <2>3. \A j \in 1 .. main.i - 1 : j \in Sqs
    BY <1>1, SMTT(30) DEF Sqs
  <2> QED BY <2>1, <2>2, <2>3, Zenon DEF RemovalInv
<1>6. CASE RmWait
  <2>1. /\ main.at = "rm_wait" /\ UNCHANGED <<bg, is_active, fast_readers>>
        /\ bg[main.i].at \notin {"func", "send"} /\ Goto("rm", main.i + 1)
    BY <1>6, Zenon DEF RmWait, DispatchLockFree
  <2>2. \A j \in 1 .. main.i : Gone(j)'
    BY <1>1, <2>1, SMTT(30) DEF RemovalInv, Gone
  <2>3. CASE main.i + 1 \in Sqs /\ main' = [at |-> "rm", i |-> main.i + 1]
    <3>1. main'.i - 1 = main.i
      BY <1>1, <2>3, SMTT(30)
    <3> QED BY <2>1, <2>2, <2>3, <3>1 DEF RemovalInv
  <2>4. CASE main.i = N /\ main' = [at |-> "idle", i |-> 1]
    BY <2>1, <2>2, <2>4, Zenon DEF RemovalInv, Sqs
  <2> QED BY <1>1, <2>1, <2>3, <2>4, GotoCases, SMTT(30)
<1>7. CASE Disconnect
  <2>1. main'.at = "join"
    BY <1>1, <1>7, GotoCases, SMTT(30) DEF Disconnect
  <2> QED BY <2>1 DEF RemovalInv
<1>8. CASE Join
  <2>1. main'.at \in {"exit", "end"}
    BY <1>8 DEF Join
  <2> QED BY <2>1, Zenon DEF RemovalInv
<1> QED BY <1>2, <1>3, <1>4, <1>5, <1>6, <1>7, <1>8 DEF Main

-----------------------------------------------------------------------------
(* Sleeping reader threads *)

\* Whoever puts a message in receive_queue, or ends, wakes the reader before it
\* lets go of sq->lock.
LEMMA BgSleep ==
    ASSUME TypeOK, SleepInv, NEW i \in Sqs, Bg(i)
    PROVE  SleepInv'
<1>1. CASE HandleMessage(i)
  <2>1. \A j \in Sqs : j # i => /\ bg'[j] = bg[j] /\ receive_queue'[j] = receive_queue[j]
                                /\ reader'[j] = reader[j] /\ receive_waiting'[j] = receive_waiting[j]
    BY <1>1 DEF HandleMessage, CheckWakeReceive, TypeOK
  <2>2. UNCHANGED must_exit /\ bg[i].at = "poll"
    BY <1>1, Zenon DEF HandleMessage
  <2>3. CASE bg'[i].at = "dlock" /\ UNCHANGED <<receive_waiting, reader>>
    BY <2>1, <2>2, <2>3, ZenonT(40) DEF SleepInv, LockFree
  <2>4. CASE CheckWakeReceive(i) /\ UNCHANGED bg
    BY <2>1, <2>2, <2>4, WakeTypes, ZenonT(40) DEF SleepInv, LockFree
  <2> QED BY <1>1, <2>3, <2>4 DEF HandleMessage, TypeOK
<1>2. CASE Dispatch(i) \/ Exit(i)
  <2>1. /\ CheckWakeReceive(i) /\ UNCHANGED <<receive_queue, must_exit>>
        /\ bg'[i].at \in {"func", "dead"} /\ (bg'[i].at = "dead" => must_exit[i])
        /\ \A j \in Sqs : j # i => bg'[j] = bg[j]
    BY <1>2, SMTT(30) DEF Dispatch, Exit, TypeOK
  <2> QED BY <2>1, WakeTypes DEF SleepInv, LockFree
<1>3. CASE HandleTrsyncState(i) \/ SendOne(i)
  <2>1. /\ UNCHANGED <<receive_queue, must_exit, reader, receive_waiting>>
        /\ bg[i].at \in {"func", "send"} /\ bg'[i].at \in {"send", "poll"}
        /\ \A j \in Sqs : j # i => bg'[j] = bg[j]
    BY <1>3 DEF HandleTrsyncState, SendOne, TypeOK
  <2> QED BY <2>1 DEF SleepInv, LockFree
<1> QED BY <1>1, <1>2, <1>3 DEF Bg

\* serialqueue_pull sleeps only on an empty queue it is not asked to leave.
LEMMA PullSleep ==
    ASSUME TypeOK, SleepInv, NEW i \in Sqs, Pull(i)
    PROVE  TypeOK' /\ SleepInv'
<1>1. /\ UNCHANGED <<bg, main, fast_readers, must_exit, is_active, can_trigger, input, sessions>>
      /\ reader[i] # "wait" /\ bg[i].at # "dlock"
  BY Zenon DEF Pull, LockFree
<1>2. /\ receive_queue' \in [Sqs -> Nat] /\ receive_waiting' \in [Sqs -> BOOLEAN]
      /\ reader' \in [Sqs -> {"pull", "wait", "woken", "done"}]
      /\ \A j \in Sqs : j # i => /\ receive_queue'[j] = receive_queue[j]
                                 /\ reader'[j] = reader[j] /\ receive_waiting'[j] = receive_waiting[j]
  <2>1. receive_queue[i] > 0 => receive_queue[i] - 1 \in Nat
    BY SMTT(30) DEF TypeOK
  <2>2. receive_queue' \in [Sqs -> Nat] /\ \A j \in Sqs : j # i => receive_queue'[j] = receive_queue[j]
    BY <2>1, SMTT(30) DEF Pull, TypeOK
  <2>3. /\ receive_waiting' \in [Sqs -> BOOLEAN]
        /\ \A j \in Sqs : j # i => receive_waiting'[j] = receive_waiting[j]
    BY Zenon DEF Pull, TypeOK
  <2>4. /\ reader' \in [Sqs -> {"pull", "wait", "woken", "done"}]
        /\ \A j \in Sqs : j # i => reader'[j] = reader[j]
    BY DEF Pull, TypeOK
  <2> QED BY <2>2, <2>3, <2>4
<1>3. \/ reader'[i] # "wait" /\ receive_waiting'[i] = receive_waiting[i]
      \/ /\ reader'[i] = "wait" /\ receive_waiting'[i] /\ receive_queue'[i] = 0 /\ ~must_exit[i]
  BY DEF Pull, TypeOK
<1>4. TypeOK'
  BY <1>1, <1>2 DEF TypeOK
<1>5. SleepInv'
  BY <1>1, <1>2, <1>3 DEF SleepInv, LockFree
<1> QED BY <1>4, <1>5, Zenon

LEMMA MainSleep ==
    ASSUME TypeOK, SleepInv, Main
    PROVE  SleepInv'
<1>1. /\ UNCHANGED <<bg, reader, receive_queue, receive_waiting>>
      /\ \A i \in Sqs : must_exit[i] => must_exit'[i]
  BY DEF Main, TrdispatchStart, AddFastreader, TrdispatchStop, RmFastreader, RmWait, Disconnect,
         Join, TypeOK
<1> QED BY <1>1, Zenon DEF SleepInv, LockFree

-----------------------------------------------------------------------------
LEMMA StepInv ==
    ASSUME N \in Nat \ {0}, TypeOK, ThreadsInv, [Next]_vars
    PROVE  TypeOK' /\ ThreadsInv'
<1>1. CASE Main
  BY <1>1, MainTypes, MainRemoval, MainSleep DEF ThreadsInv
<1>2. ASSUME NEW i \in Sqs, Bg(i) PROVE TypeOK' /\ ThreadsInv'
  BY <1>2, BgTypes, BgRemoval, BgSleep DEF ThreadsInv
<1>3. ASSUME NEW i \in Sqs, Pull(i) PROVE TypeOK' /\ ThreadsInv'
  <2>1. UNCHANGED <<bg, main, fast_readers, is_active>>
    BY <1>3, Zenon DEF Pull
  <2>2. RemovalInv'
    BY <2>1, Zenon DEF ThreadsInv, RemovalInv, Gone
  <2> QED BY <1>3, <2>2, PullSleep, Zenon DEF ThreadsInv
<1>4. CASE UNCHANGED vars
  BY <1>4 DEF vars, TypeOK, ThreadsInv, RemovalInv, SleepInv, Gone, LockFree
<1> QED BY <1>1, <1>2, <1>3, <1>4 DEF Next

\* Once serialqueue_rm_fastreader has returned the reader's function is not running and will
\* not run; no reader thread sleeps on a message or outlives its background thread asleep.
\* For every number of serialqueues, messages and homing sessions.
THEOREM ReadersSafe == ASSUME N \in Nat \ {0} PROVE Spec => []ReadersInv
<1>1. Init => TypeOK /\ ThreadsInv
  BY InitInv
<1>2. (TypeOK /\ ThreadsInv) /\ [Next]_vars => (TypeOK /\ ThreadsInv)'
  BY StepInv
<1>3. TypeOK /\ ThreadsInv => ReadersInv
  <2> SUFFICES ASSUME TypeOK, ThreadsInv PROVE ReadersInv
    BY Zenon
  <2>1. HandlerGone
    BY Zenon DEF ThreadsInv, RemovalInv, Gone, HandlerGone
  <2>2. NoSleepOnMessage
    BY DEF ThreadsInv, SleepInv, NoSleepOnMessage
  <2> QED BY <2>1, <2>2 DEF ReadersInv
<1> QED BY <1>1, <1>2, <1>3, PTL DEF Spec

=============================================================================
