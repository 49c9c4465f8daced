---------------------------- MODULE Stepper_proofs ----------------------------
(***************************************************************************)
(* The stepper of a micro-controller, for every size of the pool of move   *)
(* nodes, any step counts and any number of moves, homing moves and        *)
(* restarts: nodes are neither lost nor shared, a stop holds until the     *)
(* host answers it, and every step is counted and made in the direction    *)
(* the host gave it.                                                       *)
(***************************************************************************)
EXTENDS Stepper, TLAPS

-----------------------------------------------------------------------------
(* Sequences *)

\* The elements of a sequence.
LEMMA SeqLength ==
    ASSUME NEW S, NEW s \in Seq(S)
    PROVE  /\ Len(s) \in Nat /\ DOMAIN s = 1 .. Len(s) /\ (s = <<>> <=> Len(s) = 0)
           /\ \A i \in 1 .. Len(s) : s[i] \in S
OBVIOUS

\* A sequence without its first element.
LEMMA SeqRest ==
    ASSUME NEW S, NEW s \in Seq(S), s # <<>>
    PROVE  /\ Head(s) = s[1] /\ Head(s) \in S /\ Tail(s) \in Seq(S) /\ Len(Tail(s)) = Len(s) - 1
           /\ \A i \in 1 .. Len(s) - 1 : Tail(s)[i] = s[i + 1]
OBVIOUS

\* A sequence with one more element at its end.
LEMMA SeqAdd ==
    ASSUME NEW S, NEW s \in Seq(S), NEW x \in S
    PROVE  /\ Append(s, x) \in Seq(S) /\ Len(Append(s, x)) = Len(s) + 1
           /\ \A i \in 1 .. Len(s) : Append(s, x)[i] = s[i]
           /\ Append(s, x)[Len(s) + 1] = x
OBVIOUS

\* Two sequences joined.
LEMMA SeqJoin ==
    ASSUME NEW S, NEW s \in Seq(S), NEW t \in Seq(S)
    PROVE  /\ s \o t \in Seq(S) /\ Len(s \o t) = Len(s) + Len(t)
           /\ \A i \in 1 .. Len(s) : (s \o t)[i] = s[i]
           /\ \A i \in 1 .. Len(t) : (s \o t)[Len(s) + i] = t[i]
OBVIOUS

\* One element before a sequence, as move_free puts a node.
LEMMA SeqFront ==
    ASSUME NEW S, NEW s \in Seq(S), NEW x \in S
    PROVE  /\ <<x>> \o s \in Seq(S) /\ Len(<<x>> \o s) = Len(s) + 1
           /\ (<<x>> \o s)[1] = x
           /\ \A i \in 1 .. Len(s) : (<<x>> \o s)[i + 1] = s[i]
OBVIOUS

-----------------------------------------------------------------------------
(* Types *)

\* A word of the mcu.
LEMMA WrapType == \A x \in Int : Wrap(x) \in 0 .. WORD - 1
<1>1. WORD \in Nat \ {0}
  BY StepperAssumption DEF WORD
<1>2. \A x \in Int, w \in Nat \ {0} : x % w \in 0 .. w - 1
  OBVIOUS
<1> QED BY <1>1, <1>2 DEF Wrap

LEMMA WordType == WORD \in Nat \ {0} /\ BIAS \in Nat \ {0} /\ WORD = 4 * BIAS
BY StepperAssumption DEF WORD

\* What a move holds.
LEMMA MoveType ==
    ASSUME NEW m \in Moves
    PROVE  /\ m.node \in Nodes /\ m.count \in Nat \ {0} /\ m.dir \in {0, 1} /\ m.flip \in BOOLEAN
           /\ m.count * Events \in Nat \ {0}
<1>1. m.node \in Nodes /\ m.count \in Nat \ {0} /\ m.dir \in {0, 1} /\ m.flip \in BOOLEAN
  BY StepperAssumption, Zenon DEF Moves
<1>2. m.count * Events \in Nat \ {0}
  <2>1. CASE single_sched
    BY <1>1, <2>1 DEF Events
  <2>2. CASE ~single_sched
    BY <1>1, <2>2 DEF Events
  <2> QED BY <2>1, <2>2
<1> QED BY <1>1, <1>2

\* The positions are words and numbers.
LEMMA PositionType ==
    ASSUME TypeOK
    PROVE  /\ count \div Events \in Nat /\ GetPosition \in 0 .. WORD - 1
           /\ ReportedPosition \in Int
<1>1. count \div Events \in Nat
  <2>1. CASE single_sched
    BY <2>1 DEF Events, TypeOK
  <2>2. CASE ~single_sched
    BY <2>2 DEF Events, TypeOK
  <2> QED BY <2>1, <2>2
<1>2. position \in Int /\ WORD \in Nat /\ BIAS \in Nat
  BY WordType DEF TypeOK
<1>3. Wrap(position - count \div Events) \in 0 .. WORD - 1
  BY <1>1, <1>2, WrapType
<1>4. GetPosition \in 0 .. WORD - 1
  <2> DEFINE pos == Wrap(position - count \div Events)
  <2>1. pos \in Int /\ -pos \in Int
    BY <1>2, <1>3
  <2>2. Wrap(-pos) \in 0 .. WORD - 1
    BY <2>1, WrapType
  <2> HIDE DEF pos
  <2>3. GetPosition = IF pos >= 2 * BIAS THEN Wrap(-pos) ELSE pos
    BY DEF GetPosition, pos
  <2> QED BY <1>3, <2>2, <2>3 DEF pos
<1>5. ReportedPosition \in Int
  <2> DEFINE pos == Wrap(GetPosition - BIAS)
  <2>1. pos \in 0 .. WORD - 1
    BY <1>2, <1>4, WrapType
  <2> HIDE DEF pos
  <2>2. ReportedPosition = IF pos >= 2 * BIAS THEN pos - WORD ELSE pos
    BY DEF ReportedPosition, pos
  <2> QED BY <1>2, <2>1, <2>2
<1> QED BY <1>1, <1>4, <1>5

\* stepper_load_next keeps the types.
LEMMA LoadType ==
    ASSUME TypeOK, NEW q \in Seq(Moves), LoadNext(q)
    PROVE  /\ count' \in Nat /\ position' \in 0 .. WORD - 1 /\ mq' \in Seq(Moves)
           /\ dir_pin' \in {0, 1} /\ free' \in Seq(Nodes) /\ going' \in {0, 1}
<1>1. CASE q = <<>>
  BY <1>1 DEF LoadNext, TypeOK
<1>2. CASE q # <<>>
  <2> DEFINE m == Head(q)
  <2>1. /\ count' = m.count * Events
        /\ position' = Wrap((IF m.flip THEN -position ELSE position) + m.count)
        /\ dir_pin' = IF m.flip THEN 1 - dir_pin ELSE dir_pin
        /\ mq' = Tail(q) /\ free' = <<m.node>> \o free /\ going' = m.dir
    BY <1>2 DEF LoadNext
  <2>2. m \in Moves /\ Tail(q) \in Seq(Moves)
    BY <1>2, SeqRest
  <2>3. /\ m.node \in Nodes /\ m.count \in Nat \ {0} /\ m.dir \in {0, 1}
        /\ m.count * Events \in Nat \ {0}
    BY <2>2, MoveType
  <2> HIDE DEF m
  <2>4. (IF m.flip THEN -position ELSE position) + m.count \in Int
    BY <2>3, WordType DEF TypeOK
  <2>5. position' \in 0 .. WORD - 1
    BY <2>1, <2>4, WrapType
  <2>6. free' \in Seq(Nodes)
    BY <2>1, <2>3, SeqFront DEF TypeOK
  <2> QED BY <2>1, <2>2, <2>3, <2>5, <2>6 DEF TypeOK
<1> QED BY <1>1, <1>2

\* So does stepper_stop.
LEMMA StopType ==
    ASSUME TypeOK, StopSteps
    PROVE  /\ count' = 0 /\ position' \in 0 .. WORD - 1 /\ mq' = <<>> /\ mq' \in Seq(Moves)
           /\ last_dir' = 0 /\ next_dir' = 0 /\ need_reset' = TRUE /\ dir_pin' = 0
           /\ step_pin' \in {0, 1} /\ taken' = taken /\ going' = going
<1>1. -GetPosition \in Int
  BY PositionType
<1>2. position' \in 0 .. WORD - 1
  BY <1>1, WrapType DEF StopSteps
<1> QED BY <1>2 DEF StopSteps, TypeOK

\* The nodes that stepper_stop frees, and the whole pool.
LEMMA FreedType ==
    ASSUME NEW q \in Seq(Moves), NEW f \in Seq(Nodes)
    PROVE  /\ [i \in 1..Len(q) |-> q[Len(q) - i + 1].node] \in Seq(Nodes)
           /\ Freed(q, f) \in Seq(Nodes)
<1> DEFINE nodes == [i \in 1..Len(q) |-> q[Len(q) - i + 1].node]
<1>1. \A i \in 1..Len(q) : q[Len(q) - i + 1] \in Moves
  BY SeqLength
<1>2. nodes \in Seq(Nodes)
  BY <1>1 DEF Moves
<1> HIDE DEF nodes
<1>3. nodes \o f \in Seq(Nodes)
  BY <1>2, SeqJoin
<1> QED BY <1>2, <1>3 DEF Freed, nodes

LEMMA AllNodesType == AllNodes \in Seq(Nodes)
BY StepperAssumption DEF AllNodes, Nodes

\* move_reset and stepper_shutdown leave the whole pool free, in whatever order they run.
LEMMA ShutdownFree == ResetAndStopped = {AllNodes}
<1>1. <<>> \o AllNodes = AllNodes
  BY AllNodesType
<1>2. [i \in 1..0 |-> <<>>[Len(<<>>) - i + 1].node] = <<>>
  OBVIOUS
<1>3. Freed(<<>>, AllNodes) = AllNodes
  BY <1>1, <1>2, Zenon DEF Freed
<1> QED BY <1>3 DEF ResetAndStopped, QueueClear

\* run_shutdown keeps the types.
LEMMA ShutdownType ==
    ASSUME TypeOK, RunShutdown, UNCHANGED single_sched
    PROVE  TypeOK'
<1>1. /\ count' \in Nat /\ position' \in 0 .. WORD - 1 /\ mq' \in Seq(Moves)
      /\ last_dir' \in {0, 1} /\ next_dir' \in {0, 1} /\ need_reset' \in BOOLEAN
      /\ dir_pin' \in {0, 1} /\ step_pin' \in {0, 1} /\ taken' = taken /\ going' = going
  BY StopType DEF RunShutdown
<1>2. free' \in Seq(Nodes)
  BY AllNodesType, ShutdownFree DEF RunShutdown
<1>3. /\ signal' = FALSE /\ hand' = NoNode /\ is_shutdown' = TRUE /\ pipe' = <<>>
      /\ connected' = "no" /\ homing' = FALSE /\ UNCHANGED <<sdir, last_position>>
  BY DEF RunShutdown
<1>4. <<>> \in Seq(Messages)
  OBVIOUS
<1> QED BY <1>1, <1>2, <1>3, <1>4, Zenon DEF TypeOK

\* The messages of the host.
LEMMA MessageType ==
    /\ Reset \in Messages
    /\ \A d \in {0, 1} : SetDir(d) \in Messages
    /\ \A d \in {0, 1}, n \in Counts : QueueStep(d, n) \in Messages
    /\ \A m \in Messages : m.c = "queue_step" => m.dir \in {0, 1} /\ m.count \in Counts
    /\ \A m \in Messages : m.c = "set_next_step_dir" => m.dir \in {0, 1}
BY DEF Messages, Reset, SetDir, QueueStep

\* The move made of the message at hand.
LEMMA NewMoveType ==
    ASSUME TypeOK, HandInv, hand # NoNode
    PROVE  /\ pipe # <<>> /\ Head(pipe) = pipe[1] /\ Head(pipe).c = "queue_step"
           /\ NewMove(Head(pipe)) \in Moves /\ <<NewMove(Head(pipe))>> \in Seq(Moves)
<1>1. pipe # <<>> /\ pipe[1].c = "queue_step" /\ pipe \in Seq(Messages)
  BY DEF HandInv, Is, TypeOK
<1>2. Head(pipe) = pipe[1] /\ Head(pipe) \in Messages
  BY <1>1, SeqRest
<1>3. Head(pipe).dir \in {0, 1} /\ Head(pipe).count \in Counts
  BY <1>1, <1>2, MessageType
<1>4. NewMove(Head(pipe)) \in Moves
  BY <1>3 DEF NewMove, Moves, TypeOK
<1> QED BY <1>1, <1>2, <1>4

\* What add_move appends to the pipe, and what it becomes.
LEMMA AddedType ==
    ASSUME TypeOK, NEW d \in {0, 1}, NEW n \in Counts, AddMove(d, n)
    PROVE  /\ sdir = d => pipe' = Append(pipe, QueueStep(d, n))
           /\ sdir # d => pipe' = Append(Append(pipe, SetDir(d)), QueueStep(d, n))
           /\ pipe' \in Seq(Messages)
<1> DEFINE a == SetDir(d)
           b == QueueStep(d, n)
<1>1. pipe \in Seq(Messages) /\ a \in Messages /\ b \in Messages
  BY MessageType DEF TypeOK
<1>2. pipe' = pipe \o (IF sdir = d THEN <<>> ELSE <<a>>) \o <<b>>
  BY DEF AddMove
<1> HIDE DEF a, b
<1>3. sdir = d => pipe' = Append(pipe, b)
  BY <1>1, <1>2
<1>4. sdir # d => pipe' = Append(Append(pipe, a), b)
  <2>1. pipe \o <<a>> = Append(pipe, a) /\ pipe \o <<a>> \in Seq(Messages)
    BY <1>1
  <2>2. (pipe \o <<a>>) \o <<b>> = Append(pipe \o <<a>>, b)
    BY <1>1, <2>1
  <2> QED BY <1>2, <2>1, <2>2, Zenon
<1>5. Append(pipe, b) \in Seq(Messages) /\ Append(Append(pipe, a), b) \in Seq(Messages)
  BY <1>1, SeqAdd
<1> QED BY <1>3, <1>4, <1>5, Zenon DEF a, b

\* The messages of the pipe afterwards: k is 1 when a set_next_step_dir comes before the queue_step.
LEMMA AddedPipe ==
    ASSUME TypeOK, NEW d \in {0, 1}, NEW n \in Counts, AddMove(d, n), NEW l \in Nat, l = Len(pipe)
    PROVE  \E k \in {0, 1} :
             /\ k = 0 => sdir = d
             /\ k = 1 => pipe'[l + 1] = SetDir(d)
             /\ Len(pipe') = l + k + 1 /\ DOMAIN pipe' = 1 .. l + k + 1
             /\ pipe'[l + k + 1] = QueueStep(d, n)
             /\ \A i \in 1 .. l : pipe'[i] = pipe[i]
<1>1. l \in Nat /\ l = Len(pipe) /\ pipe \in Seq(Messages)
  BY DEF TypeOK
<1>2. \E k \in {0, 1} :
        /\ k = 0 => sdir = d
        /\ k = 1 => pipe'[l + 1] = SetDir(d)
        /\ Len(pipe') = l + k + 1 /\ DOMAIN pipe' = 1 .. l + k + 1
        /\ pipe'[l + k + 1] = QueueStep(d, n)
        /\ \A i \in 1 .. l : pipe'[i] = pipe[i]
  <2>1. SetDir(d) \in Messages /\ QueueStep(d, n) \in Messages
    BY MessageType, Zenon
  <2>2. CASE sdir = d
    <3>1. pipe' = Append(pipe, QueueStep(d, n)) /\ pipe' \in Seq(Messages)
      BY <2>2, AddedType, Zenon
    <3>2. /\ Len(pipe') = l + 1 /\ pipe'[l + 1] = QueueStep(d, n)
          /\ \A i \in 1 .. l : pipe'[i] = pipe[i]
      BY <1>1, <2>1, <3>1, SeqAdd, SMTT(30)
    <3>3. DOMAIN pipe' = 1 .. l + 1
      BY <3>1, <3>2, SeqLength, Zenon
    <3> QED BY <1>1, <2>2, <3>2, <3>3
  <2>3. CASE sdir # d
    <3> DEFINE a == Append(pipe, SetDir(d))
    <3>1. pipe' = Append(a, QueueStep(d, n)) /\ pipe' \in Seq(Messages)
      BY <2>3, AddedType, Zenon
    <3>2. /\ a \in Seq(Messages) /\ Len(a) = l + 1 /\ a[l + 1] = SetDir(d)
          /\ \A i \in 1 .. l : a[i] = pipe[i]
      BY <1>1, <2>1, SeqAdd, SMTT(30)
    <3> HIDE DEF a
    <3>3. /\ Len(pipe') = l + 2 /\ pipe'[l + 2] = QueueStep(d, n)
          /\ \A i \in 1 .. l + 1 : pipe'[i] = a[i]
      BY <1>1, <2>1, <3>1, <3>2, SeqAdd, SMTT(30)
    <3>4. DOMAIN pipe' = 1 .. l + 2
      BY <3>1, <3>3, SeqLength, Zenon
    <3>5. /\ pipe'[l + 1] = SetDir(d) /\ \A i \in 1 .. l : pipe'[i] = pipe[i]
          /\ Len(pipe') = l + 1 + 1 /\ DOMAIN pipe' = 1 .. l + 1 + 1 /\ pipe'[l + 1 + 1] = QueueStep(d, n)
      BY <1>1, <3>2, <3>3, <3>4, SMTT(30)
    <3> QED BY <3>5
  <2> QED BY <2>2, <2>3
<1> QED BY <1>2, Zenon

\* Every step of the mcu and of the host keeps the types.
LEMMA TypeStep ==
    ASSUME TypeOK, HandInv, Next
    PROVE  TypeOK'
<1> USE DEF motion, host
<1>1. ASSUME StepEvent, UNCHANGED single_sched PROVE TypeOK'
  <2>1. step_pin' \in {0, 1} /\ taken' \in Int
    BY <1>1 DEF StepEvent, TypeOK
  <2>2. UNCHANGED <<last_dir, next_dir, need_reset, signal, hand, is_shutdown, pipe, sdir,
                    last_position, connected, homing>>
    BY <1>1 DEF StepEvent
  <2>3. /\ count' \in Nat /\ position' \in 0 .. WORD - 1 /\ mq' \in Seq(Moves)
        /\ dir_pin' \in {0, 1} /\ free' \in Seq(Nodes) /\ going' \in {0, 1}
    <3>1. CASE count > 1
      BY <1>1, <3>1 DEF StepEvent, TypeOK
    <3>2. CASE ~(count > 1)
      <4>1. LoadNext(mq) /\ mq \in Seq(Moves)
        BY <1>1, <3>2 DEF StepEvent, TypeOK
      <4> QED BY <4>1, LoadType
    <3> QED BY <3>1, <3>2
  <2> QED BY <1>1, <2>1, <2>2, <2>3, SMT DEF TypeOK
<1>2. ASSUME Trigger, UNCHANGED single_sched PROVE TypeOK'
  <2>1. /\ count' \in Nat /\ position' \in 0 .. WORD - 1 /\ mq' \in Seq(Moves)
        /\ last_dir' \in {0, 1} /\ next_dir' \in {0, 1} /\ need_reset' \in BOOLEAN
        /\ dir_pin' \in {0, 1} /\ step_pin' \in {0, 1} /\ taken' = taken /\ going' = going
    BY <1>2, StopType DEF Trigger
  <2>2. free' \in Seq(Nodes)
    BY <1>2, FreedType DEF Trigger, TypeOK
  <2>3. /\ signal' = FALSE
        /\ UNCHANGED <<hand, is_shutdown, pipe, sdir, last_position, connected, homing>>
    BY <1>2 DEF Trigger
  <2> QED BY <1>2, <2>1, <2>2, <2>3, Zenon DEF TypeOK
<1>3. ASSUME CommandEmergencyStop, UNCHANGED single_sched PROVE TypeOK'
  BY <1>3, ShutdownType DEF CommandEmergencyStop
<1>4. ASSUME CommandClearShutdown, UNCHANGED single_sched PROVE TypeOK'
  <2>1. /\ is_shutdown' \in BOOLEAN
        /\ UNCHANGED <<motion, signal, hand, pipe, sdir, last_position, connected, homing>>
    BY <1>4, Zenon DEF CommandClearShutdown
  <2> QED BY <1>4, <2>1, SMT DEF TypeOK
<1>5. ASSUME CommandQueueStepAlloc, UNCHANGED single_sched PROVE TypeOK'
  <2>1. CASE free = <<>>
    BY <1>5, <2>1, ShutdownType DEF CommandQueueStepAlloc
  <2>2. CASE free # <<>>
    <3>1. hand' \in Nodes \cup {NoNode} /\ free' \in Seq(Nodes)
      <4>1. hand' = Head(free) /\ free' = Tail(free) /\ free \in Seq(Nodes)
        BY <1>5, <2>2 DEF CommandQueueStepAlloc, TypeOK
      <4> QED BY <2>2, <4>1, SeqRest
    <3>2. UNCHANGED <<count, position, mq, last_dir, next_dir, need_reset, dir_pin, step_pin,
                      taken, going, signal, is_shutdown, pipe, sdir, last_position,
                      connected, homing>>
      BY <1>5, <2>2 DEF CommandQueueStepAlloc
    <3> QED BY <1>5, <3>1, <3>2, SMT DEF TypeOK
  <2> QED BY <2>1, <2>2
<1>6. ASSUME CommandQueueStep, UNCHANGED single_sched PROVE TypeOK'
  <2> DEFINE m == NewMove(Head(pipe))
  <2>1. /\ hand # NoNode /\ hand' = NoNode /\ pipe' = Tail(pipe)
        /\ UNCHANGED <<next_dir, need_reset, step_pin, taken, signal, is_shutdown, sdir,
                       last_position, connected, homing>>
    BY <1>6 DEF CommandQueueStep
  <2>2. pipe # <<>> /\ m \in Moves /\ <<m>> \in Seq(Moves)
    BY <2>1, NewMoveType
  <2>3. \/ /\ mq' = Append(mq, m) /\ last_dir' = next_dir
           /\ UNCHANGED <<count, position, dir_pin, free, going>>
        \/ /\ free' = <<hand>> \o free
           /\ UNCHANGED <<count, position, mq, last_dir, dir_pin, going>>
        \/ last_dir' = next_dir /\ LoadNext(<<m>>)
    BY <1>6 DEF CommandQueueStep
  <2> HIDE DEF m
  <2>4. pipe' \in Seq(Messages)
    BY <2>1, <2>2, SeqRest DEF TypeOK
  <2>5. /\ count' \in Nat /\ position' \in 0 .. WORD - 1 /\ mq' \in Seq(Moves)
        /\ dir_pin' \in {0, 1} /\ free' \in Seq(Nodes) /\ going' \in {0, 1}
        /\ last_dir' \in {0, 1}
    <3>1. CASE /\ mq' = Append(mq, m) /\ last_dir' = next_dir
               /\ UNCHANGED <<count, position, dir_pin, free, going>>
      BY <2>2, <3>1, SeqAdd DEF TypeOK
    <3>2. CASE /\ free' = <<hand>> \o free
               /\ UNCHANGED <<count, position, mq, last_dir, dir_pin, going>>
      <4>1. hand \in Nodes
        BY <2>1 DEF TypeOK
      <4>2. free' \in Seq(Nodes)
        BY <3>2, <4>1, SeqFront DEF TypeOK
      <4> QED BY <3>2, <4>2 DEF TypeOK
    <3>3. CASE last_dir' = next_dir /\ LoadNext(<<m>>)
      <4>1. last_dir' \in {0, 1}
        BY <3>3 DEF TypeOK
      <4> QED BY <2>2, <3>3, <4>1, LoadType, Zenon
    <3> QED BY <2>3, <3>1, <3>2, <3>3
  <2> QED BY <1>6, <2>1, <2>4, <2>5, ZenonT(40) DEF TypeOK
<1>7. ASSUME CommandSetNextStepDir, UNCHANGED single_sched PROVE TypeOK'
  <2>1. /\ pipe # <<>> /\ Head(pipe).c = "set_next_step_dir"
        /\ next_dir' = Head(pipe).dir /\ pipe' = Tail(pipe)
    BY <1>7 DEF CommandSetNextStepDir, Receive
  <2>2. Head(pipe) \in Messages /\ pipe' \in Seq(Messages)
    BY <2>1, SeqRest DEF TypeOK
  <2>3. next_dir' \in {0, 1}
    <3>1. Head(pipe).dir \in {0, 1}
      BY <2>1, <2>2, MessageType, Zenon
    <3> QED BY <2>1, <3>1, Zenon
  <2>4. UNCHANGED <<count, position, mq, last_dir, need_reset, dir_pin, step_pin, free, taken, going,
                    signal, hand, is_shutdown, sdir, last_position, connected, homing, single_sched>>
    BY <1>7 DEF CommandSetNextStepDir, Receive
  <2>5. pipe' \in Seq(Messages)
    BY <2>2
  <2> QED BY <2>3, <2>4, <2>5, SMTT(30) DEF TypeOK
<1>8. ASSUME CommandResetStepClock, UNCHANGED single_sched PROVE TypeOK'
  <2>1. CASE count > 0
    BY <1>8, <2>1, ShutdownType DEF CommandResetStepClock
  <2>2. CASE ~(count > 0)
    <3>1. /\ pipe # <<>> /\ need_reset' \in BOOLEAN /\ pipe' = Tail(pipe)
          /\ UNCHANGED <<count, position, mq, last_dir, next_dir, dir_pin, step_pin, free, taken,
                         going, signal, hand, is_shutdown, sdir, last_position, connected, homing>>
      BY <1>8, <2>2, Zenon DEF CommandResetStepClock, Receive
    <3>2. pipe' \in Seq(Messages)
      BY <3>1, SeqRest DEF TypeOK
    <3> QED BY <1>8, <3>1, <3>2, SMT DEF TypeOK
  <2> QED BY <2>1, <2>2
<1>9. ASSUME NEW d \in {0, 1}, NEW n \in Counts, AddMove(d, n), UNCHANGED single_sched
      PROVE  TypeOK'
  <2>1. pipe' \in Seq(Messages)
    BY <1>9, AddedType
  <2>2. sdir' \in {-1, 0, 1} /\ last_position' \in Int
    BY <1>9, StepperAssumption DEF AddMove, TypeOK
  <2>3. UNCHANGED <<motion, signal, hand, is_shutdown, connected, homing>>
    BY <1>9 DEF AddMove
  <2> QED BY <1>9, <2>1, <2>2, <2>3, SMT DEF TypeOK
<1>10. ASSUME HomingStart, UNCHANGED single_sched PROVE TypeOK'
  <2>1. homing' \in BOOLEAN /\ signal' \in BOOLEAN
    BY <1>10, Zenon DEF HomingStart
  <2>2. UNCHANGED <<count, position, mq, last_dir, next_dir, need_reset, dir_pin, step_pin, free,
                    taken, going, hand, is_shutdown, pipe, sdir, last_position, connected>>
    BY <1>10 DEF HomingStart
  <2> QED BY <1>10, <2>1, <2>2, SMT DEF TypeOK
<1>11. ASSUME NoteHomingEnd, UNCHANGED single_sched PROVE TypeOK'
  <2>1. pipe' \in Seq(Messages) /\ last_position' \in Int
    BY <1>11, SeqAdd, MessageType, PositionType DEF NoteHomingEnd, TypeOK
  <2>2. /\ sdir' \in {-1, 0, 1} /\ homing' \in BOOLEAN
        /\ UNCHANGED <<motion, signal, hand, is_shutdown, connected>>
    BY <1>11, Zenon DEF NoteHomingEnd, StepcompressReset
  <2> QED BY <1>11, <2>1, <2>2, SMT DEF TypeOK
<1>12. ASSUME HostConnect, UNCHANGED single_sched PROVE TypeOK'
  <2>1. pipe' \in Seq(Messages)
    BY <1>12, MessageType DEF HostConnect
  <2>2. /\ sdir' \in {-1, 0, 1} /\ homing' \in BOOLEAN /\ connected' = "config"
        /\ UNCHANGED <<motion, signal, hand, is_shutdown, last_position>>
    BY <1>12, Zenon DEF HostConnect, StepcompressReset
  <2> QED BY <1>12, <2>1, <2>2, ZenonT(40) DEF TypeOK
<1>13. ASSUME QueryMcuPosition, UNCHANGED single_sched PROVE TypeOK'
  <2>1. last_position' \in Int /\ connected' = "yes"
    BY <1>13, PositionType DEF QueryMcuPosition
  <2>2. UNCHANGED <<motion, signal, hand, is_shutdown, pipe, sdir, homing>>
    BY <1>13 DEF QueryMcuPosition
  <2> QED BY <1>13, <2>1, <2>2, SMT DEF TypeOK
<1> QED BY <1>1, <1>2, <1>3, <1>4, <1>5, <1>6, <1>7, <1>8, <1>9, <1>10, <1>11, <1>12, <1>13
        DEF Next

-----------------------------------------------------------------------------
(* Sequences without repetition *)

LEMMA RangeIs ==
    ASSUME NEW S, NEW s \in Seq(S)
    PROVE  /\ \A x : x \in Range(s) <=> \E i \in 1 .. Len(s) : s[i] = x
           /\ IsInjective(s) <=> \A i, j \in 1 .. Len(s) : s[i] = s[j] => i = j
           /\ Range(s) \subseteq S
<1>1. DOMAIN s = 1 .. Len(s) /\ \A i \in 1 .. Len(s) : s[i] \in S
  BY SeqLength
<1> QED BY <1>1, Zenon DEF Range, IsInjective

LEMMA EmptyRange == Range(<<>>) = {} /\ IsInjective(<<>>)
BY DEF Range, IsInjective

\* One element before a sequence, or the first element taken from it.
LEMMA FrontRange ==
    ASSUME NEW S, NEW s \in Seq(S), NEW x \in S
    PROVE  /\ Range(<<x>> \o s) = {x} \cup Range(s)
           /\ IsInjective(<<x>> \o s) <=> IsInjective(s) /\ x \notin Range(s)
<1> DEFINE t == <<x>> \o s
<1>1. /\ t \in Seq(S) /\ Len(t) = Len(s) + 1 /\ t[1] = x /\ Len(s) \in Nat
      /\ \A i \in 1 .. Len(s) : t[i + 1] = s[i]
  BY SeqFront, SeqLength
<1> HIDE DEF t
<1>2. \A i \in 1 .. Len(t) : i = 1 \/ (i - 1 \in 1 .. Len(s) /\ t[i] = s[i - 1])
  BY <1>1, SMTT(30)
<1>3. 1 \in 1 .. Len(t) /\ \A i \in 1 .. Len(s) : i + 1 \in 1 .. Len(t) /\ i + 1 # 1
  BY <1>1
<1>4. /\ \A y : y \in Range(s) <=> \E i \in 1 .. Len(s) : s[i] = y
      /\ \A y : y \in Range(t) <=> \E i \in 1 .. Len(t) : t[i] = y
      /\ IsInjective(s) <=> \A i, j \in 1 .. Len(s) : s[i] = s[j] => i = j
      /\ IsInjective(t) <=> \A i, j \in 1 .. Len(t) : t[i] = t[j] => i = j
  BY <1>1, RangeIs, Zenon
<1>5. \A y : y \in Range(t) <=> y = x \/ y \in Range(s)
  <2>1. \A i \in 1 .. Len(t) : t[i] = x \/ t[i] \in Range(s)
    BY <1>1, <1>2, <1>4
  <2>2. x \in Range(t)
    BY <1>1, <1>3, <1>4
  <2>3. \A i \in 1 .. Len(s) : s[i] \in Range(t)
    BY <1>1, <1>3, <1>4
  <2> QED BY <1>4, <2>1, <2>2, <2>3, Zenon
<1>6. ASSUME IsInjective(t) PROVE IsInjective(s) /\ x \notin Range(s)
  <2>1. ASSUME NEW i \in 1 .. Len(s), NEW j \in 1 .. Len(s), s[i] = s[j] PROVE i = j
    <3>1. i + 1 \in 1 .. Len(t) /\ j + 1 \in 1 .. Len(t) /\ t[i + 1] = t[j + 1]
      BY <1>1, <2>1
    <3>2. i + 1 = j + 1
      BY <1>6, <1>4, <3>1, Zenon
    <3> QED BY <3>2
  <2>2. ASSUME NEW i \in 1 .. Len(s), s[i] = x PROVE FALSE
    <3>1. i + 1 \in 1 .. Len(t) /\ 1 \in 1 .. Len(t) /\ t[i + 1] = t[1] /\ i + 1 # 1
      BY <1>1, <2>2
    <3> QED BY <1>6, <1>4, <3>1, Zenon
  <2> QED BY <1>4, <2>1, <2>2, Zenon
<1>7. ASSUME IsInjective(s), x \notin Range(s) PROVE IsInjective(t)
  <2>1. ASSUME NEW i \in 1 .. Len(t), NEW j \in 1 .. Len(t), t[i] = t[j] PROVE i = j
    <3>1. CASE i = 1 /\ j = 1
      BY <3>1
    <3>2. CASE i # 1 /\ j # 1
      <4>1. i - 1 \in 1 .. Len(s) /\ j - 1 \in 1 .. Len(s) /\ s[i - 1] = s[j - 1]
        BY <1>2, <2>1, <3>2
      <4>2. i - 1 = j - 1
        BY <1>7, <1>4, <4>1
      <4> QED BY <4>2
    <3>3. CASE (i = 1) # (j = 1)
      <4>1. PICK k \in 1 .. Len(t) : k # 1 /\ t[k] = x
        BY <1>1, <2>1, <3>3
      <4>2. k - 1 \in 1 .. Len(s) /\ s[k - 1] = x
        BY <1>2, <4>1
      <4> QED BY <1>7, <1>4, <4>2
    <3> QED BY <3>1, <3>2, <3>3
  <2> QED BY <1>4, <2>1, Zenon
<1> QED BY <1>5, <1>6, <1>7, Zenon DEF t

LEMMA RestRange ==
    ASSUME NEW S, NEW s \in Seq(S), s # <<>>, IsInjective(s)
    PROVE  /\ Range(s) = {Head(s)} \cup Range(Tail(s))
           /\ IsInjective(Tail(s)) /\ Head(s) \notin Range(Tail(s))
<1>1. Head(s) \in S /\ Tail(s) \in Seq(S) /\ s = <<Head(s)>> \o Tail(s)
  OBVIOUS
<1> DEFINE x == Head(s)
           t == Tail(s)
<1> HIDE DEF x, t
<1>2. x \in S /\ t \in Seq(S) /\ s = <<x>> \o t
  BY <1>1 DEF x, t
<1> QED BY <1>2, FrontRange, Zenon DEF x, t

\* One element after a sequence.
LEMMA AddRange ==
    ASSUME NEW S, NEW s \in Seq(S), NEW x \in S
    PROVE  /\ Range(Append(s, x)) = {x} \cup Range(s)
           /\ IsInjective(s) /\ x \notin Range(s) => IsInjective(Append(s, x))
<1> DEFINE t == Append(s, x)
<1>1. /\ t \in Seq(S) /\ Len(t) = Len(s) + 1 /\ t[Len(s) + 1] = x /\ Len(s) \in Nat
      /\ \A i \in 1 .. Len(s) : t[i] = s[i]
  BY SeqAdd, SeqLength
<1> HIDE DEF t
<1>2. /\ \A i \in 1 .. Len(t) : i = Len(s) + 1 \/ i \in 1 .. Len(s)
      /\ \A i \in 1 .. Len(s) : i \in 1 .. Len(t)
      /\ Len(s) + 1 \in 1 .. Len(t)
  BY <1>1
<1>3. /\ \A y : y \in Range(s) <=> \E i \in 1 .. Len(s) : s[i] = y
      /\ \A y : y \in Range(t) <=> \E i \in 1 .. Len(t) : t[i] = y
      /\ IsInjective(s) <=> \A i, j \in 1 .. Len(s) : s[i] = s[j] => i = j
      /\ IsInjective(t) <=> \A i, j \in 1 .. Len(t) : t[i] = t[j] => i = j
  BY <1>1, RangeIs, Zenon
<1>4. \A y : y \in Range(t) <=> y = x \/ y \in Range(s)
  BY <1>1, <1>2, <1>3, SMTT(30)
<1>5. ASSUME IsInjective(s), x \notin Range(s) PROVE IsInjective(t)
  BY <1>1, <1>2, <1>5, <1>3
<1> QED BY <1>4, <1>5, Zenon DEF t

\* Two sequences joined.
LEMMA JoinRange ==
    ASSUME NEW S, NEW s \in Seq(S), NEW u \in Seq(S)
    PROVE  /\ Range(s \o u) = Range(s) \cup Range(u)
           /\ IsInjective(s) /\ IsInjective(u) /\ Range(s) \cap Range(u) = {} => IsInjective(s \o u)
<1> DEFINE t == s \o u
<1>1. /\ t \in Seq(S) /\ Len(t) = Len(s) + Len(u) /\ Len(s) \in Nat /\ Len(u) \in Nat
      /\ \A i \in 1 .. Len(s) : t[i] = s[i]
      /\ \A i \in 1 .. Len(u) : t[Len(s) + i] = u[i]
  BY SeqJoin, SeqLength
<1> HIDE DEF t
<1>2. /\ \A y : y \in Range(s) <=> \E i \in 1 .. Len(s) : s[i] = y
      /\ \A y : y \in Range(t) <=> \E i \in 1 .. Len(t) : t[i] = y
      /\ \A y : y \in Range(u) <=> \E i \in 1 .. Len(u) : u[i] = y
      /\ IsInjective(s) <=> \A i, j \in 1 .. Len(s) : s[i] = s[j] => i = j
      /\ IsInjective(t) <=> \A i, j \in 1 .. Len(t) : t[i] = t[j] => i = j
      /\ IsInjective(u) <=> \A i, j \in 1 .. Len(u) : u[i] = u[j] => i = j
  BY <1>1, RangeIs, ZenonT(40)
<1>3. \A i \in 1 .. Len(t) : \/ i \in 1 .. Len(s) /\ t[i] = s[i]
                             \/ i - Len(s) \in 1 .. Len(u) /\ t[i] = u[i - Len(s)]
  <2>1. \A i \in 1 .. Len(t) : \/ i \in 1 .. Len(s)
                               \/ i - Len(s) \in 1 .. Len(u) /\ Len(s) + (i - Len(s)) = i
    <3>1. Len(t) = Len(s) + Len(u) /\ Len(s) \in Nat /\ Len(u) \in Nat
      BY <1>1, Zenon
    <3> QED BY <3>1, SMTT(30)
  <2> QED BY <1>1, <2>1, Zenon
<1>4. \A k \in 1 .. Len(t) : /\ k \in 1 .. Len(s) => t[k] \in Range(s)
                             /\ k \notin 1 .. Len(s) => t[k] \in Range(u)
  <2>1. /\ \A i \in 1 .. Len(s) : s[i] \in Range(s)
        /\ \A i \in 1 .. Len(u) : u[i] \in Range(u)
    BY <1>2, Zenon
  <2> QED BY <1>1, <1>3, <2>1, Zenon
<1>5. \A i \in 1 .. Len(s) : s[i] \in Range(t)
  BY <1>1, <1>2
<1>6. \A i \in 1 .. Len(u) : u[i] \in Range(t)
  <2>1. \A i \in 1 .. Len(u) : Len(s) + i \in 1 .. Len(t) /\ t[Len(s) + i] = u[i]
    BY <1>1
  <2> QED BY <1>2, <2>1
<1>7. \A y : y \in Range(t) <=> y \in Range(s) \/ y \in Range(u)
  <2>1. ASSUME NEW y \in Range(t) PROVE y \in Range(s) \/ y \in Range(u)
    <3>1. PICK k \in 1 .. Len(t) : t[k] = y
      BY <1>2, Zenon
    <3> QED BY <1>4, <3>1
  <2>2. ASSUME NEW y, y \in Range(s) \/ y \in Range(u) PROVE y \in Range(t)
    BY <1>2, <1>5, <1>6, <2>2, ZenonT(40)
  <2> QED BY <2>1, <2>2, Zenon
<1>8. ASSUME IsInjective(s), IsInjective(u), Range(s) \cap Range(u) = {} PROVE IsInjective(t)
  <2>1. ASSUME NEW i \in 1 .. Len(t), NEW j \in 1 .. Len(t), t[i] = t[j] PROVE i = j
    <3>1. CASE i \in 1 .. Len(s) /\ j \in 1 .. Len(s)
      BY <1>1, <1>2, <1>8, <2>1, <3>1
    <3>2. CASE i - Len(s) \in 1 .. Len(u) /\ j - Len(s) \in 1 .. Len(u)
      <4>1. i \notin 1 .. Len(s) /\ j \notin 1 .. Len(s)
        BY <1>1, <3>2
      <4>3. u[i - Len(s)] = u[j - Len(s)]
        BY <1>3, <2>1, <4>1
      <4>2. i - Len(s) = j - Len(s)
        BY <1>2, <1>8, <3>2, <4>3
      <4> QED BY <1>1, <4>2
    <3>3. CASE (i \in 1 .. Len(s)) # (j \in 1 .. Len(s))
      BY <1>4, <1>8, <2>1, <3>3
    <3> QED BY <1>3, <3>1, <3>2, <3>3
  <2> QED BY <1>2, <2>1, Zenon
<1> QED BY <1>7, <1>8, Zenon DEF t

\* A sequence backwards, as stepper_stop frees the moves queued.
LEMMA BackRange ==
    ASSUME NEW S, NEW s \in Seq(S), NEW t \in Seq(S), Len(t) = Len(s),
           \A i \in 1 .. Len(s) : t[i] = s[Len(s) - i + 1]
    PROVE  Range(t) = Range(s) /\ (IsInjective(s) => IsInjective(t))
<1>1. Len(s) \in Nat
  BY SeqLength
<1>2. \A i \in 1 .. Len(s) : /\ Len(s) - i + 1 \in 1 .. Len(s)
                             /\ Len(s) - (Len(s) - i + 1) + 1 = i
  BY <1>1
<1>3. /\ \A y : y \in Range(s) <=> \E i \in 1 .. Len(s) : s[i] = y
      /\ \A y : y \in Range(t) <=> \E i \in 1 .. Len(t) : t[i] = y
      /\ IsInjective(s) <=> \A i, j \in 1 .. Len(s) : s[i] = s[j] => i = j
      /\ IsInjective(t) <=> \A i, j \in 1 .. Len(t) : t[i] = t[j] => i = j
  BY RangeIs, Zenon
<1>4. \A i \in 1 .. Len(s) : s[i] = t[Len(s) - i + 1]
  BY <1>2
<1>5. \A i \in 1 .. Len(s) : t[i] \in Range(s) /\ s[i] \in Range(t)
  BY <1>2, <1>3, <1>4, ZenonT(40)
<1>6. \A y : y \in Range(t) <=> y \in Range(s)
  BY <1>3, <1>5, Zenon
<1>7. ASSUME IsInjective(s), NEW i \in 1 .. Len(s), NEW j \in 1 .. Len(s), t[i] = t[j]
      PROVE  i = j
  <2>1. /\ s[Len(s) - i + 1] = s[Len(s) - j + 1]
        /\ Len(s) - i + 1 \in 1 .. Len(s) /\ Len(s) - j + 1 \in 1 .. Len(s)
    BY <1>2, <1>7
  <2>2. Len(s) - i + 1 = Len(s) - j + 1
    BY <1>3, <1>7, <2>1, Zenon
  <2> QED BY <1>1, <2>2
<1> QED BY <1>3, <1>6, <1>7, Zenon

-----------------------------------------------------------------------------
(* The pool of move nodes *)

\* NodesPartitioned, of the free list f, the moves q queued and the node h in hand.
Queued(q) == [i \in 1..Len(q) |-> q[i].node]
Pool(f, q, h) ==
    /\ IsInjective(f) /\ IsInjective(Queued(q))
    /\ Range(f) \cap Range(Queued(q)) = {} /\ h \notin Range(f) \cup Range(Queued(q))
    /\ Nodes \subseteq Range(f) \cup Range(Queued(q)) \cup {h}

LEMMA PoolIs == NodesPartitioned <=> Pool(free, mq, hand)
BY DEF NodesPartitioned, Pool, Queued

LEMMA PoolIsNext == NodesPartitioned' <=> Pool(free', mq', hand')
BY DEF NodesPartitioned, Pool, Queued

LEMMA QueuedType ==
    ASSUME NEW q \in Seq(Moves)
    PROVE  /\ Queued(q) \in Seq(Nodes) /\ Len(Queued(q)) = Len(q)
           /\ \A i \in 1 .. Len(q) : Queued(q)[i] = q[i].node
<1>1. Len(q) \in Nat /\ \A i \in 1 .. Len(q) : q[i].node \in Nodes
  BY SeqLength, MoveType
<1> QED BY <1>1 DEF Queued

\* The nodes of a queue without its first move, and with one more.
LEMMA QueuedRest ==
    ASSUME NEW q \in Seq(Moves), q # <<>>
    PROVE  Queued(q) = <<Head(q).node>> \o Queued(Tail(q)) /\ Head(q).node \in Nodes
<1>1. /\ Tail(q) \in Seq(Moves) /\ Head(q) = q[1] /\ Head(q) \in Moves /\ Len(q) \in Nat /\ Len(q) # 0
      /\ Len(Tail(q)) = Len(q) - 1 /\ \A i \in 1 .. Len(q) - 1 : Tail(q)[i] = q[i + 1]
  BY SeqRest, SeqLength
<1> DEFINE s == Queued(q)
           t == Queued(Tail(q))
           n == Head(q).node
<1>2. /\ s \in Seq(Nodes) /\ Len(s) = Len(q) /\ t \in Seq(Nodes) /\ Len(t) = Len(q) - 1 /\ n \in Nodes
      /\ s[1] = n /\ \A i \in 1 .. Len(q) - 1 : s[i + 1] = t[i]
  <2>1. /\ s \in Seq(Nodes) /\ Len(s) = Len(q) /\ \A i \in 1 .. Len(q) : s[i] = q[i].node
    BY QueuedType
  <2>2. /\ t \in Seq(Nodes) /\ Len(t) = Len(q) - 1
        /\ \A i \in 1 .. Len(q) - 1 : t[i] = Tail(q)[i].node
    BY <1>1, QueuedType, Zenon
  <2>3. n \in Nodes
    BY <1>1, MoveType
  <2> HIDE DEF s, t
  <2> QED BY <1>1, <2>1, <2>2, <2>3, SMTT(30)
<1> HIDE DEF s, t, n
<1>3. s = <<n>> \o t
  BY <1>1, <1>2
<1> QED BY <1>2, <1>3 DEF s, t, n

LEMMA QueuedAdd ==
    ASSUME NEW q \in Seq(Moves), NEW m \in Moves
    PROVE  Queued(Append(q, m)) = Append(Queued(q), m.node)
<1>1. /\ Append(q, m) \in Seq(Moves) /\ Len(Append(q, m)) = Len(q) + 1 /\ Len(q) \in Nat
      /\ \A i \in 1 .. Len(q) : Append(q, m)[i] = q[i]
      /\ Append(q, m)[Len(q) + 1] = m
  BY SeqAdd, SeqLength
<1> DEFINE s == Queued(Append(q, m))
           t == Queued(q)
           n == m.node
<1>2. /\ s \in Seq(Nodes) /\ Len(s) = Len(q) + 1 /\ t \in Seq(Nodes) /\ Len(t) = Len(q) /\ n \in Nodes
      /\ s[Len(q) + 1] = n /\ \A i \in 1 .. Len(q) : s[i] = t[i]
  <2>1. /\ s \in Seq(Nodes) /\ Len(s) = Len(q) + 1
        /\ \A i \in 1 .. Len(q) + 1 : s[i] = Append(q, m)[i].node
    BY <1>1, QueuedType, Zenon
  <2>2. /\ t \in Seq(Nodes) /\ Len(t) = Len(q)
        /\ \A i \in 1 .. Len(q) : t[i] = q[i].node
    BY QueuedType
  <2>3. n \in Nodes
    BY MoveType
  <2> HIDE DEF s, t
  <2> QED BY <1>1, <2>1, <2>2, <2>3
<1> HIDE DEF s, t, n
<1>3. s = Append(t, n)
  BY <1>1, <1>2
<1> QED BY <1>3 DEF s, t, n

\* stepper_load_next frees the node of the move it loads.
LEMMA PoolLoad ==
    ASSUME NEW f \in Seq(Nodes), NEW q \in Seq(Moves), NEW h, Pool(f, q, h), q # <<>>
    PROVE  Pool(<<Head(q).node>> \o f, Tail(q), h)
<1> DEFINE n == Head(q).node
           t == Queued(Tail(q))
<1>1. Queued(q) = <<n>> \o t /\ n \in Nodes /\ t \in Seq(Nodes)
  BY QueuedRest, QueuedType, SeqRest, Zenon
<1> HIDE DEF n, t
<1>2. /\ Range(Queued(q)) = {n} \cup Range(t)
      /\ IsInjective(Queued(q)) <=> IsInjective(t) /\ n \notin Range(t)
      /\ Range(<<n>> \o f) = {n} \cup Range(f)
      /\ IsInjective(<<n>> \o f) <=> IsInjective(f) /\ n \notin Range(f)
  BY <1>1, FrontRange
<1>3. Pool(<<n>> \o f, Tail(q), h) <=>
         /\ IsInjective(<<n>> \o f) /\ IsInjective(t)
         /\ Range(<<n>> \o f) \cap Range(t) = {} /\ h \notin Range(<<n>> \o f) \cup Range(t)
         /\ Nodes \subseteq Range(<<n>> \o f) \cup Range(t) \cup {h}
  BY DEF Pool, t
<1> QED BY <1>2, <1>3 DEF Pool, n

\* move_alloc takes the first free node.
LEMMA PoolAlloc ==
    ASSUME NEW f \in Seq(Nodes), NEW q \in Seq(Moves), Pool(f, q, NoNode), f # <<>>
    PROVE  Pool(Tail(f), q, Head(f))
<1>1. /\ Range(f) = {Head(f)} \cup Range(Tail(f))
      /\ IsInjective(Tail(f)) /\ Head(f) \notin Range(Tail(f))
  BY RestRange DEF Pool
<1>2. NoNode \notin Nodes
  BY DEF Nodes, NoNode
<1> QED BY <1>1, <1>2 DEF Pool

LEMMA RangeTypes ==
    ASSUME NEW f \in Seq(Nodes), NEW q \in Seq(Moves)
    PROVE  NoNode \notin Nodes /\ Range(f) \subseteq Nodes /\ Range(Queued(q)) \subseteq Nodes
<1>1. NoNode \notin Nodes
  BY DEF Nodes, NoNode
<1>2. Range(f) \subseteq Nodes
  BY RangeIs
<1>3. Queued(q) \in Seq(Nodes)
  BY QueuedType
<1> QED BY <1>1, <1>2, <1>3, RangeIs

\* A move joins the queue with the node in hand.
LEMMA PoolQueue ==
    ASSUME NEW f \in Seq(Nodes), NEW q \in Seq(Moves), NEW m \in Moves, Pool(f, q, m.node)
    PROVE  Pool(f, Append(q, m), NoNode)
<1>1. Queued(Append(q, m)) = Append(Queued(q), m.node) /\ m.node \in Nodes
  BY QueuedAdd, MoveType, Zenon
<1>2. /\ Range(Append(Queued(q), m.node)) = {m.node} \cup Range(Queued(q))
      /\ IsInjective(Append(Queued(q), m.node))
  BY <1>1, AddRange, QueuedType DEF Pool
<1>3. NoNode \notin Nodes /\ Range(f) \subseteq Nodes /\ Range(Queued(q)) \subseteq Nodes
  BY RangeTypes
<1> QED BY <1>1, <1>2, <1>3 DEF Pool

\* The node in hand is freed.
LEMMA PoolFree ==
    ASSUME NEW f \in Seq(Nodes), NEW q \in Seq(Moves), NEW h \in Nodes, Pool(f, q, h)
    PROVE  Pool(<<h>> \o f, q, NoNode)
<1>1. /\ Range(<<h>> \o f) = {h} \cup Range(f)
      /\ IsInjective(<<h>> \o f)
  BY FrontRange DEF Pool
<1>2. NoNode \notin Nodes /\ Range(f) \subseteq Nodes /\ Range(Queued(q)) \subseteq Nodes
  BY RangeTypes
<1> QED BY <1>1, <1>2 DEF Pool

LEMMA QueuedEmpty == Queued(<<>>) = <<>>
BY SMTT(30) DEF Queued

\* stepper_stop frees the nodes of the moves queued.
LEMMA PoolStop ==
    ASSUME NEW f \in Seq(Nodes), NEW q \in Seq(Moves), NEW h, Pool(f, q, h)
    PROVE  Pool(Freed(q, f), <<>>, h)
<1> DEFINE s == Queued(q)
           t == [i \in 1..Len(q) |-> q[Len(q) - i + 1].node]
<1>1. /\ s \in Seq(Nodes) /\ Len(s) = Len(q) /\ t \in Seq(Nodes) /\ Len(t) = Len(q)
      /\ \A i \in 1 .. Len(q) : t[i] = s[Len(q) - i + 1]
  <2>1. Len(q) \in Nat /\ \A i \in 1 .. Len(q) : Len(q) - i + 1 \in 1 .. Len(q)
    BY SeqLength
  <2>2. t \in Seq(Nodes)
    BY FreedType, Zenon
  <2>3. /\ s \in Seq(Nodes) /\ Len(s) = Len(q)
        /\ \A i \in 1 .. Len(q) : s[i] = q[i].node
    BY QueuedType, Zenon
  <2>4. Len(t) = Len(q)
    BY <2>1
  <2>5. \A i \in 1 .. Len(q) : t[i] = s[Len(q) - i + 1]
    BY <2>1, <2>3, Zenon
  <2> QED BY <2>2, <2>3, <2>4, <2>5, Zenon
<1>2. Freed(q, f) = t \o f
  BY DEF Freed
<1> HIDE DEF s, t
<1>3. Range(t) = Range(s) /\ (IsInjective(s) => IsInjective(t))
  BY <1>1, BackRange
<1>4. /\ Range(t \o f) = Range(t) \cup Range(f)
      /\ IsInjective(t) /\ IsInjective(f) /\ Range(t) \cap Range(f) = {} => IsInjective(t \o f)
  BY <1>1, JoinRange
<1>5. /\ IsInjective(f) /\ IsInjective(s)
      /\ Range(f) \cap Range(s) = {} /\ h \notin Range(f) \cup Range(s)
      /\ Nodes \subseteq Range(f) \cup Range(s) \cup {h}
  BY DEF Pool, s
<1> QED BY <1>2, <1>3, <1>4, <1>5, EmptyRange, QueuedEmpty, Zenon DEF Pool

\* move_reset: every node is free.
LEMMA PoolReset == Pool(AllNodes, <<>>, NoNode)
<1>1. Range(AllNodes) = Nodes /\ IsInjective(AllNodes)
  BY DEF AllNodes, Range, IsInjective
<1> QED BY <1>1, EmptyRange, QueuedEmpty DEF Pool, Nodes, NoNode

LEMMA PoolShutdown ==
    ASSUME TypeOK, RunShutdown
    PROVE  NodesPartitioned'
<1>1. free' = AllNodes /\ mq' = <<>> /\ hand' = NoNode
  BY ShutdownFree DEF RunShutdown, StopSteps
<1> QED BY <1>1, PoolReset, PoolIsNext

LEMMA PoolKept ==
    ASSUME NodesPartitioned, UNCHANGED <<free, mq, hand>>
    PROVE  NodesPartitioned'
BY PoolIs, PoolIsNext

\* Every step keeps every node in one place.
LEMMA PoolStep ==
    ASSUME TypeOK, HandInv, QueueInv, NodesPartitioned, Next
    PROVE  NodesPartitioned'
<1>1. CASE StepEvent
  <2>1. CASE count > 1 \/ mq = <<>>
    <3>1. UNCHANGED <<free, mq, hand>>
      BY <1>1, <2>1 DEF StepEvent, LoadNext
    <3> QED BY <3>1, PoolKept
  <2>2. CASE ~(count > 1) /\ mq # <<>>
    <3>1. free' = <<Head(mq).node>> \o free /\ mq' = Tail(mq) /\ hand' = hand
      BY <1>1, <2>2 DEF StepEvent, LoadNext
    <3>2. free \in Seq(Nodes) /\ mq \in Seq(Moves)
      BY DEF TypeOK
    <3> QED BY <2>2, <3>1, <3>2, PoolLoad, PoolIs, PoolIsNext, Zenon
  <2> QED BY <2>1, <2>2
<1>2. CASE Trigger
  <2>1. free' = Freed(mq, free) /\ mq' = <<>> /\ hand' = hand
    BY <1>2 DEF Trigger, StopSteps
  <2>2. free \in Seq(Nodes) /\ mq \in Seq(Moves)
    BY DEF TypeOK
  <2> QED BY <2>1, <2>2, PoolStop, PoolIs, PoolIsNext
<1>3. CASE CommandEmergencyStop
  BY <1>3, PoolShutdown DEF CommandEmergencyStop
<1>4. CASE CommandClearShutdown
  BY <1>4, PoolKept DEF CommandClearShutdown, motion
<1>5. CASE CommandQueueStepAlloc
  <2>1. CASE free = <<>>
    BY <1>5, <2>1, PoolShutdown DEF CommandQueueStepAlloc
  <2>2. CASE free # <<>>
    <3>1. hand = NoNode /\ hand' = Head(free) /\ free' = Tail(free) /\ mq' = mq
      BY <1>5, <2>2 DEF CommandQueueStepAlloc, Receive
    <3>2. free \in Seq(Nodes) /\ mq \in Seq(Moves)
      BY DEF TypeOK
    <3>3. Pool(free, mq, NoNode)
      BY <3>1, PoolIs, Zenon
    <3>4. Pool(Tail(free), mq, Head(free))
      BY <2>2, <3>2, <3>3, PoolAlloc, Zenon
    <3> QED BY <3>1, <3>4, PoolIsNext, Zenon
  <2> QED BY <2>1, <2>2
<1>6. CASE CommandQueueStep
  <2> DEFINE m == NewMove(Head(pipe))
  <2>1. hand # NoNode /\ hand' = NoNode
    BY <1>6, Zenon DEF CommandQueueStep
  <2>2. m \in Moves /\ m.node = hand /\ hand \in Nodes
    BY <2>1, NewMoveType DEF NewMove, TypeOK
  <2>3. \/ mq' = Append(mq, m) /\ free' = free
        \/ free' = <<hand>> \o free /\ mq' = mq
        \/ free' = <<m.node>> \o free /\ mq' = <<>> /\ count = 0
    BY <1>6 DEF CommandQueueStep, LoadNext
  <2>4. free \in Seq(Nodes) /\ mq \in Seq(Moves) /\ Pool(free, mq, hand)
    BY PoolIs DEF TypeOK
  <2>5. count = 0 => mq = <<>>
    BY DEF QueueInv
  <2> HIDE DEF m
  <2>6. Pool(free, Append(mq, m), NoNode) /\ Pool(<<hand>> \o free, mq, NoNode)
    BY <2>2, <2>4, PoolQueue, PoolFree
  <2> QED BY <2>1, <2>2, <2>3, <2>5, <2>6, PoolIsNext, Zenon
<1>7. CASE CommandSetNextStepDir
  BY <1>7, PoolKept DEF CommandSetNextStepDir
<1>8. CASE CommandResetStepClock
  <2>1. CASE count > 0
    BY <1>8, <2>1, PoolShutdown DEF CommandResetStepClock
  <2>2. CASE ~(count > 0)
    BY <1>8, <2>2, PoolKept, Zenon DEF CommandResetStepClock
  <2> QED BY <2>1, <2>2
<1>9. CASE \E d \in {0, 1}, n \in Counts : AddMove(d, n)
  BY <1>9, PoolKept, Zenon DEF AddMove, motion
<1>10. CASE HomingStart
  BY <1>10, PoolKept, Zenon DEF HomingStart, motion
<1>11. CASE NoteHomingEnd
  BY <1>11, PoolKept DEF NoteHomingEnd, motion
<1>12. CASE HostConnect
  BY <1>12, PoolKept DEF HostConnect, motion
<1>13. CASE QueryMcuPosition
  BY <1>13, PoolKept DEF QueryMcuPosition, motion
<1> QED BY <1>1, <1>2, <1>3, <1>4, <1>5, <1>6, <1>7, <1>8, <1>9, <1>10, <1>11, <1>12, <1>13
        DEF Next

-----------------------------------------------------------------------------
(* The messages on their way *)

LEMMA PipeFacts ==
    ASSUME TypeOK
    PROVE  /\ Len(pipe) \in Nat /\ DOMAIN pipe = 1 .. Len(pipe)
           /\ \A i \in 1 .. Len(pipe) : pipe[i] \in Messages
BY SeqLength DEF TypeOK

\* The first message is taken from the pipe.
LEMMA PipePop ==
    ASSUME TypeOK, pipe # <<>>, pipe' = Tail(pipe)
    PROVE  /\ Len(pipe) \in Nat /\ Len(pipe) # 0 /\ DOMAIN pipe = 1 .. Len(pipe)
           /\ Len(pipe') = Len(pipe) - 1 /\ DOMAIN pipe' = 1 .. Len(pipe) - 1
           /\ Head(pipe) = pipe[1] /\ Head(pipe) \in Messages
           /\ \A i \in 1 .. Len(pipe) - 1 : i + 1 \in 1 .. Len(pipe) /\ pipe'[i] = pipe[i + 1]
<1>1. pipe \in Seq(Messages)
  BY DEF TypeOK
<1>2. /\ Len(pipe) \in Nat /\ Len(pipe) # 0 /\ DOMAIN pipe = 1 .. Len(pipe)
      /\ Len(pipe') = Len(pipe) - 1 /\ pipe' \in Seq(Messages)
      /\ Head(pipe) = pipe[1] /\ Head(pipe) \in Messages
      /\ \A i \in 1 .. Len(pipe) - 1 : pipe'[i] = pipe[i + 1]
  BY <1>1, SeqRest, SeqLength
<1>3. DOMAIN pipe' = 1 .. Len(pipe) - 1
  BY <1>2, SeqLength, Zenon
<1> QED BY <1>2, <1>3

\* What a move will find is not changed by the messages handled before it: a direction
\* becomes next_dir, a reset_step_clock ends the discarding of moves.
LEMMA FindsPop ==
    ASSUME TypeOK, pipe # <<>>, pipe' = Tail(pipe),
           need_reset' = need_reset \/ Is(1, "reset_step_clock"),
           \/ Is(1, "set_next_step_dir") /\ next_dir' = pipe[1].dir
           \/ ~Is(1, "set_next_step_dir") /\ next_dir' = next_dir,
           NEW i \in 1 .. Len(pipe), NEW d, Finds(i + 1, d)
    PROVE  Finds(i, d)'
<1>1. /\ Len(pipe) \in Nat /\ \A j \in 1 .. i - 1 : j + 1 \in 1 .. i /\ pipe'[j] = pipe[j + 1]
      /\ i + 1 - 1 = i /\ 1 \in 1 .. i
  BY PipePop
<1>2. CASE need_reset /\ \A j \in 1 .. i : ~Is(j, "reset_step_clock")
  <2>1. need_reset'
    BY <1>1, <1>2, Zenon
  <2>2. \A j \in 1 .. i - 1 : ~Is(j, "reset_step_clock")'
    BY <1>1, <1>2 DEF Is
  <2> QED BY <2>1, <2>2, Zenon DEF Finds
<1>3. CASE next_dir = d /\ \A j \in 1 .. i : ~Is(j, "set_next_step_dir")
  <2>1. next_dir' = d
    BY <1>1, <1>3
  <2>2. \A j \in 1 .. i - 1 : ~Is(j, "set_next_step_dir")'
    BY <1>1, <1>3 DEF Is
  <2> QED BY <2>1, <2>2, Zenon DEF Finds
<1>4. ASSUME NEW j \in 1 .. i, Is(j, "set_next_step_dir"), pipe[j].dir = d,
             \A k \in j + 1 .. i : ~Is(k, "set_next_step_dir")
      PROVE  Finds(i, d)'
  <2>1. CASE j = 1
    <3>1. next_dir' = d
      BY <1>4, <2>1
    <3>2. \A k \in 1 .. i - 1 : ~Is(k, "set_next_step_dir")'
      BY <1>1, <1>4, <2>1, SMTT(30) DEF Is
    <3> QED BY <3>1, <3>2, Zenon DEF Finds
  <2>2. CASE j # 1
    <3>1. j - 1 \in 1 .. i - 1 /\ pipe'[j - 1] = pipe[j] /\ j - 1 + 1 = j
      BY <1>1, <2>2, SMTT(30)
    <3>2. \A k \in j .. i - 1 : k + 1 \in j + 1 .. i /\ pipe'[k] = pipe[k + 1]
      BY <1>1, SMTT(30)
    <3>3. /\ Is(j - 1, "set_next_step_dir")' /\ pipe'[j - 1].dir = d
          /\ \A k \in j - 1 + 1 .. i - 1 : ~Is(k, "set_next_step_dir")'
      BY <1>4, <3>1, <3>2, Zenon DEF Is
    <3> QED BY <3>1, <3>3, Zenon DEF Finds
  <2> QED BY <2>1, <2>2
<1> QED BY <1>1, <1>2, <1>3, <1>4 DEF Finds

\* Nor by the messages sent after it.
LEMMA FindsSame ==
    ASSUME UNCHANGED <<need_reset, next_dir>>, NEW i \in Nat,
           \A j \in 1 .. i - 1 : pipe'[j] = pipe[j], NEW d, Finds(i, d)
    PROVE  Finds(i, d)'
<1>1. \A j \in 1 .. i - 1 : /\ Is(j, "reset_step_clock")' <=> Is(j, "reset_step_clock")
                            /\ Is(j, "set_next_step_dir")' <=> Is(j, "set_next_step_dir")
  BY DEF Is
<1>2. \A j \in 1 .. i - 1 : \A k \in j + 1 .. i - 1 : k \in 1 .. i - 1
  OBVIOUS
<1> QED BY <1>1, <1>2 DEF Finds

\* A move leaves what the next one finds.
LEMMA FindsMore ==
    ASSUME NEW i \in Nat, i >= 1, NEW d, Finds(i, d)', Is(i, "queue_step")'
    PROVE  Finds(i + 1, d)'
<1>1. ~Is(i, "reset_step_clock")' /\ ~Is(i, "set_next_step_dir")'
  BY DEF Is
<1>2. \A j \in 1 .. i : j \in 1 .. i - 1 \/ j = i
  BY SMTT(30)
<1>3. CASE need_reset' /\ \A j \in 1 .. i - 1 : ~Is(j, "reset_step_clock")'
  <2>1. \A j \in 1 .. i + 1 - 1 : ~Is(j, "reset_step_clock")'
    BY <1>1, <1>2, <1>3, SMTT(30)
  <2> QED BY <1>3, <2>1 DEF Finds
<1>4. CASE next_dir' = d /\ \A j \in 1 .. i - 1 : ~Is(j, "set_next_step_dir")'
  <2>1. \A j \in 1 .. i + 1 - 1 : ~Is(j, "set_next_step_dir")'
    BY <1>1, <1>2, <1>4, SMTT(30)
  <2> QED BY <1>4, <2>1 DEF Finds
<1>5. ASSUME NEW j \in 1 .. i - 1, Is(j, "set_next_step_dir")', pipe'[j].dir = d,
             \A k \in j + 1 .. i - 1 : ~Is(k, "set_next_step_dir")'
      PROVE  Finds(i + 1, d)'
  <2>1. j \in 1 .. i + 1 - 1
    OBVIOUS
  <2>2. \A k \in j + 1 .. i + 1 - 1 : k \in j + 1 .. i - 1 \/ k = i
    OBVIOUS
  <2>3. \A k \in j + 1 .. i + 1 - 1 : ~Is(k, "set_next_step_dir")'
    BY <1>1, <1>5, <2>2
  <2> QED BY <1>5, <2>1, <2>3 DEF Finds
<1> QED BY <1>3, <1>4, <1>5, Zenon DEF Finds

\* A command of the host is handled.
LEMMA PopInv ==
    ASSUME TypeOK, HomingInv, PipeInv, pipe # <<>>, pipe' = Tail(pipe), hand' = NoNode,
           need_reset' = need_reset \/ Is(1, "reset_step_clock"),
           \/ Is(1, "set_next_step_dir") /\ next_dir' = pipe[1].dir
           \/ ~Is(1, "set_next_step_dir") /\ next_dir' = next_dir,
           UNCHANGED <<signal, homing, connected, sdir>>
    PROVE  HomingInv' /\ HandInv' /\ PipeInv'
<1>1. /\ Len(pipe) \in Nat /\ Len(pipe) # 0 /\ DOMAIN pipe = 1 .. Len(pipe)
      /\ Len(pipe') = Len(pipe) - 1 /\ DOMAIN pipe' = 1 .. Len(pipe) - 1
      /\ \A i \in 1 .. Len(pipe) - 1 : i + 1 \in 1 .. Len(pipe) /\ pipe'[i] = pipe[i + 1]
      /\ 1 \in DOMAIN pipe
  BY PipePop, SMTT(30)
<1>2. \A i \in DOMAIN pipe' : \A c : Is(i, c)' <=> Is(i + 1, c)
  BY <1>1 DEF Is
<1>3. \A i \in DOMAIN pipe' : i + 1 \in DOMAIN pipe /\ i + 1 # 1
  BY <1>1, SMTT(30)
<1>4. HomingInv'
  <2>1. signal' => homing'
    BY DEF HomingInv
  <2>2. homing' => /\ connected' = "yes" /\ (signal' \/ need_reset')
                   /\ \A i \in DOMAIN pipe' : ~Is(i, "reset_step_clock")'
    BY <1>1, <1>2, <1>3 DEF HomingInv
  <2>3. ASSUME connected' = "yes", NEW i \in DOMAIN pipe', Is(i, "reset_step_clock")'
        PROVE  /\ need_reset'
               /\ \A j \in DOMAIN pipe' : Is(j, "reset_step_clock")' => i = j
    <3>1. /\ connected = "yes" /\ i + 1 \in DOMAIN pipe /\ i + 1 # 1 /\ Is(i + 1, "reset_step_clock")
      BY <1>2, <1>3, <2>3
    <3>2. /\ need_reset
          /\ \A j \in DOMAIN pipe : Is(j, "reset_step_clock") => i + 1 = j
      BY <3>1 DEF HomingInv
    <3>3. need_reset'
      BY <1>1, <3>1, <3>2, Zenon
    <3>4. ASSUME NEW j \in DOMAIN pipe', Is(j, "reset_step_clock")' PROVE i = j
      <4>1. i + 1 = j + 1
        BY <1>2, <1>3, <3>2, <3>4
      <4> QED BY <1>1, <4>1
    <3> QED BY <3>3, <3>4
  <2> QED BY <2>1, <2>2, <2>3 DEF HomingInv
<1>5. HandInv'
  BY DEF HandInv
<1>6. PipeInv'
  <2>1. ASSUME NEW i \in DOMAIN pipe', Is(i, "queue_step")' PROVE Finds(i, pipe[i].dir)'
    <3>1. /\ i \in 1 .. Len(pipe) /\ i + 1 \in DOMAIN pipe /\ Is(i + 1, "queue_step")
          /\ pipe'[i].dir = pipe[i + 1].dir
      <4>1. i \in 1 .. Len(pipe) - 1 /\ Len(pipe) \in Nat
        BY <1>1, <2>1, Zenon
      <4>2. i \in 1 .. Len(pipe)
        BY <4>1, SMTT(30)
      <4>3. i + 1 \in DOMAIN pipe /\ Is(i + 1, "queue_step") /\ pipe'[i] = pipe[i + 1]
        BY <1>1, <1>2, <1>3, <2>1, <4>1, Zenon
      <4> QED BY <4>2, <4>3, Zenon
    <3>2. Finds(i + 1, pipe[i + 1].dir)
      BY <3>1 DEF PipeInv
    <3> DEFINE d == pipe[i + 1].dir
    <3>3. Finds(i + 1, d)
      BY <3>2, Zenon
    <3> HIDE DEF d
    <3>4. \A e : e = d => Finds(i, e)'
      BY <3>1, <3>3, FindsPop
    <3>5. pipe'[i].dir = d
      BY <3>1 DEF d
    <3> QED BY <3>4, <3>5
  <2>2. ASSUME sdir' # -1 PROVE Finds(Len(pipe) + 1, sdir)'
    <3>1. /\ Finds(Len(pipe) + 1, sdir) /\ Len(pipe) \in 1 .. Len(pipe)
      BY <1>1, <2>2, SMTT(30) DEF PipeInv
    <3> DEFINE n == Len(pipe)
               e == sdir
    <3>2. Finds(n + 1, e) /\ n \in 1 .. Len(pipe) /\ Len(pipe') + 1 = n /\ sdir' = e
      BY <1>1, <3>1, SMTT(30)
    <3> HIDE DEF n, e
    <3>3. \A k, f : k = n /\ f = e => Finds(k, f)'
      BY <3>2, FindsPop
    <3> QED BY <3>2, <3>3, Zenon
  <2> QED BY <2>1, <2>2 DEF PipeInv
<1> QED BY <1>4, <1>5, <1>6

\* The host sends a move, after its direction when that changes.
LEMMA AddMoveInv ==
    ASSUME TypeOK, HomingInv, HandInv, PipeInv, NEW d \in {0, 1}, NEW n \in Counts, AddMove(d, n)
    PROVE  HomingInv' /\ HandInv' /\ PipeInv'
<1>1. PICK l \in Nat : l = Len(pipe)
  BY PipeFacts, Zenon
<1>2. /\ UNCHANGED <<need_reset, next_dir, signal, hand, connected, homing>> /\ sdir' = d
  BY Zenon DEF AddMove, motion
<1>3. l \in Nat /\ DOMAIN pipe = 1 .. l /\ pipe \in Seq(Messages)
  BY <1>1, PipeFacts, Zenon DEF TypeOK
<1>4. PICK k \in {0, 1} :
        /\ k = 0 => sdir = d
        /\ k = 1 => pipe'[l + 1] = SetDir(d)
        /\ Len(pipe') = l + k + 1 /\ DOMAIN pipe' = 1 .. l + k + 1
        /\ pipe'[l + k + 1] = QueueStep(d, n)
        /\ \A i \in 1 .. l : pipe'[i] = pipe[i]
  BY <1>1, AddedPipe, ZenonT(40)
<1>5. /\ \A i \in DOMAIN pipe' : i \in DOMAIN pipe \/ i = l + k + 1 \/ (k = 1 /\ i = l + 1)
      /\ \A i \in DOMAIN pipe : pipe'[i] = pipe[i] /\ i \in DOMAIN pipe'
  BY <1>3, <1>4, SMTT(30)
<1>6. Is(l + k + 1, "queue_step")' /\ pipe'[l + k + 1].dir = d
  BY <1>4, SMTT(30) DEF Is, QueueStep
<1>7. k = 1 => Is(l + 1, "set_next_step_dir")' /\ pipe'[l + 1].dir = d
  BY <1>4, SMTT(30) DEF Is, SetDir
<1>8. \A i \in DOMAIN pipe : \A c : Is(i, c)' <=> Is(i, c)
  BY <1>5, Zenon DEF Is
<1>9. \A i \in DOMAIN pipe' : Is(i, "reset_step_clock")' => i \in DOMAIN pipe /\ Is(i, "reset_step_clock")
  <2>1. ~Is(l + k + 1, "reset_step_clock")' /\ (k = 1 => ~Is(l + 1, "reset_step_clock")')
    BY <1>6, <1>7, Zenon DEF Is
  <2> QED BY <1>5, <1>8, <2>1, Zenon
<1>10. HomingInv'
  BY <1>2, <1>9, Zenon DEF HomingInv
<1>11. HandInv'
  <2>1. ASSUME hand # NoNode PROVE pipe' # <<>> /\ Is(1, "queue_step")'
    <3>1. pipe # <<>> /\ Is(1, "queue_step")
      BY <2>1, Zenon DEF HandInv
    <3>2. 1 \in DOMAIN pipe
      BY <1>3, <3>1, SeqLength, SMTT(30)
    <3>3. Is(1, "queue_step")' /\ 1 \in DOMAIN pipe'
      BY <1>5, <1>8, <3>1, <3>2, Zenon
    <3> QED BY <3>3
  <2> QED BY <1>2, <2>1, Zenon DEF HandInv
<1>12. Finds(l + k + 1, d)'
  <2>1. CASE k = 0
    <3>1. sdir = d /\ Finds(l + 1, d) /\ l + 1 \in Nat /\ l + 1 - 1 = l
      <4>1. sdir = d
        BY <1>4, <2>1, Zenon
      <4>2. sdir # -1
        BY <4>1, SMTT(30)
      <4>3. Finds(l + 1, d)
        BY <1>1, <4>1, <4>2, Zenon DEF PipeInv
      <4> QED BY <1>1, <4>1, <4>3, SMTT(30)
    <3>2. \A j \in 1 .. l + 1 - 1 : pipe'[j] = pipe[j]
      BY <1>4, <3>1, Zenon
    <3>3. \A e : e = d => Finds(l + 1, e)'
      BY <1>2, <3>1, <3>2, FindsSame, SMTT(30)
    <3>4. l + k + 1 = l + 1
      BY <1>1, <2>1, SMTT(30)
    <3> QED BY <3>3, <3>4, Zenon
  <2>2. CASE k = 1
    <3>1. l + 1 \in 1 .. l + k + 1 - 1 /\ \A j \in l + 1 + 1 .. l + k + 1 - 1 : FALSE
      BY <1>3, <2>2, SMTT(30)
    <3> QED BY <1>7, <2>2, <3>1 DEF Finds
  <2> QED BY <2>1, <2>2
<1>13. PipeInv'
  <2>1. ASSUME NEW i \in DOMAIN pipe', Is(i, "queue_step")' PROVE Finds(i, pipe[i].dir)'
    <3>1. CASE i \in DOMAIN pipe
      <4>1. Is(i, "queue_step") /\ pipe'[i].dir = pipe[i].dir
        BY <1>5, <1>8, <2>1, <3>1, Zenon
      <4>2. Finds(i, pipe[i].dir) /\ i \in Nat /\ \A j \in 1 .. i - 1 : pipe'[j] = pipe[j]
        <5>1. Finds(i, pipe[i].dir)
          BY <3>1, <4>1, Zenon DEF PipeInv
        <5>2. i \in Nat /\ \A j \in 1 .. i - 1 : j \in 1 .. l
          BY <1>3, <3>1, SMTT(30)
        <5> QED BY <1>4, <5>1, <5>2, Zenon
      <4> DEFINE f == pipe[i].dir
      <4>3. Finds(i, f)
        BY <4>2, Zenon
      <4> HIDE DEF f
      <4>4. \A e : e = f => Finds(i, e)'
        BY <1>2, <4>2, <4>3, FindsSame, Zenon
      <4> QED BY <4>1, <4>4, Zenon DEF f
    <3>2. CASE i = l + k + 1
      BY <1>6, <1>12, <3>2, Zenon
    <3>3. CASE k = 1 /\ i = l + 1
      BY <1>7, <2>1, <3>3, Zenon DEF Is
    <3> QED BY <1>5, <3>1, <3>2, <3>3, Zenon
  <2>2. Finds(Len(pipe) + 1, sdir)'
    <3>1. l + k + 1 \in Nat /\ l + k + 1 >= 1
      BY <1>3, SMTT(30)
    <3>2. Finds(l + k + 1 + 1, d)'
      BY <1>6, <1>12, <3>1, FindsMore, Zenon
    <3> QED BY <1>2, <1>4, <3>2, Zenon
  <2> QED BY <2>1, <2>2, Zenon DEF PipeInv
<1> QED BY <1>10, <1>11, <1>13, Zenon

\* A step that leaves the pipe and what it is about alone.
LEMMA MessagesKept ==
    ASSUME HomingInv, PipeInv,
           UNCHANGED <<need_reset, next_dir, signal, homing, connected, pipe, sdir>>
    PROVE  HomingInv' /\ PipeInv'
<1>1. HomingInv'
  BY Zenon DEF HomingInv, Is
<1>2. PipeInv'
  BY SMTT(30) DEF PipeInv, Finds, Is
<1> QED BY <1>1, <1>2, Zenon

LEMMA PipeKept ==
    ASSUME HomingInv, HandInv, PipeInv,
           UNCHANGED <<need_reset, next_dir, signal, homing, connected, pipe, sdir, hand>>
    PROVE  HomingInv' /\ HandInv' /\ PipeInv'
BY MessagesKept, Zenon DEF HandInv, Is

\* run_shutdown: nothing is on its way, and whatever the host sends is discarded.
LEMMA PipeShutdown ==
    ASSUME TypeOK, RunShutdown
    PROVE  HomingInv' /\ HandInv' /\ PipeInv'
<1>1. /\ pipe' = <<>> /\ hand' = NoNode /\ signal' = FALSE /\ homing' = FALSE
      /\ connected' = "no" /\ need_reset' = TRUE
  BY DEF RunShutdown, StopSteps
<1>2. HomingInv' /\ HandInv'
  BY <1>1 DEF HomingInv, HandInv
<1>3. Len(pipe') + 1 - 1 = 0 /\ DOMAIN pipe' = {} /\ \A j \in 1 .. 0 : FALSE
  BY <1>1
<1>4. Finds(Len(pipe) + 1, sdir)'
  BY <1>1, <1>3, SMTT(30) DEF Finds
<1> QED BY <1>2, <1>3, <1>4, Zenon DEF PipeInv

\* A trigger: no reset_step_clock is on its way, so every move that is will be discarded.
LEMMA PipeTrigger ==
    ASSUME TypeOK, HomingInv, HandInv, PipeInv, Trigger
    PROVE  HomingInv' /\ HandInv' /\ PipeInv'
<1>1. /\ signal /\ signal' = FALSE /\ need_reset' = TRUE
      /\ UNCHANGED <<hand, pipe, sdir, connected, homing>>
  BY DEF Trigger, StopSteps, host
<1>2. homing /\ connected = "yes" /\ \A i \in DOMAIN pipe : ~Is(i, "reset_step_clock")
  BY <1>1, Zenon DEF HomingInv
<1>3. HomingInv' /\ HandInv'
  BY <1>1, <1>2 DEF HomingInv, HandInv, Is
<1>4. Len(pipe) \in Nat /\ DOMAIN pipe = 1 .. Len(pipe)
  BY PipeFacts, Zenon
<1>5. ASSUME NEW i \in 1 .. Len(pipe) + 1, NEW d PROVE Finds(i, d)'
  <2>1. \A j \in 1 .. i - 1 : ~Is(j, "reset_step_clock")'
    BY <1>1, <1>2, <1>4, SMTT(30) DEF Is
  <2> QED BY <1>1, <2>1, Zenon DEF Finds
<1>6. \A i \in DOMAIN pipe' : Finds(i, pipe[i].dir)'
  BY <1>1, <1>4, <1>5
<1>7. Finds(Len(pipe) + 1, sdir)'
  <2>1. Len(pipe) + 1 \in 1 .. Len(pipe) + 1
    BY <1>4, SMTT(30)
  <2> QED BY <1>1, <1>5, <2>1
<1> QED BY <1>3, <1>6, <1>7, Zenon DEF PipeInv

\* note_homing_end: a reset_step_clock for a stepper that has stopped.
LEMMA PipeHomingEnd ==
    ASSUME TypeOK, HomingInv, HandInv, PipeInv, NoteHomingEnd
    PROVE  HomingInv' /\ HandInv' /\ PipeInv'
<1>1. /\ homing /\ ~signal /\ homing' = FALSE /\ sdir' = -1 /\ pipe' = Append(pipe, Reset)
      /\ UNCHANGED <<need_reset, next_dir, signal, hand, connected>>
  BY Zenon DEF NoteHomingEnd, StepcompressReset, motion
<1>2. /\ Len(pipe) \in Nat /\ DOMAIN pipe = 1 .. Len(pipe) /\ pipe \in Seq(Messages)
      /\ Reset \in Messages
  BY PipeFacts, MessageType, Zenon DEF TypeOK
<1>3. PICK l \in Nat :
        /\ DOMAIN pipe = 1 .. l /\ DOMAIN pipe' = 1 .. l + 1
        /\ pipe'[l + 1] = Reset /\ \A i \in 1 .. l : pipe'[i] = pipe[i]
  <2>1. /\ pipe' \in Seq(Messages) /\ Len(pipe') = Len(pipe) + 1
        /\ pipe'[Len(pipe) + 1] = Reset /\ \A i \in 1 .. Len(pipe) : pipe'[i] = pipe[i]
    BY <1>1, <1>2, SeqAdd, SMTT(30)
  <2>2. DOMAIN pipe' = 1 .. Len(pipe) + 1
    BY <2>1, SeqLength, Zenon
  <2> QED BY <1>2, <2>1, <2>2, Zenon
<1>4. /\ \A i \in DOMAIN pipe' : i \in DOMAIN pipe \/ i = l + 1
      /\ \A i \in DOMAIN pipe : \A c : Is(i, c)' <=> Is(i, c)
      /\ ~Is(l + 1, "queue_step")'
  BY <1>3, SMTT(30) DEF Is, Reset
<1>5. need_reset /\ connected = "yes" /\ \A i \in DOMAIN pipe : ~Is(i, "reset_step_clock")
  BY <1>1, Zenon DEF HomingInv
<1>6. HomingInv'
  <2>1. \A i \in DOMAIN pipe' : Is(i, "reset_step_clock")' => i = l + 1
    BY <1>4, <1>5, Zenon
  <2> QED BY <1>1, <1>5, <2>1, Zenon DEF HomingInv
<1>7. HandInv'
  BY <1>1, <1>2, <1>3 DEF HandInv, Is
<1>8. ASSUME NEW i \in DOMAIN pipe', Is(i, "queue_step")' PROVE Finds(i, pipe[i].dir)'
  <2>1. i \in DOMAIN pipe /\ Is(i, "queue_step")
    BY <1>4, <1>8, Zenon
  <2>2. /\ Finds(i, pipe[i].dir) /\ i \in Nat /\ pipe'[i] = pipe[i]
        /\ \A j \in 1 .. i - 1 : pipe'[j] = pipe[j]
    BY <1>3, <2>1, SMTT(30) DEF PipeInv
  <2> DEFINE d == pipe[i].dir
  <2>3. Finds(i, d) /\ pipe'[i].dir = d
    BY <2>2, Zenon
  <2> HIDE DEF d
  <2>4. \A e : e = d => Finds(i, e)'
    BY <1>1, <2>2, <2>3, FindsSame, Zenon
  <2> QED BY <2>3, <2>4
<1> QED BY <1>1, <1>6, <1>7, <1>8, Zenon DEF PipeInv

\* A new host process sends its reset_step_clock.
LEMMA PipeConnect ==
    ASSUME TypeOK, HostConnect
    PROVE  HomingInv' /\ HandInv' /\ PipeInv'
<1>1. /\ pipe' = <<Reset>> /\ sdir' = -1 /\ connected' = "config" /\ homing' = FALSE
      /\ ~signal' /\ hand' = NoNode
  BY DEF HostConnect, StepcompressReset
<1>2. \A i \in DOMAIN pipe' : ~Is(i, "queue_step")'
  BY <1>1, SMTT(30) DEF Is, Reset
<1> QED BY <1>1, <1>2, Zenon DEF HomingInv, HandInv, PipeInv

\* Every step keeps what is known of the messages on their way.
LEMMA PipeStep ==
    ASSUME TypeOK, HomingInv, HandInv, PipeInv, Next
    PROVE  HomingInv' /\ HandInv' /\ PipeInv'
<1>1. CASE StepEvent
  BY <1>1, PipeKept DEF StepEvent, host
<1>2. CASE Trigger
  BY <1>2, PipeTrigger
<1>3. CASE CommandEmergencyStop
  BY <1>3, PipeShutdown, Zenon DEF CommandEmergencyStop
<1>4. CASE CommandClearShutdown
  BY <1>4, PipeKept DEF CommandClearShutdown, motion, host
<1>5. CASE CommandQueueStepAlloc
  <2>1. CASE free = <<>>
    BY <1>5, <2>1, PipeShutdown, Zenon DEF CommandQueueStepAlloc
  <2>2. CASE free # <<>>
    <3>1. /\ pipe # <<>> /\ Head(pipe).c = "queue_step"
          /\ UNCHANGED <<need_reset, next_dir, signal, homing, connected, pipe, sdir>>
      BY <1>5, <2>2, Zenon DEF CommandQueueStepAlloc, Receive, host
    <3>2. HomingInv' /\ PipeInv'
      BY <3>1, MessagesKept, Zenon
    <3>3. pipe[1].c = "queue_step"
      BY <3>1, SeqRest, Zenon DEF TypeOK
    <3> QED BY <3>1, <3>2, <3>3, Zenon DEF HandInv, Is
  <2> QED BY <2>1, <2>2, Zenon
<1>6. CASE CommandQueueStep
  <2>1. /\ hand # NoNode /\ hand' = NoNode /\ pipe' = Tail(pipe)
        /\ UNCHANGED <<need_reset, next_dir, signal, homing, connected, sdir>>
    BY <1>6, Zenon DEF CommandQueueStep, host
  <2>2. pipe # <<>> /\ ~Is(1, "set_next_step_dir")
    BY <2>1, Zenon DEF HandInv, Is
  <2> QED BY <2>1, <2>2, PopInv, Zenon
<1>7. CASE CommandSetNextStepDir
  <2>1. /\ pipe # <<>> /\ Head(pipe).c = "set_next_step_dir" /\ next_dir' = Head(pipe).dir
        /\ hand' = NoNode /\ pipe' = Tail(pipe)
        /\ UNCHANGED <<need_reset, signal, homing, connected, sdir>>
    BY <1>7, Zenon DEF CommandSetNextStepDir, Receive, host
  <2>2. Is(1, "set_next_step_dir") /\ next_dir' = pipe[1].dir
    BY <2>1, SeqRest DEF Is, TypeOK
  <2> QED BY <2>1, <2>2, PopInv, Zenon
<1>8. CASE CommandResetStepClock
  <2>1. CASE count > 0
    BY <1>8, <2>1, PipeShutdown, Zenon DEF CommandResetStepClock
  <2>2. CASE ~(count > 0)
    <3>1. /\ pipe # <<>> /\ Head(pipe).c = "reset_step_clock"
          /\ hand' = NoNode /\ pipe' = Tail(pipe)
          /\ UNCHANGED <<next_dir, signal, homing, connected, sdir>>
      BY <1>8, <2>2, Zenon DEF CommandResetStepClock, Receive, host
    <3>2. Is(1, "reset_step_clock") /\ ~Is(1, "set_next_step_dir")
      BY <3>1, SeqRest, Zenon DEF Is, TypeOK
    <3> QED BY <3>1, <3>2, PopInv, Zenon
  <2> QED BY <2>1, <2>2
<1>9. CASE \E d \in {0, 1}, n \in Counts : AddMove(d, n)
  BY <1>9, AddMoveInv, Zenon
<1>10. CASE HomingStart
  <2>1. /\ connected = "yes" /\ pipe = <<>> /\ homing' = TRUE /\ signal' = TRUE
        /\ UNCHANGED <<need_reset, next_dir, connected, pipe, sdir, hand>>
    BY <1>10, Zenon DEF HomingStart, motion
  <2>2. PipeInv'
    BY <2>1 DEF PipeInv, Finds, Is
  <2> QED BY <2>1, <2>2, SMTT(30) DEF HomingInv, HandInv, Is
<1>11. CASE NoteHomingEnd
  BY <1>11, PipeHomingEnd
<1>12. CASE HostConnect
  BY <1>12, PipeConnect, Zenon
<1>13. CASE QueryMcuPosition
  <2>1. /\ connected = "config" /\ pipe = <<>>
        /\ UNCHANGED <<need_reset, next_dir, signal, homing, pipe, sdir, hand>>
    BY <1>13, Zenon DEF QueryMcuPosition, motion
  <2>2. PipeInv'
    BY <2>1 DEF PipeInv, Finds, Is
  <2> QED BY <2>1, <2>2, SMTT(30) DEF HomingInv, HandInv, Is
<1> QED BY <1>1, <1>2, <1>3, <1>4, <1>5, <1>6, <1>7, <1>8, <1>9, <1>10, <1>11, <1>12, <1>13, Zenon
        DEF Next

-----------------------------------------------------------------------------
(* The queue of moves and the direction *)

\* stepper_stop
LEMMA StopQueue ==
    ASSUME TypeOK, StopSteps
    PROVE  QueueInv' /\ StoppedUntilReset' /\ DirectionFollowed'
<1>1. count' = 0 /\ mq' = <<>> /\ last_dir' = 0 /\ dir_pin' = 0
  BY DEF StopSteps
<1>2. Len(mq') = 0
  BY <1>1, Zenon
<1> QED BY <1>1, <1>2 DEF QueueInv, DirBefore, StoppedUntilReset, DirectionFollowed

LEMMA MotionKept ==
    ASSUME QueueInv, StoppedUntilReset, DirectionFollowed,
           UNCHANGED <<count, mq, last_dir, dir_pin, going>>, need_reset' => need_reset
    PROVE  QueueInv' /\ StoppedUntilReset' /\ DirectionFollowed'
BY DEF QueueInv, DirBefore, StoppedUntilReset, DirectionFollowed

\* stepper_load_next at the end of a move: its successor goes where the host meant.
LEMMA LoadQueue ==
    ASSUME TypeOK, QueueInv, LoadNext(mq), UNCHANGED <<last_dir, need_reset>>, ~need_reset
    PROVE  QueueInv' /\ StoppedUntilReset' /\ DirectionFollowed'
<1>1. CASE mq = <<>>
  <2>1. count' = 0 /\ UNCHANGED <<mq, dir_pin>>
    BY <1>1, Zenon DEF LoadNext
  <2> QED BY <1>1, <2>1, SMTT(30) DEF QueueInv, DirBefore, StoppedUntilReset, DirectionFollowed
<1>2. CASE mq # <<>>
  <2> DEFINE m == Head(mq)
  <2>1. /\ Len(mq) \in Nat /\ Len(mq) # 0 /\ m = mq[1] /\ m \in Moves /\ Len(Tail(mq)) = Len(mq) - 1
        /\ \A i \in 1 .. Len(mq) - 1 : Tail(mq)[i] = mq[i + 1]
    BY <1>2, SeqRest, SeqLength, SMTT(30) DEF TypeOK
  <2>2. /\ count' = m.count * Events /\ mq' = Tail(mq) /\ going' = m.dir
        /\ dir_pin' = IF m.flip THEN 1 - dir_pin ELSE dir_pin
    BY <1>2, Zenon DEF LoadNext
  <2>3. m.dir \in {0, 1} /\ m.flip \in BOOLEAN /\ m.count * Events \in Nat \ {0} /\ dir_pin \in {0, 1}
    BY <2>1, MoveType, Zenon DEF TypeOK
  <2>4. m.flip = (m.dir # dir_pin)
    BY <2>1 DEF QueueInv, DirBefore
  <2>5. dir_pin' = m.dir
    BY <2>2, <2>3, <2>4
  <2>6. count' # 0 /\ DirectionFollowed'
    BY <2>2, <2>3, <2>5 DEF DirectionFollowed
  <2> HIDE DEF m
  <2>7. \A i \in 1 .. Len(mq) : DirBefore(i)' = DirBefore(i + 1)
    <3>1. \A i \in 1 .. Len(mq) : i # 1 => /\ i - 1 \in 1 .. Len(mq) - 1 /\ i - 1 + 1 = i
                                          /\ i + 1 # 1 /\ i + 1 - 1 = i
                                          /\ mq'[i - 1] = mq[i]
      BY <2>1, <2>2, SMTT(30)
    <3>2. \A i \in 1 .. Len(mq) : i # 1 => DirBefore(i)' = DirBefore(i + 1)
      BY <3>1, SMTT(30) DEF DirBefore
    <3>3. DirBefore(1)' = DirBefore(1 + 1)
      BY <2>1, <2>5 DEF DirBefore
    <3> QED BY <3>2, <3>3, Zenon
  <2>8. last_dir' = DirBefore(Len(mq) + 1)'
    <3>1. last_dir = DirBefore(Len(mq) + 1) /\ Len(mq) \in 1 .. Len(mq) /\ Len(mq') + 1 = Len(mq)
      BY <2>1, <2>2, SMTT(30) DEF QueueInv
    <3>2. PICK l \in Nat : l = Len(mq)
      BY <2>1, Zenon
    <3>3. DirBefore(l)' = DirBefore(l + 1)
      BY <2>7, <3>1, <3>2, Zenon
    <3> QED BY <3>1, <3>2, <3>3, Zenon
  <2>9. ASSUME NEW i \in 1 .. Len(mq') PROVE mq'[i].flip = (mq'[i].dir # DirBefore(i)')
    <3>1. i + 1 \in 1 .. Len(mq) /\ i \in 1 .. Len(mq) /\ mq'[i] = mq[i + 1]
      BY <2>1, <2>2, SMTT(30)
    <3>2. mq[i + 1].flip = (mq[i + 1].dir # DirBefore(i + 1))
      BY <3>1, Zenon DEF QueueInv
    <3> QED BY <2>7, <3>1, <3>2, Zenon
  <2> QED BY <2>6, <2>8, <2>9, Zenon DEF QueueInv, StoppedUntilReset
<1> QED BY <1>1, <1>2, Zenon

\* command_queue_step: the move goes where the host meant, or is discarded.
LEMMA QueueStepQueue ==
    ASSUME TypeOK, HandInv, PipeInv, QueueInv, StoppedUntilReset, DirectionFollowed,
           CommandQueueStep
    PROVE  QueueInv' /\ StoppedUntilReset' /\ DirectionFollowed'
<1> DEFINE m == NewMove(Head(pipe))
<1>1. hand # NoNode /\ UNCHANGED <<next_dir, need_reset>>
  BY Zenon DEF CommandQueueStep
<1>2. /\ pipe # <<>> /\ Head(pipe) = pipe[1] /\ m \in Moves
      /\ m.flip = (last_dir # next_dir) /\ m.dir = pipe[1].dir
  BY <1>1, NewMoveType, Zenon DEF NewMove
<1>3. need_reset \/ next_dir = m.dir
  <2>1. 1 \in DOMAIN pipe /\ Is(1, "queue_step")
    BY <1>1, <1>2, PipeFacts, SMTT(30) DEF HandInv
  <2>2. Finds(1, pipe[1].dir)
    BY <2>1, Zenon DEF PipeInv
  <2> QED BY <1>2, <2>2, SMTT(30) DEF Finds
<1>4. \/ /\ count > 0 /\ mq' = Append(mq, m) /\ last_dir' = next_dir
         /\ UNCHANGED <<count, dir_pin, going>>
      \/ /\ count = 0 /\ need_reset /\ UNCHANGED <<count, mq, last_dir, dir_pin, going>>
      \/ /\ count = 0 /\ ~need_reset /\ last_dir' = next_dir /\ LoadNext(<<m>>)
  BY DEF CommandQueueStep
<1> HIDE DEF m
<1>5. CASE /\ count > 0 /\ mq' = Append(mq, m) /\ last_dir' = next_dir
           /\ UNCHANGED <<count, dir_pin, going>>
  <2>1. PICK l \in Nat : /\ l = Len(mq) /\ Len(mq') = l + 1 /\ mq'[l + 1] = m
                         /\ \A i \in 1 .. l : mq'[i] = mq[i]
    BY <1>2, <1>5, SeqAdd, SeqLength, SMTT(30) DEF TypeOK
  <2>2. ~need_reset /\ next_dir = m.dir
    BY <1>3, <1>5, SMTT(30) DEF StoppedUntilReset
  <2>3. \A i \in 1 .. l + 1 : DirBefore(i)' = DirBefore(i)
    <3>1. \A i \in 1 .. l + 1 : i # 1 => i - 1 \in 1 .. l
      BY <2>1, SMTT(30)
    <3> QED BY <1>5, <2>1, <3>1, Zenon DEF DirBefore
  <2>4. /\ last_dir = DirBefore(l + 1)
        /\ \A i \in 1 .. l : mq[i].flip = (mq[i].dir # DirBefore(i))
    BY <2>1, Zenon DEF QueueInv
  <2>5. \A i \in 1 .. l + 1 : mq'[i].flip = (mq'[i].dir # DirBefore(i)')
    <3>1. \A i \in 1 .. l : i \in 1 .. l + 1 /\ mq'[i].flip = (mq'[i].dir # DirBefore(i)')
      BY <2>1, <2>3, <2>4, SMTT(30)
    <3>2. mq'[l + 1].flip = (mq'[l + 1].dir # DirBefore(l + 1)')
      BY <1>2, <2>1, <2>2, <2>3, <2>4, SMTT(30)
    <3> QED BY <3>1, <3>2, SMTT(30)
  <2>6. last_dir' = DirBefore(l + 2)'
    <3>1. l + 2 # 1 /\ l + 2 - 1 = l + 1
      BY <2>1, SMTT(30)
    <3> QED BY <1>5, <2>1, <2>2, <3>1, SMTT(30) DEF DirBefore
  <2>7. QueueInv'
    <3>1. Len(mq') + 1 = l + 2 /\ ~(count' = 0)
      BY <1>5, <2>1, SMTT(30)
    <3> QED BY <2>1, <2>5, <2>6, <3>1, Zenon DEF QueueInv
  <2> QED BY <1>1, <1>5, <2>2, <2>7, Zenon DEF StoppedUntilReset, DirectionFollowed
<1>6. CASE count = 0 /\ need_reset /\ UNCHANGED <<count, mq, last_dir, dir_pin, going>>
  BY <1>1, <1>6, MotionKept, Zenon
<1>7. CASE count = 0 /\ ~need_reset /\ last_dir' = next_dir /\ LoadNext(<<m>>)
  <2>1. Head(<<m>>) = m /\ Tail(<<m>>) = <<>> /\ <<m>> # <<>>
    BY SMTT(30)
  <2>2. /\ going' = m.dir /\ mq' = <<>> /\ count' = m.count * Events
        /\ dir_pin' = IF m.flip THEN 1 - dir_pin ELSE dir_pin
    BY <1>7, <2>1, Zenon DEF LoadNext
  <2>3. m.dir \in {0, 1} /\ dir_pin \in {0, 1} /\ m.count * Events \in Nat \ {0}
    BY <1>2, MoveType, Zenon DEF TypeOK
  <2>4. mq = <<>> /\ last_dir = dir_pin
    BY <1>7 DEF QueueInv, DirBefore
  <2>5. dir_pin' = m.dir /\ last_dir' = m.dir
    <3>1. next_dir = m.dir /\ last_dir' = m.dir
      BY <1>3, <1>7
    <3>2. m.flip = (dir_pin # m.dir)
      BY <1>2, <2>4, <3>1, Zenon
    <3>3. CASE m.flip
      <4>1. dir_pin # m.dir /\ dir_pin' = 1 - dir_pin
        BY <2>2, <3>2, <3>3, Zenon
      <4> QED BY <2>3, <3>1, <4>1
    <3>4. CASE ~m.flip
      <4>1. dir_pin = m.dir /\ dir_pin' = dir_pin
        BY <2>2, <3>2, <3>4, Zenon
      <4> QED BY <3>1, <4>1
    <3> QED BY <3>3, <3>4
  <2>6. Len(mq') = 0 /\ ~(count' = 0)
    BY <2>2, <2>3, Zenon
  <2> QED BY <1>1, <1>7, <2>2, <2>5, <2>6
          DEF QueueInv, DirBefore, StoppedUntilReset, DirectionFollowed
<1> QED BY <1>4, <1>5, <1>6, <1>7, Zenon

\* Every step keeps the queue of moves in order, and steps in the direction of their move.
LEMMA QueueStepInv ==
    ASSUME TypeOK, HandInv, PipeInv, QueueInv, StoppedUntilReset, DirectionFollowed, Next
    PROVE  QueueInv' /\ StoppedUntilReset' /\ DirectionFollowed'
<1>1. CASE StepEvent
  <2>1. count > 0 /\ UNCHANGED <<last_dir, need_reset>> /\ ~need_reset
    BY <1>1, SMTT(30) DEF StepEvent, StoppedUntilReset
  <2>2. CASE count > 1
    <3>1. count' = count - 1 /\ UNCHANGED <<dir_pin, mq, going>>
      BY <1>1, <2>2, Zenon DEF StepEvent
    <3>2. count' # 0 /\ count \in Nat
      BY <2>2, <3>1, SMTT(30) DEF TypeOK
    <3> QED BY <2>1, <3>1, <3>2, Zenon DEF QueueInv, DirBefore, StoppedUntilReset, DirectionFollowed
  <2>3. CASE ~(count > 1)
    <3>1. LoadNext(mq)
      BY <1>1, <2>3, Zenon DEF StepEvent
    <3> QED BY <2>1, <3>1, LoadQueue, Zenon
  <2> QED BY <2>2, <2>3, Zenon
<1>2. CASE Trigger
  BY <1>2, StopQueue, Zenon DEF Trigger
<1>3. CASE CommandEmergencyStop
  BY <1>3, StopQueue, Zenon DEF CommandEmergencyStop, RunShutdown
<1>4. CASE CommandClearShutdown
  BY <1>4, MotionKept, Zenon DEF CommandClearShutdown, motion
<1>5. CASE CommandQueueStepAlloc
  <2>1. CASE free = <<>>
    BY <1>5, <2>1, StopQueue, Zenon DEF CommandQueueStepAlloc, RunShutdown
  <2>2. CASE free # <<>>
    BY <1>5, <2>2, MotionKept DEF CommandQueueStepAlloc
  <2> QED BY <2>1, <2>2, Zenon
<1>6. CASE CommandQueueStep
  BY <1>6, QueueStepQueue, Zenon
<1>7. CASE CommandSetNextStepDir
  BY <1>7, MotionKept DEF CommandSetNextStepDir
<1>8. CASE CommandResetStepClock
  <2>1. CASE count > 0
    BY <1>8, <2>1, StopQueue, Zenon DEF CommandResetStepClock, RunShutdown
  <2>2. CASE ~(count > 0)
    BY <1>8, <2>2, MotionKept, Zenon DEF CommandResetStepClock
  <2> QED BY <2>1, <2>2, Zenon
<1>9. CASE \E d \in {0, 1}, n \in Counts : AddMove(d, n)
  BY <1>9, MotionKept, SMTT(30) DEF AddMove, motion
<1>10. CASE HomingStart
  BY <1>10, MotionKept, Zenon DEF HomingStart, motion
<1>11. CASE NoteHomingEnd
  BY <1>11, MotionKept, Zenon DEF NoteHomingEnd, motion
<1>12. CASE HostConnect
  BY <1>12, MotionKept, Zenon DEF HostConnect, motion
<1>13. CASE QueryMcuPosition
  BY <1>13, MotionKept DEF QueryMcuPosition, motion
<1> QED BY <1>1, <1>2, <1>3, <1>4, <1>5, <1>6, <1>7, <1>8, <1>9, <1>10, <1>11, <1>12, <1>13, Zenon
        DEF Next

\* command_config_stepper leaves an idle stepper and a full pool.
LEMMA InitInv ==
    ASSUME Init
    PROVE  TypeOK /\ NodesPartitioned /\ StopInv
<1>1. free = AllNodes /\ mq = <<>> /\ hand = NoNode
  BY DEF Init
<1>2. NodesPartitioned
  BY <1>1, PoolReset, PoolIs, Zenon
<1>3. TypeOK
  <2>1. position \in 0 .. WORD - 1
    <3>1. -BIAS \in Int
      BY WordType
    <3> QED BY <3>1, WrapType DEF Init
  <2>2. free \in Seq(Nodes) /\ mq \in Seq(Moves)
    BY <1>1, AllNodesType, SMTT(30)
  <2>3. Reset \in Messages
    BY Zenon DEF Messages, Reset
  <2>4. single_sched \in BOOLEAN
    BY StepperAssumption, Zenon DEF Init
  <2>5. pipe \in Seq(Messages)
    BY <2>3 DEF Init
  <2>6. /\ need_reset \in BOOLEAN /\ signal \in BOOLEAN /\ is_shutdown \in BOOLEAN
        /\ homing \in BOOLEAN /\ hand \in Nodes \cup {NoNode} /\ connected \in {"no", "config", "yes"}
    BY Zenon DEF Init
  <2> QED BY <2>1, <2>2, <2>4, <2>5, <2>6, SMTT(30) DEF Init, TypeOK
<1>4. HomingInv /\ HandInv /\ PipeInv
  <2>1. /\ pipe = <<Reset>> /\ sdir = -1 /\ connected = "config" /\ homing = FALSE
        /\ signal = FALSE
    BY DEF Init
  <2>2. \A i \in DOMAIN pipe : ~Is(i, "queue_step")
    BY <2>1 DEF Is, Reset
  <2> QED BY <1>1, <2>1, <2>2, Zenon DEF HomingInv, HandInv, PipeInv
<1>5. QueueInv /\ StoppedUntilReset /\ DirectionFollowed
  <2>1. Len(mq) = 0 /\ count = 0 /\ last_dir = 0 /\ dir_pin = 0
    BY <1>1 DEF Init
  <2> QED BY <1>1, <2>1, SMTT(30) DEF QueueInv, DirBefore, StoppedUntilReset, DirectionFollowed
<1> QED BY <1>2, <1>3, <1>4, <1>5, Zenon DEF StopInv

\* What a step that changes nothing keeps.
LEMMA StutterInv ==
    ASSUME TypeOK, NodesPartitioned, StopInv, UNCHANGED vars
    PROVE  TypeOK' /\ NodesPartitioned' /\ StopInv'
<1>1. TypeOK'
  BY SMTT(30) DEF TypeOK, vars, motion, host
<1>2. NodesPartitioned'
  BY PoolKept, Zenon DEF vars, motion
<1>3. HomingInv' /\ HandInv' /\ PipeInv'
  BY PipeKept, Zenon DEF StopInv, vars, motion, host
<1>4. QueueInv' /\ StoppedUntilReset' /\ DirectionFollowed'
  BY MotionKept DEF StopInv, vars, motion
<1> QED BY <1>1, <1>2, <1>3, <1>4, Zenon DEF StopInv

\* The inductive invariant of the stepper holds whatever steps, triggers, shutdowns, commands
\* and host processes follow each other.
THEOREM StepperInvariant == Spec => [](TypeOK /\ NodesPartitioned /\ StopInv)
<1>1. Init => TypeOK /\ NodesPartitioned /\ StopInv
  BY InitInv
<1>2. TypeOK /\ NodesPartitioned /\ StopInv /\ [Next]_vars
        => (TypeOK /\ NodesPartitioned /\ StopInv)'
  <2> SUFFICES ASSUME TypeOK, NodesPartitioned, StopInv, [Next]_vars
               PROVE  (TypeOK /\ NodesPartitioned /\ StopInv)'
    OBVIOUS
  <2>1. CASE Next
    <3>1. TypeOK'
      BY <2>1, TypeStep DEF StopInv
    <3>2. NodesPartitioned'
      BY <2>1, PoolStep DEF StopInv
    <3>3. HomingInv' /\ HandInv' /\ PipeInv'
      BY <2>1, PipeStep DEF StopInv
    <3>4. QueueInv' /\ StoppedUntilReset' /\ DirectionFollowed'
      BY <2>1, QueueStepInv DEF StopInv
    <3> QED BY <3>1, <3>2, <3>3, <3>4 DEF StopInv
  <2>2. CASE UNCHANGED vars
    BY <2>2, StutterInv
  <2> QED BY <2>1, <2>2
<1> QED BY <1>1, <1>2, PTL DEF Spec

\* basecmd.c and stepper.c: every node of the pool is in exactly one place, on the free list,
\* in the queue of moves or in the hands of command_queue_step.
THEOREM PoolIsShared == Spec => []PoolInv
<1>1. TypeOK /\ NodesPartitioned /\ StopInv => PoolInv
  BY DEF PoolInv
<1> QED BY <1>1, StepperInvariant, PTL

\* stepper_stop holds until the host's reset_step_clock, which never finds the stepper active:
\* what was sent before the host knew of the stop is discarded.
THEOREM StopIsKept == Spec => []StopHolds
<1>1. TypeOK /\ NodesPartitioned /\ StopInv => StopHolds
  <2> SUFFICES ASSUME TypeOK, StopInv PROVE StopHolds
    OBVIOUS
  <2>1. ASSUME connected = "yes", pipe # <<>>, Head(pipe) = Reset
        PROVE  count = 0
    <3>1. 1 \in DOMAIN pipe /\ Is(1, "reset_step_clock")
      BY <2>1, PipeFacts, SMTT(30) DEF Is, Reset
    <3>2. need_reset
      BY <2>1, <3>1 DEF StopInv, HomingInv
    <3> QED BY <3>2, Zenon DEF StopInv, StoppedUntilReset
  <2> QED BY <2>1 DEF StopHolds, ResetMeetsIdleStepper, StopInv
<1> QED BY <1>1, StepperInvariant, PTL

-----------------------------------------------------------------------------
(* The position word *)

\* A multiple of the word that is shorter than one word is none.
LEMMA WordMultiple ==
    ASSUME NEW q \in Int, WORD * q < WORD, -WORD < WORD * q
    PROVE  q = 0
<1>1. \A w \in Nat \ {0}, k \in Int : (k >= 1 => w * k >= w) /\ (k <= -1 => w * k <= -w)
  OBVIOUS
<1>2. WORD \in Nat \ {0}
  BY WordType
<1>3. (q >= 1 => WORD * q >= WORD) /\ (q <= -1 => WORD * q <= -WORD)
  BY <1>1, <1>2
<1>4. WORD * q \in Int
  BY <1>2
<1> QED BY <1>2, <1>3, <1>4

\* A number and its word differ by a multiple of the word.
LEMMA WrapOff ==
    ASSUME NEW x \in Int
    PROVE  \E k \in Int : x = WORD * k + Wrap(x)
<1>1. \A w \in Nat \ {0} : x = w * (x \div w) + (x % w) /\ x \div w \in Int
  OBVIOUS
<1> QED BY <1>1, WordType, Zenon DEF Wrap

\* Numbers that differ by a multiple of the word are the same word.
LEMMA WrapSame ==
    ASSUME NEW x \in Int, NEW y \in Int, NEW k \in Int, x = WORD * k + y
    PROVE  Wrap(x) = Wrap(y)
<1>1. PICK p \in Int : x = WORD * p + Wrap(x)
  BY WrapOff
<1>2. PICK q \in Int : y = WORD * q + Wrap(y)
  BY WrapOff
<1>3. WORD \in Nat \ {0} /\ Wrap(x) \in 0 .. WORD - 1 /\ Wrap(y) \in 0 .. WORD - 1
  BY WordType, WrapType
<1>4. WORD * (p - k - q) = Wrap(y) - Wrap(x)
  <2>1. \A w, u, v \in Int :
            x = w * k + y /\ x = w * p + u /\ y = w * q + v => w * (p - k - q) = v - u
    OBVIOUS
  <2>2. WORD \in Int /\ Wrap(x) \in Int /\ Wrap(y) \in Int
    BY <1>3
  <2>3. \A u, v \in Int :
            x = WORD * k + y /\ x = WORD * p + u /\ y = WORD * q + v
              => WORD * (p - k - q) = v - u
    BY <2>1, <2>2, Zenon
  <2>4. x = WORD * k + y /\ x = WORD * p + Wrap(x) /\ y = WORD * q + Wrap(y)
          => WORD * (p - k - q) = Wrap(y) - Wrap(x)
    BY <2>2, <2>3, Zenon
  <2> QED BY <1>1, <1>2, <2>4, Zenon
<1>5. p - k - q \in Int /\ WORD * (p - k - q) < WORD /\ -WORD < WORD * (p - k - q)
  BY <1>3, <1>4
<1>6. p - k - q = 0
  BY <1>5, WordMultiple
<1>7. WORD * (p - k - q) = 0
  BY <1>3, <1>6
<1> QED BY <1>3, <1>4, <1>7

\* The same words differ by a multiple of the word.
LEMMA WrapDiffer ==
    ASSUME NEW x \in Int, NEW y \in Int, Wrap(x) = Wrap(y)
    PROVE  \E k \in Int : x = WORD * k + y
<1>1. PICK p \in Int : x = WORD * p + Wrap(x)
  BY WrapOff
<1>2. PICK q \in Int : y = WORD * q + Wrap(y)
  BY WrapOff
<1>3. WORD \in Nat \ {0} /\ Wrap(y) \in Int
  BY WordType, WrapType
<1>4. x = WORD * (p - q) + y /\ p - q \in Int
  BY <1>1, <1>2, <1>3
<1> QED BY <1>4

\* A word is its own.
LEMMA WrapOf ==
    ASSUME NEW x \in 0 .. WORD - 1
    PROVE  Wrap(x) = x
<1>1. PICK k \in Int : x = WORD * k + Wrap(x)
  BY WrapOff
<1>2. WORD \in Nat \ {0} /\ Wrap(x) \in 0 .. WORD - 1
  BY WordType, WrapType
<1>3. WORD * k < WORD /\ -WORD < WORD * k
  <2>1. WORD * k = x - Wrap(x)
    BY <1>1, <1>2
  <2> QED BY <1>2, <2>1, SMTT(30)
<1>4. k = 0
  BY <1>3, WordMultiple
<1>5. WORD * k = 0
  BY <1>2, <1>4, SMTT(30)
<1> QED BY <1>1, <1>2, <1>5

\* Words are added and negated like the numbers they stand for.
LEMMA WrapAdd ==
    ASSUME NEW x \in Int, NEW y \in Int, NEW n \in Int, Wrap(x) = Wrap(y)
    PROVE  Wrap(x + n) = Wrap(y + n)
<1>1. PICK k \in Int : x = WORD * k + y
  BY WrapDiffer
<1>2. x + n = WORD * k + (y + n) /\ x + n \in Int /\ y + n \in Int
  BY <1>1, WordType
<1> QED BY <1>2, WrapSame

LEMMA WrapNeg ==
    ASSUME NEW x \in Int, NEW y \in Int, Wrap(x) = Wrap(y)
    PROVE  Wrap(-x) = Wrap(-y)
<1>1. PICK k \in Int : x = WORD * k + y
  BY WrapDiffer
<1>2. -x = WORD * (-k) + (-y) /\ -x \in Int /\ -y \in Int /\ -k \in Int
  BY <1>1, WordType
<1> QED BY <1>2, WrapSame

LEMMA WrapTwice ==
    ASSUME NEW x \in Int
    PROVE  Wrap(Wrap(x)) = Wrap(x)
BY WrapOf, WrapType

\* Numbers stand for the position as long as they are within half a word of its origin.
LEMMA PositionIs ==
    ASSUME TypeOK, PositionInv, InRange
    PROVE  GetPosition = taken + BIAS /\ PositionReported
<1> DEFINE y == taken + BIAS
           pos == Wrap(position - count \div Events)
<1>1. /\ y \in 0 .. 2 * BIAS /\ BIAS \in Nat \ {0} /\ WORD = 4 * BIAS /\ taken \in Int
      /\ -y \in Int /\ y \in 0 .. WORD - 1
  BY WordType DEF InRange, TypeOK
<1>2. pos = Wrap(IF dir_pin = 1 THEN y ELSE -y)
  BY DEF PositionInv
<1>3. GetPosition = IF pos >= 2 * BIAS THEN Wrap(-pos) ELSE pos
  BY DEF GetPosition
<1>4. Wrap(y) = y
  BY <1>1, WrapOf
<1> HIDE DEF y, pos
<1>5. ASSUME NEW z \in 1 .. WORD - 1 PROVE Wrap(-z) = WORD - z
  <2>1. -z = WORD * (-1) + (WORD - z) /\ -z \in Int /\ WORD - z \in 0 .. WORD - 1
    BY <1>1
  <2>2. WORD - z \in Int /\ -1 \in Int
    BY <1>1
  <2> QED BY <2>1, <2>2, WrapSame, WrapOf
<1>6. GetPosition = y
  <2>1. CASE dir_pin = 1 /\ y < 2 * BIAS
    BY <1>1, <1>2, <1>3, <1>4, <2>1, SMTT(30)
  <2>2. CASE dir_pin = 1 /\ y = 2 * BIAS
    <3>1. pos = y /\ pos >= 2 * BIAS /\ y \in 1 .. WORD - 1
      BY <1>1, <1>2, <1>4, <2>2, SMTT(30)
    <3> QED BY <1>1, <1>3, <1>5, <2>2, <3>1, SMTT(30)
  <2>3. CASE dir_pin # 1 /\ y = 0
    BY <1>1, <1>2, <1>3, <1>4, <2>3, SMTT(30)
  <2>4. CASE dir_pin # 1 /\ y > 0
    <3>1. y \in 1 .. WORD - 1
      BY <1>1, <2>4
    <3>2. pos = WORD - y
      BY <1>2, <1>5, <2>4, <3>1
    <3>3. pos \in 1 .. WORD - 1 /\ pos >= 2 * BIAS
      BY <1>1, <3>1, <3>2
    <3> QED BY <1>1, <1>3, <1>5, <3>2, <3>3
  <2> QED BY <1>1, <2>1, <2>2, <2>3, <2>4, SMTT(30)
<1>7. ReportedPosition = taken
  <2>1. GetPosition - BIAS = taken
    BY <1>1, <1>6 DEF y
  <2>2. ReportedPosition = IF Wrap(taken) >= 2 * BIAS THEN Wrap(taken) - WORD ELSE Wrap(taken)
    BY <2>1 DEF ReportedPosition
  <2>3. CASE taken >= 0
    <3>1. taken \in 0 .. WORD - 1 /\ ~(taken >= 2 * BIAS)
      BY <1>1, <2>3 DEF InRange
    <3> QED BY <2>2, <3>1, WrapOf
  <2>4. CASE taken < 0
    <3>1. -taken \in 1 .. WORD - 1 /\ taken = -(-taken)
      BY <1>1, <2>4 DEF InRange
    <3>2. Wrap(taken) = WORD - (-taken)
      BY <1>5, <3>1
    <3>3. Wrap(taken) >= 2 * BIAS /\ Wrap(taken) - WORD = taken
      BY <1>1, <3>2, SMTT(30) DEF InRange
    <3> QED BY <2>2, <3>3
  <2> QED BY <1>1, <2>3, <2>4
<1> QED BY <1>6, <1>7, Zenon DEF PositionReported, y

\* stepper_load_next: the position word is the one at the end of the move loaded.
LEMMA LoadPosition ==
    ASSUME TypeOK, NEW q \in Seq(Moves), LoadNext(q), UNCHANGED single_sched, NEW y \in Int,
           Wrap(position) = Wrap(IF dir_pin = 1 THEN y ELSE -y)
    PROVE  /\ Wrap(position' - count' \div Events') = Wrap(IF dir_pin' = 1 THEN y ELSE -y)
           /\ ~single_sched => count' % 2 = 0
<1>1. Events' = Events /\ (single_sched => Events = 1) /\ (~single_sched => Events = 2)
  BY Zenon DEF Events
<1>2. position \in Int /\ dir_pin \in {0, 1} /\ single_sched \in BOOLEAN /\ -y \in Int
  BY WordType, SMTT(30) DEF TypeOK
<1>3. CASE q = <<>>
  <2>1. count' = 0 /\ position' = position /\ dir_pin' = dir_pin
    BY <1>3 DEF LoadNext
  <2>2. count' \div Events' = 0 /\ count' % 2 = 0
    BY <1>1, <1>2, <2>1, SMTT(30)
  <2>3. position' - count' \div Events' = position
    BY <1>2, <2>1, <2>2, SMTT(30)
  <2> QED BY <2>1, <2>2, <2>3, Zenon
<1>4. CASE q # <<>>
  <2> DEFINE m == Head(q)
             p == IF m.flip THEN -position ELSE position
  <2>1. /\ count' = m.count * Events /\ position' = Wrap(p + m.count)
        /\ dir_pin' = IF m.flip THEN 1 - dir_pin ELSE dir_pin
    BY <1>4 DEF LoadNext
  <2>2. m \in Moves
    BY <1>4, SeqRest, Zenon
  <2>3. m.count \in Nat /\ m.flip \in BOOLEAN
    BY <2>2, MoveType, Zenon
  <2>4. (m.flip => p = -position) /\ (~m.flip => p = position)
    BY Zenon
  <2> HIDE DEF m, p
  <2>5. p \in Int /\ p + m.count \in Int
    BY <1>2, <2>3, <2>4, SMTT(30)
  <2>6. count' \div Events' = m.count /\ (~single_sched => count' % 2 = 0)
    <3>1. CASE single_sched
      BY <1>1, <2>1, <2>3, <3>1, SMTT(30)
    <3>2. CASE ~single_sched
      BY <1>1, <2>1, <2>3, <3>2, SMTT(30)
    <3> QED BY <3>1, <3>2, Zenon
  <2>7. Wrap(position' - m.count) = Wrap(p)
    <3>1. /\ Wrap(p + m.count) \in Int /\ -m.count \in Int
          /\ Wrap(Wrap(p + m.count)) = Wrap(p + m.count)
      BY <2>3, <2>5, WrapType, WrapTwice, SMTT(30)
    <3>2. Wrap(Wrap(p + m.count) + (-m.count)) = Wrap((p + m.count) + (-m.count))
      BY <2>5, <3>1, WrapAdd, Zenon
    <3>3. /\ Wrap(p + m.count) + (-m.count) = position' - m.count
          /\ (p + m.count) + (-m.count) = p
      <4>1. \A a, b \in Int, n \in Nat : b + (-n) = b - n /\ (a + n) + (-n) = a
        OBVIOUS
      <4> QED BY <2>1, <2>3, <2>5, <3>1, <4>1, Zenon
    <3> QED BY <3>2, <3>3, Zenon
  <2>8. Wrap(p) = Wrap(IF dir_pin' = 1 THEN y ELSE -y)
    <3>1. CASE ~m.flip
      BY <2>1, <2>4, <3>1, Zenon
    <3>2. CASE m.flip /\ dir_pin = 1
      <4>1. dir_pin' = 0 /\ p = -position /\ Wrap(position) = Wrap(y)
        BY <2>1, <2>4, <3>2, SMTT(30)
      <4>2. Wrap(-position) = Wrap(-y)
        BY <1>2, <4>1, WrapNeg, Zenon
      <4> QED BY <4>1, <4>2, SMTT(30)
    <3>3. CASE m.flip /\ dir_pin = 0
      <4>1. dir_pin' = 1 /\ p = -position /\ Wrap(position) = Wrap(-y)
        BY <2>1, <2>4, <3>3, SMTT(30)
      <4>2. Wrap(-position) = Wrap(-(-y)) /\ -(-y) = y
        BY <1>2, <4>1, WrapNeg, SMTT(30)
      <4> QED BY <4>1, <4>2, Zenon
    <3> QED BY <1>2, <3>1, <3>2, <3>3
  <2> QED BY <2>6, <2>7, <2>8, Zenon
<1> QED BY <1>3, <1>4

\* What does not move the stepper keeps its position.
LEMMA PositionKept ==
    ASSUME PositionInv, UNCHANGED <<single_sched, count, position, dir_pin, step_pin, taken>>
    PROVE  PositionInv'
BY DEF PositionInv, Events

\* stepper_event: the step is counted when its pulse begins, in the direction of dir_pin.
LEMMA EventPosition ==
    ASSUME TypeOK, PositionInv, StepEvent, UNCHANGED single_sched
    PROVE  PositionInv'
<1> DEFINE y == taken + BIAS
           made == IF single_sched \/ step_pin = 0 THEN 1 ELSE 0
           z == y + (IF dir_pin = 1 THEN made ELSE -made)
           c == count \div Events
<1>1. /\ Events' = Events /\ (single_sched => Events = 1) /\ (~single_sched => Events = 2)
      /\ single_sched \in BOOLEAN
  BY Zenon DEF Events, TypeOK
<1>2. /\ position \in Int /\ dir_pin \in {0, 1} /\ step_pin \in {0, 1} /\ taken \in Int
      /\ BIAS \in Int /\ y \in Int /\ made \in {0, 1} /\ count \in Nat /\ count > 0
  BY WordType, SMTT(30) DEF TypeOK, StepEvent
<1>3. taken' + BIAS = z /\ z \in Int
  <2>1. taken' = IF single_sched \/ step_pin = 0
                 THEN taken + (IF dir_pin = 1 THEN 1 ELSE -1) ELSE taken
    BY Zenon DEF StepEvent
  <2> QED BY <1>2, <2>1, SMTT(30)
<1>4. step_pin' = 1 - step_pin
  BY Zenon DEF StepEvent
<1>5. c \in Nat /\ (count - 1) \div Events = c - made
  <2>1. CASE single_sched
    BY <1>1, <1>2, <2>1, SMTT(30)
  <2>2. CASE ~single_sched
    <3>1. step_pin = count % 2
      BY <2>2, Zenon DEF PositionInv
    <3> QED BY <1>1, <1>2, <2>2, <3>1, SMTT(30)
  <2> QED BY <1>1, <2>1, <2>2, Zenon
<1>6. ~single_sched => step_pin' = (count - 1) % 2
  BY <1>2, <1>4, SMTT(30) DEF PositionInv
<1>7. Wrap(position - c) = Wrap(IF dir_pin = 1 THEN y ELSE -y)
  BY Zenon DEF PositionInv
<1> HIDE DEF c, y
<1>8. Wrap((position - c) + made) = Wrap(IF dir_pin = 1 THEN z ELSE -z)
  <2>1. position - c \in Int /\ -y \in Int /\ made \in Int
    BY <1>2, <1>5, SMTT(30)
  <2> HIDE DEF made
  <2>2. CASE dir_pin = 1
    <3>1. Wrap((position - c) + made) = Wrap(y + made)
      <4>1. Wrap(position - c) = Wrap(y) /\ y \in Int
        BY <1>2, <1>7, <2>2, Zenon
      <4> QED BY <2>1, <4>1, WrapAdd, Zenon
    <3> QED BY <2>2, <3>1, Zenon
  <2>3. CASE dir_pin # 1
    <3>1. Wrap((position - c) + made) = Wrap(-y + made)
      <4>1. Wrap(position - c) = Wrap(-y)
        BY <1>7, <2>3, Zenon
      <4> QED BY <2>1, <4>1, WrapAdd, Zenon
    <3>2. -z = -y + made
      BY <1>2, <2>1, <2>3, SMTT(30)
    <3> QED BY <2>3, <3>1, <3>2, Zenon
  <2> QED BY <2>2, <2>3, Zenon
<1>9. (position - c) + made = position - (c - made)
  BY <1>2, <1>5, SMTT(30)
<1> HIDE DEF made, z
<1>10. CASE count > 1
  <2>1. count' = count - 1 /\ position' = position /\ dir_pin' = dir_pin
    BY <1>10, Zenon DEF StepEvent
  <2>2. position' - count' \div Events' = position - (c - made)
    BY <1>1, <1>5, <2>1, Zenon
  <2> QED BY <1>3, <1>6, <1>8, <1>9, <2>1, <2>2, Zenon DEF PositionInv
<1>11. CASE ~(count > 1)
  <2>1. LoadNext(mq) /\ count - 1 = 0
    BY <1>2, <1>11, SMTT(30) DEF StepEvent
  <2>2. c - made = 0
    BY <1>1, <1>5, <2>1, SMTT(30)
  <2>3. Wrap(position) = Wrap(IF dir_pin = 1 THEN z ELSE -z)
    <3>1. position - (c - made) = position
      BY <1>2, <2>2, SMTT(30)
    <3> QED BY <1>8, <1>9, <3>1, Zenon
  <2>4. mq \in Seq(Moves)
    BY Zenon DEF TypeOK
  <2>5. /\ Wrap(position' - count' \div Events') = Wrap(IF dir_pin' = 1 THEN z ELSE -z)
        /\ ~single_sched => count' % 2 = 0
    BY <1>3, <2>1, <2>3, <2>4, LoadPosition
  <2>6. ~single_sched => step_pin' = 0
    BY <1>6, <2>1, SMTT(30)
  <2> QED BY <1>3, <2>5, <2>6, Zenon DEF PositionInv
<1> QED BY <1>10, <1>11, Zenon

\* stepper_stop: the position reached is kept, the direction pin being cleared.
LEMMA StopPosition ==
    ASSUME TypeOK, PositionInv, InRange, StopSteps, UNCHANGED single_sched
    PROVE  PositionInv'
<1>1. GetPosition = taken + BIAS /\ taken + BIAS \in Int
  BY PositionIs, WordType, SMTT(30) DEF TypeOK
<1>2. /\ position' = Wrap(-(taken + BIAS)) /\ count' = 0 /\ dir_pin' = 0 /\ taken' = taken
      /\ step_pin' = IF single_sched THEN step_pin ELSE 0
  BY <1>1 DEF StopSteps
<1>3. position' \in Int /\ Wrap(position') = Wrap(-(taken + BIAS))
  <2>1. -(taken + BIAS) \in Int
    BY <1>1
  <2> QED BY <1>2, <2>1, WrapType, WrapTwice
<1>4. count' \div Events' = 0 /\ count' % 2 = 0
  BY <1>2 DEF Events
<1>5. position' - count' \div Events' = position'
  BY <1>3, <1>4, SMTT(30)
<1>6. dir_pin' # 1
  BY <1>2, SMTT(30)
<1>7. ~single_sched' => step_pin' = count' % 2
  BY <1>2, <1>4, Zenon
<1> QED BY <1>2, <1>3, <1>5, <1>6, <1>7, Zenon DEF PositionInv

\* Every step keeps the position word that of the motor.
LEMMA PositionStep ==
    ASSUME TypeOK, HandInv, PositionInv, InRange, Next
    PROVE  PositionInv'
<1>1. UNCHANGED single_sched
  BY DEF Next
<1>2. CASE StepEvent
  BY <1>1, <1>2, EventPosition
<1>3. CASE Trigger
  BY <1>1, <1>3, StopPosition DEF Trigger
<1>4. CASE CommandEmergencyStop
  BY <1>1, <1>4, StopPosition, Zenon DEF CommandEmergencyStop, RunShutdown
<1>5. CASE CommandClearShutdown
  BY <1>1, <1>5, PositionKept DEF CommandClearShutdown, motion
<1>6. CASE CommandQueueStepAlloc
  <2>1. CASE free = <<>>
    BY <1>1, <1>6, <2>1, StopPosition, Zenon DEF CommandQueueStepAlloc, RunShutdown
  <2>2. CASE free # <<>>
    BY <1>1, <1>6, <2>2, PositionKept, Zenon DEF CommandQueueStepAlloc
  <2> QED BY <2>1, <2>2, Zenon
<1>7. CASE CommandQueueStep
  <2> DEFINE m == NewMove(Head(pipe))
             y == taken + BIAS
  <2>1. /\ hand # NoNode /\ UNCHANGED <<step_pin, taken>>
        /\ \/ UNCHANGED <<count, position, dir_pin>>
           \/ count = 0 /\ LoadNext(<<m>>)
    BY <1>7, Zenon DEF CommandQueueStep
  <2>2. <<m>> \in Seq(Moves)
    BY <2>1, NewMoveType, Zenon
  <2> HIDE DEF m
  <2>3. CASE UNCHANGED <<count, position, dir_pin>>
    BY <1>1, <2>1, <2>3, PositionKept, Zenon
  <2>4. CASE count = 0 /\ LoadNext(<<m>>)
    <3>1. position - count \div Events = position /\ count % 2 = 0 /\ y \in Int
      BY <2>4, WordType, SMTT(30) DEF TypeOK, Events
    <3>2. Wrap(position) = Wrap(IF dir_pin = 1 THEN y ELSE -y)
      BY <3>1, Zenon DEF PositionInv
    <3>3. /\ Wrap(position' - count' \div Events') = Wrap(IF dir_pin' = 1 THEN y ELSE -y)
          /\ ~single_sched => count' % 2 = 0
      BY <1>1, <2>2, <2>4, <3>1, <3>2, LoadPosition, Zenon
    <3>4. ~single_sched => step_pin' = 0
      BY <2>1, <3>1 DEF PositionInv
    <3> QED BY <1>1, <2>1, <3>3, <3>4, Zenon DEF PositionInv
  <2> QED BY <2>1, <2>3, <2>4, Zenon
<1>8. CASE CommandSetNextStepDir
  BY <1>1, <1>8, PositionKept DEF CommandSetNextStepDir
<1>9. CASE CommandResetStepClock
  <2>1. CASE count > 0
    BY <1>1, <1>9, <2>1, StopPosition DEF CommandResetStepClock, RunShutdown
  <2>2. CASE ~(count > 0)
    BY <1>1, <1>9, <2>2, PositionKept, Zenon DEF CommandResetStepClock
  <2> QED BY <2>1, <2>2
<1>10. CASE \E d \in {0, 1}, n \in Counts : AddMove(d, n)
  BY <1>1, <1>10, PositionKept, Zenon DEF AddMove, motion
<1>11. CASE HomingStart
  BY <1>1, <1>11, PositionKept, Zenon DEF HomingStart, motion
<1>12. CASE NoteHomingEnd
  BY <1>1, <1>12, PositionKept, Zenon DEF NoteHomingEnd, motion
<1>13. CASE HostConnect
  BY <1>1, <1>13, PositionKept, Zenon DEF HostConnect, motion
<1>14. CASE QueryMcuPosition
  BY <1>1, <1>14, PositionKept DEF QueryMcuPosition, motion
<1> QED BY <1>2, <1>3, <1>4, <1>5, <1>6, <1>7, <1>8, <1>9, <1>10, <1>11, <1>12, <1>13, <1>14, Zenon
        DEF Next

\* stepper_get_position is exact and every step goes the way its move was meant, for as long
\* as the position fits the word: stepper.c uses the word's top half for the other direction.
THEOREM PositionIsExact == Spec /\ []InRange => []PositionExact
<1>1. Init => PositionInv
  <2> SUFFICES ASSUME Init PROVE PositionInv
    BY Zenon
  <2>1. /\ position = Wrap(-BIAS) /\ count = 0 /\ dir_pin = 0 /\ step_pin = 0 /\ taken = 0
        /\ -(taken + BIAS) = -BIAS /\ -BIAS \in Int
    BY WordType, SMTT(30) DEF Init
  <2>2. position \in Int /\ Wrap(position) = Wrap(-BIAS)
    BY <2>1, WrapType, WrapTwice, SMTT(30)
  <2>3. count \div Events = 0 /\ count % 2 = 0
    BY <2>1, SMTT(30) DEF Events
  <2>4. position - count \div Events = position
    BY <2>2, <2>3
  <2> QED BY <2>1, <2>2, <2>3, <2>4 DEF PositionInv
<1>2. TypeOK /\ NodesPartitioned /\ StopInv /\ InRange /\ PositionInv /\ [Next]_vars
        => PositionInv'
  <2> SUFFICES ASSUME TypeOK, StopInv, InRange, PositionInv, [Next]_vars PROVE PositionInv'
    OBVIOUS
  <2>1. CASE Next
    BY <2>1, PositionStep, Zenon DEF StopInv
  <2>2. CASE UNCHANGED vars
    BY <2>2, PositionKept DEF vars, motion
  <2> QED BY <2>1, <2>2
<1>3. TypeOK /\ NodesPartitioned /\ StopInv /\ InRange /\ PositionInv => PositionExact
  BY PositionIs DEF PositionExact, StopInv
<1> QED BY <1>1, <1>2, <1>3, StepperInvariant, PTL DEF Spec

===============================================================================
