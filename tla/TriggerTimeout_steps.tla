------------------------ MODULE TriggerTimeout_steps ------------------------
(***************************************************************************)
(* Proofs about TriggerTimeout, first part: the queues, the expiry that    *)
(* handle_trsync_state computes, and that every step of a micro-controller *)
(* keeps the invariant.  TriggerTimeout_proofs goes on with the host.      *)
(***************************************************************************)
EXTENDS TriggerTimeout, WellFoundedInduction, TLAPS

-----------------------------------------------------------------------------
(* Queues *)

\* What Tail, with which an mcu or the host takes an entry, leaves of a queue.
LEMMA TailFacts ==
    ASSUME NEW S, NEW q \in Seq(S), q # <<>>
    PROVE  /\ Tail(q) \in Seq(S) /\ Len(q) \in Nat \ {0} /\ Len(Tail(q)) = Len(q) - 1
           /\ Head(q) = q[1] /\ q[1] \in S /\ 1 \in DOMAIN q
           /\ DOMAIN q = 1..Len(q) /\ DOMAIN Tail(q) = 1..(Len(q) - 1)
           /\ \A k \in DOMAIN Tail(q) : k + 1 \in DOMAIN q /\ Tail(q)[k] = q[k + 1]
  OBVIOUS

\* What Append, with which an entry is sent, makes of a queue.
LEMMA AppendFacts ==
    ASSUME NEW S, NEW q \in Seq(S), NEW e \in S
    PROVE  /\ Append(q, e) \in Seq(S) /\ Len(q) \in Nat /\ Len(Append(q, e)) = Len(q) + 1
           /\ Append(q, e) # <<>>
           /\ DOMAIN q = 1..Len(q) /\ DOMAIN Append(q, e) = 1..(Len(q) + 1)
           /\ \A k \in DOMAIN q : Append(q, e)[k] = q[k]
           /\ Append(q, e)[Len(q) + 1] = e
           /\ Head(Append(q, e)) = IF q = <<>> THEN e ELSE Head(q)
<1>1. /\ Append(q, e) \in Seq(S) /\ Len(q) \in Nat /\ Len(Append(q, e)) = Len(q) + 1
      /\ DOMAIN q = 1..Len(q) /\ DOMAIN Append(q, e) = 1..(Len(q) + 1)
      /\ \A k \in DOMAIN q : Append(q, e)[k] = q[k]
      /\ Append(q, e)[Len(q) + 1] = e
  OBVIOUS
<1>2. Append(q, e) # <<>>
  BY <1>1
<1>3. Head(Append(q, e)) = Append(q, e)[1]
  BY <1>1, <1>2
<1>4. CASE q = <<>>
  BY <1>1, <1>2, <1>3, <1>4
<1>5. CASE q # <<>>
  <2>1. Head(q) = q[1] /\ 1 \in DOMAIN q
    BY <1>5, <1>1
  <2> QED BY <1>1, <1>2, <1>3, <1>5, <2>1
<1> QED BY <1>4, <1>5

\* The same of the queue r that sending leaves.
LEMMA AppendedFacts ==
    ASSUME NEW S
    PROVE  \A r : \A q \in Seq(S), e \in S :
              r = Append(q, e) =>
                /\ Len(q) \in Nat /\ DOMAIN q = 1..Len(q) /\ DOMAIN r = 1..(Len(q) + 1)
                /\ \A k \in DOMAIN q : r[k] = q[k]
                /\ r[Len(q) + 1] = e
BY AppendFacts

\* Taking the first command of a queue keeps the order of the others.
LEMMA TailOrdered ==
    ASSUME NEW q \in Seq(Commands), q # <<>>, Ordered(q)
    PROVE  /\ Ordered(Tail(q))
           /\ ~(Tail(q) # <<>> /\ Head(Tail(q)).c = "start")
           /\ Tail(q) # <<>> /\ Head(Tail(q)).c = "signal" => Head(q).c = "start"
           /\ Head(q).c = "signal" => Tail(q) # <<>> /\ Head(Tail(q)).c = "timeout"
<1> DEFINE t == Tail(q)
<1>1. /\ t \in Seq(Commands) /\ Len(q) \in Nat \ {0} /\ Len(t) = Len(q) - 1
      /\ Head(q) = q[1] /\ 1 \in DOMAIN q /\ DOMAIN q = 1..Len(q) /\ DOMAIN t = 1..(Len(q) - 1)
      /\ \A k \in DOMAIN t : k + 1 \in DOMAIN q /\ t[k] = q[k + 1]
  BY TailFacts
<1>2. t # <<>> => Head(t) = t[1] /\ 1 \in DOMAIN t
  BY <1>1, TailFacts
<1> HIDE DEF t
<1>3. ASSUME NEW k \in DOMAIN t
      PROVE  t[k].c # "start"
  BY <1>1 DEF Ordered
<1>4. ASSUME NEW k \in DOMAIN t, t[k].c = "signal"
      PROVE  k = 1 /\ Len(t) > k /\ t[k + 1].c = "timeout" /\ q[1].c = "start"
  BY <1>1, <1>4 DEF Ordered
<1>5. Ordered(t)
  BY <1>3, <1>4 DEF Ordered
<1>6. q[1].c = "signal" => t # <<>> /\ t[1].c = "timeout"
  BY <1>1 DEF Ordered
<1> QED BY <1>1, <1>2, <1>3, <1>4, <1>5, <1>6, Zenon DEF t

\* Sending a command other than those of MCU_trsync.start keeps the order.
LEMMA AppendOrdered ==
    ASSUME NEW q \in Seq(Commands), NEW e \in Commands, e.c \notin {"start", "signal"}, Ordered(q)
    PROVE  Ordered(Append(q, e))
<1> DEFINE a == Append(q, e)
<1>1. /\ Len(q) \in Nat /\ Len(a) = Len(q) + 1 /\ DOMAIN q = 1..Len(q)
      /\ DOMAIN a = 1..(Len(q) + 1)
      /\ \A k \in DOMAIN q : a[k] = q[k]
      /\ a[Len(q) + 1] = e
  BY AppendFacts
<1> HIDE DEF a
<1>2. SUFFICES ASSUME NEW k \in DOMAIN a, a[k].c \in {"start", "signal"}
               PROVE  /\ a[k].c = "start" => k = 1 /\ Len(a) > 2 /\ a[2].c = "signal"
                      /\ a[k].c = "signal" => /\ k = 1 \/ (k = 2 /\ a[1].c = "start")
                                              /\ Len(a) > k /\ a[k + 1].c = "timeout"
  BY DEF Ordered, a
<1>3. k \in DOMAIN q
  BY <1>1, <1>2
<1>4. CASE a[k].c = "start"
  <2>1. k = 1 /\ Len(q) > 2 /\ q[2].c = "signal"
    BY <1>1, <1>3, <1>4, Zenon DEF Ordered
  <2> QED BY <1>1, <1>4, <2>1
<1>5. CASE a[k].c = "signal"
  <2>1. /\ k = 1 \/ (k = 2 /\ q[1].c = "start")
        /\ Len(q) > k /\ q[k + 1].c = "timeout"
    BY <1>1, <1>3, <1>5 DEF Ordered
  <2> QED BY <1>1, <1>3, <1>5, <2>1
<1> QED BY <1>2, <1>4, <1>5

-----------------------------------------------------------------------------
(* The expiry handle_trsync_state computes *)

\* A nonempty set of naturals has a minimum.
LEMMA MinFacts ==
    ASSUME NEW S \in SUBSET Nat, S # {}
    PROVE  Min(S) \in S /\ \A y \in S : Min(S) <= y
<1> DEFINE R == {p \in Nat \X Nat : p[1] < p[2]}
<1>1. IsWellFoundedOn(R, Nat)
  BY NatLessThanWellFounded, Zenon DEF OpToRel
<1>2. PICK x \in S : \A y \in S : ~(<<y, x>> \in R)
  BY <1>1, WFMin, Zenon
<1>3. ASSUME NEW y \in S PROVE ~(y < x)
  BY <1>2, Zenon
<1>4. \A y \in S : x <= y
  BY <1>3
<1> QED BY <1>4, Zenon DEF Min

\* The mcus whose reports extend the timeout of i: the others, or itself when it is alone.
Others(i) == IF Mcus = {i} THEN {i} ELSE Mcus \ {i}

\* The timeout of i is computed from the oldest report among those of Others(i).
LEMMA NextExpireFacts ==
    ASSUME NEW d \in Statuses, NEW i \in Mcus
    PROVE  /\ NextExpire(d, i) \in Nat
           /\ \A j \in Others(i) : NextExpire(d, i) <= ExpireTicks + d[j].status
           /\ \E j \in Others(i) : NextExpire(d, i) = ExpireTicks + d[j].status
<1> DEFINE all == {d[j].status : j \in Mcus}
           rest == {d[j].status : j \in Mcus \ {i}}
           first == {j \in Mcus : d[j].status = MinStatus(d)}
<1>1. all \in SUBSET Nat /\ all # {} /\ rest \in SUBSET Nat /\ Mcus \in SUBSET Nat
  BY DEF Statuses, Mcus
<1>2. MinStatus(d) \in all /\ \A j \in Mcus : MinStatus(d) <= d[j].status
  <2>1. Min(all) \in all /\ \A y \in all : Min(all) <= y
    BY <1>1, MinFacts, Zenon
  <2> QED BY <2>1, Zenon DEF MinStatus
<1>3. MinMcu(d) \in Mcus /\ d[MinMcu(d)].status = MinStatus(d)
  <2>1. first # {} /\ first \in SUBSET Nat
    BY <1>1, <1>2, Zenon
  <2>2. Min(first) \in first
    BY <2>1, MinFacts
  <2> QED BY <2>2 DEF MinMcu
<1>4. ExpireTicks \in Nat /\ \A j \in Mcus : d[j].status \in Nat
  BY TicksAssumption DEF Statuses
<1>5. CASE i = MinMcu(d) /\ rest # {}
  <2>1. Min(rest) \in rest /\ \A y \in rest : Min(rest) <= y
    BY <1>1, <1>5, MinFacts, Zenon
  <2>2. NextExpire(d, i) = ExpireTicks + Min(rest)
    BY <1>5 DEF NextExpire
  <2>3. Others(i) = Mcus \ {i}
    BY <1>5 DEF Others
  <2>4. PICK j \in Mcus \ {i} : Min(rest) = d[j].status
    BY <2>1, Zenon
  <2>5. \A k \in Mcus \ {i} : d[j].status <= d[k].status
    BY <2>1, <2>4
  <2> HIDE DEF rest
  <2> QED BY <1>4, <2>2, <2>3, <2>4, <2>5
<1>6. CASE ~(i = MinMcu(d) /\ rest # {})
  <2>1. NextExpire(d, i) = ExpireTicks + MinStatus(d)
    BY <1>6 DEF NextExpire
  <2>2. MinMcu(d) \in Others(i)
    BY <1>3, <1>6 DEF Others
  <2>3. Others(i) \subseteq Mcus
    BY DEF Others
  <2> HIDE DEF all, rest
  <2> QED BY <1>2, <1>3, <1>4, <2>1, <2>2, <2>3
<1> QED BY <1>5, <1>6

\* Later reports give later timeouts.
LEMMA NextExpireGrows ==
    ASSUME NEW d \in Statuses, NEW e \in Statuses, NEW i \in Mcus,
           \A j \in Mcus : d[j].status <= e[j].status
    PROVE  NextExpire(d, i) <= NextExpire(e, i)
<1>1. PICK j \in Others(i) : NextExpire(e, i) = ExpireTicks + e[j].status
  BY NextExpireFacts
<1>2. j \in Mcus
  BY DEF Others
<1>3. NextExpire(d, i) <= ExpireTicks + d[j].status /\ NextExpire(d, i) \in Nat
  BY NextExpireFacts
<1>4. d[j].status \in Nat /\ e[j].status \in Nat /\ d[j].status <= e[j].status /\ ExpireTicks \in Nat
  BY <1>2, TicksAssumption DEF Statuses
<1> QED BY <1>1, <1>3, <1>4

-----------------------------------------------------------------------------
(* Steps of a micro-controller *)

Inv == TypeOK /\ TimeoutInv

\* What a step of mcu m may do to the queues and clocks.
McuEffect(m) ==
    /\ host # "idle" /\ now' = now /\ UNCHANGED <<td_can_trigger, tdm, host, start>>
    /\ \A i \in Mcus \ {m} :
          /\ ts'[i] = ts[i] /\ moving'[i] = moving[i] /\ halted'[i] = halted[i]
          /\ toMcu'[i] = toMcu[i] /\ toHost'[i] = toHost[i] /\ trigTime'[i] = trigTime[i]
    /\ endstop' => endstop \/ m = 1
    /\ toMcu'[m] = toMcu[m] \/ (toMcu[m] # <<>> /\ toMcu'[m] = Tail(toMcu[m]))
    /\ \/ toHost'[m] = toHost[m]
       \/ \E msg \in Messages : /\ toHost'[m] = Append(toHost[m], msg) /\ start <= now
                                /\ msg.can => msg.clock = now /\ trigTime[m] = Never
    /\ \/ trigTime'[m] = trigTime[m]
       \/ trigTime[m] = Never /\ trigTime'[m] = now /\ start <= now
    /\ \/ ts'[m].etime = ts[m].etime \/ ts'[m].etime = Never
       \/ /\ NextIs(m, "timeout") /\ toMcu'[m] = Tail(toMcu[m])
          /\ ts'[m].etime = Head(toMcu[m]).x /\ now <= ts'[m].etime
    /\ ts'[m].rtime # Never => start <= ts'[m].rtime
    /\ ts'[m].report => start <= now

\* The invariant, as far as it is about one mcu and the command it handles next.
LEMMA McuFacts ==
    ASSUME Inv, NEW m \in Mcus
    PROVE  /\ now \in Nat \ {0} /\ start \in Nat /\ trigTime[m] \in Nat /\ ts[m] \in Trsyncs
           /\ toMcu[m] \in Seq(Commands) /\ toHost[m] \in Seq(Messages)
           /\ toMcu[m] # <<>> => /\ host # "idle" /\ Head(toMcu[m]) \in Commands
                                 /\ Tail(toMcu[m]) \in Seq(Commands)
                                 /\ Head(toMcu[m]).c \in {"start", "home"} => Head(toMcu[m]).x = start
                                 /\ Head(toMcu[m]).c = "home" => m = 1
                                 /\ Head(toMcu[m]).c = "timeout" => start <= Head(toMcu[m]).x
                                 /\ Head(toMcu[m]).c = "trigger" => start <= now
           /\ host # "idle" => start > 0
           /\ host = "idle" => ts[m] = Cleared /\ ~endstop
           /\ TrsyncOk(m) /\ Ordered(toMcu[m])
           /\ trigTime[m] # Never => start <= trigTime[m]
           /\ ts[m].etime # Never => start <= ts[m].etime /\ now <= ts[m].etime
           /\ ts[m].rtime # Never => start <= ts[m].rtime
           /\ ts[m].report => start <= now
<1>1. /\ now \in Nat /\ start \in Nat /\ trigTime[m] \in Nat /\ ts[m] \in Trsyncs
      /\ toMcu[m] \in Seq(Commands) /\ toHost[m] \in Seq(Messages)
  BY DEF Inv, TypeOK
<1>2. now > 0 /\ (host # "idle" => start > 0)
      /\ (host = "idle" => ts[m] = Cleared /\ ~endstop /\ toMcu[m] = <<>>)
  BY DEF Inv, TimeoutInv, IdleInv
<1>3. TrsyncOk(m) /\ Ordered(toMcu[m])
  BY DEF Inv, TimeoutInv, TrsyncInv, QueueInv
<1>4. /\ trigTime[m] # Never => start <= trigTime[m]
      /\ ts[m].etime # Never => start <= ts[m].etime /\ now <= ts[m].etime
      /\ ts[m].rtime # Never => start <= ts[m].rtime
      /\ ts[m].report => start <= now
  BY DEF Inv, TimeoutInv, ClockInv
<1>5. ASSUME toMcu[m] # <<>>
      PROVE  /\ Head(toMcu[m]) \in Commands /\ Tail(toMcu[m]) \in Seq(Commands)
             /\ Head(toMcu[m]).c \in {"start", "home"} => Head(toMcu[m]).x = start
             /\ Head(toMcu[m]).c = "home" => m = 1
             /\ Head(toMcu[m]).c = "timeout" => start <= Head(toMcu[m]).x
             /\ Head(toMcu[m]).c = "trigger" => start <= now
  <2>1. /\ Head(toMcu[m]) = toMcu[m][1] /\ 1 \in DOMAIN toMcu[m] /\ toMcu[m][1] \in Commands
        /\ Tail(toMcu[m]) \in Seq(Commands)
    BY <1>1, <1>5, TailFacts
  <2> QED BY <2>1 DEF Inv, TimeoutInv, ClockInv
<1> QED BY <1>1, <1>2, <1>3, <1>4, <1>5

\* sched_shutdown, run by a command that adds a timer too late.
LEMMA HaltStep ==
    ASSUME Inv, NEW m \in Mcus, NEW c, Command(m, c), Halt(m), UNCHANGED toHost, start < now
    PROVE  TypeOK' /\ McuEffect(m) /\ TrsyncOk(m)'
<1>1. /\ now \in Nat \ {0} /\ start \in Nat /\ trigTime[m] \in Nat
      /\ toMcu[m] # <<>> /\ host # "idle" /\ Tail(toMcu[m]) \in Seq(Commands)
  BY McuFacts DEF Command
<1>2. Cleared \in Trsyncs
  BY DEF Cleared, Trsyncs, Reasons, NoReason, Never
<1>3. /\ ts'[m] = Cleared /\ ~moving'[m] /\ halted'[m]
      /\ trigTime'[m] = IF trigTime[m] = Never THEN now ELSE trigTime[m]
      /\ toMcu'[m] = Tail(toMcu[m]) /\ toHost' = toHost
      /\ \A i \in Mcus \ {m} :
          /\ ts'[i] = ts[i] /\ moving'[i] = moving[i] /\ halted'[i] = halted[i]
          /\ toMcu'[i] = toMcu[i] /\ trigTime'[i] = trigTime[i]
  BY DEF Command, Halt, Inv, TypeOK
<1>4. TypeOK'
  <2>1. /\ ts' \in [Mcus -> Trsyncs] /\ moving' \in [Mcus -> BOOLEAN]
        /\ halted' \in [Mcus -> BOOLEAN] /\ endstop' \in BOOLEAN
        /\ toMcu' \in [Mcus -> Seq(Commands)] /\ trigTime' \in [Mcus -> Nat]
    BY <1>1, <1>2 DEF Command, Halt, Inv, TypeOK
  <2>2. UNCHANGED <<now, toHost, td_can_trigger, tdm, host, start>>
    BY DEF Command, HostUnchanged
  <2> QED BY <2>1, <2>2 DEF Inv, TypeOK
<1>5. /\ ~ts'[m].can /\ ~ts'[m].report /\ ts'[m].rtime = Never /\ ts'[m].etime = Never
      /\ endstop' => endstop /\ m # 1
      /\ trigTime'[m] # Never
  <2>1. ~ts'[m].can /\ ~ts'[m].report /\ ts'[m].rtime = Never /\ ts'[m].etime = Never
    BY <1>3 DEF Cleared
  <2>2. endstop' => endstop /\ m # 1
    BY Zenon DEF Halt
  <2>3. trigTime'[m] # Never
    BY <1>1, <1>3, Zenon DEF Never
  <2> QED BY <2>1, <2>2, <2>3
<1>6. McuEffect(m)
  <2>1. now' = now /\ UNCHANGED <<td_can_trigger, tdm, host, start>>
    BY DEF Command, HostUnchanged
  <2>2. \/ trigTime'[m] = trigTime[m]
        \/ trigTime[m] = Never /\ trigTime'[m] = now /\ start <= now
    BY <1>1, <1>3, SMTT(30)
  <2> QED BY <1>1, <1>3, <1>5, <2>1, <2>2 DEF McuEffect
<1>7. TrsyncOk(m)'
  BY <1>3, <1>5 DEF TrsyncOk
<1> QED BY <1>4, <1>6, <1>7

\* Any other step of an mcu: t, b and x are what becomes of ts, moving and trigTime.
Plain(m, t, b, x) ==
    /\ t \in Trsyncs /\ b \in BOOLEAN /\ x \in Nat
    /\ host # "idle" /\ now' = now /\ HostUnchanged /\ halted' = halted
    /\ endstop' \in BOOLEAN /\ (endstop' => endstop \/ m = 1)
    /\ ts' = [ts EXCEPT ![m] = t] /\ moving' = [moving EXCEPT ![m] = b]
    /\ trigTime' = [trigTime EXCEPT ![m] = x]
    /\ toMcu' = toMcu \/ (toMcu[m] # <<>> /\ toMcu' = [toMcu EXCEPT ![m] = Tail(@)])
    /\ \/ toHost' = toHost
       \/ \E msg \in Messages : /\ toHost' = [toHost EXCEPT ![m] = Append(@, msg)]
                                /\ start <= now
                                /\ msg.can => msg.clock = now /\ trigTime[m] = Never
    /\ x = trigTime[m] \/ (trigTime[m] = Never /\ x = now /\ start <= now)
    /\ \/ t.etime = ts[m].etime \/ t.etime = Never
       \/ /\ NextIs(m, "timeout") /\ toMcu' = [toMcu EXCEPT ![m] = Tail(@)]
          /\ t.etime = Head(toMcu[m]).x /\ now <= t.etime
    /\ t.rtime # Never => start <= t.rtime
    /\ t.report => start <= now

LEMMA PlainStep ==
    ASSUME Inv, NEW m \in Mcus, NEW t, NEW b, NEW x, Plain(m, t, b, x)
    PROVE  /\ TypeOK' /\ McuEffect(m)
           /\ ts'[m] = t /\ moving'[m] = b /\ trigTime'[m] = x /\ halted'[m] = halted[m]
<1>1. /\ ts'[m] = t /\ moving'[m] = b /\ trigTime'[m] = x /\ halted'[m] = halted[m]
      /\ \A i \in Mcus \ {m} :
          /\ ts'[i] = ts[i] /\ moving'[i] = moving[i] /\ halted'[i] = halted[i]
          /\ trigTime'[i] = trigTime[i]
      /\ ts' \in [Mcus -> Trsyncs] /\ moving' \in [Mcus -> BOOLEAN] /\ trigTime' \in [Mcus -> Nat]
  BY DEF Inv, TypeOK, Plain
<1>2. /\ toMcu' \in [Mcus -> Seq(Commands)]
      /\ \A i \in Mcus \ {m} : toMcu'[i] = toMcu[i]
      /\ toMcu'[m] = toMcu[m] \/ (toMcu[m] # <<>> /\ toMcu'[m] = Tail(toMcu[m]))
      /\ toMcu' = [toMcu EXCEPT ![m] = Tail(@)] => toMcu'[m] = Tail(toMcu[m])
  BY McuFacts, ZenonT(40) DEF Inv, TypeOK, Plain
<1>3. /\ toHost' \in [Mcus -> Seq(Messages)]
      /\ \A i \in Mcus \ {m} : toHost'[i] = toHost[i]
      /\ \/ toHost'[m] = toHost[m]
         \/ \E msg \in Messages : /\ toHost'[m] = Append(toHost[m], msg) /\ start <= now
                                  /\ msg.can => msg.clock = now /\ trigTime[m] = Never
  <2>1. toHost \in [Mcus -> Seq(Messages)]
    BY DEF Inv, TypeOK
  <2>2. CASE toHost' = toHost
    BY <2>1, <2>2
  <2>3. ASSUME NEW msg \in Messages, toHost' = [toHost EXCEPT ![m] = Append(@, msg)], start <= now,
               msg.can => msg.clock = now /\ trigTime[m] = Never
        PROVE  <1>3!1
    <3>1. Append(toHost[m], msg) \in Seq(Messages)
      BY <2>1, AppendFacts
    <3> QED BY <2>1, <2>3, <3>1
  <2> QED BY <2>2, <2>3 DEF Plain
<1>4. TypeOK'
  <2>1. UNCHANGED <<now, td_can_trigger, tdm, host, start, halted>>
    BY SMTT(30) DEF HostUnchanged, Plain
  <2> QED BY <1>1, <1>2, <1>3, <2>1, Zenon DEF Inv, TypeOK, Plain
<1>5. McuEffect(m)
  <2>1. UNCHANGED <<td_can_trigger, tdm, host, start>>
    BY DEF HostUnchanged, Plain
  <2>2. \/ trigTime'[m] = trigTime[m]
        \/ trigTime[m] = Never /\ trigTime'[m] = now /\ start <= now
    BY <1>1, Zenon DEF Plain
  <2>3. \/ ts'[m].etime = ts[m].etime \/ ts'[m].etime = Never
        \/ /\ NextIs(m, "timeout") /\ toMcu'[m] = Tail(toMcu[m])
           /\ ts'[m].etime = Head(toMcu[m]).x /\ now <= ts'[m].etime
    BY <1>1, <1>2, Zenon DEF Plain
  <2>4. (ts'[m].rtime # Never => start <= ts'[m].rtime) /\ (ts'[m].report => start <= now)
    BY <1>1 DEF Plain
  <2> QED BY <1>1, <1>2, <1>3, <2>1, <2>2, <2>3, <2>4, Zenon DEF McuEffect, Plain
<1> QED BY <1>1, <1>4, <1>5, Zenon

\* The functions of trsync.c give trsyncs.
LEMMA TrsyncTypes ==
    ASSUME NEW t \in Trsyncs, NEW r \in Reasons, NEW n \in Nat
    PROVE  /\ Cleared \in Trsyncs /\ Started(n) \in Trsyncs /\ TimeoutSet(t, n) \in Trsyncs
           /\ Triggered(t, r) \in Trsyncs /\ Expired(t) \in Trsyncs
           /\ CommandTriggered(t, r) \in Trsyncs /\ Reported(t) \in Trsyncs
           /\ ReportDue(t, n) \in Trsyncs /\ [t EXCEPT !.signal = TRUE] \in Trsyncs
<1>1. Cleared \in Trsyncs
  BY SMTT(30) DEF Cleared, Trsyncs, Reasons, NoReason, Never
<1>2. Triggered(t, r) \in Trsyncs /\ Triggered(t, REASON_COMMS_TIMEOUT) \in Trsyncs
  <2>1. ASSUME NEW s \in Reasons
        PROVE  [t EXCEPT !.can = FALSE, !.report = TRUE, !.reason = s, !.signal = FALSE] \in Trsyncs
    BY Zenon DEF Trsyncs
  <2>2. REASON_COMMS_TIMEOUT \in Reasons
    BY DEF Reasons, REASON_COMMS_TIMEOUT
  <2> QED BY <2>1, <2>2, Zenon DEF Triggered
<1>3. Started(n) \in Trsyncs
  BY <1>1, Zenon DEF Started, Trsyncs
<1>4. Expired(t) \in Trsyncs /\ CommandTriggered(t, r) \in Trsyncs
  BY <1>2, Zenon DEF Expired, CommandTriggered, Trsyncs, Never
<1>5. TimeoutSet(t, n) \in Trsyncs
  BY DEF TimeoutSet, Trsyncs
<1>6. Reported(t) \in Trsyncs /\ [t EXCEPT !.signal = TRUE] \in Trsyncs
  BY Zenon DEF Reported, Trsyncs
<1>7. ReportDue(t, n) \in Trsyncs
  <2>1. t.rtime + n \in Nat
    BY DEF Trsyncs
  <2> QED BY <2>1, Zenon DEF ReportDue, Trsyncs
<1> QED BY <1>1, <1>2, <1>3, <1>4, <1>5, <1>6, <1>7, Zenon

\* The command that comes next once one is handled.
LEMMA NextTail ==
    ASSUME Inv, NEW m \in Mcus, toMcu[m] # <<>>, toMcu'[m] = Tail(toMcu[m])
    PROVE  /\ ~NextIs(m, "start")'
           /\ NextIs(m, "signal")' => NextIs(m, "start")
           /\ NextIs(m, "signal") => NextIs(m, "timeout")'
<1>1. toMcu[m] \in Seq(Commands) /\ Ordered(toMcu[m])
  BY McuFacts
<1> QED BY <1>1, TailOrdered, Zenon DEF NextIs

LEMMA StartStep ==
    ASSUME Inv, NEW m \in Mcus, CommandStart(m)
    PROVE  TypeOK' /\ McuEffect(m) /\ TrsyncOk(m)'
<1>1. /\ Command(m, "start") /\ toHost' = toHost /\ ~halted[m]
      /\ toMcu[m] # <<>> /\ Head(toMcu[m]).c = "start" /\ NextIs(m, "start")
      /\ toMcu' = [toMcu EXCEPT ![m] = Tail(@)]
      /\ now' = now /\ HostUnchanged
  BY Zenon DEF CommandStart, Command, NextIs
<1>2. /\ now \in Nat /\ start \in Nat /\ trigTime[m] \in Nat /\ ts[m] \in Trsyncs
      /\ host # "idle" /\ Head(toMcu[m]).x = start /\ TrsyncOk(m)
  BY <1>1, McuFacts
<1>3. CASE TooClose(Head(toMcu[m]).x) /\ Halt(m)
  <2>1. start < now
    BY <1>2, <1>3, Zenon DEF TooClose
  <2> QED BY <1>1, <1>3, <2>1, HaltStep
<1>4. CASE ~(TooClose(Head(toMcu[m]).x) /\ Halt(m))
  <2> DEFINE t == Started(start)
  <2>1. /\ ts' = [ts EXCEPT ![m] = t]
        /\ moving' = moving /\ halted' = halted /\ endstop' = endstop /\ trigTime' = trigTime
    BY <1>2, <1>4 DEF CommandStart
  <2>2. t \in Trsyncs /\ t.can /\ t.etime = Never /\ t.rtime = start /\ ~t.report
    <3>1. NoReason \in Reasons
      BY DEF NoReason, Reasons
    <3>2. t \in Trsyncs
      BY <1>2, <3>1, TrsyncTypes, Zenon
    <3> QED BY <3>2 DEF Started, Cleared
  <2>3. moving[m] = FALSE /\ trigTime[m] = Never /\ ~(m = 1 /\ endstop)
    BY <1>1, <1>2 DEF TrsyncOk, Cleared, Inv, TypeOK
  <2>4. /\ moving' = [moving EXCEPT ![m] = FALSE] /\ trigTime' = [trigTime EXCEPT ![m] = trigTime[m]]
        /\ endstop' \in BOOLEAN
    BY <2>1, <2>3 DEF Inv, TypeOK
  <2> HIDE DEF t
  <2>5. /\ TypeOK' /\ McuEffect(m)
        /\ ts'[m] = t /\ moving'[m] = FALSE /\ trigTime'[m] = trigTime[m] /\ halted'[m] = halted[m]
    <3>1. t.rtime # Never => start <= t.rtime
      BY <1>2, <2>2
    <3>2. Plain(m, t, FALSE, trigTime[m])
      BY <1>1, <1>2, <2>1, <2>2, <2>4, <3>1, Zenon DEF Plain
    <3> QED BY <3>2, PlainStep, Zenon
  <2>6. ~NextIs(m, "start")'
    <3>1. toMcu'[m] = Tail(toMcu[m])
      BY <1>1 DEF Inv, TypeOK
    <3> QED BY <1>1, <3>1, NextTail, Zenon
  <2> QED BY <1>1, <2>1, <2>2, <2>3, <2>5, <2>6, Zenon DEF TrsyncOk
<1> QED BY <1>3, <1>4, Zenon

LEMMA SignalStep ==
    ASSUME Inv, NEW m \in Mcus, CommandSignal(m)
    PROVE  TypeOK' /\ McuEffect(m) /\ TrsyncOk(m)'
<1> DEFINE t == [ts[m] EXCEPT !.signal = TRUE]
<1>1. /\ ~halted[m] /\ toMcu[m] # <<>> /\ NextIs(m, "signal")
      /\ toMcu' = [toMcu EXCEPT ![m] = Tail(@)] /\ toHost' = toHost
      /\ now' = now /\ HostUnchanged
      /\ halted' = halted /\ endstop' = endstop /\ trigTime' = trigTime
      /\ moving' = [moving EXCEPT ![m] = TRUE]
  BY DEF CommandSignal, Command, NextIs
<1>2. /\ now \in Nat /\ start \in Nat /\ trigTime[m] \in Nat /\ ts[m] \in Trsyncs
      /\ host # "idle" /\ TrsyncOk(m)
      /\ ts[m].rtime # Never => start <= ts[m].rtime
      /\ ts[m].report => start <= now
  BY <1>1, McuFacts, Zenon
<1>3. t \in Trsyncs /\ t.etime = ts[m].etime /\ t.rtime = ts[m].rtime /\ t.report = ts[m].report
      /\ t.can = ts[m].can /\ t.signal
  BY <1>2, Zenon DEF Trsyncs
<1>4. /\ ts' = [ts EXCEPT ![m] = t] /\ trigTime' = [trigTime EXCEPT ![m] = trigTime[m]]
      /\ endstop' \in BOOLEAN /\ toMcu'[m] = Tail(toMcu[m])
  BY <1>1 DEF CommandSignal, Inv, TypeOK
<1> HIDE DEF t
<1>5. /\ TypeOK' /\ McuEffect(m)
      /\ ts'[m] = t /\ moving'[m] = TRUE /\ trigTime'[m] = trigTime[m] /\ halted'[m] = halted[m]
  <2>1. Plain(m, t, TRUE, trigTime[m])
    BY <1>1, <1>2, <1>3, <1>4, Zenon DEF Plain
  <2> QED BY <2>1, PlainStep, Zenon
<1>6. ts[m].can /\ ts[m].etime = Never /\ trigTime[m] = Never /\ ~(m = 1 /\ endstop)
  BY <1>1, <1>2 DEF TrsyncOk
<1>7. ~NextIs(m, "start")' /\ NextIs(m, "timeout")'
  BY <1>1, <1>4, NextTail, Zenon
<1>8. FirstTimeoutPending(m)' /\ ~NextIs(m, "signal")'
  BY <1>3, <1>5, <1>6, <1>7 DEF FirstTimeoutPending, NextIs
<1> QED BY <1>1, <1>3, <1>5, <1>6, <1>7, <1>8, Zenon DEF TrsyncOk

LEMMA TimeoutStep ==
    ASSUME Inv, NEW m \in Mcus, CommandTimeout(m)
    PROVE  TypeOK' /\ McuEffect(m) /\ TrsyncOk(m)'
<1> DEFINE clock == Head(toMcu[m]).x
           t == TimeoutSet(ts[m], clock)
<1>1. /\ Command(m, "timeout") /\ ~halted[m] /\ toMcu[m] # <<>> /\ Head(toMcu[m]).c = "timeout"
      /\ toMcu' = [toMcu EXCEPT ![m] = Tail(@)] /\ toHost' = toHost
      /\ now' = now /\ HostUnchanged
  BY Zenon DEF CommandTimeout, Command
<1>2. /\ now \in Nat /\ start \in Nat /\ trigTime[m] \in Nat /\ ts[m] \in Trsyncs
      /\ host # "idle" /\ start > 0 /\ TrsyncOk(m)
      /\ Head(toMcu[m]) \in Commands /\ start <= clock
      /\ ts[m].rtime # Never => start <= ts[m].rtime
      /\ ts[m].report => start <= now
  BY <1>1, McuFacts
<1>3. clock \in Nat
  BY <1>1, <1>2, Zenon DEF Commands
<1>4. CASE ts[m].can /\ TooClose(clock) /\ Halt(m)
  <2>1. start < now
    BY <1>2, <1>3, <1>4, SMTT(30) DEF TooClose
  <2> QED BY <1>1, <1>4, <2>1, HaltStep, Zenon
<1>5. CASE ~(ts[m].can /\ TooClose(clock) /\ Halt(m))
  <2>1. /\ ~(ts[m].can /\ TooClose(clock))
        /\ ts' = [ts EXCEPT ![m] = t]
        /\ moving' = moving /\ halted' = halted /\ endstop' = endstop /\ trigTime' = trigTime
    BY <1>5 DEF CommandTimeout
  <2>2. /\ t \in Trsyncs /\ t.rtime = ts[m].rtime /\ t.report = ts[m].report
        /\ t.can = ts[m].can /\ t.signal = ts[m].signal
        /\ t.etime = IF ts[m].can THEN clock ELSE ts[m].etime
    <3>1. NoReason \in Reasons
      BY DEF NoReason, Reasons
    <3>2. t \in Trsyncs
      BY <1>2, <1>3, <3>1, TrsyncTypes, Zenon
    <3> QED BY <1>2, <3>2 DEF TimeoutSet, Trsyncs
  <2>3. /\ moving' = [moving EXCEPT ![m] = moving[m]] /\ moving[m] \in BOOLEAN
        /\ trigTime' = [trigTime EXCEPT ![m] = trigTime[m]]
        /\ endstop' \in BOOLEAN /\ toMcu'[m] = Tail(toMcu[m])
    BY <1>1, <2>1, Zenon DEF Inv, TypeOK
  <2>4. ts[m].can => now <= clock /\ clock # Never
    BY <1>2, <1>3, <2>1 DEF TooClose, Never
  <2>5. NextIs(m, "timeout") /\ ~NextIs(m, "start")
    BY <1>1, Zenon DEF NextIs
  <2> HIDE DEF t
  <2>6. /\ TypeOK' /\ McuEffect(m)
        /\ ts'[m] = t /\ moving'[m] = moving[m] /\ trigTime'[m] = trigTime[m] /\ halted'[m] = halted[m]
    <3>1. \/ t.etime = ts[m].etime
          \/ t.etime = clock /\ now <= t.etime
      BY <2>2, <2>4
    <3> HIDE DEF clock
    <3>2. Plain(m, t, moving[m], trigTime[m])
      BY <1>1, <1>2, <2>1, <2>2, <2>3, <2>5, <3>1, ZenonT(40) DEF Plain, clock
    <3> QED BY <3>2, PlainStep, Zenon
  <2>7. ~NextIs(m, "start")' /\ ~NextIs(m, "signal")'
    BY <1>1, <2>3, <2>5, NextTail, Zenon
  <2>8. (ts[m].can => trigTime[m] = Never) /\ (moving[m] => ts[m].can /\ ts[m].signal)
        /\ (m = 1 /\ endstop => ~halted[m])
    BY <1>2 DEF TrsyncOk
  <2> QED BY <1>1, <2>1, <2>2, <2>4, <2>6, <2>7, <2>8, Zenon DEF TrsyncOk
<1> QED BY <1>4, <1>5, Zenon

LEMMA HomeStep ==
    ASSUME Inv, NEW m \in Mcus, CommandHome(m)
    PROVE  TypeOK' /\ McuEffect(m) /\ TrsyncOk(m)'
<1>1. /\ Command(m, "home") /\ ~halted[m] /\ toMcu[m] # <<>> /\ Head(toMcu[m]).c = "home"
      /\ toMcu' = [toMcu EXCEPT ![m] = Tail(@)] /\ toHost' = toHost
      /\ now' = now /\ HostUnchanged
  BY Zenon DEF CommandHome, Command
<1>2. /\ now \in Nat /\ start \in Nat /\ trigTime[m] \in Nat /\ ts[m] \in Trsyncs
      /\ host # "idle" /\ Head(toMcu[m]).x = start /\ m = 1 /\ TrsyncOk(m)
      /\ ts[m].rtime # Never => start <= ts[m].rtime
      /\ ts[m].report => start <= now
  BY <1>1, McuFacts
<1>3. CASE TooClose(Head(toMcu[m]).x) /\ Halt(m)
  <2>1. start < now
    BY <1>2, <1>3, Zenon DEF TooClose
  <2> QED BY <1>1, <1>3, <2>1, HaltStep
<1>4. CASE ~(TooClose(Head(toMcu[m]).x) /\ Halt(m))
  <2>1. /\ ts' = ts /\ moving' = moving /\ halted' = halted /\ trigTime' = trigTime
        /\ endstop' \in BOOLEAN
    BY <1>4, Zenon DEF CommandHome
  <2>2. /\ ts' = [ts EXCEPT ![m] = ts[m]] /\ trigTime' = [trigTime EXCEPT ![m] = trigTime[m]]
        /\ moving' = [moving EXCEPT ![m] = moving[m]] /\ moving[m] \in BOOLEAN
        /\ toMcu'[m] = Tail(toMcu[m])
    BY <1>1, <2>1 DEF Inv, TypeOK
  <2>3. TypeOK' /\ McuEffect(m)
    <3>1. Plain(m, ts[m], moving[m], trigTime[m])
      BY <1>1, <1>2, <2>1, <2>2, Zenon DEF Plain
    <3> QED BY <3>1, PlainStep
  <2>4. ~NextIs(m, "start")' /\ ~NextIs(m, "signal")' /\ ~FirstTimeoutPending(m)
    BY <1>1, <2>2, NextTail, Zenon DEF NextIs, FirstTimeoutPending
  <2> QED BY <1>1, <1>2, <2>1, <2>3, <2>4 DEF TrsyncOk
<1> QED BY <1>3, <1>4

\* trsync_do_trigger leaves no running stepper behind.
LEMMA BecomesFacts ==
    ASSUME Inv, NEW m \in Mcus, NEW t, Becomes(m, t), start <= now
    PROVE  \E b \in BOOLEAN, x \in Nat :
              /\ ts' = [ts EXCEPT ![m] = t] /\ moving' = [moving EXCEPT ![m] = b]
              /\ trigTime' = [trigTime EXCEPT ![m] = x] /\ halted' = halted
              /\ x = trigTime[m] \/ (trigTime[m] = Never /\ x = now /\ start <= now)
              /\ ts[m].can \/ x = trigTime[m]
              /\ ~b \/ (b = moving[m] /\ ~ts[m].can)
<1> DEFINE b == moving[m] /\ ~Stops(ts[m])
           x == IF ts[m].can THEN now ELSE trigTime[m]
<1>1. /\ ts' = [ts EXCEPT ![m] = t] /\ moving' = [moving EXCEPT ![m] = b]
      /\ trigTime' = [trigTime EXCEPT ![m] = x] /\ halted' = halted
  BY DEF Becomes, Inv, TypeOK
<1>2. now \in Nat /\ trigTime[m] \in Nat /\ TrsyncOk(m) /\ moving[m] \in BOOLEAN
  BY McuFacts, Zenon DEF Inv, TypeOK
<1>3. ts[m].can => trigTime[m] = Never
  BY <1>2, Zenon DEF TrsyncOk
<1>4. ts[m].can => ~b
  BY <1>2 DEF TrsyncOk, Stops
<1>5. b \in BOOLEAN /\ (~b \/ (b = moving[m] /\ ~ts[m].can))
  BY <1>2, <1>4, Zenon DEF Stops
<1>6. x \in Nat /\ (x = trigTime[m] \/ (trigTime[m] = Never /\ x = now /\ start <= now))
      /\ (ts[m].can \/ x = trigTime[m])
  BY <1>2, <1>3, Zenon
<1> HIDE DEF b, x
<1> QED BY <1>1, <1>5, <1>6, Zenon

\* A step in which the trsync triggers, if it has not yet.
LEMMA BecomesStep ==
    ASSUME Inv, NEW m \in Mcus, NEW t \in Trsyncs, Becomes(m, t), start <= now,
           host # "idle", now' = now, HostUnchanged, endstop' \in BOOLEAN, endstop' => endstop,
           toMcu' = toMcu \/ (toMcu[m] # <<>> /\ toMcu' = [toMcu EXCEPT ![m] = Tail(@)]),
           \/ toHost' = toHost
           \/ \E msg \in Messages : /\ toHost' = [toHost EXCEPT ![m] = Append(@, msg)]
                                    /\ start <= now
                                    /\ msg.can => msg.clock = now /\ trigTime[m] = Never,
           t.etime = ts[m].etime \/ t.etime = Never,
           t.rtime # Never => start <= t.rtime,
           ~t.can, ~halted[m], ~NextIs(m, "start")', ~NextIs(m, "signal")'
    PROVE  TypeOK' /\ McuEffect(m) /\ TrsyncOk(m)'
<1>1. PICK b \in BOOLEAN, x \in Nat :
              /\ ts' = [ts EXCEPT ![m] = t] /\ moving' = [moving EXCEPT ![m] = b]
              /\ trigTime' = [trigTime EXCEPT ![m] = x] /\ halted' = halted
              /\ x = trigTime[m] \/ (trigTime[m] = Never /\ x = now /\ start <= now)
              /\ ts[m].can \/ x = trigTime[m]
              /\ ~b \/ (b = moving[m] /\ ~ts[m].can)
  BY BecomesFacts, Zenon
<1>2. /\ TypeOK' /\ McuEffect(m)
      /\ ts'[m] = t /\ moving'[m] = b /\ trigTime'[m] = x /\ halted'[m] = halted[m]
  <2>1. Plain(m, t, b, x)
    BY <1>1, Zenon DEF Plain
  <2> QED BY <2>1, PlainStep, Zenon
<1>3. ~b
  BY <1>1, McuFacts, SMTT(30) DEF TrsyncOk
<1> QED BY <1>2, <1>3 DEF TrsyncOk

LEMMA TriggerStep ==
    ASSUME Inv, NEW m \in Mcus, CommandTrigger(m)
    PROVE  TypeOK' /\ McuEffect(m) /\ TrsyncOk(m)'
<1> DEFINE r == Head(toMcu[m]).x
           t == CommandTriggered(ts[m], r)
<1>1. /\ ~halted[m] /\ toMcu[m] # <<>> /\ Head(toMcu[m]).c = "trigger"
      /\ toMcu' = [toMcu EXCEPT ![m] = Tail(@)]
      /\ now' = now /\ HostUnchanged /\ endstop' = endstop
      /\ Becomes(m, t) /\ Sendf(m, State(FALSE, t.reason, 0))
  BY Zenon DEF CommandTrigger, Command
<1>2. /\ now \in Nat /\ start \in Nat /\ ts[m] \in Trsyncs
      /\ host # "idle" /\ start <= now /\ Head(toMcu[m]) \in Commands
  BY <1>1, McuFacts, ZenonT(40)
<1>3. r \in Reasons
  BY <1>1, <1>2 DEF Commands
<1>4. t \in Trsyncs
  <2>1. 0 \in Nat
    OBVIOUS
  <2> QED BY <1>2, <1>3, <2>1, TrsyncTypes, Zenon
<1>5. ~t.can /\ ~t.report /\ t.rtime = Never /\ t.etime = Never
  <2>1. Triggered(ts[m], r) \in Trsyncs
    BY <1>2, <1>3, TrsyncTypes, ZenonT(40)
  <2> QED BY <2>1 DEF CommandTriggered, Trsyncs
<1>6. \/ toHost' = toHost
      \/ \E msg \in Messages : /\ toHost' = [toHost EXCEPT ![m] = Append(@, msg)]
                               /\ start <= now
                               /\ msg.can => msg.clock = now /\ trigTime[m] = Never
  <2>1. State(FALSE, t.reason, 0) \in Messages /\ ~State(FALSE, t.reason, 0).can
    BY <1>4, Zenon DEF State, Messages, Trsyncs
  <2> QED BY <1>1, <1>2, <2>1, Zenon DEF Sendf
<1>7. endstop' \in BOOLEAN /\ toMcu'[m] = Tail(toMcu[m])
  <2>1. endstop \in BOOLEAN /\ toMcu \in [Mcus -> Seq(Commands)]
    BY Zenon DEF Inv, TypeOK
  <2> QED BY <1>1, <2>1
<1>8. ~NextIs(m, "start")' /\ ~NextIs(m, "signal")'
  <2>1. ~NextIs(m, "start")
    BY <1>1 DEF NextIs
  <2> QED BY <1>1, <1>7, <2>1, NextTail, Zenon
<1> HIDE DEF t, r
<1> QED BY <1>1, <1>2, <1>4, <1>5, <1>6, <1>7, <1>8, BecomesStep, ZenonT(40)

LEMMA ShutdownStep ==
    ASSUME Inv, NEW m \in Mcus, CommandInShutdown(m)
    PROVE  TypeOK' /\ McuEffect(m) /\ TrsyncOk(m)'
<1>1. /\ halted[m] /\ toMcu[m] # <<>>
      /\ toMcu' = [toMcu EXCEPT ![m] = Tail(@)]
      /\ now' = now /\ HostUnchanged /\ endstop' = endstop
      /\ ts' = ts /\ moving' = moving /\ halted' = halted /\ toHost' = toHost /\ trigTime' = trigTime
  BY Zenon DEF CommandInShutdown
<1>2. /\ trigTime[m] \in Nat /\ ts[m] \in Trsyncs /\ host # "idle" /\ TrsyncOk(m)
      /\ ts[m].rtime # Never => start <= ts[m].rtime
      /\ ts[m].report => start <= now
  BY <1>1, McuFacts
<1>3. /\ ts' = [ts EXCEPT ![m] = ts[m]] /\ trigTime' = [trigTime EXCEPT ![m] = trigTime[m]]
      /\ moving' = [moving EXCEPT ![m] = moving[m]] /\ moving[m] \in BOOLEAN /\ endstop' \in BOOLEAN
  BY <1>1 DEF Inv, TypeOK
<1>4. TypeOK' /\ McuEffect(m)
  <2>1. Plain(m, ts[m], moving[m], trigTime[m])
    BY <1>1, <1>2, <1>3, Zenon DEF Plain
  <2> QED BY <2>1, PlainStep
<1>5. TrsyncOk(m)'
  BY <1>1, <1>2, Zenon DEF TrsyncOk, Cleared
<1> QED BY <1>4, <1>5

\* A step that changes nothing of the trsync but its report flag and time.
LEMMA ReportingStep ==
    ASSUME Inv, NEW m \in Mcus, NEW t \in Trsyncs, ts[m] # Cleared,
           ts' = [ts EXCEPT ![m] = t], now' = now, HostUnchanged,
           moving' = moving, halted' = halted, toMcu' = toMcu, endstop' = endstop, trigTime' = trigTime,
           t.can = ts[m].can, t.signal = ts[m].signal, t.etime = ts[m].etime,
           t.rtime # Never => start <= t.rtime, t.report => start <= now,
           \/ toHost' = toHost
           \/ \E msg \in Messages : /\ toHost' = [toHost EXCEPT ![m] = Append(@, msg)]
                                    /\ start <= now
                                    /\ msg.can => msg.clock = now /\ trigTime[m] = Never
    PROVE  TypeOK' /\ McuEffect(m) /\ TrsyncOk(m)'
<1>1. trigTime[m] \in Nat /\ ts[m] \in Trsyncs /\ host # "idle" /\ TrsyncOk(m)
  BY McuFacts
<1>2. /\ trigTime' = [trigTime EXCEPT ![m] = trigTime[m]]
      /\ moving' = [moving EXCEPT ![m] = moving[m]] /\ moving[m] \in BOOLEAN /\ endstop' \in BOOLEAN
  BY SMTT(30) DEF Inv, TypeOK
<1>3. TypeOK' /\ McuEffect(m) /\ ts'[m] = t
  <2>1. Plain(m, t, moving[m], trigTime[m])
    BY <1>1, <1>2, Zenon DEF Plain
  <2> QED BY <2>1, PlainStep, SMTT(30)
<1>4. (\A c : NextIs(m, c)' = NextIs(m, c)) /\ FirstTimeoutPending(m)' = FirstTimeoutPending(m)
  BY <1>3, Zenon DEF NextIs, FirstTimeoutPending
<1>5. TrsyncOk(m)'
  BY <1>1, <1>3, <1>4 DEF TrsyncOk
<1> QED BY <1>3, <1>5, Zenon

LEMMA ReportStep ==
    ASSUME Inv, NEW m \in Mcus, ReportEvent(m)
    PROVE  TypeOK' /\ McuEffect(m) /\ TrsyncOk(m)'
<1> DEFINE t == ReportDue(ts[m], ReportTicks)
<1>1. /\ Due(ts[m].rtime) /\ ts' = [ts EXCEPT ![m] = t] /\ now' = now /\ HostUnchanged
      /\ moving' = moving /\ halted' = halted /\ toMcu' = toMcu /\ endstop' = endstop
      /\ trigTime' = trigTime /\ toHost' = toHost
  BY DEF ReportEvent
<1>2. /\ now \in Nat /\ start \in Nat /\ ts[m] \in Trsyncs /\ ts[m].rtime \in Nat
      /\ ts[m].rtime # Never => start <= ts[m].rtime
  BY McuFacts, Zenon DEF Trsyncs
<1>3. ts[m].rtime # Never /\ start <= now /\ ts[m] # Cleared
  BY <1>1, <1>2 DEF Due, Cleared
<1>4. /\ t.can = ts[m].can /\ t.signal = ts[m].signal /\ t.etime = ts[m].etime
      /\ t.rtime = ts[m].rtime + ReportTicks
  BY <1>2 DEF ReportDue, Trsyncs
<1>5. t \in Trsyncs
  <2>1. NoReason \in Reasons /\ ReportTicks \in Nat
    BY TicksAssumption, SMTT(30) DEF NoReason, Reasons
  <2> QED BY <1>2, <2>1, TrsyncTypes, Zenon
<1>6. start <= t.rtime
  BY <1>2, <1>3, <1>4, TicksAssumption
<1> HIDE DEF t
<1> QED BY <1>1, <1>3, <1>4, <1>5, <1>6, ReportingStep, Zenon

LEMMA TaskStep ==
    ASSUME Inv, NEW m \in Mcus, TrsyncTask(m)
    PROVE  TypeOK' /\ McuEffect(m) /\ TrsyncOk(m)'
<1> DEFINE t == Reported(ts[m])
           msg == State(ts[m].can, ts[m].reason, now)
<1>1. /\ ts[m].report /\ ts' = [ts EXCEPT ![m] = t] /\ now' = now /\ HostUnchanged
      /\ moving' = moving /\ halted' = halted /\ toMcu' = toMcu /\ endstop' = endstop
      /\ trigTime' = trigTime /\ Sendf(m, msg)
  BY DEF TrsyncTask
<1>2. /\ now \in Nat /\ start \in Nat /\ ts[m] \in Trsyncs /\ TrsyncOk(m)
      /\ ts[m].rtime # Never => start <= ts[m].rtime
      /\ ts[m].report => start <= now
  BY McuFacts
<1>3. start <= now /\ ts[m] # Cleared
  BY <1>1, <1>2 DEF Cleared
<1>4. /\ t.can = ts[m].can /\ t.signal = ts[m].signal /\ t.etime = ts[m].etime
      /\ t.rtime = ts[m].rtime /\ ~t.report
  BY <1>2 DEF Reported, Trsyncs
<1>5. t \in Trsyncs
  <2>1. NoReason \in Reasons /\ 0 \in Nat
    BY SMTT(30) DEF NoReason, Reasons
  <2> QED BY <1>2, <2>1, TrsyncTypes, Zenon
<1>6. \/ toHost' = toHost
      \/ \E s \in Messages : /\ toHost' = [toHost EXCEPT ![m] = Append(@, s)]
                             /\ start <= now
                             /\ s.can => s.clock = now /\ trigTime[m] = Never
  <2>1. msg \in Messages /\ msg.can = ts[m].can /\ msg.clock = now
    BY <1>2, Zenon DEF State, Messages, Trsyncs
  <2>2. ts[m].can => trigTime[m] = Never
    BY <1>2, SMTT(30) DEF TrsyncOk
  <2> HIDE DEF msg
  <2> QED BY <1>1, <1>3, <2>1, <2>2, Zenon DEF Sendf
<1> HIDE DEF t
<1> QED BY <1>1, <1>2, <1>3, <1>4, <1>5, <1>6, ReportingStep, Zenon

LEMMA ExpireStep ==
    ASSUME Inv, NEW m \in Mcus, ExpireEvent(m)
    PROVE  TypeOK' /\ McuEffect(m) /\ TrsyncOk(m)'
<1> DEFINE t == Expired(ts[m])
<1>1. /\ Due(ts[m].etime) /\ Becomes(m, t) /\ now' = now /\ HostUnchanged
      /\ toMcu' = toMcu /\ endstop' = endstop /\ toHost' = toHost
  BY Zenon DEF ExpireEvent
<1>2. /\ now \in Nat /\ start \in Nat /\ ts[m] \in Trsyncs /\ TrsyncOk(m) /\ ts[m].etime \in Nat
      /\ ts[m].etime # Never => start <= ts[m].etime
      /\ ts[m].rtime # Never => start <= ts[m].rtime
      /\ host = "idle" => ts[m] = Cleared
  BY McuFacts, Zenon DEF Trsyncs
<1>3. ts[m].etime # Never /\ start <= now /\ ts[m] # Cleared /\ host # "idle"
  BY <1>1, <1>2 DEF Due, Cleared
<1>4. ~t.can /\ t.etime = Never /\ t.rtime = ts[m].rtime /\ t \in Trsyncs
  <2>1. NoReason \in Reasons /\ 0 \in Nat
    BY DEF NoReason, Reasons
  <2>2. t \in Trsyncs
    BY <1>2, <2>1, TrsyncTypes, Zenon
  <2> QED BY <1>2, <2>2 DEF Expired, Triggered, Trsyncs
<1>5. ~halted[m] /\ ~NextIs(m, "start") /\ ~NextIs(m, "signal")
  BY <1>2, <1>3, Zenon DEF TrsyncOk
<1>6. ~NextIs(m, "start")' /\ ~NextIs(m, "signal")' /\ endstop' \in BOOLEAN
  BY <1>1, <1>5, SMTT(30) DEF NextIs, Inv, TypeOK
<1> HIDE DEF t
<1> QED BY <1>1, <1>2, <1>3, <1>4, <1>5, <1>6, BecomesStep, Zenon

LEMMA EndstopStep ==
    ASSUME Inv, NEW m \in Mcus, EndstopHit(m)
    PROVE  TypeOK' /\ McuEffect(m) /\ TrsyncOk(m)'
<1> DEFINE t == Triggered(ts[m], REASON_ENDSTOP_HIT)
<1>1. /\ m = 1 /\ endstop /\ start <= now /\ endstop' = FALSE
      /\ Becomes(m, t) /\ now' = now /\ HostUnchanged /\ toMcu' = toMcu /\ toHost' = toHost
  BY Zenon DEF EndstopHit
<1>2. /\ ts[m] \in Trsyncs /\ TrsyncOk(m)
      /\ ts[m].rtime # Never => start <= ts[m].rtime
      /\ host = "idle" => ~endstop
  BY McuFacts, Zenon
<1>3. ~halted[m] /\ ~NextIs(m, "start") /\ ~NextIs(m, "signal") /\ host # "idle"
  BY <1>1, <1>2 DEF TrsyncOk
<1>4. ~t.can /\ t.etime = ts[m].etime /\ t.rtime = ts[m].rtime /\ t \in Trsyncs
  <2>1. REASON_ENDSTOP_HIT \in Reasons /\ 0 \in Nat
    BY DEF REASON_ENDSTOP_HIT, Reasons
  <2>2. t \in Trsyncs
    BY <1>2, <2>1, TrsyncTypes, Zenon
  <2> QED BY <1>2, <2>2 DEF Triggered, Trsyncs
<1>5. ~NextIs(m, "start")' /\ ~NextIs(m, "signal")' /\ endstop' \in BOOLEAN
  BY <1>1, <1>3, Zenon DEF NextIs
<1> HIDE DEF t
<1> QED BY <1>1, <1>2, <1>3, <1>4, <1>5, BecomesStep, Zenon

\* Every step of a micro-controller.
LEMMA McuStep ==
    ASSUME Inv, NEW m \in Mcus, Mcu(m)
    PROVE  TypeOK' /\ McuEffect(m) /\ TrsyncOk(m)'
BY StartStep, SignalStep, TimeoutStep, HomeStep, TriggerStep, ShutdownStep, ReportStep,
   ExpireStep, EndstopStep, TaskStep, Zenon DEF Mcu

-----------------------------------------------------------------------------
(* The rest of the invariant after a step of a micro-controller *)

LEMMA McuQueues ==
    ASSUME Inv, NEW m \in Mcus, McuEffect(m), TrsyncOk(m)'
    PROVE  IdleInv' /\ QueueInv' /\ TrsyncInv'
<1>1. IdleInv'
  BY McuFacts, ZenonT(40) DEF McuEffect, Inv, TimeoutInv, IdleInv
<1>2. ASSUME NEW i \in Mcus PROVE Ordered(toMcu'[i])
  <2>1. toMcu[i] \in Seq(Commands) /\ Ordered(toMcu[i])
    BY McuFacts, SMTT(30)
  <2>2. toMcu'[i] = toMcu[i] \/ (toMcu[i] # <<>> /\ toMcu'[i] = Tail(toMcu[i]))
    BY Zenon DEF McuEffect
  <2>3. CASE toMcu'[i] = toMcu[i]
    BY <2>1, <2>3, Zenon
  <2>4. CASE toMcu[i] # <<>> /\ toMcu'[i] = Tail(toMcu[i])
    BY <2>1, <2>4, TailOrdered, Zenon
  <2> QED BY <2>2, <2>3, <2>4, Zenon
<1>3. ASSUME NEW i \in Mcus \ {m} PROVE TrsyncOk(i)'
  <2>1. /\ ts'[i] = ts[i] /\ moving'[i] = moving[i] /\ halted'[i] = halted[i]
        /\ toMcu'[i] = toMcu[i] /\ trigTime'[i] = trigTime[i]
        /\ i = 1 /\ endstop' => endstop
    BY ZenonT(40) DEF McuEffect
  <2>2. (\A c : NextIs(i, c)' = NextIs(i, c)) /\ FirstTimeoutPending(i)' = FirstTimeoutPending(i)
    BY <2>1, Zenon DEF NextIs, FirstTimeoutPending
  <2>3. TrsyncOk(i)
    BY McuFacts, Zenon
  <2> QED BY <2>1, <2>2, <2>3, ZenonT(40) DEF TrsyncOk
<1> QED BY <1>1, <1>2, <1>3, Zenon DEF QueueInv, TrsyncInv

\* The commands of a queue after the step are among those before it, in their order.
LEMMA McuCommands ==
    ASSUME Inv, NEW m \in Mcus, McuEffect(m), NEW i \in Mcus
    PROVE  \E n \in {0, 1} :
              \A k \in DOMAIN toMcu'[i] : k + n \in DOMAIN toMcu[i] /\ toMcu'[i][k] = toMcu[i][k + n]
<1>1. toMcu[i] \in Seq(Commands)
  BY McuFacts, SMTT(30)
<1>2. toMcu'[i] = toMcu[i] \/ (toMcu[i] # <<>> /\ toMcu'[i] = Tail(toMcu[i]))
  BY Zenon DEF McuEffect
<1>3. CASE toMcu'[i] = toMcu[i]
  <2>1. \A k \in DOMAIN toMcu'[i] : k + 0 \in DOMAIN toMcu[i] /\ toMcu'[i][k] = toMcu[i][k + 0]
    BY <1>1, <1>3, SMTT(30)
  <2> QED BY <2>1
<1>4. CASE toMcu[i] # <<>> /\ toMcu'[i] = Tail(toMcu[i])
  <2>1. \A k \in DOMAIN toMcu'[i] : k + 1 \in DOMAIN toMcu[i] /\ toMcu'[i][k] = toMcu[i][k + 1]
    BY <1>1, <1>4, TailFacts, ZenonT(40)
  <2> QED BY <2>1, Zenon
<1> QED BY <1>2, <1>3, <1>4, Zenon

LEMMA McuClocks ==
    ASSUME Inv, NEW m \in Mcus, McuEffect(m), TypeOK'
    PROVE  ClockInv'
<1>1. SUFFICES ASSUME NEW i \in Mcus
               PROVE  /\ trigTime'[i] # Never => start <= trigTime'[i]
                      /\ ts'[i].etime # Never => start <= ts'[i].etime /\ now <= ts'[i].etime
                      /\ ts'[i].rtime # Never => start <= ts'[i].rtime
                      /\ ts'[i].report \/ toHost'[i] # <<>> => start <= now
                      /\ start <= tdm[i].status /\ start <= tdm[i].expire
                      /\ \A k \in DOMAIN toMcu'[i] :
                            LET q == toMcu'[i][k] IN
                            /\ q.c \in {"start", "home"} => q.x = start
                            /\ q.c = "home" => i = 1
                            /\ q.c = "timeout" => start <= q.x
                            /\ q.c = "trigger" => start <= now
  BY ZenonT(40) DEF ClockInv, McuEffect
<1>2. /\ trigTime[i] # Never => start <= trigTime[i]
      /\ ts[i].etime # Never => start <= ts[i].etime /\ now <= ts[i].etime
      /\ ts[i].rtime # Never => start <= ts[i].rtime
      /\ ts[i].report \/ toHost[i] # <<>> => start <= now
      /\ start <= tdm[i].status /\ start <= tdm[i].expire
      /\ \A k \in DOMAIN toMcu[i] :
            LET q == toMcu[i][k] IN
            /\ q.c \in {"start", "home"} => q.x = start
            /\ q.c = "home" => i = 1
            /\ q.c = "timeout" => start <= q.x
            /\ q.c = "trigger" => start <= now
  BY Zenon DEF Inv, TimeoutInv, ClockInv
<1>3. \A k \in DOMAIN toMcu'[i] :
            LET q == toMcu'[i][k] IN
            /\ q.c \in {"start", "home"} => q.x = start
            /\ q.c = "home" => i = 1
            /\ q.c = "timeout" => start <= q.x
            /\ q.c = "trigger" => start <= now
  BY <1>2, McuCommands, SMTT(30)
<1>4. CASE i # m
  BY <1>2, <1>3, <1>4, ZenonT(40) DEF McuEffect
<1>5. CASE i = m
  <2>1. trigTime'[i] # Never => start <= trigTime'[i]
    BY <1>2, <1>5, ZenonT(40) DEF McuEffect
  <2>2. ts'[i].etime # Never => start <= ts'[i].etime /\ now <= ts'[i].etime
    <3>1. NextIs(m, "timeout") => start <= Head(toMcu[m]).x
      BY McuFacts, ZenonT(40) DEF NextIs
    <3> QED BY <1>2, <1>5, <3>1, Zenon DEF McuEffect
  <2>3. (ts'[i].rtime # Never => start <= ts'[i].rtime) /\ (ts'[i].report => start <= now)
    BY <1>5, ZenonT(40) DEF McuEffect
  <2>4. toHost'[i] # <<>> => start <= now
    BY <1>2, <1>5, ZenonT(40) DEF McuEffect
  <2> QED BY <1>2, <1>3, <2>1, <2>2, <2>3, <2>4, ZenonT(40)
<1> QED BY <1>4, <1>5, ZenonT(40)

LEMMA McuLimits ==
    ASSUME Inv, NEW m \in Mcus, McuEffect(m), TypeOK'
    PROVE  LimitInv'
<1>1. ASSUME NEW j \in Mcus
      PROVE  Limit(j)' = Limit(j) /\ Limit(j) \in Nat
  <2>1. now \in Nat /\ start \in Nat /\ trigTime[j] \in Nat /\ now' = now /\ start' = start
    BY McuFacts, Zenon DEF McuEffect
  <2>2. CASE trigTime'[j] = trigTime[j]
    BY <2>1, <2>2, Zenon DEF Limit
  <2>3. CASE trigTime[j] = Never /\ trigTime'[j] = now /\ start <= now
    BY <2>1, <2>3, SMTT(30) DEF Limit
  <2> QED BY <2>2, <2>3, SMTT(30) DEF McuEffect
<1>2. ASSUME NEW j \in Mcus, NEW k \in DOMAIN toHost'[j], toHost'[j][k].can
      PROVE  toHost'[j][k].clock <= Limit(j)
  <2>1. \A l \in DOMAIN toHost[j] : toHost[j][l].can => toHost[j][l].clock <= Limit(j)
    BY Zenon DEF Inv, TimeoutInv, LimitInv
  <2>2. CASE toHost'[j] = toHost[j]
    BY <1>2, <2>1, <2>2, Zenon
  <2>3. ASSUME NEW msg \in Messages, j = m, toHost'[j] = Append(toHost[j], msg), start <= now,
               msg.can => msg.clock = now /\ trigTime[m] = Never
        PROVE  toHost'[j][k].clock <= Limit(j)
    <3>1. /\ toHost[j] \in Seq(Messages) /\ now \in Nat /\ start \in Nat
      BY McuFacts, Zenon
    <3>2. /\ Len(toHost[j]) \in Nat /\ DOMAIN toHost[j] = 1..Len(toHost[j])
          /\ DOMAIN toHost'[j] = 1..(Len(toHost[j]) + 1)
          /\ \A l \in DOMAIN toHost[j] : toHost'[j][l] = toHost[j][l]
          /\ toHost'[j][Len(toHost[j]) + 1] = msg
      BY <2>3, <3>1, AppendFacts, SMTT(30)
    <3>3. CASE k \in DOMAIN toHost[j]
      BY <1>2, <2>1, <3>2, <3>3, Zenon
    <3>4. CASE k = Len(toHost[j]) + 1
      <4>1. msg.can /\ toHost'[j][k] = msg
        BY <1>2, <3>2, <3>4, Zenon
      <4>2. Limit(j) = now
        BY <2>3, <3>1, <4>1, SMTT(30) DEF Limit
      <4> QED BY <2>3, <3>1, <4>1, <4>2, SMTT(30)
    <3> QED BY <3>2, <3>3, <3>4, SMTT(30)
  <2> QED BY <2>2, <2>3, ZenonT(40) DEF McuEffect
<1>3. ASSUME NEW j \in Mcus, NEW i \in Mcus \ {j}
      PROVE  /\ ts'[i].etime <= Limit(j) + ExpireTicks
             /\ \A k \in DOMAIN toMcu'[i] :
                   toMcu'[i][k].c = "timeout" => toMcu'[i][k].x <= Limit(j) + ExpireTicks
  <2>1. /\ ts[i].etime <= Limit(j) + ExpireTicks
        /\ \A k \in DOMAIN toMcu[i] :
              toMcu[i][k].c = "timeout" => toMcu[i][k].x <= Limit(j) + ExpireTicks
    BY Zenon DEF Inv, TimeoutInv, LimitInv
  <2>2. \A k \in DOMAIN toMcu'[i] :
              toMcu'[i][k].c = "timeout" => toMcu'[i][k].x <= Limit(j) + ExpireTicks
    BY <2>1, McuCommands, SMTT(30)
  <2>3. \/ ts'[i].etime = ts[i].etime \/ ts'[i].etime = Never
        \/ NextIs(i, "timeout") /\ ts'[i].etime = Head(toMcu[i]).x
    BY Zenon DEF McuEffect
  <2>4. NextIs(i, "timeout") => Head(toMcu[i]).x <= Limit(j) + ExpireTicks
    BY <2>1, McuFacts, TailFacts, Zenon DEF NextIs
  <2>5. Never <= Limit(j) + ExpireTicks
    BY <1>1, TicksAssumption, SMTT(30) DEF Never
  <2> QED BY <2>1, <2>2, <2>3, <2>4, <2>5, Zenon
<1>4. ASSUME NEW j \in Mcus
      PROVE  /\ tdm[j].status <= Limit(j)
             /\ \A i \in Mcus \ {j} : tdm[i].expire <= Limit(j) + ExpireTicks
  BY Zenon DEF Inv, TimeoutInv, LimitInv
<1>5. tdm' = tdm
  BY SMTT(30) DEF McuEffect
<1> QED BY <1>1, <1>2, <1>3, <1>4, <1>5, Zenon DEF LimitInv

LEMMA McuGrows ==
    ASSUME Inv, NEW m \in Mcus, McuEffect(m), TypeOK'
    PROVE  GrowInv'
<1>1. /\ tdm' = tdm /\ now' = now /\ now \in Nat
      /\ \A i \in Mcus : toHost[i] \in Seq(Messages) /\ toMcu[i] \in Seq(Commands)
  BY McuFacts, ZenonT(40) DEF McuEffect
<1>2. ASSUME NEW i \in Mcus
      PROVE  /\ \A k \in DOMAIN toHost[i] : toHost[i][k].can => tdm[i].status <= toHost[i][k].clock
             /\ \A k, l \in DOMAIN toHost[i] : k < l /\ toHost[i][k].can /\ toHost[i][l].can
                                               => toHost[i][k].clock <= toHost[i][l].clock
             /\ \A k \in DOMAIN toHost[i] : toHost[i][k].can => toHost[i][k].clock <= now
  BY ZenonT(40) DEF Inv, TimeoutInv, GrowInv
<1>3. ASSUME NEW i \in Mcus
      PROVE  /\ tdm[i].expire <= NextExpire(tdm, i)
             /\ ts[i].etime <= tdm[i].expire
             /\ \A k \in DOMAIN toMcu[i] :
                   toMcu[i][k].c = "timeout" => /\ ts[i].etime <= toMcu[i][k].x
                                                /\ toMcu[i][k].x <= tdm[i].expire
  BY ZenonT(40) DEF Inv, TimeoutInv, GrowInv
<1>4. ASSUME NEW i \in Mcus
      PROVE  \A k, l \in DOMAIN toMcu[i] :
                   k < l /\ toMcu[i][k].c = "timeout" /\ toMcu[i][l].c = "timeout"
                   => toMcu[i][k].x <= toMcu[i][l].x
  BY ZenonT(40) DEF Inv, TimeoutInv, GrowInv
<1>5. ASSUME NEW i \in Mcus
      PROVE  /\ \A k \in DOMAIN toHost'[i] : toHost'[i][k].can => tdm[i].status <= toHost'[i][k].clock
             /\ \A k, l \in DOMAIN toHost'[i] : k < l /\ toHost'[i][k].can /\ toHost'[i][l].can
                                               => toHost'[i][k].clock <= toHost'[i][l].clock
             /\ \A k \in DOMAIN toHost'[i] : toHost'[i][k].can => toHost'[i][k].clock <= now
  <2>1. CASE toHost'[i] = toHost[i]
    BY <1>2, <2>1, ZenonT(40)
  <2>2. ASSUME NEW msg \in Messages, i = m, toHost'[i] = Append(toHost[i], msg), start <= now,
               msg.can => msg.clock = now /\ trigTime[m] = Never
        PROVE  <1>5!2
    <3>1. /\ Len(toHost[i]) \in Nat /\ DOMAIN toHost[i] = 1..Len(toHost[i])
          /\ DOMAIN toHost'[i] = 1..(Len(toHost[i]) + 1)
          /\ \A l \in DOMAIN toHost[i] : toHost'[i][l] = toHost[i][l]
          /\ toHost'[i][Len(toHost[i]) + 1] = msg
      <4>1. toHost[i] \in Seq(Messages)
        BY <1>1, Zenon
      <4>2. toHost'[i] = Append(toHost[i], msg) /\ msg \in Messages
        BY <2>2, Zenon
      <4> QED BY <4>1, <4>2, AppendedFacts, SMT
    <3>2. msg.can => msg.clock = now /\ tdm[i].status <= now
      <4>1. /\ tdm[i].status <= Limit(i) /\ tdm[i].status \in Nat /\ start \in Nat
        BY McuFacts, ZenonT(40) DEF Inv, TimeoutInv, LimitInv, TypeOK, Statuses
      <4> QED BY <1>1, <2>2, <4>1, SMTT(30) DEF Limit
    <3>3. ASSUME NEW k \in DOMAIN toHost'[i], toHost'[i][k].can
          PROVE  /\ tdm[i].status <= toHost'[i][k].clock /\ toHost'[i][k].clock <= now
                 /\ k \in DOMAIN toHost[i] \/ toHost'[i][k].clock = now
      <4>1. CASE k \in DOMAIN toHost[i]
        BY <1>2, <3>1, <3>3, <4>1, ZenonT(40)
      <4>2. CASE k \notin DOMAIN toHost[i]
        <5>1. toHost'[i][k] = msg
          BY <3>1, <4>2, SMTT(30)
        <5> QED BY <1>1, <3>2, <3>3, <5>1, SMTT(30)
      <4> QED BY <4>1, <4>2, Zenon
    <3>4. ASSUME NEW k \in DOMAIN toHost'[i], NEW l \in DOMAIN toHost'[i],
                 k < l, toHost'[i][k].can, toHost'[i][l].can
          PROVE  toHost'[i][k].clock <= toHost'[i][l].clock
      <4>1. CASE l \in DOMAIN toHost[i]
        BY <1>2, <3>1, <3>4, <4>1, SMTT(30)
      <4>2. CASE l \notin DOMAIN toHost[i]
        BY <3>3, <3>4, <4>2, Zenon
      <4> QED BY <4>1, <4>2, Zenon
    <3> QED BY <3>3, <3>4, Zenon
  <2> QED BY <2>1, <2>2, ZenonT(40) DEF McuEffect
<1>6. ASSUME NEW i \in Mcus
      PROVE  /\ ts'[i].etime <= tdm[i].expire
             /\ \A k \in DOMAIN toMcu'[i] :
                   toMcu'[i][k].c = "timeout" => /\ ts'[i].etime <= toMcu'[i][k].x
                                                 /\ toMcu'[i][k].x <= tdm[i].expire
  <2>1. PICK n \in {0, 1} : \A k \in DOMAIN toMcu'[i] : /\ k + n \in DOMAIN toMcu[i]
                                                        /\ toMcu'[i][k] = toMcu[i][k + n]
    BY McuCommands, Zenon
  <2>2. /\ tdm[i].expire \in Nat /\ start \in Nat /\ start <= tdm[i].expire
        /\ \A k \in DOMAIN toMcu[i] : toMcu[i][k].c = "timeout" => toMcu[i][k].x \in Nat
    <3>1. tdm[i].expire \in Nat /\ start \in Nat
      BY SMTT(30) DEF Inv, TypeOK, Statuses
    <3>2. start <= tdm[i].expire
      BY ZenonT(40) DEF Inv, TimeoutInv, ClockInv
    <3>3. ASSUME NEW k \in DOMAIN toMcu[i], toMcu[i][k].c = "timeout"
          PROVE  toMcu[i][k].x \in Nat
      <4>1. toMcu[i][k] \in Commands
        BY <1>1, SMTT(30)
      <4> QED BY <3>3, <4>1, Zenon DEF Commands
    <3> QED BY <3>1, <3>2, <3>3, Zenon
  <2>3. CASE ts'[i].etime = ts[i].etime
    BY <1>3, <2>1, <2>3, Zenon
  <2>4. CASE ts'[i].etime = Never
    BY <1>3, <2>1, <2>2, <2>4, SMTT(30) DEF Never
  <2>5. CASE /\ NextIs(i, "timeout") /\ toMcu'[i] = Tail(toMcu[i])
             /\ ts'[i].etime = Head(toMcu[i]).x
    <3>1. /\ Head(toMcu[i]) = toMcu[i][1] /\ 1 \in DOMAIN toMcu[i] /\ toMcu[i][1].c = "timeout"
          /\ DOMAIN toMcu[i] = 1..Len(toMcu[i]) /\ Len(toMcu[i]) \in Nat
          /\ \A k \in DOMAIN toMcu'[i] : k + 1 \in DOMAIN toMcu[i] /\ toMcu'[i][k] = toMcu[i][k + 1]
          /\ DOMAIN toMcu'[i] = 1..(Len(toMcu[i]) - 1)
      <4>1. toMcu[i] \in Seq(Commands) /\ toMcu[i] # <<>> /\ Head(toMcu[i]).c = "timeout"
        BY <1>1, <2>5, Zenon DEF NextIs
      <4> QED BY <2>5, <4>1, TailFacts, ZenonT(40)
    <3>2. ASSUME NEW k \in DOMAIN toMcu'[i], toMcu'[i][k].c = "timeout"
          PROVE  ts'[i].etime <= toMcu'[i][k].x /\ toMcu'[i][k].x <= tdm[i].expire
      <4>1. 1 < k + 1 /\ k + 1 \in DOMAIN toMcu[i] /\ toMcu'[i][k] = toMcu[i][k + 1]
        <5>1. k \in 1..(Len(toMcu[i]) - 1) /\ Len(toMcu[i]) \in Nat
          BY <3>1, Zenon
        <5>2. 1 < k + 1
          BY <5>1
        <5> QED BY <3>1, <5>2, Zenon
      <4>2. toMcu[i][k + 1].c = "timeout" /\ ts'[i].etime = toMcu[i][1].x
        BY <2>5, <3>1, <3>2, <4>1, Zenon
      <4>3. toMcu[i][1].x <= toMcu[i][k + 1].x /\ toMcu[i][k + 1].x <= tdm[i].expire
        BY <1>3, <1>4, <3>1, <4>1, <4>2, Zenon
      <4> QED BY <4>1, <4>2, <4>3, Zenon
    <3> QED BY <1>3, <2>5, <3>1, <3>2, ZenonT(40)
  <2> QED BY <2>3, <2>4, <2>5, Zenon DEF McuEffect
<1>7. ASSUME NEW i \in Mcus
      PROVE  \A k, l \in DOMAIN toMcu'[i] :
                   k < l /\ toMcu'[i][k].c = "timeout" /\ toMcu'[i][l].c = "timeout"
                   => toMcu'[i][k].x <= toMcu'[i][l].x
  <2>1. PICK n \in {0, 1} : \A k \in DOMAIN toMcu'[i] : /\ k + n \in DOMAIN toMcu[i]
                                                        /\ toMcu'[i][k] = toMcu[i][k + n]
    BY McuCommands, Zenon
  <2>2. \A k \in DOMAIN toMcu'[i] : k \in Int
    <3>1. toMcu'[i] \in Seq(Commands)
      BY Zenon DEF TypeOK
    <3> QED BY <3>1
  <2>3. ASSUME NEW k \in DOMAIN toMcu'[i], NEW l \in DOMAIN toMcu'[i], k < l,
               toMcu'[i][k].c = "timeout", toMcu'[i][l].c = "timeout"
        PROVE  toMcu'[i][k].x <= toMcu'[i][l].x
    <3>1. /\ k + n \in DOMAIN toMcu[i] /\ toMcu'[i][k] = toMcu[i][k + n]
          /\ l + n \in DOMAIN toMcu[i] /\ toMcu'[i][l] = toMcu[i][l + n]
      BY <2>1, Zenon
    <3>2. k + n < l + n
      BY <2>2, <2>3
    <3> QED BY <1>4, <2>3, <3>1, <3>2, Zenon
  <2> QED BY <2>3, Zenon
<1>8. \A i \in Mcus : NextExpire(tdm, i)' = NextExpire(tdm, i)
  BY <1>1, ZenonT(40) DEF NextExpire, MinMcu, MinStatus
<1> QED BY <1>1, <1>5, <1>6, <1>7, <1>8, <1>3, ZenonT(40) DEF GrowInv

=============================================================================
