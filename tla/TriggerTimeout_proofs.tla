------------------------ MODULE TriggerTimeout_proofs ------------------------
(***************************************************************************)
(* Proofs about TriggerTimeout, second part: every step of the host keeps  *)
(* the invariant, and the theorems, for every number of micro-controllers, *)
(* every timeout and report interval and every bound: once an mcu of the   *)
(* axis has triggered or halted the others stop within ExpireTicks, and a  *)
(* timeout is never shortened.                                             *)
(***************************************************************************)
EXTENDS TriggerTimeout_steps

-----------------------------------------------------------------------------
(* Steps of the host *)

\* A command the host may send to mcu i once the session has started.
Sendable(i, e) ==
    /\ e \in Commands /\ e.c \notin {"start", "signal"}
    /\ e.c = "home" => i = 1 /\ e.x = start
    /\ e.c = "timeout" => start <= e.x /\ tdm[i].expire <= e.x /\ e.x <= tdm'[i].expire
    /\ e.c = "trigger" => start <= now

\* What a step of the host may do to the queues and to its own record of the mcus.
HostEffect ==
    /\ host # "idle" /\ host' # "idle" /\ start' = start
    /\ now' = now /\ ts' = ts /\ moving' = moving /\ halted' = halted /\ endstop' = endstop
    /\ trigTime' = trigTime
    /\ \A i \in Mcus :
          /\ toMcu'[i] = toMcu[i] \/ \E e : Sendable(i, e) /\ toMcu'[i] = Append(toMcu[i], e)
          /\ toHost'[i] = toHost[i] \/ (toHost[i] # <<>> /\ toHost'[i] = Tail(toHost[i]))
          /\ \A k \in DOMAIN toHost'[i] : toHost'[i][k].can => tdm'[i].status <= toHost'[i][k].clock
          /\ tdm[i].status <= tdm'[i].status /\ tdm'[i].status <= Limit(i)
          /\ tdm[i].expire <= tdm'[i].expire /\ tdm'[i].expire <= NextExpire(tdm', i)
          /\ \A j \in Mcus \ {i} : tdm'[i].expire <= Limit(j) + ExpireTicks

LEMMA HostQueues ==
    ASSUME Inv, HostEffect, TypeOK'
    PROVE  IdleInv' /\ QueueInv' /\ TrsyncInv'
<1>1. IdleInv'
  BY Zenon DEF HostEffect, Inv, TimeoutInv, IdleInv
<1>2. ASSUME NEW i \in Mcus
      PROVE  /\ Ordered(toMcu'[i])
             /\ NextIs(i, "start")' => NextIs(i, "start")
             /\ NextIs(i, "signal")' => NextIs(i, "signal")
             /\ FirstTimeoutPending(i) => FirstTimeoutPending(i)'
  <2>1. toMcu[i] \in Seq(Commands) /\ Ordered(toMcu[i]) /\ ts'[i] = ts[i]
    BY McuFacts, Zenon DEF HostEffect
  <2>2. CASE toMcu'[i] = toMcu[i]
    BY <2>1, <2>2, Zenon DEF NextIs, FirstTimeoutPending
  <2>3. ASSUME NEW e, Sendable(i, e), toMcu'[i] = Append(toMcu[i], e)
        PROVE  <1>2!2
    <3>1. e \in Commands /\ e.c \notin {"start", "signal"}
      BY <2>3 DEF Sendable
    <3>2. Ordered(toMcu'[i])
      BY <2>1, <2>3, <3>1, AppendOrdered, Zenon
    <3>3. /\ toMcu'[i] # <<>>
          /\ Head(toMcu'[i]) = IF toMcu[i] = <<>> THEN e ELSE Head(toMcu[i])
      BY <2>1, <2>3, <3>1, AppendFacts, SMTT(30)
    <3> QED BY <2>1, <3>1, <3>2, <3>3, Zenon DEF NextIs, FirstTimeoutPending
  <2> QED BY <2>2, <2>3, ZenonT(40) DEF HostEffect
<1>3. ASSUME NEW i \in Mcus PROVE TrsyncOk(i)'
  <2>1. /\ ts'[i] = ts[i] /\ moving'[i] = moving[i] /\ halted'[i] = halted[i] /\ endstop' = endstop
        /\ trigTime'[i] = trigTime[i]
    BY SMTT(30) DEF HostEffect
  <2>2. TrsyncOk(i)
    BY McuFacts, SMTT(30)
  <2> QED BY <1>2, <2>1, <2>2, ZenonT(40) DEF TrsyncOk
<1> QED BY <1>1, <1>2, <1>3 DEF QueueInv, TrsyncInv

\* The commands of a queue after the step are those before it and the one sent.
LEMMA HostCommands ==
    ASSUME Inv, HostEffect, NEW i \in Mcus
    PROVE  /\ \A k \in DOMAIN toMcu'[i] : \/ k \in DOMAIN toMcu[i] /\ toMcu'[i][k] = toMcu[i][k]
                                          \/ Sendable(i, toMcu'[i][k])
           /\ \A k, l \in DOMAIN toMcu'[i] : k < l => k \in DOMAIN toMcu[i] /\ toMcu'[i][k] = toMcu[i][k]
<1>1. toMcu[i] \in Seq(Commands)
  BY McuFacts
<1>2. CASE toMcu'[i] = toMcu[i]
  BY <1>2, Zenon
<1>3. ASSUME NEW e, Sendable(i, e), toMcu'[i] = Append(toMcu[i], e)
      PROVE  /\ \A k \in DOMAIN toMcu'[i] : \/ k \in DOMAIN toMcu[i] /\ toMcu'[i][k] = toMcu[i][k]
                                            \/ Sendable(i, toMcu'[i][k])
             /\ \A k, l \in DOMAIN toMcu'[i] : k < l => k \in DOMAIN toMcu[i] /\ toMcu'[i][k] = toMcu[i][k]
  <2>1. e \in Commands
    BY <1>3, Zenon DEF Sendable
  <2>2. /\ Len(toMcu[i]) \in Nat /\ DOMAIN toMcu[i] = 1..Len(toMcu[i])
        /\ DOMAIN toMcu'[i] = 1..(Len(toMcu[i]) + 1)
        /\ \A k \in DOMAIN toMcu[i] : toMcu'[i][k] = toMcu[i][k]
        /\ toMcu'[i][Len(toMcu[i]) + 1] = e
    BY <1>1, <1>3, <2>1, AppendFacts, SMTT(30)
  <2> QED BY <1>3, <2>2, SMTT(30)
<1> QED BY <1>2, <1>3, ZenonT(40) DEF HostEffect

LEMMA HostClocks ==
    ASSUME Inv, HostEffect, TypeOK'
    PROVE  ClockInv'
<1>1. SUFFICES ASSUME NEW i \in Mcus
               PROVE  /\ toHost'[i] # <<>> => start <= now
                      /\ start <= tdm'[i].status /\ start <= tdm'[i].expire
                      /\ \A k \in DOMAIN toMcu'[i] :
                            LET q == toMcu'[i][k] IN
                            /\ q.c \in {"start", "home"} => q.x = start
                            /\ q.c = "home" => i = 1
                            /\ q.c = "timeout" => start <= q.x
                            /\ q.c = "trigger" => start <= now
  BY ZenonT(40) DEF ClockInv, HostEffect, Inv, TimeoutInv
<1>2. /\ toHost[i] # <<>> => start <= now
      /\ start <= tdm[i].status /\ start <= tdm[i].expire
      /\ \A k \in DOMAIN toMcu[i] :
            LET q == toMcu[i][k] IN
            /\ q.c \in {"start", "home"} => q.x = start
            /\ q.c = "home" => i = 1
            /\ q.c = "timeout" => start <= q.x
            /\ q.c = "trigger" => start <= now
  BY ZenonT(40) DEF Inv, TimeoutInv, ClockInv
<1>3. \A k \in DOMAIN toMcu'[i] :
            LET q == toMcu'[i][k] IN
            /\ q.c \in {"start", "home"} => q.x = start
            /\ q.c = "home" => i = 1
            /\ q.c = "timeout" => start <= q.x
            /\ q.c = "trigger" => start <= now
  BY <1>2, HostCommands, Zenon DEF Sendable
<1>4. /\ start \in Nat /\ tdm[i].status \in Nat /\ tdm[i].expire \in Nat
      /\ tdm'[i].status \in Nat /\ tdm'[i].expire \in Nat
  BY Zenon DEF Inv, TypeOK, Statuses
<1>5. start <= tdm'[i].status /\ start <= tdm'[i].expire
  BY <1>2, <1>4, SMTT(30) DEF HostEffect
<1>6. toHost'[i] # <<>> => start <= now
  BY <1>2, Zenon DEF HostEffect
<1> QED BY <1>3, <1>5, <1>6, Zenon

\* The reports that wait after the step are among those before it, in their order.
LEMMA HostMessages ==
    ASSUME Inv, HostEffect, NEW i \in Mcus
    PROVE  \E n \in {0, 1} :
              \A k \in DOMAIN toHost'[i] : k + n \in DOMAIN toHost[i] /\ toHost'[i][k] = toHost[i][k + n]
<1>1. toHost[i] \in Seq(Messages)
  BY McuFacts, Zenon
<1>2. toHost'[i] = toHost[i] \/ (toHost[i] # <<>> /\ toHost'[i] = Tail(toHost[i]))
  BY DEF HostEffect
<1>3. CASE toHost'[i] = toHost[i]
  <2>1. \A k \in DOMAIN toHost'[i] : k + 0 \in DOMAIN toHost[i] /\ toHost'[i][k] = toHost[i][k + 0]
    BY <1>1, <1>3, SMTT(30)
  <2> QED BY <2>1, Zenon
<1>4. CASE toHost[i] # <<>> /\ toHost'[i] = Tail(toHost[i])
  <2>1. \A k \in DOMAIN toHost'[i] : k + 1 \in DOMAIN toHost[i] /\ toHost'[i][k] = toHost[i][k + 1]
    BY <1>1, <1>4, TailFacts, ZenonT(40)
  <2> QED BY <2>1, Zenon
<1> QED BY <1>2, <1>3, <1>4, Zenon

LEMMA HostLimits ==
    ASSUME Inv, HostEffect, TypeOK'
    PROVE  LimitInv'
<1>1. ASSUME NEW j \in Mcus
      PROVE  Limit(j)' = Limit(j) /\ Limit(j) \in Nat
  BY McuFacts, Zenon DEF HostEffect, Limit
<1>2. ASSUME NEW j \in Mcus, NEW k \in DOMAIN toHost'[j], toHost'[j][k].can
      PROVE  toHost'[j][k].clock <= Limit(j)
  <2>1. \A l \in DOMAIN toHost[j] : toHost[j][l].can => toHost[j][l].clock <= Limit(j)
    BY SMTT(30) DEF Inv, TimeoutInv, LimitInv
  <2> QED BY <1>2, <2>1, HostMessages, Zenon
<1>3. ASSUME NEW j \in Mcus, NEW i \in Mcus \ {j}
      PROVE  /\ ts'[i].etime <= Limit(j) + ExpireTicks
             /\ \A k \in DOMAIN toMcu'[i] :
                   toMcu'[i][k].c = "timeout" => toMcu'[i][k].x <= Limit(j) + ExpireTicks
  <2>1. /\ ts[i].etime <= Limit(j) + ExpireTicks
        /\ \A k \in DOMAIN toMcu[i] :
              toMcu[i][k].c = "timeout" => toMcu[i][k].x <= Limit(j) + ExpireTicks
    BY SMTT(30) DEF Inv, TimeoutInv, LimitInv
  <2>2. ASSUME NEW k \in DOMAIN toMcu'[i], toMcu'[i][k].c = "timeout"
        PROVE  toMcu'[i][k].x <= Limit(j) + ExpireTicks
    <3>1. CASE k \in DOMAIN toMcu[i] /\ toMcu'[i][k] = toMcu[i][k]
      BY <2>1, <2>2, <3>1, Zenon
    <3>2. CASE Sendable(i, toMcu'[i][k])
      <4>1. toMcu'[i][k].x <= tdm'[i].expire /\ toMcu'[i][k].x \in Nat
        BY <2>2, <3>2, SMTT(30) DEF Sendable, Commands
      <4>2. tdm'[i].expire <= Limit(j) + ExpireTicks /\ tdm'[i].expire \in Nat
        BY ZenonT(40) DEF HostEffect, TypeOK, Statuses
      <4> QED BY <1>1, <4>1, <4>2, TicksAssumption, SMTT(30)
    <3> QED BY <3>1, <3>2, HostCommands, Zenon
  <2>3. ts'[i] = ts[i]
    BY SMTT(30) DEF HostEffect
  <2> QED BY <2>1, <2>2, <2>3, Zenon
<1>4. ASSUME NEW j \in Mcus
      PROVE  /\ tdm'[j].status <= Limit(j)
             /\ \A i \in Mcus \ {j} : tdm'[i].expire <= Limit(j) + ExpireTicks
  BY SMTT(30) DEF HostEffect
<1> QED BY <1>1, <1>2, <1>3, <1>4, ZenonT(40) DEF LimitInv

LEMMA HostGrows ==
    ASSUME Inv, HostEffect, TypeOK'
    PROVE  GrowInv'
<1>1. ASSUME NEW i \in Mcus
      PROVE  /\ ts[i].etime <= tdm[i].expire
             /\ \A k, l \in DOMAIN toHost[i] : k < l /\ toHost[i][k].can /\ toHost[i][l].can
                                               => toHost[i][k].clock <= toHost[i][l].clock
             /\ \A k \in DOMAIN toHost[i] : toHost[i][k].can => toHost[i][k].clock <= now
             /\ \A k \in DOMAIN toMcu[i] :
                   toMcu[i][k].c = "timeout" => /\ ts[i].etime <= toMcu[i][k].x
                                                /\ toMcu[i][k].x <= tdm[i].expire
             /\ \A k, l \in DOMAIN toMcu[i] :
                   k < l /\ toMcu[i][k].c = "timeout" /\ toMcu[i][l].c = "timeout"
                   => toMcu[i][k].x <= toMcu[i][l].x
  BY ZenonT(40) DEF Inv, TimeoutInv, GrowInv
<1>2. now' = now /\ ts' = ts
  BY Zenon DEF HostEffect
<1>3. ASSUME NEW i \in Mcus
      PROVE  /\ \A k, l \in DOMAIN toHost'[i] : k < l /\ toHost'[i][k].can /\ toHost'[i][l].can
                                               => toHost'[i][k].clock <= toHost'[i][l].clock
             /\ \A k \in DOMAIN toHost'[i] : toHost'[i][k].can => toHost'[i][k].clock <= now
  <2>1. PICK n \in {0, 1} : \A k \in DOMAIN toHost'[i] : /\ k + n \in DOMAIN toHost[i]
                                                         /\ toHost'[i][k] = toHost[i][k + n]
    BY HostMessages, Zenon
  <2>2. DOMAIN toHost'[i] \subseteq Int
    BY SMTT(30) DEF TypeOK
  <2> QED BY <1>1, <2>1, <2>2, SMTT(30)
<1>4. ASSUME NEW i \in Mcus
      PROVE  /\ tdm[i].expire \in Nat /\ tdm'[i].expire \in Nat /\ ts[i].etime \in Nat
             /\ \A k \in DOMAIN toMcu'[i] : toMcu'[i][k].c = "timeout" => toMcu'[i][k].x \in Nat
  <2>1. tdm[i].expire \in Nat /\ tdm'[i].expire \in Nat /\ ts[i].etime \in Nat
    BY Zenon DEF Inv, TypeOK, Statuses, Trsyncs
  <2>2. ASSUME NEW k \in DOMAIN toMcu'[i], toMcu'[i][k].c = "timeout"
        PROVE  toMcu'[i][k].x \in Nat
    <3>1. toMcu'[i][k] \in Commands
      BY DEF TypeOK
    <3> QED BY <2>2, <3>1 DEF Commands
  <2> QED BY <2>1, <2>2, Zenon
<1>5. ASSUME NEW i \in Mcus
      PROVE  tdm[i].expire <= tdm'[i].expire /\ tdm'[i].expire <= NextExpire(tdm', i)
             /\ \A k \in DOMAIN toHost'[i] : toHost'[i][k].can => tdm'[i].status <= toHost'[i][k].clock
  BY ZenonT(40) DEF HostEffect
<1>6. ASSUME NEW i \in Mcus, NEW k \in DOMAIN toMcu'[i], toMcu'[i][k].c = "timeout"
      PROVE  /\ ts[i].etime <= toMcu'[i][k].x /\ toMcu'[i][k].x <= tdm'[i].expire
             /\ \/ k \in DOMAIN toMcu[i] /\ toMcu'[i][k] = toMcu[i][k]
                \/ tdm[i].expire <= toMcu'[i][k].x
  <2>1. CASE k \in DOMAIN toMcu[i] /\ toMcu'[i][k] = toMcu[i][k]
    BY <1>1, <1>4, <1>5, <1>6, <2>1, SMTT(30)
  <2>2. CASE Sendable(i, toMcu'[i][k])
    <3>1. tdm[i].expire <= toMcu'[i][k].x /\ toMcu'[i][k].x <= tdm'[i].expire
      BY <1>6, <2>2, ZenonT(40) DEF Sendable
    <3> QED BY <1>1, <1>4, <1>6, <3>1, SMTT(30)
  <2> QED BY <2>1, <2>2, HostCommands, ZenonT(40)
<1>7. ASSUME NEW i \in Mcus, NEW k \in DOMAIN toMcu'[i], NEW l \in DOMAIN toMcu'[i],
             k < l, toMcu'[i][k].c = "timeout", toMcu'[i][l].c = "timeout"
      PROVE  toMcu'[i][k].x <= toMcu'[i][l].x
  <2>1. k \in DOMAIN toMcu[i] /\ toMcu'[i][k] = toMcu[i][k] /\ toMcu[i][k].x <= tdm[i].expire
    BY <1>1, <1>7, HostCommands, Zenon
  <2> QED BY <1>1, <1>4, <1>6, <1>7, <2>1, SMTT(30)
<1>8. ASSUME NEW i \in Mcus PROVE ts[i].etime <= tdm'[i].expire
  BY <1>1, <1>4, <1>5, SMTT(30)
<1>9. \A i \in Mcus : NextExpire(tdm, i)' = NextExpire(tdm', i)
  BY DEF NextExpire, MinMcu, MinStatus
<1> QED BY <1>2, <1>3, <1>5, <1>6, <1>7, <1>8, <1>9, ZenonT(40) DEF GrowInv

LEMMA HostRest ==
    ASSUME Inv, HostEffect, TypeOK'
    PROVE  Inv'
BY HostQueues, HostClocks, HostLimits, HostGrows, Zenon DEF Inv, TimeoutInv

\* What the host keeps when it sends no timeout and handles no report.
LEMMA HostFacts ==
    ASSUME Inv, NEW i \in Mcus
    PROVE  /\ tdm[i].status \in Nat /\ tdm[i].expire \in Nat
           /\ \A k \in DOMAIN toHost[i] : toHost[i][k].can => tdm[i].status <= toHost[i][k].clock
           /\ tdm[i].status <= Limit(i) /\ tdm[i].expire <= NextExpire(tdm, i)
           /\ \A j \in Mcus \ {i} : tdm[i].expire <= Limit(j) + ExpireTicks
           /\ start <= tdm[i].expire
           /\ toHost[i] # <<>> => host # "idle" /\ start <= now
<1>1. tdm[i].status \in Nat /\ tdm[i].expire \in Nat
  BY SMTT(30) DEF Inv, TypeOK, Statuses
<1>2. /\ \A k \in DOMAIN toHost[i] : toHost[i][k].can => tdm[i].status <= toHost[i][k].clock
      /\ tdm[i].expire <= NextExpire(tdm, i)
  BY Zenon DEF Inv, TimeoutInv, GrowInv
<1>3. tdm[i].status <= Limit(i) /\ \A j \in Mcus \ {i} : tdm[i].expire <= Limit(j) + ExpireTicks
  BY Zenon DEF Inv, TimeoutInv, LimitInv
<1>4. start <= tdm[i].expire /\ (toHost[i] # <<>> => start <= now)
  BY SMTT(30) DEF Inv, TimeoutInv, ClockInv
<1>5. toHost[i] # <<>> => host # "idle"
  BY DEF Inv, TimeoutInv, IdleInv
<1> QED BY <1>1, <1>2, <1>3, <1>4, <1>5, Zenon

LEMMA DispatchStep ==
    ASSUME Inv, DispatchStart
    PROVE  Inv'
<1>1. /\ host # "idle" /\ host' = "dispatching" /\ start' = start /\ td_can_trigger' = TRUE
      /\ now' = now /\ ts' = ts /\ moving' = moving /\ halted' = halted /\ endstop' = endstop
      /\ trigTime' = trigTime /\ toMcu' = toMcu /\ toHost' = toHost /\ tdm' = tdm
  BY SMTT(30) DEF DispatchStart, McuUnchanged
<1>2. TypeOK'
  BY <1>1, Zenon DEF Inv, TypeOK
<1>3. HostEffect
  BY <1>1, HostFacts, SMTT(30) DEF HostEffect
<1> QED BY <1>2, <1>3, HostRest, Zenon

LEMMA SendHomeStep ==
    ASSUME Inv, SendHome
    PROVE  Inv'
<1>1. /\ host # "idle" /\ host' = "homing" /\ start' = start /\ td_can_trigger' = td_can_trigger
      /\ now' = now /\ ts' = ts /\ moving' = moving /\ halted' = halted /\ endstop' = endstop
      /\ trigTime' = trigTime /\ toHost' = toHost /\ tdm' = tdm
      /\ toMcu' = [toMcu EXCEPT ![1] = Append(@, Cmd("home", start))]
  BY Zenon DEF SendHome, McuUnchanged
<1>2. Cmd("home", start) \in Commands /\ Cmd("home", start).c = "home" /\ Cmd("home", start).x = start
  BY DEF Cmd, Commands, Inv, TypeOK
<1>3. 1 \in Mcus
  BY NAssumption, SMTT(30) DEF Mcus
<1>4. Append(toMcu[1], Cmd("home", start)) \in Seq(Commands)
  BY <1>2, <1>3, AppendFacts, Zenon DEF Inv, TypeOK
<1>5. TypeOK'
  <2>1. toMcu' \in [Mcus -> Seq(Commands)]
    BY <1>1, <1>3, <1>4, Zenon DEF Inv, TypeOK
  <2> QED BY <1>1, <2>1, Zenon DEF Inv, TypeOK
<1>6. ASSUME NEW i \in Mcus
      PROVE  toMcu'[i] = toMcu[i] \/ \E e : Sendable(i, e) /\ toMcu'[i] = Append(toMcu[i], e)
  <2>1. CASE i # 1
    BY <1>1, <2>1, Zenon DEF Inv, TypeOK
  <2>2. CASE i = 1
    <3>1. Sendable(i, Cmd("home", start))
      BY <1>2, <2>2, SMTT(30) DEF Sendable
    <3>2. toMcu'[i] = Append(toMcu[i], Cmd("home", start))
      BY <1>1, <2>2, Zenon DEF Inv, TypeOK
    <3> QED BY <3>1, <3>2, Zenon
  <2> QED BY <2>1, <2>2, SMTT(30)
<1>7. HostEffect
  BY <1>1, <1>6, HostFacts, SMTT(60) DEF HostEffect
<1> QED BY <1>5, <1>7, HostRest

LEMMA TickStep ==
    ASSUME Inv, Tick
    PROVE  Inv'
<1>1. /\ host # "idle" /\ host' = host /\ start' = start /\ td_can_trigger' = td_can_trigger
      /\ now' = now + 1 /\ ts' = ts /\ moving' = moving /\ halted' = halted /\ endstop' = endstop
      /\ trigTime' = trigTime /\ toHost' = toHost /\ tdm' = tdm /\ toMcu' = toMcu
  BY DEF Tick, HostUnchanged
<1>2. now \in Nat /\ start \in Nat
  BY DEF Inv, TypeOK
<1>3. TypeOK'
  BY <1>1, <1>2 DEF Inv, TypeOK
<1>4. IdleInv' /\ QueueInv' /\ TrsyncInv'
  <2>1. IdleInv' /\ QueueInv'
    BY <1>1, <1>2, SMTT(60) DEF Inv, TimeoutInv, IdleInv, QueueInv
  <2>2. ASSUME NEW i \in Mcus PROVE TrsyncOk(i)'
    <3>1. TrsyncOk(i)
      BY SMTT(30) DEF Inv, TimeoutInv, TrsyncInv
    <3> QED BY <1>1, <3>1, Zenon DEF TrsyncOk, NextIs, FirstTimeoutPending
  <2> QED BY <2>1, <2>2, Zenon DEF TrsyncInv
<1>5. ClockInv'
  <2>1. ASSUME NEW m \in Mcus, ts[m].etime # Never
        PROVE  now + 1 <= ts[m].etime
    <3>1. ts[m].etime \in Nat /\ ~Due(ts[m].etime)
      BY DEF Inv, TypeOK, Trsyncs, Tick
    <3> QED BY <1>2, <2>1, <3>1, SMTT(30) DEF Due
  <2>2. start <= now => start <= now + 1
    BY <1>2, SMTT(30)
  <2> QED BY <1>1, <2>1, <2>2, Zenon DEF ClockInv, Inv, TimeoutInv
<1>6. LimitInv'
  <2>1. ASSUME NEW j \in Mcus
        PROVE  Limit(j) <= Limit(j)' /\ Limit(j) \in Nat /\ Limit(j)' \in Nat
    BY <1>1, <1>2, McuFacts, SMTT(30) DEF Limit
  <2>2. ASSUME NEW j \in Mcus
        PROVE  /\ tdm[j].status <= Limit(j)'
               /\ \A k \in DOMAIN toHost[j] : toHost[j][k].can => toHost[j][k].clock <= Limit(j)'
    <3>1. /\ tdm[j].status <= Limit(j) /\ tdm[j].status \in Nat
          /\ \A k \in DOMAIN toHost[j] : toHost[j][k].can => toHost[j][k].clock <= Limit(j)
      BY SMTT(30) DEF Inv, TimeoutInv, LimitInv, TypeOK, Statuses
    <3>2. \A k \in DOMAIN toHost[j] : toHost[j][k].clock \in Nat
      <4>1. \A k \in DOMAIN toHost[j] : toHost[j][k] \in Messages
        BY DEF Inv, TypeOK
      <4> QED BY <4>1 DEF Messages
    <3> QED BY <2>1, <3>1, <3>2, SMTT(30)
  <2>3. ASSUME NEW j \in Mcus, NEW i \in Mcus \ {j}
        PROVE  /\ tdm[i].expire <= Limit(j)' + ExpireTicks
               /\ ts[i].etime <= Limit(j)' + ExpireTicks
               /\ \A k \in DOMAIN toMcu[i] :
                     toMcu[i][k].c = "timeout" => toMcu[i][k].x <= Limit(j)' + ExpireTicks
    <3>1. /\ tdm[i].expire <= Limit(j) + ExpireTicks
          /\ ts[i].etime <= Limit(j) + ExpireTicks
          /\ \A k \in DOMAIN toMcu[i] :
                toMcu[i][k].c = "timeout" => toMcu[i][k].x <= Limit(j) + ExpireTicks
      BY DEF Inv, TimeoutInv, LimitInv
    <3>2. tdm[i].expire \in Nat /\ ts[i].etime \in Nat /\ ExpireTicks \in Nat
      BY TicksAssumption, Zenon DEF Inv, TypeOK, Statuses, Trsyncs
    <3>3. \A k \in DOMAIN toMcu[i] : toMcu[i][k].x \in Nat
      <4>1. ASSUME NEW k \in DOMAIN toMcu[i] PROVE toMcu[i][k] \in Commands
        BY SMTT(30) DEF Inv, TypeOK
      <4> QED BY <4>1 DEF Commands, Reasons
    <3> QED BY <2>1, <3>1, <3>2, <3>3, SMTT(30)
  <2> QED BY <1>1, <2>2, <2>3, ZenonT(40) DEF LimitInv
<1>7. GrowInv'
  <2>1. ASSUME NEW m \in Mcus, NEW k \in DOMAIN toHost[m], toHost[m][k].can
        PROVE  toHost[m][k].clock <= now + 1
    <3>1. toHost[m][k].clock <= now /\ toHost[m][k].clock \in Nat
      <4>1. toHost[m][k] \in Messages
        BY SMTT(30) DEF Inv, TypeOK
      <4> QED BY <2>1, <4>1, Zenon DEF Inv, TimeoutInv, GrowInv, Messages
    <3> QED BY <1>2, <3>1
  <2>2. \A i \in Mcus : NextExpire(tdm, i)' = NextExpire(tdm, i)
    BY <1>1 DEF NextExpire, MinMcu, MinStatus
  <2> QED BY <1>1, <2>1, <2>2, ZenonT(40) DEF GrowInv, Inv, TimeoutInv
<1> QED BY <1>3, <1>4, <1>5, <1>6, <1>7, ZenonT(40) DEF Inv, TimeoutInv

LEMMA HomeStartStep ==
    ASSUME Inv, HomeStart
    PROVE  Inv'
<1> DEFINE q == <<Cmd("start", start'), Cmd("signal", 0), Cmd("timeout", start' + ExpireTicks)>>
<1>1. /\ host = "idle" /\ host' = "started" /\ start' = now + 1 /\ td_can_trigger' = td_can_trigger
      /\ tdm' = [m \in Mcus |-> [status |-> start', expire |-> start' + ExpireTicks]]
      /\ toMcu' = [m \in Mcus |-> q]
      /\ now' = now /\ ts' = ts /\ moving' = moving /\ halted' = halted /\ endstop' = endstop
      /\ trigTime' = trigTime /\ toHost' = toHost
  BY Zenon DEF HomeStart, McuUnchanged
<1>2. /\ now \in Nat /\ now > 0 /\ start' \in Nat /\ start' > 0 /\ ExpireTicks \in Nat /\ now < start'
      /\ start' + ExpireTicks \in Nat /\ start' <= start' + ExpireTicks
  BY <1>1, TicksAssumption, SMTT(30) DEF Inv, TypeOK, TimeoutInv, IdleInv
<1>3. ASSUME NEW m \in Mcus
      PROVE  /\ ts[m] = Cleared /\ ~moving[m] /\ ~halted[m] /\ ~endstop
             /\ toHost[m] = <<>> /\ trigTime[m] = Never
  BY <1>1, ZenonT(40) DEF Inv, TimeoutInv, IdleInv
<1>4. /\ q \in Seq(Commands) /\ DOMAIN q = {1, 2, 3} /\ Len(q) = 3 /\ q # <<>> /\ Head(q) = q[1]
      /\ q[1].c = "start" /\ q[2].c = "signal" /\ q[3].c = "timeout"
      /\ q[1].x = start' /\ q[3].x = start' + ExpireTicks
  <2>1. /\ Cmd("start", start') \in Commands /\ Cmd("signal", 0) \in Commands
        /\ Cmd("timeout", start' + ExpireTicks) \in Commands
    BY <1>2, ZenonT(40) DEF Cmd, Commands
  <2>2. /\ Cmd("start", start').c = "start" /\ Cmd("start", start').x = start'
        /\ Cmd("signal", 0).c = "signal"
        /\ Cmd("timeout", start' + ExpireTicks).c = "timeout"
        /\ Cmd("timeout", start' + ExpireTicks).x = start' + ExpireTicks
    BY DEF Cmd
  <2>3. q \in Seq(Commands) /\ Len(q) = 3 /\ DOMAIN q = 1..3
    BY <2>1
  <2>4. q # <<>> /\ Head(q) = q[1]
    BY <2>3, SMTT(30)
  <2> QED BY <2>2, <2>3, <2>4, SMTT(30)
<1> HIDE DEF q
<1>5. tdm' \in Statuses /\ \A m \in Mcus : /\ tdm'[m].status = start'
                                           /\ tdm'[m].expire = start' + ExpireTicks
  BY <1>1, <1>2, Zenon DEF Statuses
<1>6. TypeOK'
  BY <1>1, <1>2, <1>4, <1>5, ZenonT(40) DEF Inv, TypeOK
<1>7. IdleInv'
  BY <1>1, <1>2, Zenon DEF IdleInv
<1>8. QueueInv'
  <2>1. Ordered(q)
    BY <1>4 DEF Ordered
  <2> QED BY <1>1, <2>1, Zenon DEF QueueInv
<1>9. TrsyncInv'
  <2>1. ASSUME NEW m \in Mcus PROVE TrsyncOk(m)'
    <3>1. toMcu'[m] = q
      BY <1>1, SMTT(30)
    <3> QED BY <1>1, <1>3, <1>4, <3>1, ZenonT(40) DEF TrsyncOk, NextIs, Cleared
  <2> QED BY <2>1, SMTT(30) DEF TrsyncInv
<1>10. ClockInv'
  <2>1. ASSUME NEW m \in Mcus
        PROVE  /\ trigTime[m] = Never /\ ts[m].etime = Never /\ ts[m].rtime = Never
               /\ ~ts[m].report /\ toHost[m] = <<>>
    BY <1>3, SMTT(30) DEF Cleared
  <2>2. \A k \in DOMAIN q : /\ q[k].c \in {"start", "home"} => q[k].x = start'
                            /\ q[k].c # "home" /\ q[k].c # "trigger"
                            /\ q[k].c = "timeout" => start' <= q[k].x
    BY <1>2, <1>4, Zenon
  <2>3. \A m \in Mcus : toMcu'[m] = q
    BY <1>1
  <2>4. \A m \in Mcus : start' <= tdm'[m].status /\ start' <= tdm'[m].expire
    BY <1>2, <1>5, SMTT(30)
  <2> QED BY <1>1, <2>1, <2>2, <2>3, <2>4, ZenonT(40) DEF ClockInv
<1>11. LimitInv'
  <2>1. ASSUME NEW j \in Mcus PROVE Limit(j)' = start'
    BY <1>1, <1>2, <1>3, Zenon DEF Limit
  <2>2. ASSUME NEW j \in Mcus
        PROVE  ts'[j].etime <= start' + ExpireTicks /\ toHost'[j] = <<>> /\ toMcu'[j] = q
    BY <1>1, <1>2, <1>3 DEF Cleared, Never
  <2>3. \A x \in Nat : x <= x
    OBVIOUS
  <2>4. \A k \in DOMAIN q : q[k].c = "timeout" => q[k].x = start' + ExpireTicks
    BY <1>4, Zenon
  <2> QED BY <1>2, <1>5, <2>1, <2>2, <2>3, <2>4, SMTT(30) DEF LimitInv
<1>12. GrowInv'
  <2>1. ASSUME NEW m \in Mcus PROVE NextExpire(tdm', m) = start' + ExpireTicks
    <3>1. PICK j \in Others(m) : NextExpire(tdm', m) = ExpireTicks + tdm'[j].status
      BY <1>5, NextExpireFacts, Zenon
    <3>2. j \in Mcus
      BY DEF Others
    <3> QED BY <1>2, <1>5, <3>1, <3>2, SMTT(30)
  <2>2. ASSUME NEW m \in Mcus PROVE NextExpire(tdm, m)' = start' + ExpireTicks
    <3>1. NextExpire(tdm, m)' = NextExpire(tdm', m)
      BY Zenon DEF NextExpire, MinMcu, MinStatus
    <3> QED BY <2>1, <3>1, Zenon
  <2>3. ASSUME NEW j \in Mcus
        PROVE  ts'[j].etime <= start' + ExpireTicks /\ toHost'[j] = <<>> /\ toMcu'[j] = q
    BY <1>1, <1>2, <1>3 DEF Cleared, Never
  <2>4. \A x \in Nat : x <= x
    OBVIOUS
  <2>5. \A k \in DOMAIN q : q[k].c = "timeout" => q[k].x = start' + ExpireTicks
    BY <1>4
  <2>6. DOMAIN <<>> = {}
    OBVIOUS
  <2> QED BY <1>2, <1>5, <2>2, <2>3, <2>4, <2>5, <2>6, ZenonT(40) DEF GrowInv
<1> QED BY <1>6, <1>7, <1>8, <1>9, <1>10, <1>11, <1>12, Zenon DEF Inv, TimeoutInv

\* The host records the clock of a report of mcu m and extends timeouts.
LEMMA ExtendStep ==
    ASSUME Inv, NEW m \in Mcus, toHost[m] # <<>>, Head(toHost[m]).can,
           toHost' = [toHost EXCEPT ![m] = Tail(@)],
           ExtendTimeouts([tdm EXCEPT ![m].status = Head(toHost[m]).clock]),
           host' = host, start' = start, McuUnchanged
    PROVE  Inv'
<1> DEFINE msg == Head(toHost[m])
           d == [tdm EXCEPT ![m].status = msg.clock]
           E(i) == NextExpire(d, i)
<1>1. /\ now' = now /\ ts' = ts /\ moving' = moving /\ halted' = halted /\ endstop' = endstop
      /\ trigTime' = trigTime
  BY DEF McuUnchanged
<1>2. /\ toHost[m] \in Seq(Messages) /\ msg = toHost[m][1] /\ 1 \in DOMAIN toHost[m] /\ msg \in Messages
      /\ Tail(toHost[m]) \in Seq(Messages)
      /\ \A k \in DOMAIN Tail(toHost[m]) : /\ k + 1 \in DOMAIN toHost[m] /\ 1 < k + 1
                                           /\ Tail(toHost[m])[k] = toHost[m][k + 1]
  <2>1. toHost[m] \in Seq(Messages)
    BY DEF Inv, TypeOK
  <2>2. /\ msg = toHost[m][1] /\ 1 \in DOMAIN toHost[m] /\ msg \in Messages
        /\ Tail(toHost[m]) \in Seq(Messages) /\ DOMAIN Tail(toHost[m]) = 1..(Len(toHost[m]) - 1)
        /\ \A k \in DOMAIN Tail(toHost[m]) : /\ k + 1 \in DOMAIN toHost[m]
                                             /\ Tail(toHost[m])[k] = toHost[m][k + 1]
    BY <2>1, TailFacts
  <2>3. Len(toHost[m]) \in Nat
    BY <2>1
  <2>4. \A k \in DOMAIN Tail(toHost[m]) : 1 < k + 1
    BY <2>2, <2>3, SMTT(30)
  <2> QED BY <2>1, <2>2, <2>4, Zenon
<1>3. msg.clock \in Nat /\ msg.can
  BY <1>2, Zenon DEF Messages
<1>4. /\ d \in Statuses /\ d[m].status = msg.clock
      /\ \A i \in Mcus : /\ i # m => d[i].status = tdm[i].status
                         /\ d[i].expire = tdm[i].expire /\ d[i].status \in Nat
  BY <1>3, ZenonT(40) DEF Inv, TypeOK, Statuses
<1>5. /\ tdm[m].status <= msg.clock /\ msg.clock <= Limit(m)
      /\ \A k \in DOMAIN toHost[m] : 1 < k /\ toHost[m][k].can => msg.clock <= toHost[m][k].clock
  <2>1. tdm[m].status <= msg.clock
    BY <1>2, <1>3, HostFacts
  <2>2. msg.clock <= Limit(m)
    BY <1>2, <1>3, Zenon DEF Inv, TimeoutInv, LimitInv
  <2>3. \A k \in DOMAIN toHost[m] : 1 < k /\ toHost[m][k].can => msg.clock <= toHost[m][k].clock
    BY <1>2, <1>3, Zenon DEF Inv, TimeoutInv, GrowInv
  <2> QED BY <2>1, <2>2, <2>3
<1>6. /\ td_can_trigger' = td_can_trigger
      /\ tdm' = [i \in Mcus |-> [status |-> d[i].status,
                                 expire |-> IF i \in Extended(d) THEN E(i) ELSE d[i].expire]]
      /\ toMcu' = [i \in Mcus |-> IF i \in Extended(d) THEN Append(toMcu[i], Cmd("timeout", E(i)))
                                  ELSE toMcu[i]]
  BY DEF ExtendTimeouts
<1>7. toHost' \in [Mcus -> Seq(Messages)] /\ \A i \in Mcus : toHost'[i] = IF i = m THEN Tail(toHost[i]) ELSE toHost[i]
  BY <1>2, Zenon DEF Inv, TypeOK
<1> HIDE DEF d
<1>8. ASSUME NEW i \in Mcus
      PROVE  /\ E(i) \in Nat /\ tdm[i].status \in Nat /\ tdm[i].expire \in Nat
             /\ tdm[i].status <= d[i].status /\ tdm[i].expire <= E(i) /\ start <= E(i)
             /\ d[i].status <= Limit(i)
             /\ \A j \in Mcus \ {i} : E(i) <= Limit(j) + ExpireTicks
  <2>1. \A j \in Mcus : /\ tdm[j].status <= d[j].status /\ d[j].status <= Limit(j)
                        /\ Limit(j) \in Nat /\ d[j].status \in Nat
    <3>1. ASSUME NEW j \in Mcus PROVE Limit(j) \in Nat
      BY DEF Limit, Inv, TypeOK
    <3>2. ASSUME NEW j \in Mcus
          PROVE tdm[j].status \in Nat /\ tdm[j].status <= tdm[j].status /\ tdm[j].status <= Limit(j)
      BY HostFacts
    <3> QED BY <1>4, <1>5, <3>1, <3>2, Zenon
  <2>2. tdm \in Statuses
    BY DEF Inv, TypeOK
  <2>3. NextExpire(tdm, i) <= E(i) /\ NextExpire(tdm, i) \in Nat /\ E(i) \in Nat
    BY <1>4, <2>1, <2>2, NextExpireGrows, NextExpireFacts, Zenon
  <2>4. /\ tdm[i].expire \in Nat /\ tdm[i].status \in Nat /\ tdm[i].expire <= NextExpire(tdm, i)
        /\ start <= tdm[i].expire /\ start \in Nat
    BY HostFacts, Zenon DEF Inv, TypeOK
  <2>5. ASSUME NEW j \in Mcus \ {i} PROVE E(i) <= Limit(j) + ExpireTicks
    <3>1. E(i) <= ExpireTicks + d[j].status
      <4>1. j \in Others(i)
        BY DEF Others
      <4> QED BY <1>4, <4>1, NextExpireFacts, Zenon
    <3>2. d[j].status <= Limit(j) /\ Limit(j) \in Nat /\ d[j].status \in Nat /\ ExpireTicks \in Nat
      BY <2>1, TicksAssumption, Zenon
    <3> QED BY <2>3, <3>1, <3>2, SMTT(30)
  <2>6. tdm[i].expire <= E(i) /\ start <= E(i)
    BY <2>3, <2>4, SMTT(30)
  <2> QED BY <2>1, <2>3, <2>4, <2>5, <2>6, Zenon
<1>9. ASSUME NEW i \in Mcus
      PROVE  /\ Cmd("timeout", E(i)) \in Commands /\ Cmd("timeout", E(i)).c = "timeout"
             /\ Cmd("timeout", E(i)).x = E(i)
  BY <1>8, Zenon DEF Cmd, Commands
<1>10. ASSUME NEW i \in Mcus
       PROVE  /\ tdm'[i].status = d[i].status
              /\ tdm'[i].expire = IF i \in Extended(d) THEN E(i) ELSE tdm[i].expire
  BY <1>4, <1>6, Zenon
<1>11. tdm' \in Statuses
  BY <1>4, <1>6, <1>8, Zenon DEF Statuses
<1>12. TypeOK'
  <2>1. toMcu' \in [Mcus -> Seq(Commands)]
    <3>1. ASSUME NEW i \in Mcus PROVE toMcu'[i] \in Seq(Commands)
      <4>1. toMcu[i] \in Seq(Commands)
        BY DEF Inv, TypeOK
      <4>2. Append(toMcu[i], Cmd("timeout", E(i))) \in Seq(Commands)
        BY <1>9, <4>1, AppendFacts, Zenon
      <4> QED BY <1>6, <4>1, <4>2, Zenon
    <3> QED BY <1>6, <3>1, Zenon
  <2> QED BY <1>1, <1>6, <1>7, <1>11, <2>1, Zenon DEF Inv, TypeOK
<1>13. ASSUME NEW i \in Mcus PROVE NextExpire(tdm', i) = E(i)
  <2>1. \A j \in Mcus : tdm'[j].status <= d[j].status /\ d[j].status <= tdm'[j].status
    BY <1>4, <1>10, SMTT(30)
  <2>2. NextExpire(tdm', i) <= E(i) /\ E(i) <= NextExpire(tdm', i)
    BY <1>4, <1>11, <2>1, NextExpireGrows, Zenon
  <2>3. NextExpire(tdm', i) \in Nat /\ E(i) \in Nat
    BY <1>4, <1>11, NextExpireFacts, Zenon
  <2> QED BY <2>2, <2>3, SMTT(30)
<1> HIDE DEF E
<1>14. ASSUME NEW i \in Mcus
       PROVE  /\ tdm[i].expire <= tdm'[i].expire /\ tdm'[i].expire <= NextExpire(tdm', i)
              /\ \A j \in Mcus \ {i} : tdm'[i].expire <= Limit(j) + ExpireTicks
  <2>1. CASE i \in Extended(d)
    BY <1>8, <1>10, <1>13, <2>1, SMTT(30)
  <2>2. CASE i \notin Extended(d)
    BY <1>8, <1>10, <1>13, <2>2, HostFacts, SMTT(30)
  <2> QED BY <2>1, <2>2, Zenon
<1>15. ASSUME NEW i \in Mcus
       PROVE  toMcu'[i] = toMcu[i] \/ \E e : Sendable(i, e) /\ toMcu'[i] = Append(toMcu[i], e)
  <2>1. CASE i \notin Extended(d)
    BY <1>6, <2>1, Zenon
  <2>2. CASE i \in Extended(d)
    <3>1. E(i) <= tdm'[i].expire
      BY <1>8, <1>10, <2>2, SMTT(30)
    <3>2. Sendable(i, Cmd("timeout", E(i)))
      BY <1>8, <1>9, <3>1, Zenon DEF Sendable
    <3>3. toMcu'[i] = Append(toMcu[i], Cmd("timeout", E(i)))
      BY <1>6, <2>2, Zenon
    <3> QED BY <3>2, <3>3, Zenon
  <2> QED BY <2>1, <2>2, Zenon
<1>16. ASSUME NEW i \in Mcus, NEW k \in DOMAIN toHost'[i], toHost'[i][k].can
       PROVE  tdm'[i].status <= toHost'[i][k].clock
  <2>1. CASE i = m
    BY <1>2, <1>4, <1>5, <1>7, <1>10, <1>16, <2>1, SMTT(30)
  <2>2. CASE i # m
    BY <1>4, <1>7, <1>10, <1>16, <2>2, HostFacts, Zenon
  <2> QED BY <2>1, <2>2, Zenon
<1>17. HostEffect
  <2>1. host # "idle"
    BY HostFacts, Zenon
  <2>2. ASSUME NEW i \in Mcus
        PROVE  /\ toHost'[i] = toHost[i] \/ (toHost[i] # <<>> /\ toHost'[i] = Tail(toHost[i]))
               /\ tdm[i].status <= tdm'[i].status /\ tdm'[i].status <= Limit(i)
    BY <1>7, <1>8, <1>10, Zenon
  <2> QED BY <1>1, <1>14, <1>15, <1>16, <2>1, <2>2, Zenon DEF HostEffect
<1> QED BY <1>12, <1>17, HostRest, Zenon

LEMMA HandleStep ==
    ASSUME Inv, NEW m \in Mcus, HandleTrsyncState(m)
    PROVE  Inv'
<1>1. /\ toHost[m] # <<>> /\ toHost' = [toHost EXCEPT ![m] = Tail(@)]
      /\ host' = host /\ start' = start /\ McuUnchanged
  BY DEF HandleTrsyncState
<1>2. CASE Head(toHost[m]).can /\ ExtendTimeouts([tdm EXCEPT ![m].status = Head(toHost[m]).clock])
  BY <1>1, <1>2, ExtendStep, Zenon
<1>3. CASE \/ td_can_trigger' = td_can_trigger /\ tdm' = tdm /\ toMcu' = toMcu
           \/ PropagateTrigger
  <2> DEFINE e == Cmd("trigger", REASON_HOST_REQUEST)
  <2>1. /\ now' = now /\ ts' = ts /\ moving' = moving /\ halted' = halted /\ endstop' = endstop
        /\ trigTime' = trigTime /\ tdm' = tdm /\ td_can_trigger' \in BOOLEAN
    BY <1>1, <1>3, ZenonT(40) DEF McuUnchanged, PropagateTrigger, Inv, TypeOK
  <2>2. e \in Commands /\ e.c = "trigger"
    BY DEF Cmd, Commands, REASON_HOST_REQUEST, Reasons
  <2>3. host # "idle" /\ start <= now
    BY <1>1, HostFacts
  <2>4. ASSUME NEW i \in Mcus PROVE Sendable(i, e)
    BY <2>2, <2>3, Zenon DEF Sendable
  <2> HIDE DEF e
  <2>5. toMcu' = toMcu \/ toMcu' = [i \in Mcus |-> Append(toMcu[i], e)]
    BY <1>3 DEF PropagateTrigger, e
  <2>6. /\ toMcu' \in [Mcus -> Seq(Commands)]
        /\ \A i \in Mcus : toMcu'[i] = toMcu[i] \/ toMcu'[i] = Append(toMcu[i], e)
    <3>1. toMcu \in [Mcus -> Seq(Commands)]
      BY DEF Inv, TypeOK
    <3>2. ASSUME NEW i \in Mcus PROVE Append(toMcu[i], e) \in Seq(Commands)
      BY <2>2, <3>1, AppendFacts, Zenon
    <3> QED BY <2>5, <3>1, <3>2, ZenonT(40)
  <2>7. /\ toHost' \in [Mcus -> Seq(Messages)]
        /\ \A i \in Mcus : toHost'[i] = IF i = m THEN Tail(toHost[i]) ELSE toHost[i]
    BY <1>1, TailFacts, Zenon DEF Inv, TypeOK
  <2>8. TypeOK'
    BY <1>1, <2>1, <2>6, <2>7, Zenon DEF Inv, TypeOK
  <2>9. ASSUME NEW i \in Mcus, NEW k \in DOMAIN toHost'[i], toHost'[i][k].can
        PROVE  tdm[i].status <= toHost'[i][k].clock
    <3>1. CASE i = m
      <4>1. toHost[m] \in Seq(Messages)
        BY Zenon DEF Inv, TypeOK
      <4>2. k + 1 \in DOMAIN toHost[m] /\ toHost'[i][k] = toHost[m][k + 1]
        BY <1>1, <2>7, <2>9, <3>1, <4>1, TailFacts, SMTT(30)
      <4> QED BY <2>9, <3>1, <4>2, HostFacts, ZenonT(40)
    <3>2. CASE i # m
      BY <2>7, <2>9, <3>2, HostFacts, ZenonT(40)
    <3> QED BY <3>1, <3>2, SMTT(30)
  <2>10. ASSUME NEW i \in Mcus
         PROVE  /\ tdm[i].status <= tdm[i].status /\ tdm[i].expire <= tdm[i].expire
                /\ tdm[i].status <= Limit(i) /\ tdm[i].expire <= NextExpire(tdm, i)
                /\ \A j \in Mcus \ {i} : tdm[i].expire <= Limit(j) + ExpireTicks
    BY HostFacts, SMTT(30)
  <2>11. HostEffect
    BY <1>1, <2>1, <2>3, <2>4, <2>6, <2>7, <2>9, <2>10, ZenonT(40) DEF HostEffect
  <2> QED BY <2>8, <2>11, HostRest, Zenon
<1> QED BY <1>2, <1>3 DEF HandleTrsyncState

-----------------------------------------------------------------------------
(* The invariant of the specification *)

LEMMA InitInv ==
    ASSUME Init
    PROVE  Inv
<1>1. TypeOK
  <2>1. Cleared \in Trsyncs
    BY DEF Cleared, Trsyncs, Never, NoReason, Reasons
  <2>2. <<>> \in Seq(Commands) /\ <<>> \in Seq(Messages)
    OBVIOUS
  <2>3. tdm \in Statuses
    BY DEF Init, Statuses
  <2> QED BY <2>1, <2>2, <2>3, Zenon DEF Init, TypeOK, Never
<1>2. IdleInv
  BY SMTT(30) DEF Init, IdleInv
<1>3. ASSUME NEW m \in Mcus
      PROVE  /\ ts[m] = Cleared /\ ~moving[m] /\ ~halted[m] /\ ~endstop /\ toMcu[m] = <<>>
             /\ toHost[m] = <<>> /\ trigTime[m] = Never
             /\ tdm[m].status = 0 /\ tdm[m].expire = 0 /\ start = 0 /\ now = 1
  BY SMTT(30) DEF Init, Never
<1>4. QueueInv
  BY <1>3, SMTT(60) DEF QueueInv, Ordered
<1>5. TrsyncInv
  BY <1>3, Zenon DEF TrsyncInv, TrsyncOk, NextIs, Cleared
<1>6. ClockInv
  BY <1>3, SMTT(30) DEF ClockInv, Cleared, Never
<1>7. LimitInv
  <2>1. ASSUME NEW j \in Mcus PROVE Limit(j) = 1
    BY <1>3, SMTT(60) DEF Limit
  <2>2. 0 <= 1 /\ 0 <= 1 + ExpireTicks
    BY TicksAssumption, SMTT(30)
  <2> QED BY <1>3, <2>1, <2>2, SMTT(30) DEF LimitInv, Cleared, Never
<1>8. GrowInv
  <2>1. ASSUME NEW m \in Mcus PROVE 0 <= NextExpire(tdm, m)
    <3>1. NextExpire(tdm, m) \in Nat
      BY <1>1, NextExpireFacts, Zenon DEF TypeOK
    <3> QED BY <3>1
  <2> QED BY <1>3, <2>1, SMTT(60) DEF GrowInv, Cleared, Never
<1> QED BY <1>1, <1>2, <1>4, <1>5, <1>6, <1>7, <1>8, Zenon DEF Inv, TimeoutInv

LEMMA NextInv ==
    ASSUME Inv, [Next]_vars
    PROVE  Inv'
<1>1. ASSUME NEW m \in Mcus, Mcu(m) PROVE Inv'
  <2>1. TypeOK' /\ McuEffect(m) /\ TrsyncOk(m)'
    BY <1>1, McuStep, Zenon
  <2> QED BY <2>1, McuQueues, McuClocks, McuLimits, McuGrows, Zenon DEF Inv, TimeoutInv
<1>2. CASE UNCHANGED vars
  <2>1. /\ now' = now /\ ts' = ts /\ moving' = moving /\ halted' = halted /\ toMcu' = toMcu
        /\ toHost' = toHost /\ td_can_trigger' = td_can_trigger /\ tdm' = tdm /\ host' = host
        /\ start' = start /\ endstop' = endstop /\ trigTime' = trigTime
    BY <1>2, Zenon DEF vars
  <2>2. TypeOK'
    BY <2>1, Zenon DEF Inv, TypeOK
  <2>3. IdleInv' /\ QueueInv'
    BY <2>1, Zenon DEF Inv, TimeoutInv, IdleInv, QueueInv
  <2>4. TrsyncInv'
    BY <2>1, ZenonT(40) DEF Inv, TimeoutInv, TrsyncInv, TrsyncOk, NextIs, FirstTimeoutPending
  <2>5. ClockInv'
    BY <2>1, ZenonT(40) DEF Inv, TimeoutInv, ClockInv
  <2>6. LimitInv'
    BY <2>1, SMTT(30) DEF Inv, TimeoutInv, LimitInv, Limit
  <2>7. GrowInv'
    BY <2>1, ZenonT(40) DEF Inv, TimeoutInv, GrowInv
  <2> QED BY <2>2, <2>3, <2>4, <2>5, <2>6, <2>7, Zenon DEF Inv, TimeoutInv
<1> QED BY <1>1, <1>2, HandleStep, HomeStartStep, DispatchStep, SendHomeStep, TickStep, Zenon DEF Next

\* The expiry of mcu m in a step of its own, while its trsync can trigger.
LEMMA ExpiryKept ==
    ASSUME Inv, NEW m \in Mcus, Mcu(m), ts[m].can, ts'[m].can, ts[m].etime # Never
    PROVE  ts'[m].etime >= ts[m].etime
<1>1. /\ ts[m] \in Trsyncs /\ ts[m].etime \in Nat /\ TrsyncOk(m) /\ ts \in [Mcus -> Trsyncs]
      /\ \A t : [ts EXCEPT ![m] = t][m] = t
  BY McuFacts, Zenon DEF Trsyncs, Inv, TypeOK
<1>2. ~Cleared.can
  BY Zenon DEF Cleared
<1>3. ASSUME ts'[m].etime = ts[m].etime PROVE ts'[m].etime >= ts[m].etime
  BY <1>1, <1>3, SMTT(30)
<1>4. ~Halt(m)
  BY <1>1, <1>2, Zenon DEF Halt
<1>5. ~CommandStart(m)
  BY <1>1, <1>2, Zenon DEF CommandStart, Command, TrsyncOk, NextIs
<1>6. CASE CommandSignal(m)
  BY <1>1, <1>3, <1>6, Zenon DEF CommandSignal, Trsyncs
<1>7. CASE CommandTimeout(m)
  <2>1. ts' = [ts EXCEPT ![m] = TimeoutSet(ts[m], Head(toMcu[m]).x)]
    BY <1>4, <1>7 DEF CommandTimeout
  <2>2. ts'[m].etime = Head(toMcu[m]).x
    BY <1>1, <2>1, SMTT(30) DEF TimeoutSet, Trsyncs
  <2>3. toMcu[m] \in Seq(Commands) /\ toMcu[m] # <<>> /\ Head(toMcu[m]).c = "timeout"
    BY <1>7, McuFacts, ZenonT(40) DEF CommandTimeout, Command
  <2>4. Head(toMcu[m]) = toMcu[m][1] /\ 1 \in DOMAIN toMcu[m] /\ Head(toMcu[m]) \in Commands
    BY <2>3, TailFacts, ZenonT(40)
  <2>5. ts[m].etime <= Head(toMcu[m]).x
    BY <2>3, <2>4, ZenonT(40) DEF Inv, TimeoutInv, GrowInv
  <2>6. Head(toMcu[m]).x \in Nat
    BY <2>3, <2>4, Zenon DEF Commands
  <2> QED BY <1>1, <2>2, <2>5, <2>6, Zenon
<1>8. CASE CommandHome(m)
  BY <1>3, <1>4, <1>8, Zenon DEF CommandHome
<1>9. ~CommandTrigger(m)
  <2>1. ~CommandTriggered(ts[m], Head(toMcu[m]).x).can
    BY <1>1, Zenon DEF CommandTriggered, Triggered, Trsyncs
  <2> QED BY <1>1, <2>1, Zenon DEF CommandTrigger, Becomes
<1>10. CASE CommandInShutdown(m)
  BY <1>3, <1>10, Zenon DEF CommandInShutdown
<1>11. CASE ReportEvent(m)
  <2>1. ReportDue(ts[m], ReportTicks).etime = ts[m].etime
    BY <1>1 DEF ReportDue, Trsyncs
  <2> QED BY <1>1, <1>3, <1>11, <2>1, Zenon DEF ReportEvent
<1>12. ~Triggered(ts[m], REASON_ENDSTOP_HIT).can /\ ~Expired(ts[m]).can
  BY <1>1, Zenon DEF Triggered, Expired, Trsyncs
<1>13. ~ExpireEvent(m) /\ ~EndstopHit(m)
  BY <1>1, <1>12, Zenon DEF ExpireEvent, EndstopHit, Becomes
<1>14. CASE TrsyncTask(m)
  <2>1. Reported(ts[m]).etime = ts[m].etime
    BY <1>1 DEF Reported, Trsyncs
  <2> QED BY <1>1, <1>3, <1>14, <2>1, Zenon DEF TrsyncTask
<1> QED BY <1>5, <1>6, <1>7, <1>8, <1>9, <1>10, <1>11, <1>13, <1>14, ZenonT(40) DEF Mcu

-----------------------------------------------------------------------------
(* Theorems *)

\* The inductive invariant: the queues hold what home_start and handle_trsync_state sent, in
\* order, and no expiry is later than ExpireTicks after the last sign of life of another mcu.
THEOREM TimeoutInvariant == Spec => []Inv
BY InitInv, NextInv, PTL DEF Spec

\* For every number of mcus, however late the messages and however many reports are dropped,
\* an mcu that has its first timeout has stopped its stepper ExpireTicks after another mcu of
\* the axis triggered or shut down: handle_trsync_state takes the timeout of an mcu from the
\* oldest report of the others, and trsync_expire_event stops the stepper.
THEOREM OvershootBounded == Spec => []BoundedOvershoot
<1>1. ASSUME Inv PROVE BoundedOvershoot
  <2>1. SUFFICES ASSUME NEW i \in Mcus, NEW j \in Mcus, i # j, trigTime[j] # Never, moving[i],
                        ~FirstTimeoutPending(i)
                 PROVE  now <= trigTime[j] + ExpireTicks
    BY SMTT(30) DEF BoundedOvershoot
  <2>2. ts[i].etime # Never
    BY <1>1, <2>1, McuFacts, ZenonT(40) DEF TrsyncOk
  <2>3. now <= ts[i].etime
    BY <1>1, <2>2, ZenonT(40) DEF Inv, TimeoutInv, ClockInv
  <2>4. ts[i].etime <= Limit(j) + ExpireTicks /\ Limit(j) = trigTime[j]
    BY <1>1, <2>1, Zenon DEF Inv, TimeoutInv, LimitInv, Limit
  <2>5. now \in Nat /\ ts[i].etime \in Nat /\ trigTime[j] \in Nat /\ ExpireTicks \in Nat
    BY <1>1, TicksAssumption, Zenon DEF Inv, TypeOK, Trsyncs
  <2> QED BY <2>3, <2>4, <2>5, SMTT(30)
<1> QED BY <1>1, TimeoutInvariant, PTL

\* A trsync_set_timeout never shortens the timeout of a trsync that can still trigger: the
\* expiries handle_trsync_state computes for an mcu only grow, and its commands stay in order.
THEOREM TimeoutsOnlyGrow == Spec => TimeoutsGrow
<1> DEFINE Kept == \A m \in Mcus : ts[m].can /\ ts'[m].can /\ ts[m].etime # Never
                                   => ts'[m].etime >= ts[m].etime
<1>1. ASSUME Inv, [Next]_vars PROVE [Kept]_vars
  <2>1. ASSUME NEW i \in Mcus PROVE ts[i].etime >= ts[i].etime
    <3>1. ts[i].etime \in Nat
      BY <1>1, Zenon DEF Inv, TypeOK, Trsyncs
    <3> QED BY <3>1, SMTT(30)
  <2>2. ASSUME NEW m \in Mcus, Mcu(m) PROVE Kept
    <3>1. \A i \in Mcus \ {m} : ts'[i] = ts[i]
      BY <1>1, <2>2, McuStep, Zenon DEF McuEffect
    <3> QED BY <1>1, <2>1, <2>2, <3>1, ExpiryKept, Zenon
  <2>3. ASSUME ts' = ts PROVE Kept
    BY <2>1, <2>3
  <2> QED BY <1>1, <2>2, <2>3, ZenonT(40) DEF Next, HandleTrsyncState, HomeStart, DispatchStart, SendHome, Tick,
             McuUnchanged
<1> HIDE DEF Kept
<1>2. Spec => [][Kept]_vars
  BY <1>1, TimeoutInvariant, PTL DEF Spec
<1> QED BY <1>2 DEF Kept, TimeoutsGrow

=============================================================================
