-------------------------- MODULE PagePatrolProofs --------------------------
(***************************************************************************)
(* Proofs of the invariants of PagePatrol for every number of slots,       *)
(* entries, clients and CPUs.                                              *)
(***************************************************************************)
EXTENDS PagePatrolInv, PagePatrolApiProofs

USE DEF AtGetpid

\* What every call does, whichever of the four it is.
LEMMA CallIsSubmit ==
  ASSUME NEW p \in Procs, Call(p)
  PROVE  \E op \in 1 .. 4, addr \in VAs \cup {NullVA} : Submit(p, op, addr)
BY ApiCallIsSubmit DEF Call

-----------------------------------------------------------------------------
(* Types. *)

LEMMA TypeInit == Init => TypeOK /\ RegistersOK
<1> SUFFICES ASSUME Init PROVE TypeOK /\ RegistersOK
  OBVIOUS
<1> USE MapAssumption DEF Init
<1>1. Nothing \in Request
  BY DEF Nothing, Request
<1>2. MapTypeOK
  BY <1>1 DEF MapInit, MapTypeOK, Nothing
<1>3. ApiTypeOK
  BY <1>1 DEF ApiInit, ApiTypeOK, Nothing, Keys
<1>4. ProbeTypeOK
  BY DEF ProbeInit, ProbeTypeOK
<1>5. fate \in [Procs -> Fates] /\ lag \in [CPUs -> 0 .. MAX_PID_VA_ENTRIES]
  BY DEF Fates
<1>6. seen \in [CPUs -> Request]
  BY <1>1
<1>7. RegistersOK
  BY DEF RegistersOK, ProbeInit
<1> QED
  BY <1>2, <1>3, <1>4, <1>5, <1>6, <1>7 DEF TypeOK

\* NextSlot leaves the registers dead.
LEMMA NextSlotTypes ==
  ASSUME ProbeTypeOK, RegistersOK, NEW c \in CPUs, i[c] < MAX_PID_VA_ENTRIES,
         NextSlot(c)
  PROVE  /\ step' \in [CPUs -> {"lookup", "va", "flags", "kfunc", "delete"}]
         /\ i' \in [CPUs -> 0 .. MAX_PID_VA_ENTRIES]
         /\ ptr' \in [CPUs -> Cells \cup {NoCell}]
         /\ va' \in [CPUs -> VAs \cup {NullVA}]
         /\ flags' \in [CPUs -> 0 .. 4]
         /\ RegistersOK'
<1> USE MapAssumption DEF NextSlot, Goto, ProbeTypeOK
<1>1. i[c] \in 0 .. MAX_PID_VA_ENTRIES /\ i[c] + 1 \in 0 .. MAX_PID_VA_ENTRIES
  OBVIOUS
<1>2. i' \in [CPUs -> 0 .. MAX_PID_VA_ENTRIES]
  BY <1>1
<1>3. RegistersOK'
  BY DEF RegistersOK
<1> QED
  BY <1>2, <1>3

LEMMA TypeNext ==
  ASSUME TypeOK, RegistersOK, [Next]_vars
  PROVE  TypeOK' /\ RegistersOK'
<1> USE MapAssumption, ProbeAssumption
<1>1. ASSUME NEW p \in Procs, Start(p)
      PROVE  TypeOK' /\ RegistersOK'
  <2>1. Staged(p, 0, NullVA) \in Request
    BY StagedRequest DEF TypeOK
  <2>2. ApiTypeOK'
    BY <1>1, <2>1 DEF Start, InitPagePatrol, TypeOK, ApiTypeOK, Keys
  <2> QED
    BY <1>1, <2>2 DEF Start, InitPagePatrol, TypeOK, MapTypeOK, ProbeTypeOK, RegistersOK,
                      probeVars, cpuVars, pageVars, mapVars, historyVars
<1>2. ASSUME NEW p \in Procs, Open(p)
      PROVE  TypeOK' /\ RegistersOK'
  BY <1>2 DEF Open, OpenMap, TypeOK, MapTypeOK, ApiTypeOK, ProbeTypeOK, RegistersOK,
              probeVars, cpuVars, pageVars, mapVars, historyVars
<1>3. ASSUME NEW p \in Procs, Call(p)
      PROVE  TypeOK' /\ RegistersOK'
  <2>1. PICK op \in 1 .. 4, addr \in VAs \cup {NullVA} : Submit(p, op, addr)
    BY <1>3, CallIsSubmit
  <2> DEFINE r == Staged(p, op, addr)
  <2>2. r \in Request
    BY StagedRequest DEF TypeOK
  <2> HIDE DEF r
  <2>3. pc' = [pc EXCEPT ![p] = "getpid"] /\ pid_va' = [pid_va EXCEPT ![p] = r]
    BY <2>1 DEF Submit, r
  <2>4. \/ MapUpdate(idx[p], r) /\ idx' = [idx EXCEPT ![p] = Advance(@)]
        \/ UNCHANGED <<idx, mapVars>>
    BY <2>1 DEF Submit, r
  <2>5. ApiTypeOK'
    BY <2>2, <2>3, <2>4, AdvanceInKeys DEF TypeOK, ApiTypeOK
  <2>6. MapTypeOK'
    BY <2>2, <2>4 DEF TypeOK, ApiTypeOK, MapTypeOK, MapUpdate, FreeCells, mapVars
  <2>7. lag' \in [CPUs -> 0 .. MAX_PID_VA_ENTRIES]
    BY <1>3 DEF Call, Count, TypeOK
  <2>8. fate' \in [Procs -> Fates]
    BY <1>3 DEF Call, FateOfSubmit, TypeOK, Fates
  <2> QED
    BY <1>3, <2>5, <2>6, <2>7, <2>8
    DEF Call, TypeOK, ProbeTypeOK, RegistersOK, probeVars, cpuVars, pageVars
<1>4. ASSUME NEW p \in Procs, Terminate(p)
      PROVE  TypeOK' /\ RegistersOK'
  BY <1>4 DEF Terminate, Exit, TypeOK, MapTypeOK, ApiTypeOK, ProbeTypeOK, RegistersOK,
              probeVars, cpuVars, pageVars, mapVars, historyVars
<1>5. ASSUME NEW c \in CPUs, NEW t \in Procs \cup {OtherTask}, Enter(c, t),
             UNCHANGED <<apiVars, historyVars>>
      PROVE  TypeOK' /\ RegistersOK'
  BY <1>5 DEF Enter, TypeOK, MapTypeOK, ApiTypeOK, ProbeTypeOK, RegistersOK,
              apiVars, pageVars, mapVars, historyVars
<1>6. ASSUME NEW c \in CPUs, Scan(c)
      PROVE  TypeOK' /\ RegistersOK'
  <2>1. UNCHANGED <<pc, idx, pid_va, lag>>
    BY <1>6 DEF Scan, apiVars
  <2>2. ApiTypeOK' /\ lag' \in [CPUs -> 0 .. MAX_PID_VA_ENTRIES]
    BY <2>1 DEF TypeOK, ApiTypeOK
  <2>3. fate' \in [Procs -> Fates]
    BY <1>6 DEF Scan, FateOfKfunc, FateOfDelete, TypeOK, Fates
  <2>4. MapTypeOK' /\ ProbeTypeOK' /\ RegistersOK'
    <3>1. CASE Lookup(c)
      <4>1. CASE NextSlot(c)
        BY <3>1, <4>1, NextSlotTypes
        DEF Lookup, At, TypeOK, ProbeTypeOK, MapTypeOK, mapVars, pageVars
      <4>2. CASE ~NextSlot(c)
        <5>1. i[c] \in Keys
          BY <3>1 DEF Lookup, At, TypeOK, ProbeTypeOK, Keys
        <5> QED
          BY <3>1, <4>2, <5>1
          DEF Lookup, MapLookup, Goto, At, TypeOK, ProbeTypeOK, MapTypeOK, RegistersOK,
              mapVars, pageVars
      <4> QED
        BY <4>1, <4>2
    <3>2. CASE LoadVa(c)
      <4>1. ptr[c] \in Cells /\ cell[ptr[c]].VA \in VAs \cup {NullVA}
        BY <3>2 DEF LoadVa, At, RegistersOK, TypeOK, MapTypeOK, Request
      <4> QED
        BY <3>2, <4>1 DEF LoadVa, Goto, TypeOK, ProbeTypeOK, MapTypeOK, RegistersOK,
                          mapVars, pageVars
    <3>3. CASE LoadFlags(c)
      <4>1. ptr[c] \in Cells /\ cell[ptr[c]].flags \in 0 .. 4 /\ va[c] \in VAs
        BY <3>3 DEF LoadFlags, At, RegistersOK, TypeOK, MapTypeOK, Request
      <4> QED
        BY <3>3, <4>1 DEF LoadFlags, Goto, TypeOK, ProbeTypeOK, MapTypeOK, RegistersOK,
                          mapVars, pageVars
    <3>4. CASE CallKfunc(c, Alive)
      <4>1. ptr[c] \in Cells /\ va[c] \in VAs
        BY <3>4 DEF CallKfunc, At, RegistersOK
      <4>2. active' \subseteq Procs \X VAs /\ pinned' \subseteq Procs \X VAs
        BY <3>4, <4>1 DEF CallKfunc, KfuncEffect, Alive, TypeOK, ProbeTypeOK, pageVars
      <4> QED
        BY <3>4, <4>1, <4>2 DEF CallKfunc, Goto, TypeOK, ProbeTypeOK, MapTypeOK,
                                RegistersOK, mapVars
    <3>5. CASE Delete(c)
      BY <3>5, NextSlotTypes
      DEF Delete, MapDelete, At, TypeOK, ProbeTypeOK, MapTypeOK, pageVars
    <3> QED
      BY <1>6, <3>1, <3>2, <3>3, <3>4, <3>5 DEF Scan
  <2>5. seen' \in [CPUs -> Request]
    <3>1. ptr'[c] # NoCell => cell[ptr'[c]] \in Request
      BY <2>4 DEF TypeOK, MapTypeOK, ProbeTypeOK
    <3>2. Nothing \in Request
      BY DEF Nothing, Request
    <3> QED
      BY <1>6, <3>1, <3>2 DEF Scan, SeenByScan, TypeOK
  <2> QED
    BY <2>2, <2>3, <2>4, <2>5 DEF TypeOK
<1>7. ASSUME NEW c \in CPUs, Finish(c)
      PROVE  TypeOK' /\ RegistersOK'
  <2>1. ApiTypeOK'
    <3>1. CASE UNCHANGED apiVars
      BY <3>1 DEF TypeOK, ApiTypeOK, apiVars
    <3>2. CASE task[c] \in Procs /\ GetpidReturns(task[c])
      <4>1. pid_va[task[c]] \in Request
        BY <3>2 DEF TypeOK, ApiTypeOK
      <4>2. [pid_va[task[c]] EXCEPT !.PID = task[c]] \in Request
        BY <3>2, <4>1 DEF Request
      <4> QED
        BY <3>2, <4>2 DEF GetpidReturns, TypeOK, ApiTypeOK
    <3> QED
      BY <1>7, <3>1, <3>2 DEF Finish
  <2>2. MapTypeOK' /\ ProbeTypeOK' /\ RegistersOK'
    BY <1>7 DEF Finish, Leave, TypeOK, MapTypeOK, ProbeTypeOK, RegistersOK, mapVars, pageVars
  <2> QED
    BY <1>7, <2>1, <2>2 DEF Finish, TypeOK
<1>8. CASE UNCHANGED vars
  BY <1>8 DEF vars, apiVars, mapVars, probeVars, cpuVars, pageVars, historyVars,
              TypeOK, MapTypeOK, ApiTypeOK, ProbeTypeOK, RegistersOK
<1> QED
  BY <1>1, <1>2, <1>3, <1>4, <1>5, <1>6, <1>7, <1>8 DEF Next, EnterClient, EnterOther

\* Every reachable state of every system is well typed.
THEOREM TypeCorrect == Spec => []TypeOK
<1>1. TypeOK /\ RegistersOK /\ [Next]_vars => (TypeOK /\ RegistersOK)'
  BY TypeNext
<1> QED
  BY <1>1, TypeInit, PTL DEF Spec

-----------------------------------------------------------------------------
(* Every call waits until the map holds nothing of its caller. *)

LEMMA ServeInit == Init => ServeCore
<1> SUFFICES ASSUME Init PROVE ServeCore
  OBVIOUS
<1> USE MapAssumption, ProbeAssumption DEF Init
<1>1. PidStored
  BY DEF PidStored, ApiInit
<1>2. RegistersOK
  BY TypeInit
<1>3. ServesClient /\ OneProbePerClient
  BY DEF ServesClient, OneProbePerClient, ProbeInit
<1> QED
  BY <1>1, <1>2, <1>3 DEF ServeCore

\* Who leaves its getpid() alive leaves nothing in the map, and who is not in a call
\* has gained nothing there.
DrainStep ==
  \A p \in Procs :
    pc'[p] \notin {"getpid", "exited"} =>
      /\ pc[p] # "exited"
      /\ KeysOf(p)' \subseteq KeysOf(p)
      /\ AtGetpid(p) /\ pc'[p] # pc[p] => KeysOf(p)' = {}

\* A step that leaves the map and the probes alone.
LEMMA ServeQuiet ==
  ASSUME ServeInv, UNCHANGED <<mapVars, task, i>>, PidStored', RegistersOK',
         \A p \in Procs : \/ pc'[p] \in {"getpid", "exited"}
                          \/ pc[p] # "exited" /\ (AtGetpid(p) => pc'[p] = pc[p]),
         \A c \in CPUs : task[c] \in Procs => pc'[task[c]] = pc[task[c]]
  PROVE  ServeCore' /\ DrainStep
<1>1. \A p \in Procs : KeysOf(p)' = KeysOf(p)
  BY KeysOfUnchanged
<1>2. ServesClient'
  BY <1>1 DEF ServeInv, ServeCore, ServesClient
<1>3. OneProbePerClient'
  BY DEF ServeInv, ServeCore, OneProbePerClient
<1>4. DrainStep
  BY <1>1 DEF ServeInv, ServeCore, DrainStep
<1> QED
  BY <1>2, <1>3, <1>4 DEF ServeCore

LEMMA ServeNext ==
  ASSUME ServeInv, [Next]_vars
  PROVE  ServeInv' /\ DrainStep
<1> USE MapAssumption, ProbeAssumption DEF ServeInv
<1>0. TypeOK /\ RegistersOK /\ TypeOK' /\ RegistersOK'
  BY TypeNext DEF ServeCore
<1> SUFFICES ServeCore' /\ DrainStep
  BY <1>0
<1>t. /\ pc \in [Procs -> {"new", "initpid", "open", "idle", "getpid", "failed", "exited"}]
      /\ task \in [CPUs -> Procs \cup {NoTask, OtherTask}]
      /\ i \in [CPUs -> 0 .. MAX_PID_VA_ENTRIES]
      /\ pid_va \in [Procs -> Request]
      /\ MapTypeOK
      /\ idx \in [Procs -> Keys]
  BY <1>0 DEF TypeOK, ApiTypeOK, ProbeTypeOK
<1>1. ASSUME NEW p \in Procs, Start(p)
      PROVE  ServeCore' /\ DrainStep
  <2>1. PidStored'
    BY <1>1, <1>t DEF Start, InitPagePatrol, Staged, ServeCore, PidStored
  <2>2. \A c \in CPUs : task[c] # p
    BY <1>1 DEF Start, InitPagePatrol, ServeCore, ServesClient
  <2> QED
    BY <1>0, <1>1, <1>t, <2>1, <2>2, ServeQuiet
    DEF Start, InitPagePatrol, probeVars, cpuVars
<1>2. ASSUME NEW p \in Procs, Open(p)
      PROVE  ServeCore' /\ DrainStep
  <2>1. PidStored'
    BY <1>2, <1>t DEF Open, OpenMap, ServeCore, PidStored
  <2>2. \A c \in CPUs : task[c] # p
    BY <1>2 DEF Open, OpenMap, ServeCore, ServesClient
  <2> QED
    BY <1>0, <1>2, <1>t, <2>1, <2>2, ServeQuiet DEF Open, OpenMap, probeVars, cpuVars
<1>3. ASSUME NEW p \in Procs, Call(p)
      PROVE  ServeCore' /\ DrainStep
  <2>1. PICK op \in 1 .. 4, addr \in VAs \cup {NullVA} : Submit(p, op, addr)
    BY <1>3, CallIsSubmit
  <2>2. pc[p] = "idle" /\ pid_va[p].PID = p /\ Staged(p, op, addr).PID = p
    BY <2>1 DEF Submit, Staged, ServeCore, PidStored
  <2>3. pc' = [pc EXCEPT ![p] = "getpid"]
    BY <2>1 DEF Submit
  <2>4. PidStored'
    BY <1>t, <2>1, <2>2 DEF Submit, Staged, ServeCore, PidStored
  <2>5. \A q \in Procs \ {p} : KeysOf(q)' \subseteq KeysOf(q)
    BY <1>t, <2>1, <2>2, KeysOfUpdate, KeysOfUnchanged DEF Submit
  <2>6. \A c \in CPUs : task[c] # p
    BY <2>2 DEF ServeCore, ServesClient
  <2>7. UNCHANGED <<task, i>>
    BY <1>3 DEF Call, probeVars, cpuVars
  <2>8. ServesClient'
    BY <1>t, <2>3, <2>5, <2>6, <2>7 DEF ServeCore, ServesClient
  <2>9. OneProbePerClient'
    BY <2>7 DEF ServeCore, OneProbePerClient
  <2>10. DrainStep
    BY <1>t, <2>3, <2>5 DEF ServeCore, DrainStep
  <2> QED
    BY <1>0, <2>4, <2>8, <2>9, <2>10 DEF ServeCore
<1>4. ASSUME NEW p \in Procs, Terminate(p)
      PROVE  ServeCore' /\ DrainStep
  <2>1. PidStored'
    BY <1>4, <1>t DEF Terminate, Exit, ServeCore, PidStored
  <2>2. \A c \in CPUs : task[c] # p
    BY <1>4 DEF Terminate, InProbe
  <2>3. pc' = [pc EXCEPT ![p] = "exited"]
    BY <1>4 DEF Terminate, Exit
  <2>4. \A q \in Procs : \/ pc'[q] \in {"getpid", "exited"}
                         \/ pc[q] # "exited" /\ (AtGetpid(q) => pc'[q] = pc[q])
    BY <1>t, <2>3
  <2> QED
    BY <1>0, <1>4, <1>t, <2>1, <2>2, <2>3, <2>4, ServeQuiet DEF Terminate, Exit, probeVars, cpuVars
<1>5. ASSUME NEW c \in CPUs, NEW t \in Procs \cup {OtherTask}, Enter(c, t),
             t \in Procs => AtGetpid(t) /\ ~InProbe(t),
             UNCHANGED <<apiVars, historyVars>>
      PROVE  ServeCore' /\ DrainStep
  <2>1. UNCHANGED <<pc, pid_va>>
    BY <1>5 DEF apiVars
  <2>2. task' = [task EXCEPT ![c] = t] /\ i' = [i EXCEPT ![c] = 0]
    BY <1>5 DEF Enter
  <2>3. \A p \in Procs : KeysOf(p)' = KeysOf(p)
    BY <1>5, KeysOfUnchanged DEF Enter
  <2>4. PidStored' /\ DrainStep
    BY <2>1, <2>3 DEF ServeCore, PidStored, DrainStep
  <2>5. ServesClient'
    BY <1>5, <1>t, <2>1, <2>2, <2>3 DEF ServeCore, ServesClient, KeysOf, Keys
  <2>6. OneProbePerClient'
    BY <1>5, <1>t, <2>2 DEF ServeCore, OneProbePerClient, InProbe
  <2> QED
    BY <1>0, <2>4, <2>5, <2>6 DEF ServeCore
<1>6. ASSUME NEW c \in CPUs, Scan(c)
      PROVE  ServeCore' /\ DrainStep
  <2>1. UNCHANGED <<pc, pid_va>>
    BY <1>6 DEF Scan, apiVars
  <2>2. UNCHANGED task
    BY <1>6 DEF Scan, Lookup, LoadVa, LoadFlags, CallKfunc, Delete
  <2>3. PidStored' /\ OneProbePerClient'
    BY <2>1, <2>2 DEF ServeCore, PidStored, OneProbePerClient
  <2>4. CASE UNCHANGED <<i, mapVars>>
    BY <1>0, <2>1, <2>2, <2>3, <2>4, ServeQuiet
  <2>5. CASE /\ i[c] \in Keys
             /\ i' = [i EXCEPT ![c] = @ + 1]
             /\ \A p \in Procs : KeysOf(p)' \subseteq KeysOf(p) \ {i[c]}
    <3>1. DrainStep
      BY <2>1, <2>5 DEF ServeCore, DrainStep
    <3>2. \A k \in Keys : i[c] <= k /\ k # i[c] => i[c] + 1 <= k
      BY <1>t, <2>5 DEF Keys
    <3>3. \A p \in Procs : KeysOf(p)' \subseteq Keys
      BY DEF KeysOf, Keys
    <3>4. ServesClient'
      BY <1>t, <2>1, <2>2, <2>5, <3>2, <3>3 DEF ServeCore, ServesClient
    <3> QED
      BY <1>0, <2>3, <3>1, <3>4 DEF ServeCore
  <2>6. CASE Lookup(c) /\ MapLookup(i[c]) = NoCell
    <3>1. i' = [i EXCEPT ![c] = @ + 1] \/ UNCHANGED i
      BY <2>6 DEF Lookup, NextSlot
    <3>2. i[c] \in Keys /\ UNCHANGED mapVars
      BY <1>t, <2>6 DEF Lookup, At, Keys
    <3>3. \A p \in Procs : KeysOf(p)' = KeysOf(p) /\ i[c] \notin KeysOf(p)
      BY <2>6, <3>2, KeysOfUnchanged DEF MapLookup, KeysOf
    <3> QED
      BY <2>4, <2>5, <3>1, <3>2, <3>3
  <2>7. CASE Delete(c)
    <3>1. i[c] \in Keys
      BY <1>t, <2>7 DEF Delete, At, Keys
    <3>2. \A p \in Procs : KeysOf(p)' = KeysOf(p) \ {i[c]}
      BY <1>t, <2>7, <3>1, KeysOfDelete DEF Delete
    <3> QED
      BY <2>5, <2>7, <3>1, <3>2 DEF Delete, NextSlot
  <2> QED
    BY <1>6, <2>4, <2>6, <2>7 DEF Scan, Lookup, LoadVa, LoadFlags, CallKfunc
<1>7. ASSUME NEW c \in CPUs, Finish(c)
      PROVE  ServeCore' /\ DrainStep
  <2>1. /\ task' = [task EXCEPT ![c] = NoTask]
        /\ i' = [i EXCEPT ![c] = 0]
        /\ i[c] = MAX_PID_VA_ENTRIES
        /\ task[c] # NoTask
        /\ UNCHANGED mapVars
    BY <1>7 DEF Finish, Leave
  <2>2. \A p \in Procs : KeysOf(p)' = KeysOf(p)
    BY <2>1, KeysOfUnchanged
  <2>3. OneProbePerClient'
    BY <1>t, <2>1 DEF ServeCore, OneProbePerClient
  <2>4. CASE task[c] = OtherTask /\ UNCHANGED apiVars
    <3>1. PidStored' /\ DrainStep
      BY <2>2, <2>4 DEF apiVars, ServeCore, PidStored, DrainStep
    <3>2. ServesClient'
      BY <1>t, <2>1, <2>2, <2>4 DEF apiVars, ServeCore, ServesClient
    <3> QED
      BY <1>0, <2>3, <3>1, <3>2 DEF ServeCore
  <2>5. CASE task[c] \in Procs /\ GetpidReturns(task[c])
    <3>1. PidStored'
      <4> DEFINE p == task[c]
      <4>1. pc[p] = "initpid" => pid_va'[p] = [pid_va[p] EXCEPT !.PID = p]
        BY <1>t, <2>5, Zenon DEF GetpidReturns
      <4>2. [pid_va[p] EXCEPT !.PID = p].PID = p
        BY <1>t, <2>5, Zenon DEF Request
      <4>3. pc[p] = "getpid" => pid_va'[p] = pid_va[p]
        BY <2>5 DEF GetpidReturns
      <4>4. \A q \in Procs \ {p} : pid_va'[q] = pid_va[q] /\ pc'[q] = pc[q]
        BY <1>t, <2>5 DEF GetpidReturns
      <4>5. pc[p] \in {"initpid", "getpid"}
        BY <2>5 DEF GetpidReturns
      <4> QED
        BY <2>5, <4>1, <4>2, <4>3, <4>4, <4>5 DEF ServeCore, PidStored
    <3>2. KeysOf(task[c]) = {}
      BY <1>t, <2>1, <2>5 DEF ServeCore, ServesClient, KeysOf, Keys
    <3>3. DrainStep
      BY <1>t, <2>2, <2>5, <3>2 DEF GetpidReturns, ServeCore, DrainStep
    <3>4. \A d \in CPUs : task'[d] \in Procs => pc'[task'[d]] = pc[task'[d]]
      BY <1>t, <2>1, <2>5 DEF GetpidReturns, ServeCore, OneProbePerClient
    <3>5. ServesClient'
      BY <1>t, <2>1, <2>2, <3>4 DEF ServeCore, ServesClient
    <3> QED
      BY <1>0, <2>3, <3>1, <3>3, <3>5 DEF ServeCore
  <2> QED
    BY <1>7, <2>4, <2>5 DEF Finish
<1>8. CASE UNCHANGED vars
  BY <1>0, <1>8, ServeQuiet
  DEF vars, apiVars, probeVars, cpuVars, mapVars, ServeCore, PidStored
<1> QED
  BY <1>1, <1>2, <1>3, <1>4, <1>5, <1>6, <1>7, <1>8 DEF Next, EnterClient, EnterOther

\* The map holds nothing at the start.
LEMMA DrainInit == Init => DrainedOnReturn
BY DEF Init, DrainedOnReturn, KeysOf, MapInit

LEMMA DrainNext ==
  ASSUME DrainInv, [Next]_vars
  PROVE  DrainInv'
<1>1. ServeInv' /\ DrainStep
  BY ServeNext DEF DrainInv, DrainCore, ServeInv
<1>2. DrainedOnReturn'
  BY <1>1 DEF DrainStep, DrainInv, DrainCore, DrainedOnReturn, AtGetpid
<1> QED
  BY <1>1, <1>2 DEF DrainInv, DrainCore, ServeInv

\* Whatever the number of CPUs and clients: when a call has returned, the map
\* holds no request of its caller.
THEOREM Drained == Spec => []DrainedOnReturn
<1>1. Init => DrainInv
  BY TypeInit, ServeInit, DrainInit DEF DrainInv, DrainCore
<1>2. DrainInv /\ [Next]_vars => DrainInv'
  BY DrainNext
<1>3. DrainInv => DrainedOnReturn
  BY DEF DrainInv, DrainCore
<1> QED
  BY <1>1, <1>2, <1>3, PTL DEF Spec

-----------------------------------------------------------------------------
(* Every probe ends: each step of its own brings it nearer to the end of its loop, and *)
(* nothing that clients and other probes do takes it back.                             *)

\* How many accesses a probe has made for its slot, and how many steps it has left.
Phase == [lookup |-> 0, va |-> 1, flags |-> 2, kfunc |-> 3, delete |-> 4]
Left(c) == (5 * (MAX_PID_VA_ENTRIES - i[c]) + 1) - Phase[step[c]]

\* The loop ends between two slots.
LoopOK == \A c \in CPUs : i[c] = MAX_PID_VA_ENTRIES => step[c] = "lookup"

\* A running probe comes nearer to its end with every step of its own (one iteration of
\* the loop over MAX_PID_VA_ENTRIES, access by access) and is not set back by others.
ScanAdvances ==
  [][\A c \in CPUs : task[c] # NoTask =>
       /\ Left(c) \in Nat \ {0}
       /\ Scan(c) => Left(c)' < Left(c) /\ task'[c] # NoTask
       /\ ~Scan(c) /\ ~Finish(c) => Left(c)' = Left(c) /\ task'[c] # NoTask]_vars

\* What one step of the loop does to the place of the probe in it.
LEMMA ScanMoves ==
  ASSUME TypeOK, NEW c \in CPUs, Scan(c)
  PROVE  /\ i[c] \in 0 .. MAX_PID_VA_ENTRIES - 1 /\ task[c] # NoTask /\ task' = task
         /\ \A d \in CPUs \ {c} : step'[d] = step[d] /\ i'[d] = i[d]
         /\ \/ step'[c] = "lookup" /\ i'[c] = i[c] + 1
            \/ i'[c] = i[c] /\ Phase[step'[c]] > Phase[step[c]] /\ step'[c] # "lookup"
<1> USE MapAssumption DEF TypeOK, ProbeTypeOK, At, Goto, NextSlot, Phase
<1>1. CASE Lookup(c)
  BY <1>1 DEF Lookup
<1>2. CASE LoadVa(c)
  BY <1>2 DEF LoadVa
<1>3. CASE LoadFlags(c)
  BY <1>3 DEF LoadFlags
<1>4. CASE CallKfunc(c, Alive)
  BY <1>4 DEF CallKfunc
<1>5. CASE Delete(c)
  BY <1>5 DEF Delete
<1> QED
  BY <1>1, <1>2, <1>3, <1>4, <1>5 DEF Scan

LEMMA PhaseBounds ==
  ASSUME TypeOK, NEW c \in CPUs
  PROVE  Phase[step[c]] \in 0 .. 4 /\ (step[c] = "lookup" => Phase[step[c]] = 0)
BY DEF TypeOK, ProbeTypeOK, Phase

LEMMA StepsLeft ==
  ASSUME NEW n \in Nat \ {0}, NEW k \in 0 .. n, NEW q \in 0 .. 4, k = n => q = 0
  PROVE  (5 * (n - k) + 1) - q \in Nat \ {0}
<1>1. CASE k = n
  BY <1>1
<1>2. CASE k # n
  <2>1. n - k \in Nat /\ n - k >= 1
    BY <1>2
  <2>2. 5 * (n - k) \in Nat /\ 5 * (n - k) >= 5
    BY <2>1
  <2> QED
    BY <2>2
<1> QED
  BY <1>1, <1>2

\* Steps of others leave a running probe where it is.
LEMMA OthersKeepPlace ==
  ASSUME TypeOK, [Next]_vars, NEW c \in CPUs, task[c] # NoTask, ~Scan(c), ~Finish(c)
  PROVE  step'[c] = step[c] /\ i'[c] = i[c] /\ task'[c] # NoTask
<1> USE DEF TypeOK, ProbeTypeOK
<1>1. ASSUME NEW p \in Procs, Start(p) \/ Open(p) \/ Call(p) \/ Terminate(p)
      PROVE  UNCHANGED <<step, i, task>>
  BY <1>1 DEF Start, Open, Call, Terminate, probeVars, cpuVars
<1>2. ASSUME NEW d \in CPUs, EnterOther(d) \/ \E p \in Procs : EnterClient(d, p)
      PROVE  d # c /\ \A e \in CPUs \ {d} : step'[e] = step[e] /\ i'[e] = i[e] /\ task'[e] = task[e]
  BY <1>2 DEF EnterOther, EnterClient, Enter
<1>3. ASSUME NEW d \in CPUs, Scan(d)
      PROVE  step'[c] = step[c] /\ i'[c] = i[c] /\ task'[c] = task[c]
  BY <1>3, ScanMoves
<1>4. ASSUME NEW d \in CPUs, Finish(d)
      PROVE  step'[c] = step[c] /\ i'[c] = i[c] /\ task'[c] = task[c]
  BY <1>4 DEF Finish, Leave
<1>5. CASE UNCHANGED vars
  BY <1>5 DEF vars, probeVars, cpuVars
<1> QED
  BY <1>1, <1>2, <1>3, <1>4, <1>5 DEF Next

LEMMA LoopStep ==
  ASSUME TypeOK, LoopOK, [Next]_vars
  PROVE  LoopOK'
<1> SUFFICES ASSUME NEW c \in CPUs, i'[c] = MAX_PID_VA_ENTRIES
             PROVE  step'[c] = "lookup"
  BY DEF LoopOK
<1>1. CASE Scan(c)
  BY <1>1, ScanMoves, MapAssumption
<1>2. CASE Finish(c)
  BY <1>2, MapAssumption DEF Finish, Leave, TypeOK, ProbeTypeOK
<1>3. CASE task[c] # NoTask /\ ~Scan(c) /\ ~Finish(c)
  BY <1>3, OthersKeepPlace DEF LoopOK
<1>4. CASE task[c] = NoTask
  <2>1. CASE EnterOther(c) \/ \E p \in Procs : EnterClient(c, p)
    BY <2>1, MapAssumption DEF EnterOther, EnterClient, Enter, TypeOK, ProbeTypeOK
  <2>2. CASE ~(EnterOther(c) \/ \E p \in Procs : EnterClient(c, p))
    <3>1. step'[c] = step[c] /\ i'[c] = i[c]
      <4> USE DEF TypeOK, ProbeTypeOK
      <4>1. ASSUME NEW p \in Procs, Start(p) \/ Open(p) \/ Call(p) \/ Terminate(p)
            PROVE  UNCHANGED <<step, i>>
        BY <4>1 DEF Start, Open, Call, Terminate, probeVars, cpuVars
      <4>2. ASSUME NEW d \in CPUs \ {c}, EnterOther(d) \/ \E p \in Procs : EnterClient(d, p)
            PROVE  step'[c] = step[c] /\ i'[c] = i[c]
        BY <4>2 DEF EnterOther, EnterClient, Enter
      <4>3. ASSUME NEW d \in CPUs, Scan(d) \/ Finish(d)
            PROVE  step'[c] = step[c] /\ i'[c] = i[c]
        <5>1. d # c
          BY <1>4, <4>3, ScanMoves DEF Finish, Leave
        <5> QED
          BY <4>3, <5>1, ScanMoves DEF Finish, Leave
      <4>4. CASE UNCHANGED vars
        BY <4>4 DEF vars, probeVars, cpuVars
      <4> QED
        BY <2>2, <4>1, <4>2, <4>3, <4>4 DEF Next
    <3> QED
      BY <3>1 DEF LoopOK
  <2> QED
    BY <2>1, <2>2
<1> QED
  BY <1>1, <1>2, <1>3, <1>4

\* Whatever clients and probes on other CPUs do, a probe makes progress with each of its
\* steps and loses none to theirs, so it makes at most 5 * MAX_PID_VA_ENTRIES of them
\* before it ends: the loop of the eBPF program is bounded although the map changes
\* under it.  This is what CallsReturn rests on besides fairness.
THEOREM ProbeEnds == Spec => ScanAdvances
<1> DEFINE I == TypeOK /\ RegistersOK /\ LoopOK
<1>1. Init => I
  <2>1. Init => LoopOK
    BY MapAssumption DEF Init, ProbeInit, LoopOK
  <2> QED
    BY <2>1, TypeInit
<1>2. I /\ [Next]_vars => I'
  BY TypeNext, LoopStep
<1>3. ASSUME I, [Next]_vars, NEW c \in CPUs, task[c] # NoTask
      PROVE  /\ Left(c) \in Nat \ {0}
             /\ Scan(c) => Left(c)' < Left(c) /\ task'[c] # NoTask
             /\ ~Scan(c) /\ ~Finish(c) => Left(c)' = Left(c) /\ task'[c] # NoTask
  <2>0. /\ i[c] \in 0 .. MAX_PID_VA_ENTRIES /\ MAX_PID_VA_ENTRIES \in Nat \ {0}
        /\ Phase[step[c]] \in 0 .. 4 /\ (step[c] = "lookup" => Phase[step[c]] = 0)
        /\ i[c] = MAX_PID_VA_ENTRIES => step[c] = "lookup"
    BY <1>3, PhaseBounds, MapAssumption DEF TypeOK, ProbeTypeOK, LoopOK
  <2>1. Left(c) \in Nat \ {0}
    BY <2>0, StepsLeft DEF Left
  <2>2. ASSUME Scan(c) PROVE Left(c)' < Left(c) /\ task'[c] # NoTask
    <3>1. CASE step'[c] = "lookup" /\ i'[c] = i[c] + 1
      <4>1. Left(c)' = 5 * (MAX_PID_VA_ENTRIES - (i[c] + 1)) + 1
        BY <2>0, <3>1 DEF Left, Phase
      <4> QED
        BY <1>3, <2>0, <2>2, <4>1, ScanMoves DEF Left
    <3>2. CASE i'[c] = i[c] /\ Phase[step'[c]] > Phase[step[c]]
      <4>1. Phase[step'[c]] \in 0 .. 4
        BY <1>2, <1>3 DEF TypeOK, ProbeTypeOK, Phase
      <4> QED
        BY <1>3, <2>0, <2>2, <3>2, <4>1, ScanMoves DEF Left
    <3> QED
      BY <1>3, <2>2, <3>1, <3>2, ScanMoves
  <2>3. ASSUME ~Scan(c), ~Finish(c) PROVE Left(c)' = Left(c) /\ task'[c] # NoTask
    BY <1>3, <2>3, OthersKeepPlace DEF Left
  <2> QED
    BY <2>1, <2>2, <2>3
<1>4. I /\ [Next]_vars =>
        [\A c \in CPUs : task[c] # NoTask =>
           /\ Left(c) \in Nat \ {0}
           /\ Scan(c) => Left(c)' < Left(c) /\ task'[c] # NoTask
           /\ ~Scan(c) /\ ~Finish(c) => Left(c)' = Left(c) /\ task'[c] # NoTask]_vars
  BY <1>3
<1> QED
  BY <1>1, <1>2, <1>4, PTL DEF Spec, ScanAdvances
=============================================================================
