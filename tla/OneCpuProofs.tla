---------------------------- MODULE OneCpuProofs ----------------------------
(***************************************************************************)
(* What holds of every PagePatrol system that runs on one CPU: a probe has *)
(* the map to itself, so requests are applied exactly as they were made.   *)
(***************************************************************************)
EXTENDS PagePatrolProofs, PagePatrolHints

\* Everything but the types and the draining, which hold for every system.
OneCpuCore == OneKeyPerClient /\ LinkedIsCurrent /\ FateMatchesMap /\ RegistersCurrent

USE DEF Handled

LEMMA OneCpuInit == Init => OneCpuCore
<1> SUFFICES ASSUME Init PROVE OneCpuCore
  OBVIOUS
<1>1. \A k \in Keys : slot[k] = NoCell
  BY DEF Init, MapInit
<1>2. \A p \in Procs : KeysOf(p) = {}
  BY <1>1 DEF KeysOf
<1>3. OneKeyPerClient /\ LinkedIsCurrent
  BY <1>1, <1>2 DEF OneKeyPerClient, LinkedIsCurrent
<1>4. FateMatchesMap
  BY <1>2 DEF FateMatchesMap, Init
<1>5. RegistersCurrent
  BY DEF RegistersCurrent, Init, ProbeInit
<1> QED
  BY <1>3, <1>4, <1>5 DEF OneCpuCore

\* While the only CPU is free, no probe is between two accesses.
LEMMA FreeMeansIdle ==
  ASSUME OneCpuCore, NEW cpu, CPUs = {cpu}, CpuFree
  PROVE  \A c \in CPUs : task[c] = NoTask /\ step[c] = "lookup"
BY DEF OneCpuCore, RegistersCurrent, CpuFree

\* A linked request is known by the process it belongs to.
LEMMA LinkedOwner ==
  ASSUME LinkedIsCurrent, NEW k \in Keys, slot[k] # NoCell
  PROVE  \E p \in Procs : /\ k \in KeysOf(p)
                          /\ cell[slot[k]].PID = p
                          /\ cell[slot[k]] = pid_va[p]
                          /\ pid_va[p].flags \in 1 .. 4
                          /\ pc[p] \in {"getpid", "exited"}
BY DEF LinkedIsCurrent, KeysOf

\* A step that leaves the map, the registers and the fates alone.
LEMMA OneCpuQuiet ==
  ASSUME OneCpuCore, UNCHANGED <<mapVars, step, ptr, va, flags, fate, seen>>,
         \A p \in Procs : KeysOf(p) # {} =>
           pid_va'[p] = pid_va[p] /\ pc'[p] \in {"getpid", "exited"},
         \A c \in CPUs : (task'[c] = task[c] /\ i'[c] = i[c]) \/ step[c] = "lookup"
  PROVE  OneCpuCore'
<1>1. \A p \in Procs : KeysOf(p)' = KeysOf(p)
  BY KeysOfUnchanged
<1>2. OneKeyPerClient'
  BY <1>1 DEF OneCpuCore, OneKeyPerClient, mapVars, Keys
<1>3. LinkedIsCurrent'
  <2> SUFFICES ASSUME NEW k \in Keys, slot[k] # NoCell
               PROVE  /\ cell[slot[k]].PID \in Procs
                      /\ cell[slot[k]].flags \in 1 .. 4
                      /\ cell[slot[k]] = pid_va'[cell[slot[k]].PID]
                      /\ pc'[cell[slot[k]].PID] \in {"getpid", "exited"}
    BY DEF LinkedIsCurrent, mapVars, Keys
  <2>1. PICK p \in Procs : /\ k \in KeysOf(p)
                           /\ cell[slot[k]].PID = p
                           /\ cell[slot[k]] = pid_va[p]
                           /\ pid_va[p].flags \in 1 .. 4
    BY LinkedOwner DEF OneCpuCore
  <2> QED
    BY <2>1
<1>4. \A c \in CPUs, k \in Keys : Handled(c, k)' <=> Handled(c, k)
  BY DEF Handled
<1>5. FateMatchesMap'
  <2>1. \A p \in Procs : KeysOf(p) \subseteq Keys
    BY DEF KeysOf
  <2> QED
    BY <1>1, <1>4, <2>1 DEF OneCpuCore, FateMatchesMap
<1>6. RegistersCurrent'
  BY DEF OneCpuCore, RegistersCurrent, mapVars
<1> QED
  BY <1>2, <1>3, <1>5, <1>6 DEF OneCpuCore

\* A call writes one request, of a process that had none in the map.
LEMMA OneCpuCall ==
  ASSUME DrainInv, OneCpuCore, NEW cpu, CPUs = {cpu}, NEW p \in Procs, Call(p)
  PROVE  OneCpuCore'
<1>t. /\ TypeOK /\ MapTypeOK /\ pid_va \in [Procs -> Request]
      /\ pc \in [Procs -> {"new", "initpid", "open", "idle", "getpid", "failed", "exited"}]
      /\ idx[p] \in Keys /\ fate \in [Procs -> Fates]
  BY DEF DrainInv, TypeOK, ApiTypeOK
<1>1. PICK op \in 1 .. 4, addr \in VAs \cup {NullVA} : Submit(p, op, addr)
  BY CallIsSubmit
<1> DEFINE r == Staged(p, op, addr)
<1>2. /\ CpuFree /\ FateOfSubmit(p, idx[p])
      /\ UNCHANGED <<task, step, i, ptr, va, flags, seen>>
  BY DEF Call, probeVars, cpuVars
<1>3. \A c \in CPUs : task[c] = NoTask /\ step[c] = "lookup"
  BY <1>2, FreeMeansIdle
<1>4. /\ KeysOf(p) = {}
      /\ r.PID = p /\ r.flags = op /\ r.VA = addr
  BY <1>1 DEF Submit, DrainInv, DrainCore, ServeCore, DrainedOnReturn, PidStored, Staged
<1>5. /\ pc'[p] = "getpid" /\ pid_va'[p] = r
      /\ \A q \in Procs \ {p} : pc'[q] = pc[q] /\ pid_va'[q] = pid_va[q]
  BY <1>1, <1>t DEF Submit
<1> HIDE DEF r
<1>6. RegistersCurrent'
  BY <1>2, <1>3 DEF RegistersCurrent
<1>7. CASE UNCHANGED mapVars
  <2>1. fate'[p] = "none" /\ \A q \in Procs \ {p} : fate'[q] = fate[q]
    BY <1>2, <1>7 DEF FateOfSubmit, Written, mapVars
  <2>2. \A q \in Procs : KeysOf(q)' = KeysOf(q)
    BY <1>7, KeysOfUnchanged
  <2>3. OneKeyPerClient'
    BY <1>7, <2>2 DEF OneCpuCore, OneKeyPerClient, mapVars, Keys
  <2>4. LinkedIsCurrent'
    <3> SUFFICES ASSUME NEW k \in Keys, slot[k] # NoCell
                 PROVE  /\ cell[slot[k]].PID \in Procs
                        /\ cell[slot[k]].flags \in 1 .. 4
                        /\ cell[slot[k]] = pid_va'[cell[slot[k]].PID]
                        /\ pc'[cell[slot[k]].PID] \in {"getpid", "exited"}
      BY <1>7 DEF LinkedIsCurrent, mapVars, Keys
    <3> QED
      BY <1>4, <1>5, LinkedOwner DEF OneCpuCore
  <2>5. FateMatchesMap'
    BY <1>2, <1>3, <1>4, <1>5, <2>1, <2>2 DEF OneCpuCore, FateMatchesMap
  <2> QED
    BY <1>6, <2>3, <2>4, <2>5 DEF OneCpuCore
<1>8. CASE MapUpdate(idx[p], r)
  <2> DEFINE k == idx[p]
  <2>1. PICK e \in FreeCells : slot' = [slot EXCEPT ![k] = e] /\ cell' = [cell EXCEPT ![e] = r]
    BY <1>8 DEF MapUpdate
  <2>2. /\ e \in Cells /\ e # NoCell /\ slot'[k] = e /\ cell'[e] = r
        /\ \A l \in Keys : slot[l] # e
        /\ \A l \in Keys \ {k} : /\ slot'[l] = slot[l]
                                 /\ slot[l] # NoCell => cell'[slot[l]] = cell[slot[l]]
    BY <1>t, <2>1, MapAssumption DEF FreeCells, MapTypeOK
  <2>3. /\ KeysOf(p)' = {k}
        /\ \A q \in Procs \ {p} : KeysOf(q)' = KeysOf(q) \ {k}
    BY <1>t, <1>4, <1>8, KeysOfUpdate
  <2>4. Written
    BY <1>t, <2>2 DEF Written
  <2> HIDE DEF k
  <2>5. OneKeyPerClient'
    <3>1. \A l, m \in Keys : slot'[l] = slot'[m] /\ slot'[l] # NoCell => l = m
      BY <2>2 DEF OneCpuCore, OneKeyPerClient
    <3>2. \A l, m \in Keys, q \in Procs : l \in KeysOf(q)' /\ m \in KeysOf(q)' => l = m
      BY <2>3 DEF OneCpuCore, OneKeyPerClient
    <3> QED
      BY <3>1, <3>2 DEF OneKeyPerClient, Keys
  <2>6. LinkedIsCurrent'
    <3> SUFFICES ASSUME NEW l \in Keys, slot'[l] # NoCell
                 PROVE  /\ cell'[slot'[l]].PID \in Procs
                        /\ cell'[slot'[l]].flags \in 1 .. 4
                        /\ cell'[slot'[l]] = pid_va'[cell'[slot'[l]].PID]
                        /\ pc'[cell'[slot'[l]].PID] \in {"getpid", "exited"}
      BY DEF LinkedIsCurrent, Keys
    <3>1. CASE l = k
      BY <1>4, <1>5, <2>2, <3>1
    <3>2. CASE l # k
      <4>1. PICK q \in Procs : /\ l \in KeysOf(q)
                               /\ cell[slot[l]].PID = q
                               /\ cell[slot[l]] = pid_va[q]
                               /\ pid_va[q].flags \in 1 .. 4
                               /\ pc[q] \in {"getpid", "exited"}
        BY <2>2, <3>2, LinkedOwner DEF OneCpuCore
      <4> QED
        BY <1>4, <1>5, <2>2, <3>2, <4>1
    <3> QED
      BY <3>1, <3>2
  <2>7. FateMatchesMap'
    <3> SUFFICES ASSUME NEW q \in Procs
                 PROVE  /\ fate'[q] \notin {"dropped", "repeated"}
                        /\ fate'[q] = "pending" => KeysOf(q)' # {}
                        /\ \A l \in KeysOf(q)' :
                             /\ pid_va'[q].VA = NullVA => fate'[q] = "none"
                             /\ pid_va'[q].VA # NullVA => fate'[q] = "pending"
      BY <1>2, <1>3 DEF FateMatchesMap
    <3>1. CASE q = p
      BY <1>2, <1>5, <2>3, <2>4, <3>1 DEF FateOfSubmit
    <3>2. CASE q # p
      <4>1. fate'[q] = IF k \in KeysOf(q) /\ fate[q] = "pending" THEN "overwritten" ELSE fate[q]
        BY <1>2, <2>4, <3>2 DEF FateOfSubmit, k
      <4>2. k \in KeysOf(q) => KeysOf(q)' = {}
        BY <2>3, <3>2 DEF OneCpuCore, OneKeyPerClient, KeysOf
      <4>3. k \notin KeysOf(q) => KeysOf(q)' = KeysOf(q)
        BY <2>3, <3>2
      <4>4. \A l \in KeysOf(q) :
              /\ pid_va[q].VA = NullVA => fate[q] = "none"
              /\ pid_va[q].VA # NullVA => fate[q] = "pending"
        BY <1>3 DEF OneCpuCore, FateMatchesMap
      <4>5. fate[q] \notin {"dropped", "repeated"} /\ (fate[q] = "pending" => KeysOf(q) # {})
        BY DEF OneCpuCore, FateMatchesMap
      <4> QED
        BY <1>5, <3>2, <4>1, <4>2, <4>3, <4>4, <4>5
    <3> QED
      BY <3>1, <3>2
  <2> QED
    BY <1>6, <2>5, <2>6, <2>7 DEF OneCpuCore
<1> QED
  BY <1>1, <1>7, <1>8 DEF Submit, r

\* One access of the probe.
LEMMA OneCpuScan ==
  ASSUME DrainInv, OneCpuCore, NEW cpu, CPUs = {cpu}, NEW c \in CPUs, Scan(c)
  PROVE  OneCpuCore'
<1>t. /\ TypeOK /\ MapTypeOK /\ RegistersOK
      /\ step \in [CPUs -> {"lookup", "va", "flags", "kfunc", "delete"}]
      /\ i \in [CPUs -> 0 .. MAX_PID_VA_ENTRIES]
      /\ ptr \in [CPUs -> Cells \cup {NoCell}]
      /\ va \in [CPUs -> VAs \cup {NullVA}]
      /\ flags \in [CPUs -> 0 .. 4]
      /\ seen \in [CPUs -> Request]
  BY DEF DrainInv, DrainCore, ServeCore, TypeOK, ProbeTypeOK
<1>1. /\ UNCHANGED <<pc, pid_va, task>>
      /\ task[c] # NoTask /\ i[c] < MAX_PID_VA_ENTRIES /\ i[c] \in Keys
      /\ SeenByScan(c)
      /\ \A d \in CPUs : d = c
  <2>1. UNCHANGED <<pc, pid_va>> /\ SeenByScan(c) /\ \A d \in CPUs : d = c
    BY DEF Scan, apiVars
  <2>2. UNCHANGED task /\ task[c] # NoTask /\ i[c] < MAX_PID_VA_ENTRIES
    BY DEF Scan, Lookup, LoadVa, LoadFlags, CallKfunc, Delete, At
  <2>3. i[c] \in Keys
    BY <1>t, <2>2, MapAssumption DEF Keys
  <2> QED
    BY <2>1, <2>2, <2>3
<1>s. seen'[c] = IF ptr'[c] = NoCell THEN Nothing
                 ELSE IF step[c] = "lookup" THEN cell[ptr'[c]] ELSE seen[c]
  BY <1>t, <1>1 DEF SeenByScan
<1>k. \A p \in Procs : KeysOf(p) \subseteq Keys
  BY DEF KeysOf
<1>2. ASSUME UNCHANGED <<mapVars, i, fate>>,
             step[c] # "delete", step'[c] # "delete" \/ va'[c] = NullVA,
             step'[c] \in {"va", "flags", "kfunc", "delete"},
             ptr'[c] = slot[i[c]], slot[i[c]] # NoCell,
             ptr'[c] = ptr[c] \/ step[c] = "lookup",
             step'[c] \in {"flags", "kfunc", "delete"} => va'[c] = cell[ptr'[c]].VA,
             step'[c] = "kfunc" => flags'[c] = cell[ptr'[c]].flags
      PROVE  OneCpuCore'
  <2>1. \A p \in Procs : KeysOf(p)' = KeysOf(p)
    BY <1>2, KeysOfUnchanged
  <2>2. OneKeyPerClient'
    BY <1>2, <2>1 DEF OneCpuCore, OneKeyPerClient, mapVars, Keys
  <2>3. LinkedIsCurrent'
    BY <1>1, <1>2 DEF OneCpuCore, LinkedIsCurrent, mapVars, Keys
  <2>4. \A p \in Procs : i[c] \in KeysOf(p) => pid_va[p] = cell[slot[i[c]]]
    BY <1>1 DEF OneCpuCore, LinkedIsCurrent, KeysOf
  <2>5. FateMatchesMap'
    <3> SUFFICES ASSUME NEW p \in Procs, NEW k \in KeysOf(p)
                 PROVE  /\ pid_va[p].VA = NullVA => fate[p] = "none"
                        /\ pid_va[p].VA # NullVA =>
                             fate[p] = IF Handled(c, k)' THEN "applied" ELSE "pending"
      BY <1>1, <1>2, <2>1 DEF OneCpuCore, FateMatchesMap
    <3>1. /\ pid_va[p].VA = NullVA => fate[p] = "none"
          /\ pid_va[p].VA # NullVA => fate[p] = "pending"
      BY <1>1, <1>2 DEF OneCpuCore, FateMatchesMap
    <3>2. Handled(c, k)' => pid_va[p].VA = NullVA
      BY <1>2, <2>4
    <3> QED
      BY <3>1, <3>2
  <2>6. seen'[c] = cell[ptr'[c]]
    BY <1>t, <1>2, <1>s, MapAssumption DEF MapTypeOK, OneCpuCore, RegistersCurrent
  <2>7. RegistersCurrent'
    BY <1>t, <1>1, <1>2, <2>6 DEF RegistersCurrent, mapVars
  <2> QED
    BY <2>2, <2>3, <2>5, <2>7 DEF OneCpuCore
<1>3. ASSUME UNCHANGED fate, NextSlot(c),
             \/ UNCHANGED mapVars /\ slot[i[c]] = NoCell /\ step[c] = "lookup"
             \/ MapDelete(i[c]) /\ step[c] = "delete",
             \A p \in Procs : i[c] \in KeysOf(p) => fate[p] # "pending"
      PROVE  OneCpuCore'
  <2>1. \A p \in Procs : KeysOf(p)' = KeysOf(p) \ {i[c]}
    <3>1. slot[i[c]] = NoCell => \A p \in Procs : i[c] \notin KeysOf(p)
      BY DEF KeysOf
    <3> QED
      BY <1>t, <1>1, <1>3, <3>1, KeysOfUnchanged, KeysOfDelete
  <2>2. /\ slot' \in [Keys -> Cells \cup {NoCell}]
        /\ slot'[i[c]] = NoCell /\ UNCHANGED cell
        /\ \A k \in Keys \ {i[c]} : slot'[k] = slot[k]
    BY <1>t, <1>1, <1>3 DEF MapDelete, MapTypeOK, mapVars
  <2>3. OneKeyPerClient'
    <3>1. \A l, m \in Keys : slot'[l] = slot'[m] /\ slot'[l] # NoCell => l = m
      BY <2>2 DEF OneCpuCore, OneKeyPerClient
    <3>2. \A l, m \in Keys, q \in Procs : l \in KeysOf(q)' /\ m \in KeysOf(q)' => l = m
      BY <2>1 DEF OneCpuCore, OneKeyPerClient
    <3> QED
      BY <3>1, <3>2 DEF OneKeyPerClient, Keys
  <2>4. LinkedIsCurrent'
    <3> SUFFICES ASSUME NEW k \in Keys, slot'[k] # NoCell
                 PROVE  /\ cell[slot'[k]].PID \in Procs
                        /\ cell[slot'[k]].flags \in 1 .. 4
                        /\ cell[slot'[k]] = pid_va[cell[slot'[k]].PID]
                        /\ pc[cell[slot'[k]].PID] \in {"getpid", "exited"}
      BY <1>1, <2>2 DEF LinkedIsCurrent, Keys
    <3>1. slot'[k] = slot[k] /\ k # i[c]
      BY <2>2
    <3> QED
      BY <3>1 DEF OneCpuCore, LinkedIsCurrent
  <2>5. /\ step'[c] = "lookup" /\ ptr'[c] = NoCell
    BY <1>t, <1>3 DEF NextSlot, Goto
  <2>6. FateMatchesMap'
    <3> SUFFICES ASSUME NEW p \in Procs
                 PROVE  /\ fate[p] \notin {"dropped", "repeated"}
                        /\ fate[p] = "pending" => KeysOf(p)' # {}
                        /\ \A k \in KeysOf(p)' :
                             /\ pid_va[p].VA = NullVA => fate[p] = "none"
                             /\ pid_va[p].VA # NullVA => fate[p] = "pending"
      BY <1>1, <1>3, <2>5 DEF FateMatchesMap
    <3>1. fate[p] \notin {"dropped", "repeated"} /\ (fate[p] = "pending" => KeysOf(p) # {})
      BY DEF OneCpuCore, FateMatchesMap
    <3>2. fate[p] = "pending" => KeysOf(p)' # {}
      BY <1>3, <2>1, <3>1
    <3>3. ASSUME NEW k \in KeysOf(p)'
          PROVE  k \in KeysOf(p) /\ ~Handled(c, k)
      BY <2>1, <3>3
    <3>4. \A k \in KeysOf(p)' :
            /\ pid_va[p].VA = NullVA => fate[p] = "none"
            /\ pid_va[p].VA # NullVA => fate[p] = "pending"
      BY <1>1, <3>3 DEF OneCpuCore, FateMatchesMap
    <3> QED
      BY <3>1, <3>2, <3>4
  <2>7. RegistersCurrent'
    BY <1>1, <2>5 DEF RegistersCurrent
  <2> QED
    BY <2>3, <2>4, <2>6, <2>7 DEF OneCpuCore
<1>4. step[c] # "lookup" => slot[i[c]] = ptr[c] /\ ptr[c] \in Cells /\ ptr[c] # NoCell
  BY <1>t, MapAssumption DEF OneCpuCore, RegistersCurrent, RegistersOK
<1>5. CASE Lookup(c) /\ UNCHANGED fate
  <2>1. CASE MapLookup(i[c]) = NoCell
    <3>1. \A p \in Procs : i[c] \notin KeysOf(p)
      BY <2>1 DEF MapLookup, KeysOf
    <3>2. NextSlot(c) /\ UNCHANGED mapVars /\ step[c] = "lookup"
      BY <1>5, <2>1 DEF Lookup, At
    <3> QED
      BY <1>3, <1>5, <2>1, <3>1, <3>2 DEF MapLookup
  <2>2. CASE MapLookup(i[c]) # NoCell
    BY <1>t, <1>2, <1>5, <2>2 DEF Lookup, MapLookup, At, Goto
  <2> QED
    BY <2>1, <2>2
<1>6. CASE LoadVa(c) /\ UNCHANGED fate
  BY <1>t, <1>2, <1>4, <1>6 DEF LoadVa, At, Goto
<1>7. CASE LoadFlags(c) /\ UNCHANGED fate
  <2>1. step[c] = "flags" /\ va[c] = cell[ptr[c]].VA /\ cell[ptr[c]].flags \in 1 .. 4
    BY <1>1, <1>4, <1>7 DEF LoadFlags, At, OneCpuCore, RegistersCurrent, LinkedIsCurrent
  <2> QED
    BY <1>t, <1>2, <1>4, <1>7, <2>1 DEF LoadFlags, Goto
<1>8. CASE CallKfunc(c, Alive) /\ FateOfKfunc(c)
  <2>1. /\ step[c] = "kfunc" /\ va[c] \in VAs /\ va[c] # NullVA
        /\ va[c] = cell[ptr[c]].VA /\ flags[c] = cell[ptr[c]].flags
        /\ slot[i[c]] = ptr[c] /\ ptr[c] # NoCell
        /\ seen[c] = cell[ptr[c]]
    BY <1>t, <1>4, <1>8, MapAssumption
    DEF CallKfunc, At, OneCpuCore, RegistersCurrent, RegistersOK
  <2>2. /\ UNCHANGED <<mapVars, i, ptr, va, flags>>
        /\ step' = [step EXCEPT ![c] = "delete"]
    BY <1>8 DEF CallKfunc, Goto
  <2>3. cell[ptr[c]] \in Request
    BY <1>t, <1>4, <2>1 DEF MapTypeOK
  <2>4. Args(c) = cell[ptr[c]]
    BY <2>1, <2>3 DEF Args, Request
  <2>5. PICK p \in Procs : /\ i[c] \in KeysOf(p)
                           /\ cell[ptr[c]].PID = p
                           /\ cell[ptr[c]] = pid_va[p]
    BY <1>1, <2>1, LinkedOwner DEF OneCpuCore
  <2>6. fate[p] = "pending"
    BY <1>1, <2>1, <2>5 DEF OneCpuCore, FateMatchesMap
  <2>7. fate'[p] = "applied"
    BY <1>8, <2>4, <2>5, <2>6 DEF FateOfKfunc
  <2>8. \A q \in Procs \ {p} : fate'[q] = fate[q]
    BY <1>8, <2>4, <2>5, MapAssumption DEF FateOfKfunc, DrainInv, DrainCore, ServeCore, PidStored
  <2>9. \A q \in Procs : KeysOf(q)' = KeysOf(q)
    BY <2>2, KeysOfUnchanged
  <2>10. KeysOf(p) = {i[c]} /\ \A q \in Procs \ {p} : i[c] \notin KeysOf(q)
    BY <1>1, <1>k, <2>5, <2>1 DEF OneCpuCore, OneKeyPerClient, KeysOf
  <2>11. OneKeyPerClient' /\ LinkedIsCurrent'
    BY <1>1, <2>2, <2>9 DEF OneCpuCore, OneKeyPerClient, LinkedIsCurrent, mapVars, Keys
  <2>12. FateMatchesMap'
    <3>1. \A k \in Keys : IF k = i[c] THEN Handled(c, k)'
                                       ELSE ~Handled(c, k)' /\ ~Handled(c, k)
      BY <1>t, <2>1, <2>2
    <3>2. pid_va'[p].VA # NullVA
      BY <1>1, <2>1, <2>5
    <3> SUFFICES ASSUME NEW q \in Procs
                 PROVE  /\ fate'[q] \notin {"dropped", "repeated"}
                        /\ fate'[q] = "pending" => KeysOf(q) # {}
                        /\ \A k \in KeysOf(q) :
                             /\ pid_va'[q].VA = NullVA => fate'[q] = "none"
                             /\ pid_va'[q].VA # NullVA =>
                                  fate'[q] = IF Handled(c, k)' THEN "applied" ELSE "pending"
      BY <1>1, <2>9 DEF FateMatchesMap
    <3>3. CASE q = p
      <4>1. fate'[q] = "applied" /\ KeysOf(q) = {i[c]} /\ pid_va'[q].VA # NullVA
        BY <2>7, <2>10, <3>2, <3>3
      <4>2. \A k \in KeysOf(q) : Handled(c, k)'
        BY <1>1, <3>1, <4>1
      <4> HIDE DEF Handled
      <4> QED
        BY <4>1, <4>2
    <3>4. CASE q # p
      <4>1. fate'[q] = fate[q] /\ pid_va'[q] = pid_va[q]
        BY <1>1, <2>8, <3>4
      <4>2. \A k \in KeysOf(q) : ~Handled(c, k)' /\ ~Handled(c, k)
        BY <1>k, <2>10, <3>1, <3>4
      <4> HIDE DEF Handled
      <4> QED
        BY <1>1, <4>1, <4>2 DEF OneCpuCore, FateMatchesMap
    <3> QED
      BY <3>3, <3>4
  <2>13. seen'[c] = cell[ptr[c]]
    BY <1>s, <2>1, <2>2
  <2>14. RegistersCurrent'
    BY <1>t, <1>1, <2>1, <2>2, <2>13 DEF RegistersCurrent, mapVars
  <2> QED
    BY <2>11, <2>12, <2>14 DEF OneCpuCore
<1>9. CASE Delete(c) /\ FateOfDelete(c)
  <2>1. /\ step[c] = "delete" /\ MapDelete(i[c]) /\ NextSlot(c)
    BY <1>9 DEF Delete, At
  <2>2. \A p \in Procs : i[c] \in KeysOf(p) => fate[p] # "pending"
    BY <1>1, <2>1 DEF OneCpuCore, FateMatchesMap
  <2>3. UNCHANGED fate
    BY <1>9, <1>t, <2>2 DEF FateOfDelete, TypeOK
  <2> QED
    BY <1>3, <2>1, <2>2, <2>3
<1> QED
  BY <1>5, <1>6, <1>7, <1>8, <1>9 DEF Scan

LEMMA OneCpuNext ==
  ASSUME NEW cpu, CPUs = {cpu}, DrainInv, OneCpuCore, [Next]_vars
  PROVE  OneCpuCore'
<1> USE ProbeAssumption
<1>0. \A p \in Procs : KeysOf(p) # {} => pc[p] \in {"getpid", "exited"}
  BY DEF DrainInv, DrainCore, ServeCore, DrainedOnReturn
<1>t. /\ pc \in [Procs -> {"new", "initpid", "open", "idle", "getpid", "failed", "exited"}]
      /\ pid_va \in [Procs -> Request]
      /\ task \in [CPUs -> Procs \cup {NoTask, OtherTask}]
      /\ i \in [CPUs -> 0 .. MAX_PID_VA_ENTRIES]
  BY DEF DrainInv, TypeOK, ApiTypeOK, ProbeTypeOK
<1>1. ASSUME NEW p \in Procs, Start(p) \/ Open(p) \/ Terminate(p)
      PROVE  OneCpuCore'
  <2>1. \A q \in Procs : KeysOf(q) # {} =>
          pid_va'[q] = pid_va[q] /\ pc'[q] \in {"getpid", "exited"}
    BY <1>0, <1>1, <1>t DEF Start, InitPagePatrol, Open, OpenMap, Terminate, Exit
  <2> QED
    BY <1>1, <2>1, OneCpuQuiet
    DEF Start, InitPagePatrol, Open, OpenMap, Terminate, Exit,
        probeVars, cpuVars, historyVars
<1>2. ASSUME NEW p \in Procs, Call(p)
      PROVE  OneCpuCore'
  BY <1>2, OneCpuCall
<1>3. ASSUME NEW c \in CPUs, NEW t, Enter(c, t), UNCHANGED <<apiVars, historyVars>>
      PROVE  OneCpuCore'
  <2>1. \A d \in CPUs : d = c /\ step[d] = "lookup"
    BY <1>3 DEF Enter, OneCpuCore, RegistersCurrent
  <2> QED
    BY <1>0, <1>3, <2>1, OneCpuQuiet DEF Enter, apiVars, historyVars
<1>4. ASSUME NEW c \in CPUs, Scan(c)
      PROVE  OneCpuCore'
  BY <1>4, OneCpuScan
<1>5. ASSUME NEW c \in CPUs, Finish(c)
      PROVE  OneCpuCore'
  <2>1. \A d \in CPUs : d = c /\ step[d] = "lookup"
    BY <1>5 DEF Finish, Leave, OneCpuCore, RegistersCurrent
  <2>2. task[c] \in Procs => KeysOf(task[c]) = {}
    BY <1>5, <1>t, MapAssumption
    DEF Finish, Leave, DrainInv, DrainCore, ServeCore, ServesClient, KeysOf, Keys
  <2>3. \A q \in Procs : KeysOf(q) # {} =>
          pid_va'[q] = pid_va[q] /\ pc'[q] \in {"getpid", "exited"}
    BY <1>0, <1>5, <1>t, <2>2 DEF Finish, GetpidReturns, apiVars
  <2> QED
    BY <1>5, <2>1, <2>3, OneCpuQuiet DEF Finish, Leave
<1>6. CASE UNCHANGED vars
  BY <1>0, <1>6, OneCpuQuiet DEF vars, apiVars, probeVars, cpuVars, historyVars
<1> QED
  BY <1>1, <1>2, <1>3, <1>4, <1>5, <1>6 DEF Next, EnterClient, EnterOther

LEMMA OneCpuInvariant ==
  ASSUME NEW CONSTANT cpu, CPUs = {cpu}
  PROVE  Spec => [](DrainInv /\ OneCpuCore)
<1>1. Init => DrainInv /\ OneCpuCore
  BY TypeInit, ServeInit, DrainInit, OneCpuInit DEF DrainInv, DrainCore
<1>2. DrainInv /\ OneCpuCore /\ [Next]_vars => (DrainInv /\ OneCpuCore)'
  BY DrainNext, OneCpuNext
<1> QED
  BY <1>1, <1>2, PTL DEF Spec

-----------------------------------------------------------------------------
\* On one CPU no request is lost to the probe or applied twice, and none is left
\* pending by a call that has returned.
THEOREM Applied ==
  ASSUME NEW CONSTANT cpu, CPUs = {cpu}
  PROVE  Spec => []AppliedOnce
<1>1. DrainInv /\ OneCpuCore => AppliedOnce
  BY DEF DrainInv, DrainCore, ServeCore, DrainedOnReturn, OneCpuCore, FateMatchesMap, AppliedOnce
<1> QED
  BY <1>1, OneCpuInvariant, PTL

\* On one CPU every kfunc call is made for one request, the one looked up.
THEOREM NotTorn ==
  ASSUME NEW CONSTANT cpu, CPUs = {cpu}
  PROVE  Spec => []CallsWhatItLookedUp
<1>1. DrainInv /\ OneCpuCore => CallsWhatItLookedUp
  <2> SUFFICES ASSUME DrainInv, OneCpuCore, NEW c \in CPUs, At(c, "kfunc")
               PROVE  Args(c) = seen[c]
    BY DEF CallsWhatItLookedUp
  <2>1. /\ seen[c] = cell[ptr[c]]
        /\ va[c] = cell[ptr[c]].VA
        /\ flags[c] = cell[ptr[c]].flags
    BY DEF At, OneCpuCore, RegistersCurrent
  <2>2. cell[ptr[c]] \in Request
    BY DEF At, DrainInv, DrainCore, ServeCore, RegistersOK, TypeOK, MapTypeOK
  <2> QED
    BY <2>1, <2>2 DEF Args, Request
<1> QED
  BY <1>1, OneCpuInvariant, PTL

\* On one CPU the pages of a process change only while one of its calls asks for
\* just that.
THEOREM PagesFollowCalls ==
  ASSUME NEW CONSTANT cpu, CPUs = {cpu}
  PROVE  Spec => OnlyCallsMovePages
<1>1. ASSUME DrainInv, OneCpuCore, [Next]_vars
      PROVE  MovesAsAsked
  <2>1. CASE UNCHANGED pageVars
    BY <2>1 DEF pageVars, MovesAsAsked
  <2>2. ASSUME NEW c \in CPUs, CallKfunc(c, Alive), ~UNCHANGED pageVars
        PROVE  MovesAsAsked
    <3>1. /\ cell[ptr[c]].PID \in Alive
          /\ KfuncEffect(flags[c], <<cell[ptr[c]].PID, va[c]>>)
      BY <2>2 DEF CallKfunc
    <3>2. /\ At(c, "kfunc") /\ slot[i[c]] = ptr[c] /\ ptr[c] # NoCell
          /\ va[c] = cell[ptr[c]].VA /\ flags[c] = cell[ptr[c]].flags
      BY <1>1, <2>2, MapAssumption
      DEF CallKfunc, At, OneCpuCore, RegistersCurrent, DrainInv, DrainCore, ServeCore, RegistersOK
    <3>3. i[c] \in Keys
      BY <1>1, <3>2, MapAssumption DEF At, Keys, DrainInv, TypeOK, ProbeTypeOK
    <3>4. PICK q \in Procs : /\ cell[ptr[c]].PID = q
                             /\ cell[ptr[c]] = pid_va[q]
                             /\ pc[q] \in {"getpid", "exited"}
      BY <1>1, <3>2, <3>3, LinkedOwner DEF OneCpuCore
    <3>5. pc[q] = "getpid" /\ pid_va[q].VA = va[c] /\ pid_va[q].flags = flags[c]
      BY <3>1, <3>2, <3>4 DEF Alive
    <3>6. KfuncEffect(flags[c], <<q, va[c]>>)
      BY <3>1, <3>4
    <3> QED
      BY <3>5, <3>6
      DEF MovesAsAsked, InCallFor, KfuncEffect, Activation, Deactivation, Pinning, Unpinning
  <2>3. ~UNCHANGED pageVars => \E c \in CPUs : CallKfunc(c, Alive)
    BY <1>1 DEF Next, vars, probeVars, Start, Open, Call, Terminate, EnterClient, EnterOther,
                Enter, Scan, Lookup, LoadVa, LoadFlags, Delete, Finish, Leave
  <2> QED
    BY <2>1, <2>2, <2>3
<1> QED
  BY <1>1, OneCpuInvariant, PTL DEF Spec, OnlyCallsMovePages

\* On one CPU the whole invariant holds: what the map holds is the last request of a
\* process still in its call or ended in it, and the registers of the probe agree with
\* the entry it points to.
THEOREM ScanInOrder ==
  ASSUME NEW CONSTANT cpu, CPUs = {cpu}
  PROVE  Spec => []OneCpuInv
<1>1. DrainInv /\ OneCpuCore => OneCpuInv
  BY DEF OneCpuCore, OneCpuInv
<1> QED
  BY <1>1, OneCpuInvariant, PTL

-----------------------------------------------------------------------------
(* One CPU and one client: PageHints. *)

Idle == [status |-> "none", op |-> 0, va |-> NullVA]
Dead == [status |-> "gone", op |-> 0, va |-> NullVA]
InCall(s, r) == [status |-> s, op |-> r.flags, va |-> r.VA]
StatusOf(f) ==
  IF f = "pending" THEN "asked" ELSE IF f = "none" THEN "refused"
  ELSE IF f = "applied" THEN "done" ELSE "lost"

\* The refinement mapping without its CASE.
LEMMA HintNow ==
  ASSUME NEW p \in Procs
  PROVE  /\ pc[p] = "exited" => HintOf(p) = Dead
         /\ pc[p] \notin {"exited", "getpid"} => HintOf(p) = Idle
         /\ pc[p] = "getpid" => HintOf(p) = InCall(StatusOf(fate[p]), pid_va[p])
BY DEF HintOf, Idle, Dead, InCall, StatusOf

LEMMA HintNext ==
  ASSUME NEW p \in Procs
  PROVE  /\ pc'[p] = "exited" => HintOf(p)' = Dead
         /\ pc'[p] \notin {"exited", "getpid"} => HintOf(p)' = Idle
         /\ pc'[p] = "getpid" => HintOf(p)' = InCall(StatusOf(fate'[p]), pid_va'[p])
BY DEF HintOf, Idle, Dead, InCall, StatusOf

\* With one client a step of PageHints is a step of its call.
HintStep(p) ==
  LET h == HintOf(p)
      g == HintOf(p)'
  IN  \/ UNCHANGED <<active, pinned>> /\ g = h
      \/ \E op \in Ops, v \in VAs \cup {NullVA} :
           /\ h = Idle /\ UNCHANGED <<active, pinned>>
           /\ \E s \in IF v = NullVA THEN {"refused"} ELSE {"asked", "refused"} :
                g = [status |-> s, op |-> op, va |-> v]
      \/ /\ h.status = "asked" /\ g = [h EXCEPT !.status = "done"]
         /\ Hints!MovePage(h.op, <<p, h.va>>) \/ UNCHANGED <<active, pinned>>
      \/ h.status \in {"done", "refused"} /\ g = Idle /\ UNCHANGED <<active, pinned>>
      \/ g = Dead /\ UNCHANGED <<active, pinned>>

LEMMA OneClientStep ==
  ASSUME NEW p, Procs = {p}, HintStep(p)
  PROVE  [Hints!HintsNext]_(Hints!hintsVars)
<1> DEFINE call == [q \in Procs |-> HintOf(q)]
           newCall == [q \in Procs |-> HintOf(q)']
<1>1. call[p] = HintOf(p) /\ newCall[p] = HintOf(p)' /\ p \in Procs
  OBVIOUS
<1>2. call' = newCall
  OBVIOUS
<1>3. \A x : x = HintOf(p)' => newCall = [call EXCEPT ![p] = x]
  OBVIOUS
<1> HIDE DEF call, newCall
<1>4. CASE UNCHANGED <<active, pinned>> /\ HintOf(p)' = HintOf(p)
  <2>1. newCall = call
    BY <1>4 DEF call, newCall
  <2> QED
    BY <1>2, <1>4, <2>1 DEF Hints!hintsVars, call
<1>5. ASSUME NEW op \in Ops, NEW v \in VAs \cup {NullVA},
             HintOf(p) = Idle, UNCHANGED <<active, pinned>>,
             NEW s \in IF v = NullVA THEN {"refused"} ELSE {"asked", "refused"},
             HintOf(p)' = [status |-> s, op |-> op, va |-> v]
      PROVE  Hints!HintsNext
  <2>1. Hints!Ask(p, op, v)
    BY <1>1, <1>2, <1>3, <1>5 DEF Hints!Ask, Hints!NoCall, Idle, call
  <2> QED
    BY <1>1, <2>1 DEF Hints!HintsNext
<1>6. CASE /\ HintOf(p).status = "asked" /\ HintOf(p)' = [HintOf(p) EXCEPT !.status = "done"]
           /\ Hints!MovePage(HintOf(p).op, <<p, HintOf(p).va>>) \/ UNCHANGED <<active, pinned>>
  <2>1. Hints!Perform(p)
    BY <1>1, <1>2, <1>3, <1>6 DEF Hints!Perform, call
  <2> QED
    BY <1>1, <2>1 DEF Hints!HintsNext
<1>7. CASE HintOf(p).status \in {"done", "refused"} /\ HintOf(p)' = Idle /\ UNCHANGED <<active, pinned>>
  <2>1. Hints!Return(p)
    BY <1>1, <1>2, <1>3, <1>7 DEF Hints!Return, Hints!NoCall, Idle, call
  <2> QED
    BY <1>1, <2>1 DEF Hints!HintsNext
<1>8. CASE HintOf(p)' = Dead /\ UNCHANGED <<active, pinned>>
  <2>1. Hints!Die(p)
    BY <1>1, <1>2, <1>3, <1>8 DEF Hints!Die, Hints!Gone, Hints!NoCall, Dead, call
  <2> QED
    BY <1>1, <2>1 DEF Hints!HintsNext
<1> QED
  BY <1>4, <1>5, <1>6, <1>7, <1>8 DEF HintStep

\* Steps in which the client neither starts nor ends a call, and nothing becomes of it.
LEMMA HintStutters ==
  ASSUME NEW p \in Procs, UNCHANGED <<active, pinned>>,
         \/ pc'[p] = pc[p] /\ pid_va'[p] = pid_va[p] /\ fate'[p] = fate[p]
         \/ {pc[p], pc'[p]} \cap {"getpid", "exited"} = {}
  PROVE  HintStep(p)
<1>1. HintOf(p)' = HintOf(p)
  <2>1. CASE {pc[p], pc'[p]} \cap {"getpid", "exited"} = {}
    <3>1. pc[p] \notin {"getpid", "exited"} /\ pc'[p] \notin {"getpid", "exited"}
      BY <2>1
    <3> QED
      BY <3>1, HintNow, HintNext
  <2>2. CASE pc'[p] = pc[p] /\ pid_va'[p] = pid_va[p] /\ fate'[p] = fate[p]
    BY <2>2, HintNow, HintNext
  <2> QED
    BY <2>1, <2>2
<1> QED
  BY <1>1 DEF HintStep

LEMMA CallAsks ==
  ASSUME NEW p \in Procs, TypeOK, Call(p)
  PROVE  HintStep(p)
<1>1. PICK op \in Ops, addr \in VAs \cup {NullVA} : Submit(p, op, addr)
  BY DEF Call, ApiCall, MarkVaForActivation, MarkVaForDeactivation, PinVa, UnpinVa
<1>2. /\ pc[p] = "idle" /\ pc'[p] = "getpid"
      /\ pid_va'[p] = Staged(p, op, addr)
      /\ UNCHANGED <<active, pinned>>
  BY <1>1 DEF Submit, Call, TypeOK, ApiTypeOK, probeVars, pageVars
<1>3. pid_va'[p].flags = op /\ pid_va'[p].VA = addr
  BY <1>2 DEF Staged
<1>4. fate'[p] = IF Written /\ addr # NullVA THEN "pending" ELSE "none"
  BY <1>3 DEF Call, FateOfSubmit
<1>5. StatusOf(fate'[p]) \in IF addr = NullVA THEN {"refused"} ELSE {"asked", "refused"}
  BY <1>4 DEF StatusOf
<1>6. HintOf(p) = Idle
  BY <1>2, HintNow
<1>7. HintOf(p)' = [status |-> StatusOf(fate'[p]), op |-> op, va |-> addr]
  BY <1>2, <1>3, HintNext DEF InCall
<1> QED
  BY <1>2, <1>5, <1>6, <1>7 DEF HintStep

LEMMA ScanPerforms ==
  ASSUME NEW cpu, CPUs = {cpu}, NEW p, Procs = {p}, DrainInv, OneCpuCore, OneCpuCore',
         NEW c \in CPUs, Scan(c)
  PROVE  HintStep(p)
<1>t. TypeOK /\ RegistersOK /\ p \in Procs
  BY DEF DrainInv, DrainCore, ServeCore
<1>0. UNCHANGED apiVars
  BY DEF Scan
<1>1. CASE (Lookup(c) \/ LoadVa(c) \/ LoadFlags(c)) /\ UNCHANGED fate
  BY <1>0, <1>1, <1>t, HintStutters DEF Lookup, LoadVa, LoadFlags, apiVars, pageVars
<1>2. CASE Delete(c) /\ FateOfDelete(c)
  <2>1. fate'[p] \in {fate[p], "dropped"}
    BY <1>2, <1>t DEF FateOfDelete
  <2>2. fate'[p] # "dropped"
    BY <1>t DEF OneCpuCore, FateMatchesMap
  <2> QED
    BY <1>0, <1>2, <1>t, <2>1, <2>2, HintStutters DEF Delete, apiVars, pageVars
<1>3. CASE CallKfunc(c, Alive) /\ FateOfKfunc(c)
  <2> DEFINE r == cell[ptr[c]]
  <2>1. /\ At(c, "kfunc") /\ slot[i[c]] = ptr[c] /\ ptr[c] # NoCell
        /\ va[c] = r.VA /\ flags[c] = r.flags /\ va[c] \in VAs
    BY <1>3, <1>t, MapAssumption
    DEF CallKfunc, At, OneCpuCore, RegistersCurrent, RegistersOK
  <2>2. i[c] \in Keys
    BY <1>t, <2>1, MapAssumption DEF At, Keys, TypeOK, ProbeTypeOK
  <2>3. /\ i[c] \in KeysOf(p) /\ r = pid_va[p] /\ r.PID = p /\ r.flags \in 1 .. 4
        /\ pc[p] \in {"getpid", "exited"}
    BY <1>t, <2>1, <2>2, LinkedOwner DEF OneCpuCore
  <2>4. fate[p] = "pending"
    <3>1. \A d \in CPUs : ~Handled(d, i[c])
      BY <2>1 DEF At
    <3>2. pid_va[p].VA # NullVA
      BY <2>1, <2>3, MapAssumption
    <3> QED
      BY <1>t, <2>3, <3>1, <3>2 DEF OneCpuCore, FateMatchesMap
  <2>5. Args(c) = pid_va[p]
    <3>1. pid_va[p] \in Request
      BY <1>t DEF TypeOK, ApiTypeOK
    <3> QED
      BY <2>1, <2>3, <3>1 DEF Args, Request
  <2>6. fate'[p] = "applied"
    BY <1>3, <1>t, <2>4, <2>5 DEF FateOfKfunc
  <2>7. pc'[p] = pc[p] /\ pid_va'[p] = pid_va[p]
    BY <1>0 DEF apiVars
  <2>8. \/ p \in Alive /\ KfuncEffect(flags[c], <<p, va[c]>>)
        \/ UNCHANGED <<active, pinned>>
    BY <1>3, <2>3 DEF CallKfunc, pageVars
  <2> HIDE DEF r
  <2>9. CASE pc[p] = "exited"
    <3>1. HintOf(p)' = Dead
      BY <1>t, <2>7, <2>9, HintNext
    <3>2. UNCHANGED <<active, pinned>>
      BY <2>8, <2>9 DEF Alive
    <3> QED
      BY <3>1, <3>2 DEF HintStep
  <2>10. CASE pc[p] = "getpid"
    <3>1. HintOf(p) = InCall("asked", pid_va[p])
      BY <1>t, <2>4, <2>10, HintNow DEF StatusOf
    <3>2. HintOf(p)' = InCall("done", pid_va[p])
      BY <1>t, <2>6, <2>7, <2>10, HintNext DEF StatusOf
    <3>3. /\ HintOf(p).status = "asked"
          /\ HintOf(p)' = [HintOf(p) EXCEPT !.status = "done"]
          /\ HintOf(p).op = flags[c] /\ HintOf(p).va = va[c]
      BY <2>1, <2>3, <3>1, <3>2 DEF InCall
    <3>4. flags[c] \in 1 .. 4
      BY <2>1, <2>3
    <3>5. KfuncEffect(flags[c], <<p, va[c]>>) => Hints!MovePage(flags[c], <<p, va[c]>>)
      BY <3>4 DEF KfuncEffect, Hints!MovePage
    <3> QED
      BY <2>8, <3>3, <3>5 DEF HintStep
  <2> QED
    BY <2>3, <2>9, <2>10
<1> QED
  BY <1>1, <1>2, <1>3 DEF Scan

LEMMA FinishReturns ==
  ASSUME NEW p, Procs = {p}, DrainInv, OneCpuCore, NoCollision, NEW c \in CPUs, Finish(c)
  PROVE  HintStep(p)
<1>t. TypeOK /\ p \in Procs
  BY DEF DrainInv
<1>0. UNCHANGED <<active, pinned, fate>>
  BY DEF Finish, Leave, pageVars
<1>1. CASE UNCHANGED apiVars
  BY <1>0, <1>1, <1>t, HintStutters DEF apiVars
<1>2. CASE task[c] = p /\ GetpidReturns(p)
  <2>1. CASE pc[p] = "initpid" /\ pc'[p] = "open"
    BY <1>0, <1>t, <2>1, HintStutters
  <2>2. CASE pc[p] = "getpid" /\ pc'[p] = "idle"
    <3>1. KeysOf(p) = {}
      BY <1>2, <1>t, MapAssumption
      DEF Finish, Leave, DrainInv, DrainCore, ServeCore, ServesClient, KeysOf, Keys
    <3>2. fate[p] \in {"none", "applied"}
      BY <1>t, <3>1 DEF OneCpuCore, FateMatchesMap, NoCollision, TypeOK, Fates
    <3>3. HintOf(p).status \in {"done", "refused"}
      BY <1>t, <2>2, <3>2, HintNow DEF InCall, StatusOf
    <3>4. HintOf(p)' = Idle
      BY <1>t, <2>2, HintNext
    <3> QED
      BY <1>0, <3>3, <3>4 DEF HintStep
  <2> QED
    BY <1>2, <1>t, <2>1, <2>2 DEF GetpidReturns, TypeOK, ApiTypeOK
<1> QED
  BY <1>1, <1>2 DEF Finish

\* A sole client collides with nobody.
LEMMA SoleClientKept ==
  ASSUME NEW p, Procs = {p}, TypeOK, NoCollision, [Next]_vars
  PROVE  NoCollision'
<1>t. p \in Procs /\ fate \in [Procs -> Fates] /\ fate[p] # "overwritten"
  BY DEF TypeOK, NoCollision
<1> SUFFICES fate'[p] # "overwritten"
  BY DEF NoCollision
<1>1. CASE UNCHANGED fate
  BY <1>1, <1>t
<1>2. CASE Call(p)
  BY <1>2, <1>t DEF Call, FateOfSubmit
<1>3. ASSUME NEW c \in CPUs, Scan(c)
      PROVE  fate'[p] # "overwritten"
  BY <1>1, <1>3, <1>t DEF Scan, FateOfKfunc, FateOfDelete
<1>4. CASE UNCHANGED vars
  BY <1>1, <1>4 DEF vars, historyVars
<1> QED
  BY <1>1, <1>2, <1>3, <1>4
  DEF Next, Start, Open, Terminate, EnterClient, EnterOther, Finish, historyVars

LEMMA HintsFollow ==
  ASSUME NEW cpu, CPUs = {cpu}, NEW p, Procs = {p}, DrainInv, OneCpuCore, OneCpuCore',
         NoCollision, [Next]_vars
  PROVE  HintStep(p)
<1>t. TypeOK /\ p \in Procs
  BY DEF DrainInv
<1>1. CASE Start(p)
  <2>1. pc[p] = "new" /\ pc'[p] = "initpid" /\ UNCHANGED <<active, pinned>>
    BY <1>1, <1>t DEF Start, InitPagePatrol, TypeOK, ApiTypeOK, probeVars, pageVars
  <2> QED
    BY <2>1, HintStutters
<1>2. CASE Open(p)
  <2>1. pc[p] = "open" /\ pc'[p] \in {"idle", "failed"} /\ UNCHANGED <<active, pinned>>
    BY <1>2, <1>t DEF Open, OpenMap, TypeOK, ApiTypeOK, probeVars, pageVars
  <2> QED
    BY <2>1, HintStutters
<1>3. CASE Call(p)
  BY <1>3, <1>t, CallAsks
<1>4. CASE Terminate(p)
  <2>1. pc'[p] = "exited" /\ UNCHANGED <<active, pinned>>
    BY <1>4, <1>t DEF Terminate, Exit, TypeOK, ApiTypeOK, probeVars, pageVars
  <2>2. HintOf(p)' = Dead
    BY <1>t, <2>1, HintNext
  <2> QED
    BY <2>1, <2>2 DEF HintStep
<1>5. ASSUME NEW c \in CPUs, EnterClient(c, p) \/ EnterOther(c)
      PROVE  HintStep(p)
  BY <1>5, <1>t, HintStutters
  DEF EnterClient, EnterOther, Enter, apiVars, historyVars, pageVars
<1>6. ASSUME NEW c \in CPUs, Scan(c) PROVE HintStep(p)
  BY <1>6, ScanPerforms
<1>7. ASSUME NEW c \in CPUs, Finish(c) PROVE HintStep(p)
  BY <1>7, FinishReturns
<1>8. CASE UNCHANGED vars
  BY <1>8, <1>t, HintStutters DEF vars, apiVars, probeVars, historyVars, pageVars
<1> QED
  BY <1>1, <1>2, <1>3, <1>4, <1>5, <1>6, <1>7, <1>8 DEF Next

\* The safety half of HintsSpec.
PromiseKept == Hints!HintsInit /\ [][Hints!HintsNext]_(Hints!hintsVars)

\* On one CPU with one client, whatever the ring, the pool of entries and the addresses,
\* the library, the map and the probe do what PageHints says: a call is performed at
\* most once, between its start and its return, and returns performed or refused; no
\* request is lost or repeated.
THEOREM ImplementsHintsSafely ==
  ASSUME NEW CONSTANT cpu, CPUs = {cpu}, NEW CONSTANT client, Procs = {client}
  PROVE  Spec => PromiseKept
<1>1. Init => Hints!HintsInit
  <2> SUFFICES ASSUME Init PROVE Hints!HintsInit
    OBVIOUS
  <2>1. \A p \in Procs : HintOf(p) = Idle
    BY HintNow DEF Init, ApiInit
  <2>2. active = {} /\ pinned = {}
    BY DEF Init, ProbeInit
  <2> QED
    BY <2>1, <2>2 DEF Hints!HintsInit, Hints!NoCall, Idle
<1>2. (DrainInv /\ OneCpuCore) /\ (DrainInv /\ OneCpuCore)' /\ NoCollision /\ [Next]_vars
      => [Hints!HintsNext]_(Hints!hintsVars)
  BY HintsFollow, OneClientStep
<1>3. Init => NoCollision
  BY DEF Init, NoCollision
<1>4. DrainInv /\ NoCollision /\ [Next]_vars => NoCollision'
  BY SoleClientKept DEF DrainInv
<1> QED
  BY <1>1, <1>2, <1>3, <1>4, OneCpuInvariant, PTL DEF Spec, PromiseKept
=============================================================================
