--------------------------- MODULE IndexedProofs ---------------------------
(***************************************************************************)
(* The scan that starts from the flags of slot 0 still visits every slot   *)
(* behind it, for every number of slots above 4, of clients, entries and   *)
(* CPUs, and no probe ever empties slot 0.                                 *)
(***************************************************************************)
EXTENDS IndexedDrain, PagePatrolApiProofs

InLoop(c) == step[c] \in {"lookup", "flags", "kfunc", "delete"}

\* Requests in the map, and those a probe points to, name a client and one of the
\* four operations.
Submitted(r) == r.flags \in 1 .. 4 /\ r.PID \in Procs

OperationsOnly ==
  /\ \A k \in Keys : slot[k] # NoCell => Submitted(cell[slot[k]])
  /\ \A c \in CPUs : ptr[c] # NoCell => Submitted(cell[ptr[c]])
  /\ \A c \in CPUs : step[c] \in {"start", "flags", "kfunc", "delete"} => ptr[c] \in Cells

\* Slot 0 is the first every client writes.
HeaderFirst ==
  /\ \A p \in Procs : idx[p] # 0 => slot[0] # NoCell
  /\ slot[0] = NoCell => \A k \in Keys : slot[k] = NoCell

\* Inside its loop a probe is never at slot 0.
Positions ==
  \A c \in CPUs :
    /\ task[c] = NoTask => step[c] = "header"
    /\ step[c] \in {"header", "start"} => times[c] = 1
    /\ InLoop(c) => at[c] \in 1 .. MAX_PID_VA_ENTRIES - 1 /\ times[c] < MAX_PID_VA_ENTRIES

\* How many slots the loop visits before slot k, from slot n on.
Distance(n, k) == IF k >= n THEN k - n ELSE k + (MAX_PID_VA_ENTRIES - 1) - n

\* Slot k is still to be visited.
Ahead(c, k) ==
  \/ step[c] \in {"header", "start"}
  \/ InLoop(c) /\ Distance(at[c], k) < MAX_PID_VA_ENTRIES - times[c]

\* The probe that works for p has left nothing of p behind it.
ServesClient ==
  \A c \in CPUs, p \in Procs :
    task[c] = p => AtGetpid(p) /\ \A k \in KeysOf(p) \ {0} : Ahead(c, k)

OneProbePerClient ==
  \A c, d \in CPUs : task[c] = task[d] /\ task[c] \in Procs => c = d

ScanInv == TypeOK /\ PidStored /\ OperationsOnly /\ HeaderFirst /\ Positions
Inv == ScanInv /\ ServesClient /\ OneProbePerClient /\ DrainedBehindHeader

LEMMA KeysFacts ==
  /\ MAX_PID_VA_ENTRIES \in Nat /\ MAX_PID_VA_ENTRIES > 4
  /\ 0 \in Keys /\ 1 .. 4 \subseteq Keys
  /\ \A k \in Keys \ {0} : k \in 1 .. MAX_PID_VA_ENTRIES - 1
BY MapAssumption, IndexedAssumption DEF Keys

LEMMA InvInit == Init => Inv
<1> SUFFICES ASSUME Init PROVE Inv
  OBVIOUS
<1> USE MapAssumption, IndexedAssumption, KeysFacts DEF Init
<1>1. TypeOK
  BY DEF TypeOK, MapTypeOK, ApiTypeOK, MapInit, ApiInit, Request
<1>2. PidStored
  BY DEF PidStored, ApiInit
<1>3. OperationsOnly /\ HeaderFirst /\ Positions
  BY DEF OperationsOnly, HeaderFirst, Positions, InLoop, MapInit, ApiInit
<1>4. ServesClient /\ OneProbePerClient
  BY DEF ServesClient, OneProbePerClient
<1>5. DrainedBehindHeader
  BY DEF DrainedBehindHeader, KeysOf, MapInit
<1> QED
  BY <1>1, <1>2, <1>3, <1>4, <1>5 DEF Inv, ScanInv

-----------------------------------------------------------------------------
(* What a step of a client changes. *)

LEMMA CallKeepsScanInv ==
  ASSUME ScanInv, NEW p \in Procs, Call(p)
  PROVE  /\ ScanInv'
         /\ pc[p] = "idle" /\ pc' = [pc EXCEPT ![p] = "getpid"]
         /\ \A q \in Procs \ {p} : KeysOf(q)' \subseteq KeysOf(q)
<1> USE DEF ScanInv, TypeOK
<1>1. PICK op \in 1 .. 4, addr \in VAs \cup {NullVA} : Submit(p, op, addr)
  BY ApiCallIsSubmit DEF Call
<1> DEFINE r == Staged(p, op, addr)
<1>2. /\ MapTypeOK' /\ ApiTypeOK' /\ PidStored'
      /\ UNCHANGED <<cpuVars, program, pinned>>
  BY <1>1, SubmitKeeps DEF Call
<1>3. /\ pc[p] = "idle" /\ pc' = [pc EXCEPT ![p] = "getpid"]
      /\ r.PID = p /\ r.flags \in 1 .. 4
      /\ \/ MapUpdate(idx[p], r) /\ idx' = [idx EXCEPT ![p] = Advance(@)]
         \/ UNCHANGED <<idx, mapVars>>
  BY <1>1 DEF Submit, Staged, PidStored
<1> HIDE DEF r
<1>4. CASE UNCHANGED <<idx, mapVars>>
  <2>1. OperationsOnly' /\ HeaderFirst' /\ Positions'
    BY <1>2, <1>4 DEF OperationsOnly, HeaderFirst, Positions, InLoop, cpuVars, mapVars
  <2> QED
    BY <1>2, <1>3, <1>4, <2>1, KeysOfUnchanged DEF cpuVars
<1>5. CASE MapUpdate(idx[p], r) /\ idx' = [idx EXCEPT ![p] = Advance(@)]
  <2>1. PICK e \in FreeCells : slot' = [slot EXCEPT ![idx[p]] = e] /\ cell' = [cell EXCEPT ![e] = r]
    BY <1>5 DEF MapUpdate
  <2>2. /\ e \in Cells /\ e # NoCell /\ cell'[e] = r
        /\ \A d \in Cells \ {e} : cell'[d] = cell[d]
        /\ idx[p] \in Keys /\ slot'[idx[p]] = e
        /\ \A k \in Keys \ {idx[p]} : slot'[k] = slot[k] /\ slot[k] # e
    BY <2>1, MapAssumption DEF FreeCells, MapTypeOK, ApiTypeOK
  <2>3. OperationsOnly'
    BY <1>2, <1>3, <2>2 DEF OperationsOnly, Submitted, MapTypeOK, cpuVars
  <2>4. slot'[0] # NoCell
    BY <2>2, KeysFacts DEF HeaderFirst
  <2>5. HeaderFirst' /\ Positions'
    BY <1>2, <2>4 DEF HeaderFirst, Positions, InLoop, cpuVars
  <2>6. \A q \in Procs \ {p} : KeysOf(q)' \subseteq KeysOf(q)
    BY <1>3, <1>5, <2>2, KeysOfUpdate
  <2> QED
    BY <1>2, <1>3, <2>3, <2>5, <2>6 DEF cpuVars
<1> QED
  BY <1>3, <1>4, <1>5

\* A step of a client that leaves the map alone, and does not end a getpid().
LEMMA QuietKeepsInv ==
  ASSUME Inv, UNCHANGED <<mapVars, cpuVars, program, pinned>>, ApiTypeOK', PidStored',
         \A p \in Procs : idx'[p] = idx[p] \/ idx'[p] = 0,
         \A p \in Procs : pc'[p] \in {"getpid", "exited"} \/ pc[p] \notin {"getpid", "exited"},
         \A c \in CPUs : task[c] \in Procs => AtGetpid(task[c])'
  PROVE  Inv'
<1>1. \A p \in Procs : KeysOf(p)' = KeysOf(p)
  BY KeysOfUnchanged
<1>2. TypeOK'
  BY DEF Inv, ScanInv, TypeOK, MapTypeOK, mapVars, cpuVars
<1>3. OperationsOnly' /\ HeaderFirst' /\ Positions'
  BY DEF Inv, ScanInv, OperationsOnly, HeaderFirst, Positions, InLoop, mapVars, cpuVars
<1>4. ServesClient' /\ OneProbePerClient'
  BY <1>1 DEF Inv, ServesClient, OneProbePerClient, Ahead, InLoop, cpuVars
<1>5. DrainedBehindHeader'
  BY <1>1 DEF Inv, DrainedBehindHeader
<1> QED
  BY <1>2, <1>3, <1>4, <1>5 DEF Inv, ScanInv

-----------------------------------------------------------------------------
(* What a step of a probe changes. *)

\* The loop moves on from a slot it has emptied or found empty.
LEMMA NextSlotAhead ==
  ASSUME ScanInv, NEW c \in CPUs, InLoop(c), NextSlot(c)
  PROVE  /\ step' \in [CPUs -> {"header", "start", "lookup", "flags", "kfunc", "delete", "return"}]
         /\ times' \in [CPUs -> 1 .. MAX_PID_VA_ENTRIES]
         /\ at' \in [CPUs -> Keys]
         /\ \A d \in CPUs \ {c} : step'[d] = step[d] /\ times'[d] = times[d] /\ at'[d] = at[d]
         /\ step'[c] \in {"lookup", "return"}
         /\ InLoop(c)' => at'[c] \in 1 .. MAX_PID_VA_ENTRIES - 1 /\ times'[c] < MAX_PID_VA_ENTRIES
         /\ \A k \in Keys \ {0, at[c]} : Ahead(c, k) => Ahead(c, k)'
<1> USE KeysFacts DEF ScanInv, TypeOK, Positions
<1>1. /\ at[c] \in 1 .. MAX_PID_VA_ENTRIES - 1
      /\ times[c] \in 1 .. MAX_PID_VA_ENTRIES - 1
  OBVIOUS
<1>2. /\ at'[c] = IF at[c] + 1 = MAX_PID_VA_ENTRIES THEN 1 ELSE at[c] + 1
      /\ times'[c] = times[c] + 1
      /\ step'[c] = IF times[c] + 1 = MAX_PID_VA_ENTRIES THEN "return" ELSE "lookup"
      /\ \A d \in CPUs \ {c} : step'[d] = step[d] /\ times'[d] = times[d] /\ at'[d] = at[d]
  BY DEF NextSlot, Goto
<1>3. /\ step' \in [CPUs -> {"header", "start", "lookup", "flags", "kfunc", "delete", "return"}]
      /\ times' \in [CPUs -> 1 .. MAX_PID_VA_ENTRIES]
      /\ at' \in [CPUs -> Keys]
  BY <1>1 DEF NextSlot, Goto, Keys
<1>4. ASSUME NEW k \in Keys \ {0, at[c]}, Distance(at[c], k) < MAX_PID_VA_ENTRIES - times[c]
      PROVE  Ahead(c, k)'
  <2>1. Distance(at'[c], k) = Distance(at[c], k) - 1
    BY <1>1, <1>2 DEF Distance
  <2>2. Distance(at[c], k) >= 1
    BY <1>1, <1>4 DEF Distance
  <2>3. Distance(at[c], k) \in Nat
    BY <1>1 DEF Distance
  <2> QED
    BY <1>1, <1>2, <1>4, <2>1, <2>2, <2>3 DEF Ahead, InLoop, Distance
<1>5. \A k \in Keys \ {0, at[c]} : Ahead(c, k) => Distance(at[c], k) < MAX_PID_VA_ENTRIES - times[c]
  BY DEF Ahead, InLoop
<1> QED
  BY <1>1, <1>2, <1>3, <1>4, <1>5 DEF InLoop

\* What is left to show of a step of the probe on CPU c.
LEMMA ScanFrame ==
  ASSUME Inv, NEW c \in CPUs, UNCHANGED <<apiVars, task>>, TypeOK', OperationsOnly',
         HeaderFirst', Positions',
         \A d \in CPUs \ {c} : step'[d] = step[d] /\ times'[d] = times[d] /\ at'[d] = at[d],
         \A p \in Procs : KeysOf(p)' \subseteq KeysOf(p),
         \A p \in Procs, k \in Keys \ {0} : k \in KeysOf(p)' /\ Ahead(c, k) => Ahead(c, k)'
  PROVE  Inv'
<1>1. PidStored' /\ OneProbePerClient' /\ DrainedBehindHeader'
  BY DEF Inv, ScanInv, PidStored, OneProbePerClient, DrainedBehindHeader, apiVars
<1>2. ASSUME NEW d \in CPUs, NEW p \in Procs, task'[d] = p
      PROVE  AtGetpid(p)' /\ \A k \in KeysOf(p)' \ {0} : Ahead(d, k)'
  <2>1. AtGetpid(p)' /\ \A k \in KeysOf(p) \ {0} : Ahead(d, k)
    BY <1>2 DEF Inv, ServesClient, AtGetpid, apiVars
  <2>2. CASE d # c
    BY <2>1, <2>2 DEF Ahead, InLoop
  <2>3. CASE d = c
    BY <2>1, <2>3 DEF KeysOf, Keys
  <2> QED
    BY <2>2, <2>3
<1> QED
  BY <1>1, <1>2 DEF Inv, ScanInv, ServesClient

LEMMA ScanKeeps ==
  ASSUME Inv, NEW c \in CPUs, Scan(c)
  PROVE  Inv' /\ (slot[0] # NoCell => slot'[0] # NoCell)
<1> USE KeysFacts, MapAssumption, IndexedAssumption
<1>t. TypeOK /\ PidStored /\ OperationsOnly /\ HeaderFirst /\ Positions
  BY DEF Inv, ScanInv
<1>0. UNCHANGED <<apiVars, task>>
  BY DEF Scan, LookupHeader, LoadStart, Lookup, LoadFlags, CallKfunc, Delete
<1>1. CASE LookupHeader(c)
  <2>1. /\ ptr' = [ptr EXCEPT ![c] = slot[0]]
        /\ step' = [step EXCEPT ![c] = IF slot[0] = NoCell THEN "return" ELSE "start"]
        /\ UNCHANGED <<apiVars, mapVars, task, times, at, flags, program, pinned>>
    BY <1>1, <1>t DEF LookupHeader, Goto, MapLookup, TypeOK
  <2>2. step[c] = "header" /\ times[c] = 1
    BY <1>1, <1>t DEF LookupHeader, At, Positions
  <2>3. slot[0] \in Cells \cup {NoCell}
    BY <1>t DEF TypeOK, MapTypeOK
  <2>4. TypeOK'
    BY <1>t, <2>1, <2>3 DEF TypeOK, MapTypeOK, ApiTypeOK, apiVars, mapVars
  <2>5. OperationsOnly' /\ HeaderFirst'
    BY <1>t, <2>1, <2>3 DEF OperationsOnly, HeaderFirst, TypeOK, apiVars, mapVars
  <2>6. Positions'
    BY <1>1, <1>t, <2>1, <2>2 DEF Positions, InLoop, TypeOK, LookupHeader, At
  <2>7. \A p \in Procs : KeysOf(p)' = KeysOf(p) /\ (slot[0] = NoCell => KeysOf(p) = {})
    BY <1>t, <2>1, KeysOfUnchanged DEF KeysOf, HeaderFirst
  <2>8. slot[0] # NoCell => step'[c] = "start"
    BY <1>t, <2>1 DEF TypeOK
  <2> QED
    BY <1>0, <1>t, <2>1, <2>4, <2>5, <2>6, <2>7, <2>8, ScanFrame DEF Ahead, TypeOK, mapVars
<1>2. CASE LoadStart(c)
  <2>1. /\ at' = [at EXCEPT ![c] = cell[ptr[c]].flags]
        /\ step' = [step EXCEPT ![c] = "lookup"]
        /\ UNCHANGED <<apiVars, mapVars, task, times, ptr, flags, program, pinned>>
    BY <1>2 DEF LoadStart, Goto
  <2>2. step[c] = "start" /\ times[c] = 1 /\ task[c] # NoTask
    BY <1>2, <1>t DEF LoadStart, At, Positions
  <2>3. cell[ptr[c]].flags \in 1 .. 4
    BY <1>t, <2>2, MapAssumption DEF OperationsOnly, Submitted
  <2>4. TypeOK'
    BY <1>t, <2>1, <2>3 DEF TypeOK, MapTypeOK, ApiTypeOK, apiVars, mapVars
  <2>5. OperationsOnly' /\ HeaderFirst'
    BY <1>t, <2>1 DEF OperationsOnly, HeaderFirst, TypeOK, apiVars, mapVars
  <2>6. Positions'
    BY <1>t, <2>1, <2>2, <2>3 DEF Positions, InLoop, TypeOK
  <2>7. \A k \in Keys \ {0} : Ahead(c, k)'
    BY <1>t, <2>1, <2>2, <2>3 DEF Ahead, InLoop, Distance, TypeOK
  <2>8. \A p \in Procs : KeysOf(p)' = KeysOf(p)
    BY <2>1, KeysOfUnchanged
  <2> QED
    BY <1>0, <1>t, <2>1, <2>4, <2>5, <2>6, <2>7, <2>8, ScanFrame DEF TypeOK, mapVars
<1>3. CASE Lookup(c)
  <2>1. /\ ptr' = [ptr EXCEPT ![c] = slot[at[c]]]
        /\ step[c] = "lookup" /\ task[c] # NoTask
        /\ UNCHANGED <<apiVars, mapVars, task, flags, program, pinned>>
    BY <1>3 DEF Lookup, At, MapLookup
  <2>2. at[c] \in Keys /\ slot[at[c]] \in Cells \cup {NoCell}
    BY <1>t DEF TypeOK, MapTypeOK
  <2>3. \A p \in Procs : KeysOf(p)' = KeysOf(p)
    BY <2>1, KeysOfUnchanged
  <2>4. CASE slot[at[c]] = NoCell /\ NextSlot(c)
    <3>1. TypeOK' /\ Positions' /\ \A k \in Keys \ {0, at[c]} : Ahead(c, k) => Ahead(c, k)'
      BY <1>t, <2>1, <2>2, <2>4, NextSlotAhead
      DEF InLoop, ScanInv, TypeOK, MapTypeOK, ApiTypeOK, Positions, apiVars, mapVars
    <3>2. OperationsOnly' /\ HeaderFirst'
      BY <1>t, <2>1, <2>2, <2>4, NextSlotAhead
      DEF InLoop, ScanInv, OperationsOnly, HeaderFirst, TypeOK, apiVars, mapVars
    <3>3. \A p \in Procs : at[c] \notin KeysOf(p)
      BY <2>4 DEF KeysOf
    <3>4. \A d \in CPUs \ {c} : step'[d] = step[d] /\ times'[d] = times[d] /\ at'[d] = at[d]
      BY <1>t, <2>1, <2>4, NextSlotAhead DEF InLoop, ScanInv
    <3> QED
      BY <1>0, <2>1, <2>3, <3>1, <3>2, <3>3, <3>4, ScanFrame DEF mapVars
  <2>5. CASE slot[at[c]] # NoCell /\ step' = [step EXCEPT ![c] = "flags"] /\ UNCHANGED <<at, times>>
    <3>1. TypeOK' /\ Positions'
      BY <1>t, <2>1, <2>2, <2>5
      DEF TypeOK, MapTypeOK, ApiTypeOK, Positions, InLoop, apiVars, mapVars
    <3>2. OperationsOnly' /\ HeaderFirst'
      BY <1>t, <2>1, <2>2, <2>5 DEF OperationsOnly, HeaderFirst, TypeOK, apiVars, mapVars
    <3>3. \A k \in Keys : Ahead(c, k) => Ahead(c, k)'
      BY <1>t, <2>1, <2>5 DEF Ahead, InLoop, TypeOK
    <3> QED
      BY <1>0, <1>t, <2>1, <2>3, <2>5, <3>1, <3>2, <3>3, ScanFrame DEF TypeOK, mapVars
  <2> QED
    BY <1>3, <2>4, <2>5 DEF Lookup, MapLookup, Goto
<1>4. CASE LoadFlags(c) \/ CallKfunc(c)
  <2>1. /\ step[c] \in {"flags", "kfunc"} /\ task[c] # NoTask
        /\ UNCHANGED <<apiVars, mapVars, task, times, at, ptr, program>>
    BY <1>4 DEF LoadFlags, CallKfunc, At
  <2>2. PICK s \in {"kfunc", "delete"} : step' = [step EXCEPT ![c] = s]
    BY <1>4 DEF LoadFlags, CallKfunc, Goto
  <2>3. ptr[c] \in Cells /\ cell[ptr[c]] \in Request /\ cell[ptr[c]].PID \in Procs
    BY <1>t, <2>1, MapAssumption DEF OperationsOnly, Submitted, TypeOK, MapTypeOK
  <2>4. flags' \in [CPUs -> 0 .. 4]
    BY <1>4, <1>t, <2>3 DEF LoadFlags, CallKfunc, TypeOK, Request
  <2>5. pinned' \subseteq Procs \X VAs
    <3>1. CASE UNCHANGED pinned
      BY <1>t, <3>1 DEF TypeOK
    <3>2. CASE CallKfunc(c)
      <4> DEFINE page == <<cell[ptr[c]].PID, cell[ptr[c]].VA>>
      <4>1. cell[ptr[c]].PID \in Procs /\ cell[ptr[c]].VA # NullVA => page \in Procs \X VAs
        BY <2>3 DEF Request
      <4>2. \/ cell[ptr[c]].VA # NullVA /\ pinned' = pinned \cup {page}
            \/ UNCHANGED pinned
        BY <3>2, Zenon DEF CallKfunc
      <4>3. pinned \subseteq Procs \X VAs
        BY <1>t DEF TypeOK
      <4> HIDE DEF page
      <4> QED
        BY <2>3, <4>1, <4>2, <4>3
    <3> QED
      BY <1>4, <3>1, <3>2 DEF LoadFlags
  <2>6. TypeOK' /\ Positions'
    BY <1>t, <2>1, <2>2, <2>4, <2>5
    DEF TypeOK, MapTypeOK, ApiTypeOK, Positions, InLoop, apiVars, mapVars
  <2>7. OperationsOnly' /\ HeaderFirst'
    BY <1>t, <2>1, <2>2, <2>3 DEF OperationsOnly, HeaderFirst, TypeOK, apiVars, mapVars
  <2>8. \A k \in Keys : Ahead(c, k) => Ahead(c, k)'
    BY <1>t, <2>1, <2>2 DEF Ahead, InLoop, TypeOK
  <2>9. \A p \in Procs : KeysOf(p)' = KeysOf(p)
    BY <2>1, KeysOfUnchanged
  <2> QED
    BY <1>0, <1>t, <2>1, <2>2, <2>6, <2>7, <2>8, <2>9, ScanFrame DEF TypeOK, mapVars
<1>5. CASE Delete(c)
  <2>1. /\ step[c] = "delete" /\ task[c] # NoTask
        /\ slot' = [slot EXCEPT ![at[c]] = NoCell]
        /\ UNCHANGED cell
        /\ NextSlot(c)
        /\ ptr' = [ptr EXCEPT ![c] = NoCell]
        /\ flags' = [flags EXCEPT ![c] = 0]
        /\ UNCHANGED <<apiVars, task, program, pinned>>
    BY <1>5 DEF Delete, At, MapDelete
  <2>2. at[c] \in Keys /\ at[c] # 0
    BY <1>t, <2>1 DEF Positions, InLoop, Keys
  <2>3. slot'[0] = slot[0]
    BY <1>t, <2>1, <2>2 DEF TypeOK, MapTypeOK
  <2>4. \A p \in Procs : KeysOf(p)' = KeysOf(p) \ {at[c]}
    BY <1>5, <1>t, <2>2, KeysOfDelete DEF Delete, TypeOK
  <2>5. TypeOK' /\ Positions' /\ \A k \in Keys \ {0, at[c]} : Ahead(c, k) => Ahead(c, k)'
    BY <1>t, <2>1, <2>2, NextSlotAhead
    DEF InLoop, ScanInv, TypeOK, MapTypeOK, ApiTypeOK, Positions, apiVars
  <2>6. \A d \in CPUs \ {c} : step'[d] = step[d] /\ times'[d] = times[d] /\ at'[d] = at[d]
    BY <1>t, <2>1, NextSlotAhead DEF InLoop, ScanInv
  <2>7. step'[c] \in {"lookup", "return"}
    BY <1>t, <2>1, NextSlotAhead DEF InLoop, ScanInv
  <2>8. OperationsOnly' /\ HeaderFirst'
    BY <1>t, <2>1, <2>2, <2>3, <2>6, <2>7
    DEF OperationsOnly, HeaderFirst, TypeOK, MapTypeOK, apiVars
  <2> QED
    BY <1>0, <2>3, <2>4, <2>5, <2>6, <2>8, ScanFrame
<1> QED
  BY <1>1, <1>2, <1>3, <1>4, <1>5 DEF Scan

-----------------------------------------------------------------------------
(* Entering and leaving the probe. *)

LEMMA EnterKeeps ==
  ASSUME Inv, NEW c \in CPUs, NEW t \in Procs \cup {OtherTask}, Enter(c, t)
  PROVE  Inv'
<1> USE MapAssumption, IndexedAssumption
<1>1. /\ task[c] = NoTask /\ task' = [task EXCEPT ![c] = t]
      /\ t \in Procs => AtGetpid(t) /\ \A d \in CPUs : task[d] # t
      /\ UNCHANGED <<apiVars, mapVars, step, times, at, ptr, flags, program, pinned>>
  BY DEF Enter, InProbe
<1>t. TypeOK /\ PidStored /\ OperationsOnly /\ HeaderFirst /\ Positions /\ step[c] = "header"
  BY <1>1 DEF Inv, ScanInv, Positions
<1>2. TypeOK' /\ PidStored'
  BY <1>t, <1>1 DEF TypeOK, MapTypeOK, ApiTypeOK, PidStored, apiVars, mapVars
<1>3. OperationsOnly' /\ HeaderFirst'
  BY <1>t, <1>1 DEF OperationsOnly, HeaderFirst, apiVars, mapVars
<1>4. Positions'
  BY <1>t, <1>1 DEF Positions, InLoop, TypeOK
<1>5. \A p \in Procs : KeysOf(p)' = KeysOf(p)
  BY <1>1, KeysOfUnchanged
<1>6. DrainedBehindHeader' /\ OneProbePerClient'
  BY <1>t, <1>1, <1>5 DEF Inv, DrainedBehindHeader, OneProbePerClient, TypeOK, apiVars
<1>7. ServesClient'
  BY <1>t, <1>1, <1>5 DEF Inv, ServesClient, Ahead, InLoop, AtGetpid, TypeOK, apiVars
<1> QED
  BY <1>2, <1>3, <1>4, <1>6, <1>7 DEF Inv, ScanInv

LEMMA ReturnKeeps ==
  ASSUME Inv, NEW c \in CPUs, Return(c)
  PROVE  Inv'
<1> USE MapAssumption, IndexedAssumption, KeysFacts
<1>t. TypeOK /\ PidStored /\ OperationsOnly /\ HeaderFirst /\ Positions
  BY DEF Inv, ScanInv
<1>1. /\ task[c] # NoTask /\ step[c] = "return"
      /\ task' = [task EXCEPT ![c] = NoTask]
      /\ times' = [times EXCEPT ![c] = 1]
      /\ at' = [at EXCEPT ![c] = 0]
      /\ step' = [step EXCEPT ![c] = "header"]
      /\ UNCHANGED <<mapVars, ptr, flags, program, pinned>>
  BY DEF Return, At, Goto
<1>2. /\ ApiTypeOK' /\ PidStored' /\ UNCHANGED idx
      /\ \A q \in Procs : pc'[q] = pc[q] \/ q = task[c]
  BY <1>t, GetpidKeeps DEF Return, TypeOK, ApiTypeOK, PidStored, apiVars
<1>3. TypeOK'
  BY <1>t, <1>1, <1>2 DEF TypeOK, MapTypeOK, mapVars
<1>4. OperationsOnly' /\ HeaderFirst'
  BY <1>t, <1>1, <1>2 DEF OperationsOnly, HeaderFirst, TypeOK, mapVars
<1>5. Positions'
  BY <1>t, <1>1 DEF Positions, InLoop, TypeOK
<1>6. \A p \in Procs : KeysOf(p)' = KeysOf(p)
  BY <1>1, KeysOfUnchanged
<1>7. ASSUME NEW p \in Procs, p = task[c]
      PROVE  KeysOf(p) \subseteq {0}
  BY <1>1, <1>7 DEF Inv, ServesClient, Ahead, InLoop
<1>8. \A p \in Procs : p # task[c] => pc'[p] = pc[p]
  BY <1>2
<1>9. DrainedBehindHeader'
  BY <1>6, <1>7, <1>8 DEF Inv, DrainedBehindHeader
<1>10. OneProbePerClient'
  BY <1>t, <1>1 DEF Inv, OneProbePerClient, TypeOK
<1>11. ASSUME NEW d \in CPUs, NEW p \in Procs, task'[d] = p
       PROVE  AtGetpid(p)' /\ \A k \in KeysOf(p)' \ {0} : Ahead(d, k)'
  <2>1. d # c /\ task[d] = p /\ p # task[c]
    BY <1>t, <1>1, <1>11 DEF Inv, OneProbePerClient, TypeOK
  <2>2. pc'[p] = pc[p] /\ step'[d] = step[d] /\ at'[d] = at[d] /\ times'[d] = times[d]
    BY <1>t, <1>1, <1>8, <2>1 DEF TypeOK
  <2> QED
    BY <1>6, <2>1, <2>2 DEF Inv, ServesClient, Ahead, InLoop, AtGetpid
<1> QED
  BY <1>2, <1>3, <1>4, <1>5, <1>9, <1>10, <1>11 DEF Inv, ScanInv, ServesClient

LEMMA InvNext ==
  ASSUME Inv, [Next]_vars
  PROVE  Inv' /\ (slot[0] # NoCell => slot'[0] # NoCell)
<1>t. /\ MapTypeOK /\ ApiTypeOK /\ PidStored /\ ScanInv
      /\ pc \in [Procs -> {"new", "initpid", "open", "idle", "getpid", "failed", "exited"}]
  BY DEF Inv, ScanInv, TypeOK, ApiTypeOK
<1>1. ASSUME NEW p \in Procs, Start(p)
      PROVE  Inv' /\ UNCHANGED slot
  <2>1. ApiTypeOK' /\ PidStored'
    BY <1>t, <1>1, StartKeeps DEF Start
  <2>2. /\ pc[p] = "new" /\ pc' = [pc EXCEPT ![p] = "initpid"] /\ idx' = [idx EXCEPT ![p] = 0]
        /\ UNCHANGED <<mapVars, cpuVars, program, pinned>>
    BY <1>1 DEF Start, InitPagePatrol
  <2>3. \A q \in Procs : /\ idx'[q] = idx[q] \/ idx'[q] = 0
                         /\ pc'[q] \in {"getpid", "exited"} \/ pc[q] \notin {"getpid", "exited"}
    BY <1>t, <2>2 DEF ApiTypeOK
  <2>4. \A c \in CPUs : task[c] \in Procs => AtGetpid(task[c])'
    <3>1. \A c \in CPUs : task[c] \in Procs => AtGetpid(task[c])
      BY DEF Inv, ServesClient
    <3>2. \A q \in Procs : AtGetpid(q) => AtGetpid(q)'
      BY <1>t, <2>2 DEF AtGetpid
    <3> QED
      BY <2>2, <3>1, <3>2 DEF cpuVars
  <2> QED
    BY <2>1, <2>2, <2>3, <2>4, QuietKeepsInv DEF mapVars
<1>2. ASSUME NEW p \in Procs, Open(p) \/ Terminate(p)
      PROVE  Inv' /\ UNCHANGED slot
  <2>1. PICK s \in {"idle", "failed", "exited"} : pc' = [pc EXCEPT ![p] = s]
    BY <1>2 DEF Open, OpenMap, Terminate, Exit
  <2>2. /\ pc[p] = "open" \/ (s = "exited" /\ pc[p] \in {"open", "idle", "getpid", "failed"}
                               /\ \A c \in CPUs : task[c] # p)
        /\ UNCHANGED <<idx, pid_va, mapVars, cpuVars, program, pinned>>
    BY <1>t, <1>2, <2>1 DEF Open, OpenMap, Terminate, Exit, InProbe
  <2>3. ApiTypeOK' /\ PidStored'
    BY <1>t, <2>1, <2>2 DEF ApiTypeOK, PidStored
  <2>4. \A q \in Procs : pc'[q] \in {"getpid", "exited"} \/ pc[q] \notin {"getpid", "exited"}
    BY <1>t, <2>1, <2>2
  <2>5. \A c \in CPUs : task[c] \in Procs => AtGetpid(task[c])'
    <3>1. \A c \in CPUs : task[c] \in Procs => AtGetpid(task[c])
      BY DEF Inv, ServesClient
    <3>2. \A q \in Procs \ {p} : AtGetpid(q) => AtGetpid(q)'
      BY <1>t, <2>1 DEF AtGetpid
    <3>3. \A c \in CPUs : task[c] # p
      BY <2>2, <3>1 DEF AtGetpid
    <3> QED
      BY <2>2, <3>1, <3>2, <3>3 DEF cpuVars
  <2> QED
    BY <2>2, <2>3, <2>4, <2>5, QuietKeepsInv DEF mapVars
<1>3. ASSUME NEW p \in Procs, Call(p)
      PROVE  Inv' /\ (slot[0] # NoCell => slot'[0] # NoCell)
  <2>1. /\ ScanInv'
        /\ pc[p] = "idle" /\ pc' = [pc EXCEPT ![p] = "getpid"]
        /\ \A q \in Procs \ {p} : KeysOf(q)' \subseteq KeysOf(q)
    BY <1>3, <1>t, CallKeepsScanInv
  <2>2. UNCHANGED cpuVars
    BY <1>3 DEF Call
  <2>3. \A c \in CPUs : task[c] # p
    BY <2>1 DEF Inv, ServesClient, AtGetpid
  <2>4. ServesClient' /\ OneProbePerClient'
    BY <1>t, <2>1, <2>2, <2>3
    DEF Inv, ServesClient, OneProbePerClient, Ahead, InLoop, AtGetpid, cpuVars
  <2>5. DrainedBehindHeader'
    BY <1>t, <2>1 DEF Inv, DrainedBehindHeader
  <2>6. slot[0] # NoCell => slot'[0] # NoCell
    <3>1. PICK op \in 1 .. 4, addr \in VAs \cup {NullVA} : Submit(p, op, addr)
      BY <1>3, ApiCallIsSubmit DEF Call
    <3> QED
      BY <1>t, <3>1, MapAssumption, KeysFacts
      DEF Submit, MapUpdate, FreeCells, mapVars, MapTypeOK, ApiTypeOK
  <2> QED
    BY <2>1, <2>4, <2>5, <2>6 DEF Inv
<1>4. CASE UNCHANGED vars
  BY <1>t, <1>4, QuietKeepsInv
  DEF vars, apiVars, mapVars, cpuVars, ApiTypeOK, PidStored, Inv, ServesClient, AtGetpid
<1> QED
  BY <1>1, <1>2, <1>3, <1>4, EnterKeeps, ScanKeeps, ReturnKeeps
  DEF Next, Enter, Return, mapVars

\* When a call has returned, the map holds none of its process's requests behind
\* slot 0, although the scan starts wherever the flags of slot 0 happen to say.
THEOREM Drained == Spec => []DrainedBehindHeader
<1>1. Inv /\ [Next]_vars => Inv'
  BY InvNext
<1>2. Inv => DrainedBehindHeader
  BY DEF Inv
<1> QED
  BY <1>1, <1>2, InvInit, PTL DEF Spec

\* No step of a client or a probe empties slot 0.
THEOREM HeaderStays == Spec => HeaderKept
<1>1. Inv /\ [Next]_vars => Inv'
  BY InvNext
<1>2. Inv /\ [Next]_vars => [slot[0] # NoCell => slot'[0] # NoCell]_vars
  BY InvNext
<1> QED
  BY <1>1, <1>2, InvInit, PTL DEF Spec, HeaderKept

\* Every reachable state is well typed: no start index, whichever request slot 0 holds,
\* leads out of the ring.
THEOREM WellTyped == Spec => []TypeOK
<1>1. Inv /\ [Next]_vars => Inv'
  BY InvNext
<1>2. Inv => TypeOK
  BY DEF Inv, ScanInv
<1> QED
  BY <1>1, <1>2, InvInit, PTL DEF Spec
=============================================================================
