------------------------ MODULE PagePatrolApiProofs ------------------------
(***************************************************************************)
(* Facts about the map and the client library that the proofs about every  *)
(* program on the map use.                                                 *)
(***************************************************************************)
EXTENDS PagePatrolApi, TLAPS

\* Every request a client stages is a well-formed struct pid_va.
LEMMA StagedRequest ==
  ASSUME ApiTypeOK, NEW p \in Procs, NEW op \in 0 .. 4, NEW addr \in VAs \cup {NullVA}
  PROVE  Staged(p, op, addr) \in Request
<1>1. pid_va[p].PID \in Procs \cup {NoPid}
  BY DEF ApiTypeOK, Request
<1> QED
  BY <1>1 DEF Request, Staged

\* The ring index stays a key.
LEMMA AdvanceInKeys ==
  ASSUME NEW n \in Keys
  PROVE  Advance(n) \in Keys
BY MapAssumption DEF Advance, Keys

\* What every call does, whichever of the four it is.
LEMMA ApiCallIsSubmit ==
  ASSUME NEW p \in Procs, NEW addr \in VAs \cup {NullVA}, ApiCall(p, addr)
  PROVE  \E op \in 1 .. 4 : Submit(p, op, addr)
BY DEF ApiCall, MarkVaForActivation, MarkVaForDeactivation, PinVa, UnpinVa,
       Activation, Deactivation, Pinning, Unpinning

-----------------------------------------------------------------------------
(* What the operations of the map do to the keys of a client. *)

LEMMA KeysOfUpdate ==
  ASSUME MapTypeOK, NEW k \in Keys, NEW r, MapUpdate(k, r), NEW q \in Procs
  PROVE  KeysOf(q)' = (KeysOf(q) \ {k}) \cup (IF r.PID = q THEN {k} ELSE {})
<1>1. PICK e \in FreeCells : slot' = [slot EXCEPT ![k] = e] /\ cell' = [cell EXCEPT ![e] = r]
  BY DEF MapUpdate
<1>2. e \in Cells /\ e # NoCell
  BY MapAssumption DEF FreeCells
<1>3. slot'[k] = e /\ cell'[e] = r
  BY <1>1, <1>2 DEF MapTypeOK
<1>4. ASSUME NEW l \in Keys, l # k
      PROVE  slot'[l] = slot[l] /\ (slot[l] # NoCell => cell'[slot[l]] = cell[slot[l]])
  BY <1>1, <1>4 DEF FreeCells, MapTypeOK
<1> QED
  BY <1>2, <1>3, <1>4 DEF KeysOf

LEMMA KeysOfDelete ==
  ASSUME MapTypeOK, NEW k \in Keys, MapDelete(k), NEW q \in Procs
  PROVE  KeysOf(q)' = KeysOf(q) \ {k}
BY DEF MapDelete, MapTypeOK, KeysOf

LEMMA KeysOfUnchanged ==
  ASSUME UNCHANGED mapVars, NEW q \in Procs
  PROVE  KeysOf(q)' = KeysOf(q)
BY DEF mapVars, KeysOf, Keys

-----------------------------------------------------------------------------
(* What the steps of a client do to types and to its stored pid. *)

LEMMA StartKeeps ==
  ASSUME MapTypeOK, ApiTypeOK, PidStored, NEW p \in Procs, InitPagePatrol(p)
  PROVE  MapTypeOK' /\ ApiTypeOK' /\ PidStored'
<1>1. Staged(p, 0, NullVA) \in Request
  BY StagedRequest
<1>2. MapTypeOK' /\ ApiTypeOK'
  BY <1>1, MapAssumption DEF InitPagePatrol, MapTypeOK, ApiTypeOK, mapVars, Keys
<1>3. PidStored'
  BY DEF InitPagePatrol, Staged, ApiTypeOK, PidStored
<1> QED
  BY <1>2, <1>3

LEMMA SubmitKeeps ==
  ASSUME MapTypeOK, ApiTypeOK, PidStored,
         NEW p \in Procs, NEW op \in 1 .. 4, NEW addr \in VAs \cup {NullVA}, Submit(p, op, addr)
  PROVE  MapTypeOK' /\ ApiTypeOK' /\ PidStored'
<1> DEFINE r == Staged(p, op, addr)
<1>1. r \in Request
  BY StagedRequest
<1>2. r.PID = p
  BY DEF Submit, Staged, PidStored
<1> HIDE DEF r
<1>3. pc' = [pc EXCEPT ![p] = "getpid"] /\ pid_va' = [pid_va EXCEPT ![p] = r]
  BY DEF Submit, r
<1>4. \/ MapUpdate(idx[p], r) /\ idx' = [idx EXCEPT ![p] = Advance(@)]
      \/ UNCHANGED <<idx, mapVars>>
  BY DEF Submit, r
<1>5. ApiTypeOK'
  BY <1>1, <1>3, <1>4, AdvanceInKeys DEF ApiTypeOK
<1>6. MapTypeOK'
  BY <1>1, <1>4 DEF ApiTypeOK, MapTypeOK, MapUpdate, FreeCells, mapVars
<1>7. PidStored'
  BY <1>2, <1>3 DEF ApiTypeOK, PidStored
<1> QED
  BY <1>5, <1>6, <1>7

LEMMA GetpidKeeps ==
  ASSUME ApiTypeOK, PidStored, NEW p \in Procs, GetpidReturns(p)
  PROVE  /\ ApiTypeOK' /\ PidStored'
         /\ AtGetpid(p) /\ ~AtGetpid(p)' /\ UNCHANGED idx
         /\ \A q \in Procs \ {p} : pc'[q] = pc[q]
<1>1. /\ pc[p] \in {"initpid", "getpid"}
      /\ pc' \in [Procs -> {"new", "initpid", "open", "idle", "getpid", "failed", "exited"}]
      /\ pc'[p] \in {"open", "idle"}
      /\ \A q \in Procs \ {p} : pc'[q] = pc[q] /\ pid_va'[q] = pid_va[q]
      /\ UNCHANGED idx
  BY DEF GetpidReturns, ApiTypeOK
<1>2. pid_va'[p] \in Request /\ pid_va'[p].PID = p
  <2>1. CASE pc[p] = "getpid"
    BY <2>1 DEF GetpidReturns, ApiTypeOK, PidStored
  <2>2. CASE pc[p] = "initpid"
    <3>1. pid_va'[p] = [pid_va[p] EXCEPT !.PID = p]
      BY <2>2, Zenon DEF GetpidReturns, ApiTypeOK
    <3>2. /\ pid_va'[p].PID = p
          /\ pid_va'[p] = [flags |-> pid_va[p].flags, PID |-> p, VA |-> pid_va[p].VA]
      BY <3>1, Zenon DEF Request, ApiTypeOK
    <3> QED
      BY <3>2 DEF Request, ApiTypeOK
  <2> QED
    BY <1>1, <2>1, <2>2
<1>3. pid_va' = [q \in Procs |-> pid_va'[q]]
  BY <1>1, Zenon DEF GetpidReturns, ApiTypeOK
<1>4. ApiTypeOK'
  BY <1>1, <1>2, <1>3 DEF ApiTypeOK
<1>5. PidStored'
  BY <1>1, <1>2 DEF PidStored
<1> QED
  BY <1>1, <1>4, <1>5 DEF AtGetpid
=============================================================================
