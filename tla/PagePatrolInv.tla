--------------------------- MODULE PagePatrolInv ---------------------------
(***************************************************************************)
(* The inductive invariants behind the safety properties of PagePatrol,    *)
(* stated apart so that the runs check what the proofs use.                *)
(***************************************************************************)
EXTENDS PagePatrol

-----------------------------------------------------------------------------
(* For every system. *)

\* A probe past its lookup holds an entry, past its first check an address.
RegistersOK ==
  \A c \in CPUs :
    /\ step[c] # "lookup" => ptr[c] \in Cells
    /\ step[c] \in {"flags", "kfunc"} => va[c] \in VAs

\* The probe that works for p has left nothing of p behind it.
ServesClient ==
  \A c \in CPUs, p \in Procs :
    task[c] = p => AtGetpid(p) /\ \A k \in KeysOf(p) : i[c] <= k

\* A process is inside one probe at a time.
OneProbePerClient ==
  \A c, d \in CPUs : task[c] = task[d] /\ task[c] \in Procs => c = d

\* What holds of clients and probes whether or not a probe serves every call.
ServeCore ==
  /\ PidStored
  /\ RegistersOK
  /\ ServesClient
  /\ OneProbePerClient

DrainCore == ServeCore /\ DrainedOnReturn

ServeInv == TypeOK /\ ServeCore
DrainInv == TypeOK /\ DrainCore

-----------------------------------------------------------------------------
(* For systems with one CPU. *)

\* No two keys share an entry, and no two keys hold requests of one process.
OneKeyPerClient ==
  \A k, l \in Keys :
    /\ slot[k] = slot[l] /\ slot[k] # NoCell => k = l
    /\ \A p \in Procs : k \in KeysOf(p) /\ l \in KeysOf(p) => k = l

\* What the map holds is the last request of a process that is still in the
\* call, or that died in it.
LinkedIsCurrent ==
  \A k \in Keys :
    slot[k] # NoCell =>
      /\ cell[slot[k]].PID \in Procs
      /\ cell[slot[k]].flags \in 1 .. 4
      /\ cell[slot[k]] = pid_va[cell[slot[k]].PID]
      /\ pc[cell[slot[k]].PID] \in {"getpid", "exited"}

\* CPU c is done with the request under key k, up to its deletion.
Handled(c, k) == i[c] = k /\ step[c] = "delete"

\* Which fate goes with which place in the map and in the probe.
FateMatchesMap ==
  \A p \in Procs :
    /\ fate[p] \notin {"dropped", "repeated"}
    /\ fate[p] = "pending" => KeysOf(p) # {}
    /\ \A k \in KeysOf(p) :
         /\ pid_va[p].VA = NullVA => fate[p] = "none"
         /\ pid_va[p].VA # NullVA =>
              fate[p] = IF \E c \in CPUs : Handled(c, k) THEN "applied" ELSE "pending"

\* The registers of the probe hold what its entry still holds.
RegistersCurrent ==
  \A c \in CPUs :
    /\ task[c] = NoTask \/ i[c] = MAX_PID_VA_ENTRIES => step[c] = "lookup"
    /\ step[c] # "lookup" =>
         /\ slot[i[c]] = ptr[c]
         /\ seen[c] = cell[ptr[c]]
    /\ step[c] \in {"flags", "kfunc"} => va[c] = cell[ptr[c]].VA
    /\ step[c] = "kfunc" => flags[c] = cell[ptr[c]].flags

OneCpuInv ==
  /\ DrainInv
  /\ OneKeyPerClient
  /\ LinkedIsCurrent
  /\ FateMatchesMap
  /\ RegistersCurrent
=============================================================================
