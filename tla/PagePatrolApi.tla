---------------------------- MODULE PagePatrolApi ----------------------------
(***************************************************************************)
(* The client library API/PagePatrol.h, linked into each process p of      *)
(* Procs.  Its globals are one staging buffer pid_va, the descriptor of    *)
(* the map and the ring index idx.  Every call stages a request, writes it *)
(* into slot idx of the shared map, advances idx if the write succeeded    *)
(* and ends with getpid().                                                 *)
(*                                                                         *)
(* The getpid() is not decoration: in the kernel it runs __task_pid_nr_ns, *)
(* the function the probe is attached to, so the call returns only after   *)
(* the probe has run on the caller's CPU.  pc[p] says where p is:          *)
(*   "new"      before init_page_patrol        "idle"   between two calls  *)
(*   "initpid"  in its getpid()                "getpid" in a call's getpid *)
(*   "open"     at bpf_obj_get                 "failed" init returned -1   *)
(*   "exited"   the process is gone                                        *)
(***************************************************************************)
EXTENDS PidVaMap

CONSTANT Ops   \* the operations the clients call, out of the four there are

ASSUME ApiAssumption == Ops \subseteq 1 .. 4

VARIABLES pc, idx, pid_va

apiVars == <<pc, idx, pid_va>>

Activation   == 1
Deactivation == 2
Pinning      == 3
Unpinning    == 4

ApiInit ==
  /\ pc = [p \in Procs |-> "new"]
  /\ idx = [p \in Procs |-> 0]
  /\ pid_va = [p \in Procs |-> [flags |-> 0, PID |-> NoPid, VA |-> NullVA]]

ApiTypeOK ==
  /\ pc \in [Procs -> {"new", "initpid", "open", "idle", "getpid", "failed", "exited"}]
  /\ idx \in [Procs -> Keys]
  /\ pid_va \in [Procs -> Request]

\* A process stores its pid before it can call anything.
PidStored ==
  \A p \in Procs :
    /\ pid_va[p].PID \in {p, NoPid}
    /\ pc[p] \in {"open", "idle", "getpid", "failed"} => pid_va[p].PID = p

\* p is inside getpid(): the probe runs on its behalf before it goes on.
AtGetpid(p) == pc[p] \in {"initpid", "getpid"}

\* Seeded faults: the index is advanced without the modulo, or not at all.
Advance_NoWrap(n) == n + 1
Advance_Stuck(n) == n

\* The next index of the ring.
Advance(n) == (n + 1) % MAX_PID_VA_ENTRIES

\* pid_va with its flags and VA set.
Staged(p, op, addr) == [flags |-> op, PID |-> pid_va[p].PID, VA |-> addr]

-----------------------------------------------------------------------------
\* init_page_patrol up to its getpid().
InitPagePatrol(p) ==
  /\ pc[p] = "new"
  /\ pc' = [pc EXCEPT ![p] = "initpid"]
  /\ idx' = [idx EXCEPT ![p] = 0]
  /\ pid_va' = [pid_va EXCEPT ![p] = Staged(p, 0, NullVA)]
  /\ UNCHANGED mapVars

\* bpf_obj_get: fails while no eBPF program has pinned the map.
OpenMap(p) ==
  /\ pc[p] = "open"
  /\ \E next \in {"idle", "failed"} : pc' = [pc EXCEPT ![p] = next]
  /\ UNCHANGED <<idx, pid_va, mapVars>>

\* getpid() returns to p: init_page_patrol stores the pid and goes on, a call ends.
GetpidReturns(p) ==
  /\ UNCHANGED idx
  /\ \/ /\ pc[p] = "initpid"
        /\ pc' = [pc EXCEPT ![p] = "open"]
        /\ pid_va' = [pid_va EXCEPT ![p].PID = p]
     \/ /\ pc[p] = "getpid"
        /\ pc' = [pc EXCEPT ![p] = "idle"]
        /\ UNCHANGED pid_va

\* Seeded fault: the call returns at once, the seemingly useless getpid() dropped.
Submit_WithoutGetpid(p, op, addr) ==
  LET r == Staged(p, op, addr)
  IN  /\ pc[p] = "idle"
      /\ pid_va' = [pid_va EXCEPT ![p] = r]
      /\ MapUpdate(idx[p], r)
      /\ idx' = [idx EXCEPT ![p] = Advance(@)]
      /\ UNCHANGED pc

\* The part all four calls share: stage, write slot idx, advance on success.
Submit(p, op, addr) ==
  LET r == Staged(p, op, addr)
  IN  /\ pc[p] = "idle"
      /\ pc' = [pc EXCEPT ![p] = "getpid"]
      /\ pid_va' = [pid_va EXCEPT ![p] = r]
      /\ \/ /\ MapUpdate(idx[p], r)
            /\ idx' = [idx EXCEPT ![p] = Advance(@)]
         \/ UNCHANGED <<idx, mapVars>>      \* the update failed

MarkVaForActivation(p, addr)   == Submit(p, Activation, addr)
MarkVaForDeactivation(p, addr) == Submit(p, Deactivation, addr)
PinVa(p, addr)                 == Submit(p, Pinning, addr)
UnpinVa(p, addr)               == Submit(p, Unpinning, addr)

ApiCall(p, addr) ==
  \/ Activation \in Ops /\ MarkVaForActivation(p, addr)
  \/ Deactivation \in Ops /\ MarkVaForDeactivation(p, addr)
  \/ Pinning \in Ops /\ PinVa(p, addr)
  \/ Unpinning \in Ops /\ UnpinVa(p, addr)

\* The process ends, or is killed while it is not inside the kernel: a request
\* it wrote just before stays in the map.
Exit(p) ==
  /\ pc[p] \in {"open", "idle", "getpid", "failed"}
  /\ pc' = [pc EXCEPT ![p] = "exited"]
  /\ UNCHANGED <<idx, pid_va, mapVars>>
=============================================================================
