----------------------------- MODULE PidVaProbe -----------------------------
(***************************************************************************)
(* The eBPF program eBPF/insert_file_vaddr_into_inactive_list_kfunc, which *)
(* the README names as the one the API works with.  It is attached to      *)
(* __task_pid_nr_ns and scans the whole map each time some task on some    *)
(* CPU enters that function.                                               *)
(*                                                                         *)
(* A probe runs with preemption disabled, so a CPU runs one at a time and  *)
(* nothing else meanwhile; probes on different CPUs run concurrently, and  *)
(* nothing in the program excludes them from each other.  A step below is  *)
(* one access to shared memory: one helper call, one load through the      *)
(* pointer a lookup returned, or one kfunc call.                           *)
(***************************************************************************)
EXTENDS PidVaMap

CONSTANTS
  CPUs,
  NoTask,     \* the CPU runs no probe
  OtherTask   \* the task on whose behalf a probe runs is not a client

ASSUME ProbeAssumption ==
  /\ NoTask \notin Procs \cup {OtherTask}
  /\ OtherTask \notin Procs

VARIABLES
  task,    \* whose call of __task_pid_nr_ns the probe on this CPU interrupts
  step,    \* next access of the probe on this CPU
  i,       \* its loop counter
  ptr,     \* its pid_va, the pointer the last lookup returned
  va,      \* pid_va->VA as it was loaded
  flags,   \* pid_va->flags as it was loaded
  active,  \* <<pid, va>> whose page the kfuncs last put on the active list
  pinned   \* <<pid, va>> whose page the kfuncs last pinned

cpuVars == <<task, step, i, ptr, va, flags>>
pageVars == <<active, pinned>>
probeVars == <<cpuVars, pageVars>>

ProbeInit ==
  /\ task = [c \in CPUs |-> NoTask]
  /\ step = [c \in CPUs |-> "lookup"]
  /\ i = [c \in CPUs |-> 0]
  /\ ptr = [c \in CPUs |-> NoCell]
  /\ va = [c \in CPUs |-> NullVA]
  /\ flags = [c \in CPUs |-> 0]
  /\ active = {}
  /\ pinned = {}

ProbeTypeOK ==
  /\ task \in [CPUs -> Procs \cup {NoTask, OtherTask}]
  /\ step \in [CPUs -> {"lookup", "va", "flags", "kfunc", "delete"}]
  /\ i \in [CPUs -> 0 .. MAX_PID_VA_ENTRIES]
  /\ ptr \in [CPUs -> Cells \cup {NoCell}]
  /\ va \in [CPUs -> VAs \cup {NullVA}]
  /\ flags \in [CPUs -> 0 .. 4]
  /\ active \subseteq Procs \X VAs
  /\ pinned \subseteq Procs \X VAs

At(c, s) == task[c] # NoTask /\ i[c] < MAX_PID_VA_ENTRIES /\ step[c] = s
Goto(c, s) == step' = [step EXCEPT ![c] = s]

\* Seeded fault: the loop counter is not advanced.
NextSlot_Stuck(c) ==
  /\ Goto(c, "lookup")
  /\ ptr' = [ptr EXCEPT ![c] = NoCell]
  /\ va' = [va EXCEPT ![c] = NullVA]
  /\ flags' = [flags EXCEPT ![c] = 0]
  /\ UNCHANGED i

\* The registers of a slot are dead once the loop moves on to the next one.
NextSlot(c) ==
  /\ Goto(c, "lookup")
  /\ i' = [i EXCEPT ![c] = @ + 1]
  /\ ptr' = [ptr EXCEPT ![c] = NoCell]
  /\ va' = [va EXCEPT ![c] = NullVA]
  /\ flags' = [flags EXCEPT ![c] = 0]

-----------------------------------------------------------------------------
\* Task t enters __task_pid_nr_ns on CPU c, and the probe starts.
Enter(c, t) ==
  /\ task[c] = NoTask
  /\ task' = [task EXCEPT ![c] = t]
  /\ i' = [i EXCEPT ![c] = 0]
  /\ UNCHANGED <<step, ptr, va, flags, pageVars, mapVars>>

\* Seeded fault: the scan ends at the first empty slot.
Lookup_StopsAtHole(c) ==
  /\ At(c, "lookup")
  /\ ptr' = [ptr EXCEPT ![c] = MapLookup(i[c])]
  /\ IF MapLookup(i[c]) = NoCell
     THEN i' = [i EXCEPT ![c] = MAX_PID_VA_ENTRIES] /\ UNCHANGED step
     ELSE Goto(c, "va") /\ UNCHANGED i
  /\ UNCHANGED <<task, va, flags, pageVars, mapVars>>

\* bpf_map_lookup_elem, and the NULL check of what it returns.
Lookup(c) ==
  /\ At(c, "lookup")
  /\ \/ /\ MapLookup(i[c]) = NoCell
        /\ NextSlot(c)
     \/ /\ MapLookup(i[c]) # NoCell
        /\ ptr' = [ptr EXCEPT ![c] = MapLookup(i[c])]
        /\ Goto(c, "va")
        /\ UNCHANGED <<i, va, flags>>
  /\ UNCHANGED <<task, pageVars, mapVars>>

\* Seeded fault: address 0 is not checked for.
LoadVa_Unchecked(c) ==
  /\ At(c, "va")
  /\ va' = [va EXCEPT ![c] = cell[ptr[c]].VA]
  /\ Goto(c, "flags")
  /\ UNCHANGED <<task, i, ptr, flags, pageVars, mapVars>>

\* if (pid_va->VA)
LoadVa(c) ==
  /\ At(c, "va")
  /\ va' = [va EXCEPT ![c] = cell[ptr[c]].VA]
  /\ Goto(c, IF va'[c] = NullVA THEN "delete" ELSE "flags")
  /\ UNCHANGED <<task, i, ptr, flags, pageVars, mapVars>>

\* Seeded faults: the chain lacks its last branch, or two branches are swapped.
LoadFlags_NoUnpin(c) ==
  /\ At(c, "flags")
  /\ flags' = [flags EXCEPT ![c] = cell[ptr[c]].flags]
  /\ Goto(c, IF flags'[c] \in 1 .. 3 THEN "kfunc" ELSE "delete")
  /\ UNCHANGED <<task, i, ptr, va, pageVars, mapVars>>

LoadFlags_Swapped(c) ==
  /\ At(c, "flags")
  /\ flags' = [flags EXCEPT ![c] = LET f == cell[ptr[c]].flags
                                   IN  CASE f = 3 -> 4 [] f = 4 -> 3 [] OTHER -> f]
  /\ Goto(c, IF flags'[c] \in 1 .. 4 THEN "kfunc" ELSE "delete")
  /\ UNCHANGED <<task, i, ptr, va, pageVars, mapVars>>

\* The chain of comparisons of pid_va->flags with 1 .. 4.
LoadFlags(c) ==
  /\ At(c, "flags")
  /\ flags' = [flags EXCEPT ![c] = cell[ptr[c]].flags]
  /\ Goto(c, IF flags'[c] \in 1 .. 4 THEN "kfunc" ELSE "delete")
  /\ UNCHANGED <<task, i, ptr, va, pageVars, mapVars>>

\* What the four kfuncs of the kernel do to the page of a live process.
KfuncEffect(op, page) ==
  /\ active' = CASE op = 1 -> active \cup {page}
                 [] op = 2 -> active \ {page}
                 [] OTHER  -> active
  /\ pinned' = CASE op = 3 -> pinned \cup {page}
                 [] op = 4 -> pinned \ {page}
                 [] OTHER  -> pinned

\* The pid is the third word loaded.  A kfunc may fail, and does when the
\* process is gone; the program only logs it.
CallKfunc(c, alive) ==
  LET pid == cell[ptr[c]].PID
  IN  /\ At(c, "kfunc")
      /\ \/ pid \in alive /\ KfuncEffect(flags[c], <<pid, va[c]>>)
         \/ UNCHANGED pageVars
      /\ Goto(c, "delete")
      /\ UNCHANGED <<task, i, ptr, va, flags, mapVars>>

\* Seeded fault: the request stays in the map.
Delete_Omitted(c) ==
  /\ At(c, "delete")
  /\ NextSlot(c)
  /\ UNCHANGED <<task, pageVars, mapVars>>

\* bpf_map_delete_elem by key, whatever the key holds by now; then i++.
Delete(c) ==
  /\ At(c, "delete")
  /\ MapDelete(i[c])
  /\ NextSlot(c)
  /\ UNCHANGED <<task, pageVars>>

\* return 0: the interrupted function goes on.
Leave(c) ==
  /\ task[c] # NoTask
  /\ i[c] = MAX_PID_VA_ENTRIES
  /\ task' = [task EXCEPT ![c] = NoTask]
  /\ i' = [i EXCEPT ![c] = 0]
  /\ UNCHANGED <<step, ptr, va, flags, pageVars, mapVars>>
=============================================================================
