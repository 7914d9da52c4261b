---------------------------- MODULE IndexedDrain ----------------------------
(***************************************************************************)
(* The two other programs on the same pinned map, eBPF/debug and           *)
(* eBPF/benchmark2, under the client library.  Their probe, on pid_nr_ns,  *)
(* takes slot 0 for a header whose flags are the index to start from, and  *)
(* visits the slots 1 .. MAX_PID_VA_ENTRIES-1 once around from there.  The *)
(* library knows no header: it writes requests into slot 0 as into any     *)
(* other, so the start index is the operation of whatever request that is. *)
(* The two programs differ in what they do for a request.                  *)
(***************************************************************************)
EXTENDS PagePatrolApi

CONSTANTS CPUs, NoTask, OtherTask

ASSUME IndexedAssumption ==
  /\ MAX_PID_VA_ENTRIES > 4        \* 1024: every operation is an index
  /\ NoTask \notin Procs \cup {OtherTask}
  /\ OtherTask \notin Procs

VARIABLES
  program,  \* which of the two programs is loaded
  task,     \* whose call of pid_nr_ns the probe on this CPU interrupts
  step,     \* next access of the probe on this CPU
  times,    \* its loop counter
  at,       \* its idx, the slot it is at
  ptr,      \* its pid_va
  flags,    \* pid_va->flags as it was loaded
  pinned    \* <<pid, va>> a kfunc has pinned

cpuVars == <<task, step, times, at, ptr, flags>>
vars == <<apiVars, mapVars, cpuVars, program, pinned>>

Init ==
  /\ MapInit
  /\ ApiInit
  /\ program \in {"debug", "benchmark2"}
  /\ task = [c \in CPUs |-> NoTask]
  /\ step = [c \in CPUs |-> "header"]
  /\ times = [c \in CPUs |-> 1]
  /\ at = [c \in CPUs |-> 0]
  /\ ptr = [c \in CPUs |-> NoCell]
  /\ flags = [c \in CPUs |-> 0]
  /\ pinned = {}

TypeOK ==
  /\ MapTypeOK
  /\ ApiTypeOK
  /\ program \in {"debug", "benchmark2"}
  /\ task \in [CPUs -> Procs \cup {NoTask, OtherTask}]
  /\ step \in [CPUs -> {"header", "start", "lookup", "flags", "kfunc", "delete", "return"}]
  /\ times \in [CPUs -> 1 .. MAX_PID_VA_ENTRIES]
  /\ at \in [CPUs -> Keys]
  /\ ptr \in [CPUs -> Cells \cup {NoCell}]
  /\ flags \in [CPUs -> 0 .. 4]
  /\ pinned \subseteq Procs \X VAs

CpuFree == \E c \in CPUs : task[c] = NoTask
InProbe(p) == \E c \in CPUs : task[c] = p
At(c, s) == task[c] # NoTask /\ step[c] = s
Goto(c, s) == step' = [step EXCEPT ![c] = s]

-----------------------------------------------------------------------------
(* The clients. *)

Start(p) == CpuFree /\ InitPagePatrol(p) /\ UNCHANGED <<cpuVars, program, pinned>>
Open(p)  == CpuFree /\ OpenMap(p) /\ UNCHANGED <<cpuVars, program, pinned>>

Call(p) ==
  /\ CpuFree
  /\ \E addr \in VAs \cup {NullVA} : ApiCall(p, addr)
  /\ UNCHANGED <<cpuVars, program, pinned>>

Terminate(p) ==
  CpuFree /\ ~InProbe(p) /\ Exit(p) /\ UNCHANGED <<cpuVars, program, pinned>>

-----------------------------------------------------------------------------
(* The probe. *)

\* pid_nr_ns is entered on behalf of task t: of a client inside getpid(), or other.
Enter(c, t) ==
  /\ task[c] = NoTask
  /\ t \in Procs => AtGetpid(t) /\ ~InProbe(t)
  /\ task' = [task EXCEPT ![c] = t]
  /\ UNCHANGED <<apiVars, mapVars, step, times, at, ptr, flags, program, pinned>>

\* The header is looked up; without one there is nothing to do.
LookupHeader(c) ==
  /\ At(c, "header")
  /\ ptr' = [ptr EXCEPT ![c] = MapLookup(0)]
  /\ Goto(c, IF ptr'[c] = NoCell THEN "return" ELSE "start")
  /\ UNCHANGED <<apiVars, mapVars, task, times, at, flags, program, pinned>>

\* int idx = idxProcess
LoadStart(c) ==
  /\ At(c, "start")
  /\ at' = [at EXCEPT ![c] = cell[ptr[c]].flags]
  /\ Goto(c, "lookup")
  /\ UNCHANGED <<apiVars, mapVars, task, times, ptr, flags, program, pinned>>

\* Seeded faults: the scan wraps around to the header, or ends one slot early.
NextSlot_ToHeader(c) ==
  /\ at' = [at EXCEPT ![c] = (@ + 1) % MAX_PID_VA_ENTRIES]
  /\ times' = [times EXCEPT ![c] = @ + 1]
  /\ Goto(c, IF times[c] + 1 = MAX_PID_VA_ENTRIES THEN "return" ELSE "lookup")

NextSlot_OneShort(c) ==
  /\ at' = [at EXCEPT ![c] = IF @ + 1 = MAX_PID_VA_ENTRIES THEN 1 ELSE @ + 1]
  /\ times' = [times EXCEPT ![c] = @ + 1]
  /\ Goto(c, IF times[c] + 2 = MAX_PID_VA_ENTRIES THEN "return" ELSE "lookup")

\* idx++, around slot 0, and times++
NextSlot(c) ==
  /\ at' = [at EXCEPT ![c] = IF @ + 1 = MAX_PID_VA_ENTRIES THEN 1 ELSE @ + 1]
  /\ times' = [times EXCEPT ![c] = @ + 1]
  /\ Goto(c, IF times[c] + 1 = MAX_PID_VA_ENTRIES THEN "return" ELSE "lookup")

Lookup(c) ==
  /\ At(c, "lookup")
  /\ ptr' = [ptr EXCEPT ![c] = MapLookup(at[c])]
  /\ \/ MapLookup(at[c]) = NoCell /\ NextSlot(c)
     \/ MapLookup(at[c]) # NoCell /\ Goto(c, "flags") /\ UNCHANGED <<at, times>>
  /\ UNCHANGED <<apiVars, mapVars, task, flags, program, pinned>>

\* debug only prints which of the four values it found.
DebugCalls == {}

\* benchmark2 calls a kfunc for two of them, and pins for 1, as common.h says: that is
\* the library's activation, and 3 is its pinning.
Benchmark2Calls == {0, 1}

LoadFlags(c) ==
  /\ At(c, "flags")
  /\ flags' = [flags EXCEPT ![c] = cell[ptr[c]].flags]
  /\ Goto(c, IF flags'[c] \in IF program = "debug" THEN DebugCalls ELSE Benchmark2Calls
             THEN "kfunc" ELSE "delete")
  /\ UNCHANGED <<apiVars, mapVars, task, times, at, ptr, program, pinned>>

\* bpf_pin_file_vaddr; it may fail, as it does for address 0 and a process that is
\* gone.  No request carries the flags 0 that would call the other kfunc.
CallKfunc(c) ==
  LET r == cell[ptr[c]]
  IN  /\ At(c, "kfunc")
      /\ \/ pc[r.PID] # "exited" /\ r.VA # NullVA /\ pinned' = pinned \cup {<<r.PID, r.VA>>}
         \/ UNCHANGED pinned
      /\ Goto(c, "delete")
      /\ UNCHANGED <<apiVars, mapVars, task, times, at, ptr, flags, program>>

Delete(c) ==
  /\ At(c, "delete")
  /\ MapDelete(at[c])
  /\ NextSlot(c)
  /\ ptr' = [ptr EXCEPT ![c] = NoCell]
  /\ flags' = [flags EXCEPT ![c] = 0]
  /\ UNCHANGED <<apiVars, task, program, pinned>>

\* The interrupted function goes on, and a client's call returns.
Return(c) ==
  /\ At(c, "return")
  /\ \/ task[c] \in Procs /\ GetpidReturns(task[c])
     \/ task[c] = OtherTask /\ UNCHANGED apiVars
  /\ task' = [task EXCEPT ![c] = NoTask]
  /\ times' = [times EXCEPT ![c] = 1]
  /\ at' = [at EXCEPT ![c] = 0]
  /\ Goto(c, "header")
  /\ UNCHANGED <<mapVars, ptr, flags, program, pinned>>

Scan(c) ==
  \/ LookupHeader(c) \/ LoadStart(c)
  \/ Lookup(c) \/ LoadFlags(c) \/ CallKfunc(c) \/ Delete(c)

Next ==
  \/ \E p \in Procs : Start(p) \/ Open(p) \/ Call(p) \/ Terminate(p)
  \/ \E c \in CPUs :
       \/ \E t \in Procs \cup {OtherTask} : Enter(c, t)
       \/ Scan(c) \/ Return(c)

Spec == Init /\ [][Next]_vars

-----------------------------------------------------------------------------
\* When a call has returned, the map holds nothing of the caller behind slot 0:
\* wherever the scan starts it visits every slot from 1 on, and there is a header
\* whenever there is anything else.
DrainedBehindHeader ==
  \A p \in Procs : pc[p] \notin {"getpid", "exited"} => KeysOf(p) \subseteq {0}

\* Slot 0 is never emptied: its request stays until a client's ring comes round to
\* it, and no probe takes it for a request.
HeaderKept == [][slot[0] # NoCell => slot'[0] # NoCell]_vars
=============================================================================
