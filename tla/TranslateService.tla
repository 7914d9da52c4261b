-------------------------- MODULE TranslateService --------------------------
(***************************************************************************)
(* Translation of a virtual to a physical address.  A user program puts    *)
(* its pid and an address of its stack into two pinned maps of one entry,  *)
(* sleeps ten seconds and reads the answer from a third; a probe on        *)
(* do_unlinkat takes the request, calls the kfunc of the kernel module     *)
(* KernelModules/translate_va2pa and stores the answer.  Nothing but the   *)
(* sleep orders the two, and every user uses the same three entries.       *)
(*                                                                         *)
(* A step is one access to a map or one call of the kernel.  The probe     *)
(* loads pid and address when it looks them up: an entry keeps its         *)
(* contents after it was replaced.                                         *)
(***************************************************************************)
EXTENDS Integers, FiniteSets

CONSTANTS
  Users,      \* the processes that run the user program, once each
  VAs,        \* the addresses &va_map_fd may have
  CPUs,
  NoPid, NullVA, NullPA,   \* the initial contents of the probe's variables
  Absent      \* a map without its entry

ASSUME TranslateAssumption ==
  /\ {NoPid, Absent} \cap Users = {}
  /\ {NullVA, Absent} \cap VAs = {}
  /\ {NullPA, Absent} \cap (Users \X VAs) = {}
  /\ IsFiniteSet(CPUs)

VARIABLES
  pc, addr,              \* per user: where it is, and va
  printed,               \* per user: the physical address it printed
  pid_map, va_map, pa_map,  \* the entry under key 0
  step, pid, va, pa,     \* per CPU: next step of the probe and what it loaded
  mmUsers,               \* per user: references to its mm a kfunc holds
  pagePins,              \* per user: references to its pages a kfunc holds
  undisturbed            \* history: see TrustedAnswer

userVars == <<pc, addr, printed>>
mapVars == <<pid_map, va_map, pa_map>>
probeVars == <<step, pid, va, pa>>
refVars == <<mmUsers, pagePins>>
vars == <<userVars, mapVars, probeVars, refVars, undisturbed>>

Stages == {"open", "putpid", "putva", "sleep", "delpid", "delva", "delpa",
           "done", "failed", "killed"}
Ended == {"done", "failed", "killed"}
Steps == {"idle", "pid", "va", "find", "mm", "pin", "put", "store"}
\* <<u, v>> stands for the physical address of v in the address space of u.
Physical == Users \X VAs

Init ==
  /\ pc = [u \in Users |-> "open"]
  /\ addr \in [Users -> VAs]
  /\ printed = [u \in Users |-> Absent]
  /\ pid_map = Absent /\ va_map = Absent /\ pa_map = Absent
  /\ step = [c \in CPUs |-> "idle"]
  /\ pid = [c \in CPUs |-> NoPid]
  /\ va = [c \in CPUs |-> NullVA]
  /\ pa = [c \in CPUs |-> NullPA]
  /\ mmUsers = [u \in Users |-> 0]
  /\ pagePins = [u \in Users |-> 0]
  /\ undisturbed = [u \in Users |-> FALSE]

DataTypeOK ==
  /\ pc \in [Users -> Stages]
  /\ addr \in [Users -> VAs]
  /\ printed \in [Users -> Physical \cup {NullPA, Absent}]
  /\ pid_map \in Users \cup {Absent}
  /\ va_map \in VAs \cup {Absent}
  /\ pa_map \in Physical \cup {NullPA, Absent}
  /\ step \in [CPUs -> Steps]
  /\ pid \in [CPUs -> Users \cup {NoPid}]
  /\ va \in [CPUs -> VAs \cup {NullVA}]
  /\ pa \in [CPUs -> Physical \cup {NullPA}]
  /\ undisturbed \in [Users -> BOOLEAN]

TypeOK ==
  /\ DataTypeOK
  /\ mmUsers \in [Users -> Nat]
  /\ pagePins \in [Users -> Nat]

Alive(u) == pc[u] \notin Ended
\* A probe runs with preemption disabled: its CPU does nothing else.
CpuFree == \E c \in CPUs : step[c] = "idle"
\* No probe has taken a request and is yet to store the answer.
NoAnswerUnderWay == \A c \in CPUs : step[c] \in {"idle", "pid"}
Go(u, s) == pc' = [pc EXCEPT ![u] = s]

-----------------------------------------------------------------------------
\* The user program.

UserStep(u, from) == CpuFree /\ pc[u] = from /\ UNCHANGED <<addr, probeVars, refVars>>

\* The three bpf_obj_get: they fail while no eBPF program has pinned the maps.
OpenMaps(u) ==
  /\ UserStep(u, "open")
  /\ \E next \in {"putpid", "failed"} : Go(u, next)
  /\ UNCHANGED <<printed, mapVars, undisturbed>>

\* A user that writes makes the others' answers doubtful.
Disturb(u, own) ==
  undisturbed' = [w \in Users |-> IF w = u THEN own ELSE FALSE]

\* Seeded fault: BPF_NOEXIST for BPF_ANY, so that a pid that is there stays.
PutPid_NoExist(u) ==
  /\ UserStep(u, "putpid")
  /\ \/ /\ pid_map' = IF pid_map = Absent THEN u ELSE pid_map
        /\ Go(u, "putva")
        /\ Disturb(u, va_map = Absent /\ pa_map = Absent /\ NoAnswerUnderWay)
     \/ Go(u, "failed") /\ UNCHANGED <<pid_map, undisturbed>>
  /\ UNCHANGED <<printed, va_map, pa_map>>

PutPid(u) ==
  /\ UserStep(u, "putpid")
  /\ \/ /\ pid_map' = u
        /\ Go(u, "putva")
        /\ Disturb(u, va_map = Absent /\ pa_map = Absent /\ NoAnswerUnderWay)
     \/ Go(u, "failed") /\ UNCHANGED <<pid_map, undisturbed>>
  /\ UNCHANGED <<printed, va_map, pa_map>>

PutVa(u) ==
  /\ UserStep(u, "putva")
  /\ \/ /\ va_map' = addr[u]
        /\ Go(u, "sleep")
        /\ Disturb(u, undisturbed[u])
     \/ Go(u, "failed") /\ UNCHANGED <<va_map, undisturbed>>
  /\ UNCHANGED <<printed, pid_map, pa_map>>

\* The sleep ends at any time, whatever the probes did meanwhile.
ReadPa(u) ==
  /\ UserStep(u, "sleep")
  /\ printed' = [printed EXCEPT ![u] = pa_map]
  /\ Go(u, "delpid")
  /\ UNCHANGED <<mapVars, undisturbed>>

CleanUp(u) ==
  /\ \/ UserStep(u, "delpid") /\ Go(u, "delva") /\ pid_map' = Absent
                              /\ UNCHANGED <<va_map, pa_map>>
     \/ UserStep(u, "delva") /\ Go(u, "delpa") /\ va_map' = Absent
                             /\ UNCHANGED <<pid_map, pa_map>>
     \/ UserStep(u, "delpa") /\ Go(u, "done") /\ pa_map' = Absent
                             /\ UNCHANGED <<pid_map, va_map>>
  /\ UNCHANGED <<printed, undisturbed>>

\* Killed: whatever it put into the maps stays there.
Kill(u) ==
  /\ CpuFree
  /\ Alive(u)
  /\ Go(u, "killed")
  /\ UNCHANGED <<addr, printed, mapVars, probeVars, refVars, undisturbed>>

-----------------------------------------------------------------------------
\* The probe, and in it the kfunc.

ProbeStep(c, from, to) ==
  /\ step[c] = from
  /\ step' = [step EXCEPT ![c] = to]
  /\ UNCHANGED <<userVars, undisturbed>>

\* The probe returns; its variables go with it.
Return(c, from) ==
  /\ ProbeStep(c, from, "idle")
  /\ pid' = [pid EXCEPT ![c] = NoPid]
  /\ va' = [va EXCEPT ![c] = NullVA]
  /\ pa' = [pa EXCEPT ![c] = NullPA]

\* Some process removes a file.
Unlink(c) ==
  /\ ProbeStep(c, "idle", "pid")
  /\ UNCHANGED <<pid, va, pa, mapVars, refVars>>

LookupPid(c) ==
  /\ \/ pid_map = Absent /\ Return(c, "pid")
     \/ /\ pid_map # Absent
        /\ ProbeStep(c, "pid", "va")
        /\ pid' = [pid EXCEPT ![c] = pid_map]
        /\ UNCHANGED <<va, pa>>
  /\ UNCHANGED <<mapVars, refVars>>

LookupVa(c) ==
  /\ \/ va_map = Absent /\ Return(c, "va")
     \/ /\ va_map # Absent
        /\ ProbeStep(c, "va", "find")
        /\ va' = [va EXCEPT ![c] = va_map]
        /\ UNCHANGED <<pid, pa>>
  /\ UNCHANGED <<mapVars, refVars>>

\* find_get_pid and get_pid_task: -EINVAL when there is no such process, and for
\* address 0.
FindTask(c) ==
  /\ \/ /\ ProbeStep(c, "find", "mm")
        /\ Alive(pid[c]) /\ va[c] # NullVA
        /\ UNCHANGED <<pid, va, pa>>
     \/ Return(c, "find") /\ (~Alive(pid[c]) \/ va[c] = NullVA)
  /\ UNCHANGED <<mapVars, refVars>>

\* get_task_mm: -ESRCH when the process has given up its memory since.
GetTaskMm(c) ==
  /\ \/ /\ ProbeStep(c, "mm", "pin")
        /\ Alive(pid[c])
        /\ mmUsers' = [mmUsers EXCEPT ![pid[c]] = @ + 1]
        /\ UNCHANGED <<pid, va, pa>>
     \/ Return(c, "mm") /\ ~Alive(pid[c]) /\ UNCHANGED mmUsers
  /\ UNCHANGED <<mapVars, pagePins>>

Pinned(c) ==
  /\ ProbeStep(c, "pin", "put")
  /\ pagePins' = [pagePins EXCEPT ![pid[c]] = @ + 1]
  /\ UNCHANGED <<mmUsers, pid, va, pa>>

DropMm(c) == mmUsers' = [mmUsers EXCEPT ![pid[c]] = @ - 1]

\* Seeded faults: when the page is not pinned mmput is forgotten, or the page is
\* dropped too.
PinUserPage_NoMmput(c) ==
  /\ \/ Pinned(c)
     \/ Return(c, "pin") /\ UNCHANGED refVars
     \/ ProbeStep(c, "pin", "store") /\ UNCHANGED <<refVars, pid, va, pa>>
  /\ UNCHANGED mapVars

PinUserPage_DropsPage(c) ==
  /\ \/ Pinned(c)
     \/ /\ Return(c, "pin")
        /\ DropMm(c)
        /\ pagePins' = [pagePins EXCEPT ![pid[c]] = @ - 1]
  /\ UNCHANGED mapVars

\* pin_user_pages_remote returns 1, an error, or 0.  Both of the latter make the
\* kfunc drop the mm, set the address in its result to 0 and the error code to
\* what was returned; for 0 that reads as success, and the probe stores it.
PinUserPage(c) ==
  /\ \/ Pinned(c)
     \/ Return(c, "pin") /\ DropMm(c) /\ UNCHANGED pagePins
     \/ ProbeStep(c, "pin", "store") /\ DropMm(c) /\ UNCHANGED <<pagePins, pid, va, pa>>
  /\ UNCHANGED mapVars

\* Seeded fault: the offset of the address in its page is left out, which makes it
\* the answer for another address.
Populate_NoOffset(c) ==
  /\ ProbeStep(c, "put", "store")
  /\ \E v \in VAs : pa' = [pa EXCEPT ![c] = <<pid[c], v>>]
  /\ pagePins' = [pagePins EXCEPT ![pid[c]] = @ - 1]
  /\ DropMm(c)
  /\ UNCHANGED <<pid, va, mapVars>>

\* The address is computed, then page and mm are dropped.
Populate(c) ==
  /\ ProbeStep(c, "put", "store")
  /\ pa' = [pa EXCEPT ![c] = <<pid[c], va[c]>>]
  /\ pagePins' = [pagePins EXCEPT ![pid[c]] = @ - 1]
  /\ DropMm(c)
  /\ UNCHANGED <<pid, va, mapVars>>

\* bpf_map_update_elem of pa_map, which may fail.
StorePa(c) ==
  /\ Return(c, "store")
  /\ pa_map' \in {pa[c], pa_map}
  /\ UNCHANGED <<pid_map, va_map, refVars>>

-----------------------------------------------------------------------------
Next ==
  \/ \E u \in Users : OpenMaps(u) \/ PutPid(u) \/ PutVa(u) \/ ReadPa(u)
                      \/ CleanUp(u) \/ Kill(u)
  \/ \E c \in CPUs : Unlink(c) \/ LookupPid(c) \/ LookupVa(c) \/ FindTask(c)
                     \/ GetTaskMm(c) \/ PinUserPage(c) \/ Populate(c) \/ StorePa(c)

Spec == Init /\ [][Next]_vars

-----------------------------------------------------------------------------
Answered(u) == printed[u] # Absent
OwnAddress(u) == <<u, addr[u]>>

\* A user that found neither an old address nor an old answer, nor a probe with
\* another request under way, and whose request no other user overwrote, prints
\* the translation of its own address, 0 or nothing, however late the probes are.
TrustedAnswer ==
  \A u \in Users :
    undisturbed[u] /\ Answered(u) => printed[u] \in {OwnAddress(u), NullPA}

\* What keeps it so.  From its first write until it reads, an undisturbed user finds
\* nothing but its own data in maps and probes, and nobody has an answer before.
Waiting(u) == pc[u] \in {"putva", "sleep"}

OnlyOwnData(u) ==
  /\ pid_map \in {Absent, u}
  /\ va_map \in {Absent, addr[u]}
  /\ pa_map \in {Absent, NullPA, OwnAddress(u)}
  /\ \A c \in CPUs :
       /\ step[c] \notin {"idle", "pid"} => pid[c] = u
       /\ step[c] \notin {"idle", "pid", "va"} => va[c] = addr[u]
       /\ step[c] = "store" => pa[c] \in {NullPA, OwnAddress(u)}

TrustInv ==
  \A u \in Users :
    /\ pc[u] \in {"open", "putpid", "putva", "sleep"} => ~Answered(u)
    /\ undisturbed[u] /\ Waiting(u) => OnlyOwnData(u)

\* No user prints the address of another user's page, or of another address.
\* This is NOT so (run mixed_answer): the three entries are everybody's.
OwnAnswer ==
  \A u \in Users : Answered(u) => printed[u] \in {OwnAddress(u), NullPA}

\* Whatever path a call takes, the mm and the pages of the process it looks at are
\* held for as long as the call is between taking and dropping them: past calls keep
\* neither.  (They keep the pid and the task, which no path drops: those references
\* are not counted here.)
Holders(u, held) == {c \in CPUs : step[c] \in held /\ pid[c] = u}

RefsDropped ==
  \A u \in Users :
    /\ mmUsers[u] = Cardinality(Holders(u, {"pin", "put"}))
    /\ pagePins[u] = Cardinality(Holders(u, {"put"}))
=============================================================================
