----------------------------- MODULE Lifecycle -----------------------------
(***************************************************************************)
(* PagePatrol while its eBPF program comes and goes.  The map is pinned by *)
(* name (LIBBPF_PIN_BY_NAME): the first load creates the file that         *)
(* bpf_obj_get opens, an unload detaches the probe and leaves file and     *)
(* requests behind, the next load takes the same map up again.  Clients    *)
(* are not told: while no program is attached their getpid() returns       *)
(* without a probe, and what they write piles up in the ring.              *)
(***************************************************************************)
EXTENDS PagePatrol

CONSTANT MaxWrites   \* bound of the model: requests written

ASSUME LifecycleAssumption == MaxWrites \in Nat

VARIABLES
  attached,   \* a program is loaded and its probe attached
  published,  \* the map has its file in /sys/fs/bpf
  served,     \* history: the last getpid() of the process ran the probe
  written,    \* history: requests written so far; a request is known by its number
  missed,     \* history: the last request whose call returned without a probe
  age,        \* history: the number of the request a key holds, 0 if none
  readAge,    \* history: the number of the request the probe looked up, 0 if none
  applied,    \* history: the greatest number given to a kfunc
  together,   \* history: a probe on another CPU ran during the one on this CPU
  skewed      \* history: requests may be pending that no scan meets in order

ages == <<written, missed, age, readAge, applied, skewed>>
lifeVars == <<attached, published, served, ages, together>>
allVars == <<vars, lifeVars>>

LifeInit ==
  /\ Init
  /\ attached = FALSE
  /\ published = FALSE
  /\ served = [p \in Procs |-> TRUE]
  /\ written = 0
  /\ missed = 0
  /\ age = [k \in Keys |-> 0]
  /\ readAge = [c \in CPUs |-> 0]
  /\ applied = 0
  /\ together = [c \in CPUs |-> FALSE]
  /\ skewed = FALSE

LifeTypeOK ==
  /\ TypeOK
  /\ attached \in BOOLEAN
  /\ published \in BOOLEAN
  /\ served \in [Procs -> BOOLEAN]
  /\ written \in 0 .. MaxWrites
  /\ missed \in 0 .. written
  /\ age \in [Keys -> 0 .. written]
  /\ readAge \in [CPUs -> 0 .. written]
  /\ applied \in 0 .. written
  /\ together \in [CPUs -> BOOLEAN]
  /\ skewed \in BOOLEAN

Running == {c \in CPUs : task[c] # NoTask}
Pending == {k \in Keys : slot[k] # NoCell}

-----------------------------------------------------------------------------
\* The program is loaded; libbpf finds the pinned map and uses it as it is.
Load ==
  /\ ~attached
  /\ attached' = TRUE
  /\ published' = TRUE
  /\ UNCHANGED <<vars, served, ages, together>>

\* The program is detached; a probe that already runs goes on to its end.
Unload ==
  /\ attached
  /\ attached' = FALSE
  /\ UNCHANGED <<vars, published, served, ages, together>>

\* Nothing to open before the first load.
OpenPublished(p) ==
  /\ Open(p)
  /\ pc'[p] = "idle" => published
  /\ UNCHANGED lifeVars

\* A call, and the number of the request it wrote; the ring may wrap below requests
\* that are still pending.
NumberedCall(p) ==
  /\ written < MaxWrites
  /\ Call(p)
  /\ \/ Written /\ written' = written + 1 /\ age' = [age EXCEPT ![idx[p]] = written + 1]
     \/ ~Written /\ UNCHANGED <<written, age>>
  /\ skewed' = (skewed \/ (Written /\ \E k \in Pending : k > idx[p]))
  /\ UNCHANGED <<attached, published, served, missed, readAge, applied, together>>

\* getpid() of p returns and no probe has run for it.  The request may lie behind a
\* probe that runs since before the unload and meets the next one first.
ReturnUnprobed(p) ==
  /\ ~attached
  /\ CpuFree
  /\ AtGetpid(p)
  /\ ~InProbe(p)
  /\ GetpidReturns(p)
  /\ served' = [served EXCEPT ![p] = FALSE]
  /\ missed' = written
  /\ skewed' = (skewed \/ Running # {})
  /\ UNCHANGED <<mapVars, probeVars, historyVars, attached, published, written, age,
                 readAge, applied, together>>

EnterAttached(c) ==
  /\ attached
  /\ EnterOther(c) \/ \E p \in Procs : EnterClient(c, p)
  /\ together' = [d \in CPUs |-> IF d = c THEN Running # {} ELSE together[d] \/ d \in Running]
  /\ UNCHANGED <<attached, published, served, ages>>

NumberedScan(c) ==
  /\ Scan(c)
  /\ readAge' = [readAge EXCEPT ![c] = IF step[c] = "lookup" THEN age[i[c]]
                                       ELSE IF step'[c] = "lookup" THEN 0 ELSE @]
  /\ applied' = IF step[c] = "kfunc" /\ readAge[c] > applied THEN readAge[c] ELSE applied
  /\ age' = [k \in Keys |-> IF slot'[k] = NoCell THEN 0 ELSE age[k]]
  /\ UNCHANGED <<attached, published, served, written, missed, together, skewed>>

FinishServed(c) ==
  /\ Finish(c)
  /\ served' = [p \in Procs |-> served[p] \/ task[c] = p]
  /\ together' = [together EXCEPT ![c] = FALSE]
  /\ skewed' = (skewed /\ (Pending # {} \/ Running # {c}))
  /\ UNCHANGED <<attached, published, written, missed, age, readAge, applied>>

LifeNext ==
  \/ Load \/ Unload
  \/ \E p \in Procs :
       \/ (Start(p) \/ Terminate(p)) /\ UNCHANGED lifeVars
       \/ OpenPublished(p) \/ NumberedCall(p) \/ ReturnUnprobed(p)
  \/ \E c \in CPUs : EnterAttached(c) \/ NumberedScan(c) \/ FinishServed(c)

LifeSpec == LifeInit /\ [][LifeNext]_allVars

-----------------------------------------------------------------------------
\* The probe a call waits for takes out everything its process has in the map,
\* what is left over from times without a program included.
DrainedWhenServed ==
  \A p \in Procs : served[p] /\ pc[p] \notin {"getpid", "exited"} => KeysOf(p) = {}

\* One client.  Deletion is by key, so a slow probe can delete a request it never
\* read: only after a whole turn of the ring passed under it, unless the request it
\* did read is left over from a time without a program.
LostOnlyWhenLapped ==
  [][\A c \in CPUs :
       Delete(c) /\ age[i[c]] \notin {0, readAge[c]}
       => lag[c] = MAX_PID_VA_ENTRIES \/ readAge[c] <= missed]_allVars

\* One client.  Requests are applied once, and in the order they were written, what
\* was left over included, unless probes overlapped, the ring wrapped over pending
\* requests, or the program was unloaded under a running probe.
AppliedInOrder ==
  [][\A c \in CPUs :
       CallKfunc(c, Alive) => readAge[c] > applied \/ together[c] \/ skewed]_allVars
=============================================================================
