----------------------------- MODULE PagePatrol -----------------------------
(***************************************************************************)
(* Client processes and the probe together.  The processes take their      *)
(* steps on CPUs that run no probe; a process inside getpid() goes on when *)
(* the probe it triggered has finished.                                    *)
(***************************************************************************)
EXTENDS PagePatrolApi, PidVaProbe

VARIABLES
  fate,  \* history: what has become of the last request of each process
  lag,   \* history: requests written since the probe on this CPU began, up to
         \* MAX_PID_VA_ENTRIES
  seen   \* history: what the entry held when the probe on this CPU looked it up

historyVars == <<fate, lag, seen>>
vars == <<apiVars, mapVars, probeVars, historyVars>>

Nothing == [flags |-> 0, PID |-> NoPid, VA |-> NullVA]
Fates == {"none", "pending", "applied", "repeated", "dropped", "overwritten"}

Init ==
  /\ MapInit
  /\ ApiInit
  /\ ProbeInit
  /\ fate = [p \in Procs |-> "none"]
  /\ lag = [c \in CPUs |-> 0]
  /\ seen = [c \in CPUs |-> Nothing]

TypeOK ==
  /\ MapTypeOK
  /\ ApiTypeOK
  /\ ProbeTypeOK
  /\ fate \in [Procs -> Fates]
  /\ lag \in [CPUs -> 0 .. MAX_PID_VA_ENTRIES]
  /\ seen \in [CPUs -> Request]

Alive == {p \in Procs : pc[p] # "exited"}
CpuFree == \E c \in CPUs : task[c] = NoTask
InProbe(p) == \E c \in CPUs : task[c] = p

\* What CPU c is about to hand to the kfunc.
Args(c) == [flags |-> flags[c], PID |-> cell[ptr[c]].PID, VA |-> va[c]]

-----------------------------------------------------------------------------
\* The history variables follow the requests through the actions below.

Written == slot' # slot

Count ==
  lag' = [c \in CPUs |->
            IF Written /\ task[c] # NoTask /\ lag[c] < MAX_PID_VA_ENTRIES
            THEN lag[c] + 1 ELSE lag[c]]

FateOfSubmit(p, k) ==
  fate' = [q \in Procs |->
    IF q = p THEN IF Written /\ pid_va'[p].VA # NullVA THEN "pending" ELSE "none"
    ELSE IF Written /\ k \in KeysOf(q) /\ fate[q] = "pending" THEN "overwritten"
    ELSE fate[q]]

FateOfKfunc(c) ==
  fate' = [p \in Procs |->
    IF fate[p] = "none" \/ pid_va[p] # Args(c) THEN fate[p]
    ELSE IF fate[p] \in {"applied", "repeated"} THEN "repeated" ELSE "applied"]

FateOfDelete(c) ==
  fate' = [p \in Procs |->
    IF i[c] \in KeysOf(p) /\ fate[p] = "pending" THEN "dropped" ELSE fate[p]]

SeenByScan(c) ==
  seen' = [seen EXCEPT ![c] = IF ptr'[c] = NoCell THEN Nothing
                              ELSE IF step[c] = "lookup" THEN cell[ptr'[c]]
                              ELSE @]

-----------------------------------------------------------------------------
Start(p) == CpuFree /\ InitPagePatrol(p) /\ UNCHANGED <<probeVars, historyVars>>
Open(p)  == CpuFree /\ OpenMap(p) /\ UNCHANGED <<probeVars, historyVars>>

Call(p) ==
  /\ CpuFree
  /\ \E addr \in VAs \cup {NullVA} : ApiCall(p, addr)
  /\ FateOfSubmit(p, idx[p])
  /\ Count
  /\ UNCHANGED seen
  /\ UNCHANGED probeVars

Terminate(p) ==
  CpuFree /\ ~InProbe(p) /\ Exit(p) /\ UNCHANGED <<probeVars, historyVars>>

\* The probe fires for a client inside getpid(), or for any other task.
EnterClient(c, p) ==
  /\ AtGetpid(p)
  /\ ~InProbe(p)
  /\ Enter(c, p)
  /\ UNCHANGED <<apiVars, historyVars>>

EnterOther(c) == Enter(c, OtherTask) /\ UNCHANGED <<apiVars, historyVars>>

Scan(c) ==
  /\ \/ (Lookup(c) \/ LoadVa(c) \/ LoadFlags(c)) /\ UNCHANGED fate
     \/ CallKfunc(c, Alive) /\ FateOfKfunc(c)
     \/ Delete(c) /\ FateOfDelete(c)
  /\ SeenByScan(c)
  /\ UNCHANGED <<apiVars, lag>>

Finish(c) ==
  /\ Leave(c)
  /\ \/ task[c] \in Procs /\ GetpidReturns(task[c])
     \/ task[c] = OtherTask /\ UNCHANGED apiVars
  /\ lag' = [lag EXCEPT ![c] = 0]
  /\ UNCHANGED <<fate, seen>>

Next ==
  \/ \E p \in Procs : Start(p) \/ Open(p) \/ Call(p) \/ Terminate(p)
  \/ \E c \in CPUs, p \in Procs : EnterClient(c, p)
  \/ \E c \in CPUs : EnterOther(c) \/ Scan(c) \/ Finish(c)

Spec == Init /\ [][Next]_vars

\* A probe is never preempted and its loop is finite, so it makes progress; the
\* scheduler does not starve a process that is runnable inside getpid().
Fairness ==
  /\ \A c \in CPUs : WF_vars(Scan(c)) /\ WF_vars(Finish(c))
  /\ \A p \in Procs : SF_vars(\E c \in CPUs : EnterClient(c, p))

FairSpec == Spec /\ Fairness

\* No two clients meet in a slot: every process starts its ring at slot 0, so
\* this is NOT so (run slot_collision).
NoCollision == \A p \in Procs : fate[p] # "overwritten"

-----------------------------------------------------------------------------
(***************************************************************************)
(* Properties of every system, whatever the number of CPUs and clients.    *)
(***************************************************************************)

\* A call waits for the probe it triggers: when it has returned, the map holds
\* nothing of the caller any more, on whichever CPU the requests were consumed.
DrainedOnReturn ==
  \A p \in Procs : pc[p] \notin {"getpid", "exited"} => KeysOf(p) = {}

\* Every call returns, init_page_patrol included (or its process is killed first).
CallsReturn == \A p \in Procs : AtGetpid(p) ~> ~AtGetpid(p)

(***************************************************************************)
(* One CPU, any number of clients.                                         *)
(***************************************************************************)

\* A call returns with its request applied exactly once; the only way to lose
\* it is that another process wrote the same slot in between.
AppliedOnce ==
  \A p \in Procs :
    /\ fate[p] \notin {"dropped", "repeated"}
    /\ pc[p] = "idle" => fate[p] # "pending"

\* The kfunc is called for the request the probe looked up, operation, process
\* and address, although the probe loads the three one by one.
CallsWhatItLookedUp ==
  \A c \in CPUs : At(c, "kfunc") => Args(c) = seen[c]

\* The pages of a process change only while one of its calls asks for exactly
\* that: nothing is applied after the call that asked for it has returned.
InCallFor(p, op, v) == pc[p] = "getpid" /\ pid_va[p].flags = op /\ pid_va[p].VA = v

MovesAsAsked ==
  \A p \in Procs, v \in VAs :
    /\ <<p, v>> \in active' \ active => InCallFor(p, Activation, v)
    /\ <<p, v>> \in active \ active' => InCallFor(p, Deactivation, v)
    /\ <<p, v>> \in pinned' \ pinned => InCallFor(p, Pinning, v)
    /\ <<p, v>> \in pinned \ pinned' => InCallFor(p, Unpinning, v)

OnlyCallsMovePages == [][MovesAsAsked]_vars

=============================================================================
