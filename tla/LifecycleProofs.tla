-------------------------- MODULE LifecycleProofs --------------------------
(***************************************************************************)
(* Loading and unloading the program at any time does not break what a     *)
(* probe does for the call that waits for it: for every number of clients, *)
(* CPUs and slots, and every number of requests.                           *)
(***************************************************************************)
EXTENDS LifecycleInv, PagePatrolProofs, Integers

\* What a step of PagePatrol gives, read for the history of Lifecycle: a process
\* becomes served only as it leaves the getpid() its probe ran for.
LEMMA ServedStep ==
  ASSUME ServeInv, DrainedWhenServed, [Next]_vars,
         served \in [Procs -> BOOLEAN],
         \A p \in Procs : served'[p] => \/ served[p]
                                        \/ AtGetpid(p) /\ pc'[p] # pc[p]
  PROVE  ServeInv' /\ DrainedWhenServed'
<1>1. ServeInv' /\ DrainStep
  BY ServeNext
<1>2. ASSUME NEW p \in Procs, served'[p], pc'[p] \notin {"getpid", "exited"}
      PROVE  KeysOf(p)' = {}
  <2>1. CASE AtGetpid(p) /\ pc'[p] # pc[p]
    BY <1>1, <1>2, <2>1 DEF DrainStep
  <2>2. CASE served[p] /\ ~(AtGetpid(p) /\ pc'[p] # pc[p])
    <3>1. pc[p] \notin {"getpid", "exited"}
      BY <1>1, <1>2, <2>2 DEF DrainStep, AtGetpid
    <3> QED
      BY <1>1, <1>2, <2>2, <3>1 DEF DrainStep, DrainedWhenServed
  <2> QED
    BY <1>2, <2>1, <2>2
<1> QED
  BY <1>1, <1>2 DEF DrainedWhenServed

\* A getpid() that returns without a probe changes neither map nor probes.
LEMMA UnprobedKeeps ==
  ASSUME ServeInv, DrainedWhenServed, served \in [Procs -> BOOLEAN],
         NEW p \in Procs, ReturnUnprobed(p)
  PROVE  ServeInv' /\ DrainedWhenServed'
<1> USE DEF ServeInv
<1>1. /\ GetpidReturns(p)
      /\ \A c \in CPUs : task[c] # p
      /\ served' = [served EXCEPT ![p] = FALSE]
      /\ UNCHANGED <<mapVars, probeVars, historyVars>>
  BY DEF ReturnUnprobed, InProbe
<1>2. /\ ApiTypeOK' /\ PidStored'
      /\ \A q \in Procs \ {p} : pc'[q] = pc[q]
  BY <1>1, GetpidKeeps DEF ServeCore, TypeOK
<1>3. TypeOK'
  BY <1>1, <1>2 DEF TypeOK, MapTypeOK, ProbeTypeOK, mapVars, probeVars, cpuVars, pageVars,
     historyVars
<1>4. \A q \in Procs : KeysOf(q)' = KeysOf(q)
  BY <1>1, KeysOfUnchanged
<1>5. RegistersOK' /\ ServesClient' /\ OneProbePerClient'
  BY <1>1, <1>2, <1>4 DEF ServeCore, RegistersOK, ServesClient, OneProbePerClient, AtGetpid,
     probeVars, cpuVars
<1>6. DrainedWhenServed'
  BY <1>1, <1>2, <1>4 DEF DrainedWhenServed
<1> QED
  BY <1>2, <1>3, <1>5, <1>6 DEF ServeCore

LEMMA LifeStep ==
  ASSUME ServeInv, DrainedWhenServed, served \in [Procs -> BOOLEAN], [LifeNext]_allVars
  PROVE  ServeInv' /\ DrainedWhenServed' /\ served' \in [Procs -> BOOLEAN]
<1>1. CASE Load \/ Unload \/ UNCHANGED allVars
  BY <1>1, ServedStep DEF Load, Unload, allVars, lifeVars
<1>2. ASSUME NEW p \in Procs,
             \/ (Start(p) \/ Terminate(p)) /\ UNCHANGED lifeVars
             \/ OpenPublished(p) \/ NumberedCall(p)
      PROVE  ServeInv' /\ DrainedWhenServed' /\ served' = served
  BY <1>2, ServedStep DEF OpenPublished, NumberedCall, lifeVars, Next
<1>3. ASSUME NEW p \in Procs, ReturnUnprobed(p)
      PROVE  ServeInv' /\ DrainedWhenServed' /\ served' \in [Procs -> BOOLEAN]
  BY <1>3, UnprobedKeeps DEF ReturnUnprobed
<1>4. ASSUME NEW c \in CPUs, EnterAttached(c) \/ NumberedScan(c)
      PROVE  ServeInv' /\ DrainedWhenServed' /\ served' = served
  BY <1>4, ServedStep DEF EnterAttached, NumberedScan, Next
<1>5. ASSUME NEW c \in CPUs, FinishServed(c)
      PROVE  ServeInv' /\ DrainedWhenServed' /\ served' \in [Procs -> BOOLEAN]
  <2>1. Finish(c) /\ served' = [p \in Procs |-> served[p] \/ task[c] = p]
    BY <1>5 DEF FinishServed
  <2>2. ASSUME NEW p \in Procs, task[c] = p
        PROVE  AtGetpid(p) /\ pc'[p] # pc[p]
    <3>1. GetpidReturns(p)
      BY <2>1, <2>2, ProbeAssumption DEF Finish
    <3> QED
      BY <3>1 DEF GetpidReturns, AtGetpid, ServeInv, TypeOK, ApiTypeOK
  <2>3. served' \in [Procs -> BOOLEAN]
    BY <2>1
  <2> QED
    BY <2>1, <2>2, <2>3, ServedStep DEF Next
<1> QED
  BY <1>1, <1>2, <1>3, <1>4, <1>5 DEF LifeNext

LEMMA LifeStart == LifeInit => ServeInv /\ DrainedWhenServed /\ served \in [Procs -> BOOLEAN]
<1> SUFFICES ASSUME LifeInit
             PROVE  ServeInv /\ DrainedWhenServed /\ served \in [Procs -> BOOLEAN]
  OBVIOUS
<1>1. ServeInv /\ DrainedOnReturn
  BY TypeInit, ServeInit, DrainInit DEF LifeInit, ServeInv
<1> QED
  BY <1>1 DEF LifeInit, DrainedOnReturn, DrainedWhenServed

LEMMA LifeInvariant ==
  LifeSpec => [](ServeInv /\ DrainedWhenServed /\ served \in [Procs -> BOOLEAN])
<1> DEFINE I == ServeInv /\ DrainedWhenServed /\ served \in [Procs -> BOOLEAN]
<1>1. LifeInit => I
  BY LifeStart
<1>2. I /\ [LifeNext]_allVars => I'
  BY LifeStep
<1> QED
  BY <1>1, <1>2, PTL DEF LifeSpec

\* Whenever the last getpid() of a process ran the probe, the map holds none of its
\* requests, those of earlier calls that no probe served included.
THEOREM ServedDrained == LifeSpec => []DrainedWhenServed
BY LifeInvariant, PTL

\* Also while programs come and go, the probe that works for a client has left nothing
\* of it behind, and no two probes work for the same one.
THEOREM ServedInOrder == LifeSpec => []ServeCore
<1>1. ServeInv => ServeCore
  BY DEF ServeInv
<1> QED
  BY <1>1, LifeInvariant, PTL

-----------------------------------------------------------------------------
(* The numbers of requests. *)

\* Every number that is kept is one that was given out.
NumbersOK ==
  /\ attached \in BOOLEAN /\ published \in BOOLEAN /\ skewed \in BOOLEAN
  /\ together \in [CPUs -> BOOLEAN]
  /\ written \in 0 .. MaxWrites
  /\ missed \in 0 .. written
  /\ age \in [Keys -> 0 .. written]
  /\ readAge \in [CPUs -> 0 .. written]
  /\ applied \in 0 .. written

LEMMA NumbersStep ==
  ASSUME TypeOK, NumbersOK, [LifeNext]_allVars
  PROVE  NumbersOK'
<1> USE LifecycleAssumption
<1>1. CASE Load \/ Unload \/ UNCHANGED allVars
  BY <1>1 DEF Load, Unload, allVars, lifeVars, ages, NumbersOK
<1>2. ASSUME NEW p \in Procs,
             ((Start(p) \/ Terminate(p)) /\ UNCHANGED lifeVars) \/ OpenPublished(p)
      PROVE  NumbersOK'
  BY <1>2 DEF OpenPublished, lifeVars, ages, NumbersOK
<1>3. ASSUME NEW p \in Procs, NumberedCall(p) PROVE NumbersOK'
  <2>1. CASE Written /\ written' = written + 1 /\ age' = [age EXCEPT ![idx[p]] = written + 1]
    <3>1. written' \in 0 .. MaxWrites /\ 0 .. written \subseteq 0 .. written'
      BY <1>3, <2>1 DEF NumberedCall, NumbersOK
    <3>2. age' \in [Keys -> 0 .. written']
      <4>1. age \in [Keys -> 0 .. written']
        BY <3>1 DEF NumbersOK
      <4>2. written + 1 \in 0 .. written'
        BY <2>1, <3>1 DEF NumbersOK
      <4> QED
        BY <2>1, <4>1, <4>2
    <3>3. skewed' \in BOOLEAN /\ UNCHANGED <<attached, published, missed, readAge, applied, together>>
      BY <1>3 DEF NumberedCall, NumbersOK
    <3> QED
      BY <3>1, <3>2, <3>3 DEF NumbersOK
  <2>2. CASE UNCHANGED <<written, age>>
    BY <1>3, <2>2 DEF NumberedCall, NumbersOK
  <2> QED
    BY <1>3, <2>1, <2>2 DEF NumberedCall
<1>4. ASSUME NEW p \in Procs, ReturnUnprobed(p) PROVE NumbersOK'
  BY <1>4 DEF ReturnUnprobed, NumbersOK
<1>5. ASSUME NEW c \in CPUs, EnterAttached(c) PROVE NumbersOK'
  BY <1>5 DEF EnterAttached, ages, NumbersOK, Running
<1>6. ASSUME NEW c \in CPUs, NumberedScan(c) PROVE NumbersOK'
  <2>1. step[c] = "lookup" => i[c] \in Keys
    BY <1>6, MapAssumption
    DEF NumberedScan, Scan, Lookup, LoadVa, LoadFlags, CallKfunc, Delete, At, Keys,
        TypeOK, ProbeTypeOK
  <2>2. step[c] = "lookup" => age[i[c]] \in 0 .. written
    BY <2>1 DEF NumbersOK
  <2>3. written \in Nat /\ readAge[c] \in 0 .. written
    BY DEF NumbersOK
  <2>4. readAge' \in [CPUs -> 0 .. written]
    BY <1>6, <2>2, <2>3 DEF NumberedScan, NumbersOK
  <2>5. applied' \in 0 .. written
    BY <1>6, <2>3 DEF NumberedScan, NumbersOK
  <2>6. age' \in [Keys -> 0 .. written]
    BY <1>6, <2>3 DEF NumberedScan, NumbersOK
  <2> QED
    BY <1>6, <2>4, <2>5, <2>6 DEF NumberedScan, NumbersOK
<1>7. ASSUME NEW c \in CPUs, FinishServed(c) PROVE NumbersOK'
  BY <1>7 DEF FinishServed, NumbersOK
<1> QED
  BY <1>1, <1>2, <1>3, <1>4, <1>5, <1>6, <1>7 DEF LifeNext

LEMMA NumbersStart == LifeInit => NumbersOK
<1> SUFFICES ASSUME LifeInit PROVE NumbersOK
  OBVIOUS
<1>1. /\ written = 0 /\ missed = 0 /\ applied = 0
      /\ age = [k \in Keys |-> 0] /\ readAge = [c \in CPUs |-> 0]
      /\ together = [c \in CPUs |-> FALSE]
      /\ attached = FALSE /\ published = FALSE /\ skewed = FALSE
  BY DEF LifeInit
<1>2. together \in [CPUs -> BOOLEAN]
  BY <1>1
<1>3. age \in [Keys -> 0 .. written] /\ readAge \in [CPUs -> 0 .. written]
  BY <1>1
<1>4. written \in 0 .. MaxWrites /\ missed \in 0 .. written /\ applied \in 0 .. written
  BY <1>1, LifecycleAssumption
<1>5. attached \in BOOLEAN /\ published \in BOOLEAN /\ skewed \in BOOLEAN
  BY <1>1
<1> QED
  BY <1>2, <1>3, <1>4, <1>5 DEF NumbersOK

LifeInv ==
  /\ ServeInv /\ DrainedWhenServed /\ served \in [Procs -> BOOLEAN]
  /\ NumbersOK

LEMMA LifeInvStep ==
  ASSUME LifeInv, [LifeNext]_allVars
  PROVE  LifeInv'
<1>1. TypeOK
  BY DEF LifeInv, ServeInv
<1> QED
  BY <1>1, LifeStep, NumbersStep DEF LifeInv

\* Every reachable state of the loaded and unloaded system is well typed.
THEOREM LifeTyped == LifeSpec => []LifeTypeOK
<1>1. LifeInit => LifeInv
  BY LifeStart, NumbersStart DEF LifeInv
<1>2. LifeInv /\ [LifeNext]_allVars => LifeInv'
  BY LifeInvStep
<1>3. LifeInv => LifeTypeOK
  BY DEF LifeInv, ServeInv, NumbersOK, LifeTypeOK
<1> QED
  BY <1>1, <1>2, <1>3, PTL DEF LifeSpec

-----------------------------------------------------------------------------
(* Remainders: requests go round the ring. *)

LEMMA DivMod ==
  ASSUME NEW a \in Nat, NEW n \in Nat \ {0}
  PROVE  /\ a \div n \in Nat /\ a % n \in 0 .. n - 1
         /\ a = (n * (a \div n)) + (a % n)
<1>1. a \div n \in Nat /\ a % n \in 0 .. n - 1
  OBVIOUS
<1>2. a = (n * (a \div n)) + (a % n)
  OBVIOUS
<1> QED
  BY <1>1, <1>2

\* A number below a multiple of n, less than n away from it.
LEMMA RestUnique ==
  ASSUME NEW n \in Nat \ {0}, NEW q \in Nat, NEW r \in 0 .. n - 1, NEW a \in Nat, a = n * q + r
  PROVE  a % n = r
<1> DEFINE u == a \div n
           t == a % n
<1>1. u \in Nat /\ t \in 0 .. n - 1 /\ a = n * u + t
  BY DivMod
<1> HIDE DEF u, t
<1>2. n * (u - q) = r - t
  BY <1>1
<1>3. u - q \in Int /\ r - t < n /\ r - t > -n
  BY <1>1
<1>4. ~(u - q >= 1)
  <2>1. ASSUME u - q >= 1 PROVE n * (u - q) >= n
    BY <1>1, <2>1
  <2> QED
    BY <1>2, <1>3, <2>1
<1>5. ~(u - q <= -1)
  <2>1. ASSUME u - q <= -1 PROVE n * (u - q) <= -n
    BY <1>1, <2>1
  <2> QED
    BY <1>2, <1>3, <2>1
<1>6. t = r
  <2>1. u - q = 0
    BY <1>3, <1>4, <1>5
  <2> QED
    BY <1>1, <1>2, <2>1
<1> QED
  BY <1>6 DEF t

\* The index after the one a number leads to is that of the next number.
LEMMA NextRest ==
  ASSUME NEW n \in Nat \ {0}, NEW a \in Nat
  PROVE  ((a % n) + 1) % n = (a + 1) % n
<1> DEFINE q == a \div n
           r == a % n
<1>1. q \in Nat /\ r \in 0 .. n - 1 /\ a = n * q + r
  BY DivMod
<1> HIDE DEF q, r
<1>2. CASE r + 1 < n
  <2>1. (a + 1) % n = r + 1
    <3>1. a + 1 = n * q + (r + 1) /\ r + 1 \in 0 .. n - 1
      BY <1>1, <1>2
    <3> QED
      BY <1>1, <3>1, RestUnique
  <2>2. (r + 1) % n = r + 1
    <3>1. r + 1 = n * 0 + (r + 1) /\ r + 1 \in 0 .. n - 1
      BY <1>1, <1>2
    <3> QED
      BY <1>1, <3>1, RestUnique
  <2> QED
    BY <2>1, <2>2 DEF r
<1>3. CASE r + 1 = n
  <2>1. (a + 1) % n = 0
    <3>1. a + 1 = n * (q + 1) + 0 /\ q + 1 \in Nat /\ 0 \in 0 .. n - 1
      BY <1>1, <1>3
    <3> QED
      BY <1>1, <3>1, RestUnique
  <2>2. n % n = 0
    <3>1. n = n * 1 + 0 /\ 0 \in 0 .. n - 1
      OBVIOUS
    <3> QED
      BY <3>1, RestUnique
  <2> QED
    BY <1>3, <2>1, <2>2 DEF r
<1> QED
  BY <1>1, <1>2, <1>3

\* Two numbers of one slot are a turn of the ring apart.
LEMMA TurnApart ==
  ASSUME NEW n \in Nat \ {0}, NEW a \in Nat, NEW b \in Nat, a % n = b % n, a < b
  PROVE  b >= a + n
<1> DEFINE q == b \div n
           r == a \div n
           t == a % n
<1>1. /\ q \in Nat /\ r \in Nat /\ t \in 0 .. n - 1
      /\ b = n * q + t /\ a = n * r + t
  BY DivMod
<1> HIDE DEF q, r, t
<1>2. b - a = n * (q - r)
  BY <1>1
<1>3. q - r >= 1
  BY <1>1, <1>2
<1> QED
  BY <1>1, <1>2, <1>3

-----------------------------------------------------------------------------
(* What the steps do to the numbers. *)

\* Steps that touch neither the map nor a probe, and in which no call returns.
Rests ==
  /\ UNCHANGED <<mapVars, task, step, i, lag, idx, written, missed, age, readAge, applied, together, skewed>>
  /\ InCall => InCall'
  /\ \A p \in Procs : pc'[p] = "new" => pc[p] = "new"

Writes(p) ==
  /\ pc[p] = "idle" /\ pc'[p] = "getpid"
  /\ \E e \in Cells : slot' = [slot EXCEPT ![idx[p]] = e]
  /\ KeysOf(p)' = KeysOf(p) \cup {idx[p]}
  /\ idx'[p] = Advance(idx[p])
  /\ written' = written + 1
  /\ age' = [age EXCEPT ![idx[p]] = written + 1]
  /\ lag' = [c \in CPUs |-> IF task[c] # NoTask /\ lag[c] < MAX_PID_VA_ENTRIES
                            THEN lag[c] + 1 ELSE lag[c]]
  /\ skewed' = (skewed \/ \E k \in Waiting : k > idx[p])
  /\ UNCHANGED <<task, step, i, missed, readAge, applied, together>>

ReturnsAlone(p) ==
  /\ pc'[p] \notin {"new", "getpid", "exited"} /\ pc[p] # "new"
  /\ missed' = written
  /\ skewed' = (skewed \/ Running # {})
  /\ UNCHANGED <<mapVars, task, step, i, lag, idx, written, age, readAge, applied, together>>

Enters(c) ==
  /\ task[c] = NoTask
  /\ \E t \in Procs \cup {OtherTask} : task' = [task EXCEPT ![c] = t]
  /\ i' = [i EXCEPT ![c] = 0]
  /\ together' = [d \in CPUs |-> IF d = c THEN Running # {} ELSE together[d] \/ d \in Running]
  /\ UNCHANGED <<mapVars, pc, step, lag, idx, written, missed, age, readAge, applied, skewed>>

\* The five kinds of steps of a probe.
Skips(c) ==
  /\ step[c] = "lookup" /\ age[i[c]] = 0
  /\ i' = [i EXCEPT ![c] = @ + 1]
  /\ UNCHANGED <<mapVars, step, age, readAge, applied>>

Reads(c) ==
  /\ step[c] = "lookup" /\ age[i[c]] # 0
  /\ step' = [step EXCEPT ![c] = "va"]
  /\ readAge' = [readAge EXCEPT ![c] = age[i[c]]]
  /\ UNCHANGED <<mapVars, i, age, applied>>

Loads(c) ==
  /\ step[c] \in {"va", "flags"}
  /\ \E s \in {"flags", "kfunc", "delete"} : step' = [step EXCEPT ![c] = s]
  /\ UNCHANGED <<mapVars, i, age, readAge, applied>>

Applies(c) ==
  /\ step[c] = "kfunc"
  /\ step' = [step EXCEPT ![c] = "delete"]
  /\ applied' = IF readAge[c] > applied THEN readAge[c] ELSE applied
  /\ UNCHANGED <<mapVars, i, age, readAge>>

Deletes(c) ==
  /\ step[c] = "delete"
  /\ step' = [step EXCEPT ![c] = "lookup"]
  /\ i' = [i EXCEPT ![c] = @ + 1]
  /\ MapDelete(i[c])
  /\ age' = [age EXCEPT ![i[c]] = 0]
  /\ readAge' = [readAge EXCEPT ![c] = 0]
  /\ UNCHANGED applied

Scans(c) ==
  /\ task[c] # NoTask /\ i[c] \in Keys
  /\ UNCHANGED <<task, lag, pc, idx, written, missed, together, skewed>>
  /\ Skips(c) \/ Reads(c) \/ Loads(c) \/ Applies(c) \/ Deletes(c)

\* A probe ends: it was the client's, and nothing waits any more, or another task's.
Finishes(c) ==
  /\ task[c] # NoTask /\ i[c] = MAX_PID_VA_ENTRIES
  /\ task' = [task EXCEPT ![c] = NoTask]
  /\ i' = [i EXCEPT ![c] = 0]
  /\ lag' = [lag EXCEPT ![c] = 0]
  /\ together' = [together EXCEPT ![c] = FALSE]
  /\ skewed' = (skewed /\ (Pending # {} \/ Running # {c}))
  /\ (InCall => InCall') \/ Waiting = {}
  /\ \A p \in Procs : pc'[p] = "new" => pc[p] = "new"
  /\ UNCHANGED <<mapVars, step, idx, written, missed, age, readAge, applied>>

LEMMA CallEffect ==
  ASSUME NEW p, Procs = {p}, LifeInv, NumbersMatch, NumberedCall(p)
  PROVE  Rests \/ Writes(p)
<1>t. /\ p \in Procs /\ MapTypeOK /\ ApiTypeOK /\ TypeOK /\ PidStored
      /\ pc \in [Procs -> {"new", "initpid", "open", "idle", "getpid", "failed", "exited"}]
      /\ idx \in [Procs -> Keys]
  BY DEF LifeInv, ServeInv, ServeCore, TypeOK, ApiTypeOK
<1>1. PICK op \in 1 .. 4, addr \in VAs \cup {NullVA} : Submit(p, op, addr)
  BY <1>t, CallIsSubmit DEF NumberedCall
<1>2. /\ Call(p) /\ Count /\ UNCHANGED probeVars
      /\ UNCHANGED <<missed, readAge, applied, together>>
  BY DEF NumberedCall, Call
<1>3. pc[p] = "idle" /\ pc' = [pc EXCEPT ![p] = "getpid"]
  BY <1>1 DEF Submit
<1>4. UNCHANGED <<task, step, i>>
  BY <1>2 DEF probeVars, cpuVars
<1>5. CASE UNCHANGED <<idx, mapVars>>
  <2>1. ~Written
    BY <1>5 DEF Written, mapVars
  <2>2. UNCHANGED <<written, age>> /\ skewed' = skewed
    BY <2>1, <1>t DEF NumberedCall, LifeInv, NumbersOK
  <2>3. lag' = lag
    BY <1>2, <2>1, <1>t DEF Count, TypeOK
  <2>4. (InCall => InCall') /\ \A q \in Procs : pc'[q] = "new" => pc[q] = "new"
    BY <1>3, <1>t DEF InCall
  <2> QED
    BY <1>2, <1>4, <1>5, <2>2, <2>3, <2>4 DEF Rests
<1>6. ASSUME MapUpdate(idx[p], Staged(p, op, addr)), idx' = [idx EXCEPT ![p] = Advance(@)]
      PROVE  Writes(p)
  <2>1. PICK e \in FreeCells : slot' = [slot EXCEPT ![idx[p]] = e]
    BY <1>6 DEF MapUpdate
  <2>2. e \in Cells /\ idx[p] \in Keys /\ slot[idx[p]] # e /\ slot'[idx[p]] = e
    BY <1>t, <2>1 DEF FreeCells, MapTypeOK
  <2>3. Written
    BY <2>2 DEF Written
  <2>4. Staged(p, op, addr).PID = p
    BY <1>t, <1>3 DEF Staged, PidStored
  <2>5. KeysOf(p)' = (KeysOf(p) \ {idx[p]}) \cup {idx[p]}
    BY <1>6, <1>t, <2>2, <2>4, KeysOfUpdate
  <2>6. Pending = Waiting
    BY DEF NumbersMatch, Pending, Waiting
  <2>7. /\ written' = written + 1 /\ age' = [age EXCEPT ![idx[p]] = written + 1]
        /\ skewed' = (skewed \/ \E k \in Waiting : k > idx[p])
    BY <2>3, <2>6 DEF NumberedCall
  <2>8. lag' = [c \in CPUs |-> IF task[c] # NoTask /\ lag[c] < MAX_PID_VA_ENTRIES
                               THEN lag[c] + 1 ELSE lag[c]]
    BY <1>2, <2>3 DEF Count
  <2>9. pc'[p] = "getpid" /\ idx'[p] = Advance(idx[p])
    BY <1>3, <1>6, <1>t
  <2> QED
    BY <1>2, <1>3, <1>4, <2>1, <2>2, <2>5, <2>7, <2>8, <2>9 DEF Writes
<1> QED
  BY <1>1, <1>5, <1>6 DEF Submit

LEMMA ScanEffect ==
  ASSUME LifeInv, MatchInv, NEW c \in CPUs, NumberedScan(c)
  PROVE  Scans(c)
<1>t. /\ i \in [CPUs -> 0 .. MAX_PID_VA_ENTRIES]
      /\ step \in [CPUs -> {"lookup", "va", "flags", "kfunc", "delete"}]
      /\ slot \in [Keys -> Cells \cup {NoCell}]
      /\ age \in [Keys -> 0 .. written] /\ readAge \in [CPUs -> 0 .. written]
      /\ written \in Nat /\ applied \in Nat
  BY DEF LifeInv, ServeInv, TypeOK, ProbeTypeOK, MapTypeOK, NumbersOK
<1>1. /\ Scan(c)
      /\ UNCHANGED <<written, missed, together, skewed>>
      /\ UNCHANGED <<lag, pc, idx>>
      /\ readAge' = [readAge EXCEPT ![c] = IF step[c] = "lookup" THEN age[i[c]]
                                           ELSE IF step'[c] = "lookup" THEN 0 ELSE @]
      /\ applied' = IF step[c] = "kfunc" /\ readAge[c] > applied THEN readAge[c] ELSE applied
      /\ age' = [k \in Keys |-> IF slot'[k] = NoCell THEN 0 ELSE age[k]]
  BY DEF NumberedScan, Scan, apiVars
<1>2. slot' = slot => age' = age
  BY <1>1, <1>t DEF MatchInv, NumbersMatch
<1>3. /\ task[c] # NoTask /\ i[c] \in Keys /\ UNCHANGED task
  BY <1>1, <1>t, MapAssumption
  DEF Scan, Lookup, LoadVa, LoadFlags, CallKfunc, Delete, At, Keys
<1>4. CASE Lookup(c)
  <2>1. step[c] = "lookup" /\ UNCHANGED mapVars /\ age' = age /\ applied' = applied
    BY <1>1, <1>2, <1>4 DEF Lookup, At, mapVars
  <2>2. readAge' = [readAge EXCEPT ![c] = age[i[c]]]
    BY <1>1, <2>1
  <2>3. CASE slot[i[c]] = NoCell
    <3>1. age[i[c]] = 0
      BY <1>3, <2>3 DEF MatchInv, NumbersMatch
    <3>2. NextSlot(c)
      BY <1>4, <2>3 DEF Lookup, MapLookup
    <3>3. step' = step /\ i' = [i EXCEPT ![c] = @ + 1]
      BY <3>2, <2>1, <1>t DEF NextSlot, Goto
    <3>4. readAge' = readAge
      <4>1. readAge[c] = 0
        BY <2>1 DEF MatchInv, ReadsMatch
      <4> QED
        BY <1>t, <2>2, <3>1, <4>1
    <3> QED
      BY <1>1, <1>3, <2>1, <3>1, <3>3, <3>4 DEF Scans, Skips
  <2>4. CASE slot[i[c]] # NoCell
    <3>1. age[i[c]] # 0
      BY <1>3, <2>4 DEF MatchInv, NumbersMatch
    <3>2. UNCHANGED i /\ step' = [step EXCEPT ![c] = "va"]
      BY <1>4, <2>4 DEF Lookup, MapLookup, Goto
    <3> QED
      BY <1>1, <1>3, <2>1, <2>2, <3>1, <3>2 DEF Scans, Reads
  <2> QED
    BY <2>3, <2>4
<1>5. CASE LoadVa(c) \/ LoadFlags(c)
  <2>1. /\ step[c] \in {"va", "flags"} /\ UNCHANGED <<mapVars, i>>
        /\ age' = age /\ applied' = applied
    BY <1>1, <1>2, <1>5 DEF LoadVa, LoadFlags, At, mapVars
  <2>2. PICK s \in {"flags", "kfunc", "delete"} : step' = [step EXCEPT ![c] = s]
    BY <1>5 DEF LoadVa, LoadFlags, Goto
  <2>3. readAge' = readAge
    BY <1>1, <1>t, <2>1, <2>2
  <2> QED
    BY <1>1, <1>3, <2>1, <2>2, <2>3 DEF Scans, Loads
<1>6. CASE CallKfunc(c, Alive)
  <2>1. /\ step[c] = "kfunc" /\ step' = [step EXCEPT ![c] = "delete"]
        /\ UNCHANGED <<mapVars, i>> /\ age' = age
    BY <1>2, <1>6 DEF CallKfunc, At, Goto, mapVars
  <2>2. readAge' = readAge /\ applied' = IF readAge[c] > applied THEN readAge[c] ELSE applied
    BY <1>1, <1>t, <2>1
  <2> QED
    BY <1>1, <1>3, <2>1, <2>2 DEF Scans, Applies
<1>7. CASE Delete(c)
  <2>1. /\ step[c] = "delete" /\ step' = [step EXCEPT ![c] = "lookup"]
        /\ i' = [i EXCEPT ![c] = @ + 1] /\ MapDelete(i[c]) /\ applied' = applied
    BY <1>1, <1>7 DEF Delete, At, NextSlot, Goto
  <2>2. readAge' = [readAge EXCEPT ![c] = 0]
    BY <1>1, <1>t, <2>1
  <2>3. age' = [age EXCEPT ![i[c]] = 0]
    <3>1. slot' = [slot EXCEPT ![i[c]] = NoCell]
      BY <2>1 DEF MapDelete
    <3>2. \A k \in Keys : age'[k] = IF k = i[c] THEN 0 ELSE age[k]
      BY <1>1, <1>t, <3>1 DEF MatchInv, NumbersMatch
    <3> QED
      BY <1>1, <1>3, <1>t, <3>2
  <2> QED
    BY <1>1, <1>3, <2>1, <2>2, <2>3 DEF Scans, Deletes
<1> QED
  BY <1>1, <1>4, <1>5, <1>6, <1>7 DEF Scan

\* The end of a probe: for the client, which then has nothing in the map, or not.
LEMMA FinishEffect ==
  ASSUME NEW p, Procs = {p}, LifeInv, MatchInv, NEW c \in CPUs, FinishServed(c)
  PROVE  Finishes(c)
<1>t. /\ pc \in [Procs -> {"new", "initpid", "open", "idle", "getpid", "failed", "exited"}]
      /\ idx \in [Procs -> Keys] /\ ApiTypeOK /\ PidStored /\ p \in Procs
      /\ served \in [Procs -> BOOLEAN]
  BY DEF LifeInv, ServeInv, ServeCore, TypeOK, ApiTypeOK
<1>1. /\ Leave(c)
      /\ \/ task[c] = p /\ GetpidReturns(p)
         \/ UNCHANGED apiVars
      /\ lag' = [lag EXCEPT ![c] = 0]
      /\ together' = [together EXCEPT ![c] = FALSE]
      /\ skewed' = (skewed /\ (Pending # {} \/ Running # {c}))
      /\ UNCHANGED <<written, missed, age, readAge, applied>>
  BY DEF FinishServed, Finish
<1>2. /\ UNCHANGED idx
      /\ \A q \in Procs : pc'[q] = "new" => pc[q] = "new"
  BY <1>1, <1>t, GetpidKeeps DEF apiVars, GetpidReturns
<1>3. (InCall => InCall') \/ Waiting = {}
  <2>1. CASE UNCHANGED apiVars
    BY <2>1 DEF apiVars, InCall
  <2>2. CASE task[c] = p /\ GetpidReturns(p)
    <3>1. DrainedWhenServed'
      <4>1. [LifeNext]_allVars
        BY DEF LifeNext
      <4> QED
        BY <4>1, LifeStep DEF LifeInv
    <3>2. served'[p]
      BY <1>t, <2>2 DEF FinishServed
    <3>3. pc'[p] \notin {"getpid", "exited"}
      BY <1>t, <2>2 DEF GetpidReturns
    <3>4. KeysOf(p)' = {}
      BY <1>t, <3>1, <3>2, <3>3 DEF DrainedWhenServed
    <3>5. KeysOf(p)' = KeysOf(p)
      BY <1>1, <1>t, KeysOfUnchanged DEF Leave
    <3> QED
      BY <1>t, <3>4, <3>5 DEF MatchInv, NumbersMatch
  <2> QED
    BY <1>1, <2>1, <2>2
<1> QED
  BY <1>1, <1>2, <1>3 DEF Leave, Finishes

LEMMA Effect ==
  ASSUME NEW p, Procs = {p}, LifeInv, MatchInv, [LifeNext]_allVars
  PROVE  \/ Rests \/ Writes(p) \/ ReturnsAlone(p)
         \/ \E c \in CPUs : Enters(c) \/ Scans(c) \/ Finishes(c)
<1>t. /\ pc \in [Procs -> {"new", "initpid", "open", "idle", "getpid", "failed", "exited"}]
      /\ idx \in [Procs -> Keys] /\ p \in Procs /\ NumbersMatch
  BY DEF LifeInv, ServeInv, TypeOK, ApiTypeOK, MatchInv
<1>1. CASE Load \/ Unload \/ UNCHANGED allVars
  BY <1>1 DEF Load, Unload, allVars, vars, lifeVars, ages, apiVars, probeVars, cpuVars,
     historyVars, Rests, InCall
<1>2. CASE Start(p) /\ UNCHANGED lifeVars
  <2>1. pc[p] = "new" /\ idx' = [idx EXCEPT ![p] = 0] /\ pc'[p] = "initpid"
    BY <1>2, <1>t DEF Start, InitPagePatrol
  <2>2. idx[p] = 0
    <3>1. idx[p] = 0 % MAX_PID_VA_ENTRIES
      BY <2>1, <1>t DEF NumbersMatch
    <3> QED
      BY <3>1, MapAssumption
  <2>3. idx' = idx
    BY <1>t, <2>1, <2>2
  <2>4. (InCall => InCall') /\ \A q \in Procs : pc'[q] = "new" => pc[q] = "new"
    BY <1>t, <2>1 DEF InCall
  <2> QED
    BY <1>2, <2>3, <2>4 DEF Start, InitPagePatrol, lifeVars, ages, probeVars, cpuVars,
       historyVars, Rests
<1>3. CASE (Terminate(p) /\ UNCHANGED lifeVars) \/ OpenPublished(p)
  <2>1. /\ pc[p] \in {"open", "idle", "getpid", "failed"}
        /\ pc[p] # "open" => pc'[p] = "exited"
        /\ pc'[p] # "new"
    BY <1>3, <1>t DEF Terminate, OpenPublished, Open, Exit, OpenMap
  <2>2. (InCall => InCall') /\ \A q \in Procs : pc'[q] = "new" => pc[q] = "new"
    BY <1>t, <2>1 DEF InCall
  <2> QED
    BY <1>3, <2>2 DEF Terminate, OpenPublished, Open, Exit, OpenMap, lifeVars, ages,
       probeVars, cpuVars, historyVars, Rests
<1>4. CASE NumberedCall(p)
  BY <1>4, <1>t, CallEffect
<1>5. CASE ReturnUnprobed(p)
  <2>1. pc'[p] \notin {"new", "getpid", "exited"} /\ pc[p] # "new" /\ UNCHANGED idx
    BY <1>5, <1>t DEF ReturnUnprobed, GetpidReturns
  <2> QED
    BY <1>5, <2>1 DEF ReturnUnprobed, ReturnsAlone, probeVars, cpuVars, historyVars
<1>6. ASSUME NEW c \in CPUs, EnterAttached(c) PROVE Enters(c)
  <2>1. PICK t \in Procs \cup {OtherTask} : Enter(c, t) /\ UNCHANGED <<apiVars, historyVars>>
    BY <1>6 DEF EnterAttached, EnterOther, EnterClient
  <2> QED
    BY <1>6, <2>1 DEF EnterAttached, Enter, Enters, apiVars, historyVars, ages
<1>7. ASSUME NEW c \in CPUs, NumberedScan(c) PROVE Scans(c)
  BY <1>7, ScanEffect
<1>8. ASSUME NEW c \in CPUs, FinishServed(c) PROVE Finishes(c)
  BY <1>8, FinishEffect
<1> QED
  BY <1>1, <1>2, <1>3, <1>4, <1>5, <1>6, <1>7, <1>8 DEF LifeNext

-----------------------------------------------------------------------------
(* The inductive invariant is kept: which requests can still wait. *)

NumbersInv == LifeInv /\ RequestsInRing

LEMMA LifeTypes ==
  ASSUME LifeInv
  PROVE  /\ written \in Nat /\ missed \in 0 .. written /\ applied \in 0 .. written
         /\ age \in [Keys -> 0 .. written] /\ readAge \in [CPUs -> 0 .. written]
         /\ together \in [CPUs -> BOOLEAN] /\ skewed \in BOOLEAN
         /\ slot \in [Keys -> Cells \cup {NoCell}] /\ MapTypeOK
         /\ idx \in [Procs -> Keys]
         /\ task \in [CPUs -> Procs \cup {NoTask, OtherTask}]
         /\ step \in [CPUs -> {"lookup", "va", "flags", "kfunc", "delete"}]
         /\ i \in [CPUs -> 0 .. MAX_PID_VA_ENTRIES]
         /\ lag \in [CPUs -> 0 .. MAX_PID_VA_ENTRIES]
         /\ MAX_PID_VA_ENTRIES \in Nat \ {0}
BY MapAssumption DEF LifeInv, ServeInv, TypeOK, MapTypeOK, ApiTypeOK, ProbeTypeOK, NumbersOK

LEMMA WaitingIs == Waiting \subseteq Keys /\ \A k \in Keys : k \in Waiting <=> age[k] # 0
BY DEF Waiting

\* A request of the client goes to the slot that its number leads to.
LEMMA MatchWrites ==
  ASSUME NEW p, Procs = {p}, LifeInv, MatchInv, Writes(p)
  PROVE  MatchInv' /\ Waiting' = Waiting \cup {idx[p]}
<1> USE LifeTypes DEF MatchInv
<1>1. /\ p \in Procs /\ idx[p] \in Keys /\ idx[p] = written % MAX_PID_VA_ENTRIES
      /\ age'[idx[p]] = written + 1
      /\ \A k \in Keys \ {idx[p]} : age'[k] = age[k]
  BY DEF Writes, NumbersMatch
<1>2. Waiting' = Waiting \cup {idx[p]}
  BY <1>1 DEF Waiting
<1>3. \A k \in Keys : age'[k] # 0 <=> slot'[k] # NoCell
  <2>1. PICK e \in Cells : slot' = [slot EXCEPT ![idx[p]] = e]
    BY DEF Writes
  <2> QED
    BY <1>1, <2>1, MapAssumption DEF NumbersMatch
<1>4. Waiting' \subseteq KeysOf(p)'
  BY <1>1, <1>2 DEF Writes, NumbersMatch
<1>5. idx'[p] = written' % MAX_PID_VA_ENTRIES
  BY <1>1, NextRest DEF Writes, Advance
<1>6. \A k \in Waiting' : (age'[k] - 1) % MAX_PID_VA_ENTRIES = k
  <2>1. (written + 1) - 1 = written
    OBVIOUS
  <2> QED
    BY <1>1, <1>2, <2>1 DEF NumbersMatch, Waiting
<1>7. NumbersMatch'
  BY <1>3, <1>4, <1>5, <1>6 DEF NumbersMatch, Writes
<1>8. ReadsMatch'
  <2>1. UNCHANGED <<step, task, i, readAge>>
    BY DEF Writes
  <2>2. ASSUME NEW c \in CPUs, readAge[c] # 0, age'[i[c]] # 0
        PROVE  age'[i[c]] >= readAge[c]
    <3>1. i[c] \in Keys /\ readAge[c] <= written
      BY <2>2 DEF ReadsMatch, Keys
    <3> QED
      BY <1>1, <2>2, <3>1 DEF ReadsMatch
  <2> QED
    BY <2>1, <2>2 DEF ReadsMatch
<1> QED
  BY <1>2, <1>7, <1>8

\* A step of a probe takes out at most the request at its slot.
LEMMA MatchScans ==
  ASSUME NEW p, Procs = {p}, LifeInv, MatchInv, NEW c \in CPUs, Scans(c)
  PROVE  /\ MatchInv'
         /\ Waiting' = IF step[c] = "delete" THEN Waiting \ {i[c]} ELSE Waiting
         /\ \A k \in Waiting' : age'[k] = age[k]
<1> USE LifeTypes DEF MatchInv
<1>t. /\ p \in Procs /\ i[c] \in Keys /\ task[c] # NoTask
      /\ UNCHANGED <<task, pc, idx, written>>
  BY DEF Scans
<1>1. CASE Deletes(c)
  <2>1. /\ age'[i[c]] = 0 /\ slot'[i[c]] = NoCell
        /\ \A k \in Keys \ {i[c]} : age'[k] = age[k] /\ slot'[k] = slot[k]
        /\ KeysOf(p)' = KeysOf(p) \ {i[c]}
    BY <1>1, <1>t, KeysOfDelete DEF Deletes, MapDelete
  <2>2. Waiting' = Waiting \ {i[c]}
    BY <2>1, <1>t DEF Waiting
  <2>3. NumbersMatch'
    BY <2>1, <2>2, <1>t DEF NumbersMatch, Waiting
  <2>4. /\ step'[c] = "lookup" /\ readAge'[c] = 0
        /\ \A d \in CPUs \ {c} : step'[d] = step[d] /\ readAge'[d] = readAge[d] /\ i'[d] = i[d]
    BY <1>1 DEF Deletes
  <2>5. ASSUME NEW d \in CPUs \ {c}, readAge[d] # 0, age'[i[d]] # 0
        PROVE  age'[i[d]] >= readAge[d]
    <3>1. i[d] \in Keys
      BY <2>5 DEF ReadsMatch, Keys
    <3> QED
      BY <2>1, <2>5, <3>1 DEF ReadsMatch
  <2>6. ReadsMatch'
    BY <2>4, <2>5, <1>t DEF ReadsMatch
  <2> QED
    BY <1>1, <2>1, <2>2, <2>3, <2>6 DEF Deletes, Waiting
<1>2. CASE ~Deletes(c)
  <2>1. /\ UNCHANGED <<mapVars, age>> /\ step[c] # "delete"
        /\ Skips(c) \/ Reads(c) \/ Loads(c) \/ Applies(c)
    BY <1>2 DEF Scans, Skips, Reads, Loads, Applies
  <2>2. Waiting' = Waiting /\ KeysOf(p)' = KeysOf(p)
    BY <2>1, <1>t, KeysOfUnchanged DEF Waiting
  <2>3. NumbersMatch'
    BY <2>1, <2>2, <1>t DEF NumbersMatch, Waiting, mapVars
  <2>4. \A d \in CPUs \ {c} : step'[d] = step[d] /\ readAge'[d] = readAge[d] /\ i'[d] = i[d]
    BY <2>1 DEF Skips, Reads, Loads, Applies
  <2>5. CASE Skips(c)
    <3>1. step'[c] = "lookup" /\ readAge'[c] = 0
      BY <2>5 DEF Skips, ReadsMatch
    <3> QED
      BY <2>1, <2>2, <2>3, <2>4, <3>1, <1>t DEF ReadsMatch
  <2>6. CASE Reads(c)
    <3>1. /\ step'[c] = "va" /\ readAge'[c] = age[i[c]] /\ i'[c] = i[c] /\ i[c] \in Waiting
          /\ i[c] < MAX_PID_VA_ENTRIES
      BY <2>6, <1>t DEF Reads, Waiting, Keys
    <3>2. (readAge'[c] - 1) % MAX_PID_VA_ENTRIES = i'[c]
      BY <3>1 DEF NumbersMatch
    <3> QED
      BY <2>1, <2>3, <2>2, <2>4, <3>1, <3>2, <1>t DEF ReadsMatch
  <2>7. CASE Loads(c) \/ Applies(c)
    BY <2>1, <2>2, <2>3, <2>4, <2>7, <1>t DEF Loads, Applies, ReadsMatch
  <2> QED
    BY <2>1, <2>2, <2>3, <2>5, <2>6, <2>7
<1> QED
  BY <1>1, <1>2

LEMMA MatchStep ==
  ASSUME NEW p, Procs = {p}, LifeInv, MatchInv, [LifeNext]_allVars
  PROVE  MatchInv'
<1>t. p \in Procs
  OBVIOUS
<1>1. CASE Writes(p)
  BY <1>1, MatchWrites
<1>2. ASSUME NEW c \in CPUs, Scans(c) PROVE MatchInv'
  BY <1>2, MatchScans
<1>3. CASE Rests \/ ReturnsAlone(p) \/ \E c \in CPUs : Enters(c) \/ Finishes(c)
  <2>1. /\ UNCHANGED <<mapVars, step, idx, written, age, readAge>>
        /\ \A q \in Procs : pc'[q] = "new" => pc[q] = "new"
    BY <1>3 DEF Rests, ReturnsAlone, Enters, Finishes
  <2>2. Waiting' = Waiting /\ KeysOf(p)' = KeysOf(p)
    BY <2>1, <1>t, KeysOfUnchanged DEF Waiting
  <2>3. NumbersMatch'
    BY <2>1, <2>2, <1>t DEF MatchInv, NumbersMatch, mapVars
  <2>4. ASSUME NEW c \in CPUs, step[c] # "lookup"
        PROVE  task'[c] = task[c] /\ i'[c] = i[c]
    <3>1. task[c] # NoTask /\ i[c] < MAX_PID_VA_ENTRIES
      BY <2>4 DEF MatchInv, ReadsMatch
    <3> QED
      BY <1>3, <3>1, LifeTypes DEF Rests, ReturnsAlone, Enters, Finishes
  <2>5. ReadsMatch'
    BY <2>1, <2>4 DEF MatchInv, ReadsMatch
  <2> QED
    BY <2>3, <2>5 DEF MatchInv
<1> QED
  BY <1>1, <1>2, <1>3, Effect

\* Numbers up to the last call without a probe may wait anywhere; above it there is
\* only the one under way, which is the greatest.
LEMMA RecentStep ==
  ASSUME NEW p, Procs = {p}, LifeInv, MatchInv, Recent, NotLapped, [LifeNext]_allVars
  PROVE  Recent' /\ NotLapped'
<1> USE LifeTypes
<1>0. \A c \in CPUs : readAge[c] # 0 => task[c] # NoTask /\ i[c] < MAX_PID_VA_ENTRIES
  BY DEF MatchInv, ReadsMatch
<1>1. CASE Writes(p)
  <2>1. /\ Waiting' = Waiting \cup {idx[p]} /\ idx[p] \in Keys
        /\ age'[idx[p]] = written' /\ written' = written + 1
        /\ \A k \in Keys \ {idx[p]} : age'[k] = age[k]
        /\ UNCHANGED <<missed, readAge>>
    BY <1>1, MatchWrites DEF Writes
  <2>2. ~InCall /\ InCall'
    BY <1>1 DEF Writes, InCall
  <2>3. Recent'
    BY <2>1, <2>2 DEF Recent, Waiting
  <2>4. ASSUME NEW c \in CPUs, readAge[c] > missed
        PROVE  lag'[c] = MAX_PID_VA_ENTRIES \/ readAge[c] + lag'[c] >= written'
    <3>1. task[c] # NoTask
      BY <1>0, <2>4
    <3>2. lag'[c] = IF lag[c] < MAX_PID_VA_ENTRIES THEN lag[c] + 1 ELSE lag[c]
      BY <1>1, <3>1 DEF Writes
    <3> QED
      BY <2>1, <2>4, <3>2 DEF NotLapped
  <2> QED
    BY <2>1, <2>3, <2>4 DEF NotLapped
<1>2. ASSUME NEW c \in CPUs, Scans(c) PROVE Recent' /\ NotLapped'
  <2>1. /\ UNCHANGED <<pc, lag, written, missed>>
        /\ Waiting' \subseteq Waiting
        /\ \A k \in Waiting' : age'[k] = age[k]
    BY <1>2, MatchScans DEF Scans
  <2>2. Recent'
    BY <2>1 DEF Recent, InCall
  <2>3. ASSUME NEW d \in CPUs, readAge'[d] > missed
        PROVE  lag[d] = MAX_PID_VA_ENTRIES \/ readAge'[d] + lag[d] >= written
    <3>1. CASE readAge'[d] = readAge[d]
      BY <2>3, <3>1 DEF NotLapped
    <3>2. CASE readAge'[d] # readAge[d]
      <4>1. Reads(c) /\ d = c
        BY <1>2, <2>3, <3>2 DEF Scans, Skips, Reads, Loads, Applies, Deletes
      <4>2. readAge'[d] = age[i[c]] /\ i[c] \in Waiting
        BY <1>2, <4>1 DEF Scans, Reads, Waiting
      <4>3. readAge'[d] = written
        BY <2>3, <4>2 DEF Recent
      <4> QED
        BY <4>3
    <3> QED
      BY <3>1, <3>2
  <2> QED
    BY <2>1, <2>2, <2>3 DEF NotLapped
<1>3. CASE ReturnsAlone(p)
  <2>1. UNCHANGED <<written, age, readAge>> /\ missed' = written
    BY <1>3 DEF ReturnsAlone
  <2> QED
    BY <2>1 DEF Recent, NotLapped, Waiting
<1>4. CASE Rests \/ \E c \in CPUs : Enters(c) \/ Finishes(c)
  <2>1. /\ UNCHANGED <<written, missed, age, readAge>>
        /\ (InCall => InCall') \/ Waiting = {}
    BY <1>4 DEF Rests, Enters, Finishes, InCall
  <2>2. \A c \in CPUs : readAge[c] # 0 => lag'[c] = lag[c]
    BY <1>0, <1>4 DEF Rests, Enters, Finishes
  <2>3. Recent'
    BY <2>1 DEF Recent, Waiting
  <2>4. NotLapped'
    BY <2>1, <2>2 DEF NotLapped
  <2> QED
    BY <2>3, <2>4
<1> QED
  BY <1>1, <1>2, <1>3, <1>4, Effect

LEMMA AloneStep ==
  ASSUME NEW p, Procs = {p}, LifeInv, MatchInv, Alone, [LifeNext]_allVars
  PROVE  Alone'
<1> USE LifeTypes
<1>1. CASE UNCHANGED <<task, together>>
  BY <1>1 DEF Alone, Running
<1>2. ASSUME NEW c \in CPUs, Enters(c) PROVE Alone'
  <2>1. PICK t \in Procs \cup {OtherTask} : task' = [task EXCEPT ![c] = t]
    BY <1>2 DEF Enters
  <2>2. Running' = Running \cup {c} /\ c \notin Running
    BY <1>2, <2>1, ProbeAssumption DEF Enters, Running
  <2>3. \A d \in CPUs : together'[d] = IF d = c THEN Running # {} ELSE together[d] \/ d \in Running
    BY <1>2 DEF Enters
  <2> QED
    BY <2>2, <2>3 DEF Alone, Running
<1>3. ASSUME NEW c \in CPUs, Finishes(c) PROVE Alone'
  <2>1. Running' = Running \ {c} /\ c \in Running
    BY <1>3 DEF Finishes, Running
  <2>2. \A d \in CPUs \ {c} : together'[d] = together[d]
    BY <1>3 DEF Finishes
  <2> QED
    BY <2>1, <2>2 DEF Alone, Running
<1> QED
  BY <1>1, <1>2, <1>3, Effect DEF Rests, Writes, ReturnsAlone, Scans

-----------------------------------------------------------------------------
(* The order of requests, one kind of step at a time. *)

LEMMA OrderWrites ==
  ASSUME NEW p, Procs = {p}, LifeInv, MatchInv, Recent, Ordered, Writes(p), ~skewed'
  PROVE  Ordered'
<1> USE LifeTypes DEF Ordered
<1>1. /\ Waiting' = Waiting \cup {idx[p]} /\ idx[p] \in Keys /\ Waiting \subseteq Keys
      /\ age'[idx[p]] = written + 1 /\ written' = written + 1
      /\ \A k \in Keys \ {idx[p]} : age'[k] = age[k] /\ age[k] <= written
      /\ UNCHANGED <<task, step, i, readAge, applied, together>>
  BY MatchWrites DEF Writes, Waiting
<1>2. /\ ~InCall /\ InCall' /\ Running' = Running
      /\ \A k \in Waiting : ~(k > idx[p])
  BY DEF Writes, InCall, Running
<1>3. KeysInOrder'
  BY <1>1, <1>2 DEF KeysInOrder, Keys
<1>4. PassedIsLast'
  BY <1>1, <1>2 DEF PassedIsLast
<1>5. AheadIsLater'
  <2>1. \A c \in CPUs : readAge[c] < written + 1
    OBVIOUS
  <2> QED
    BY <1>1, <1>2, <2>1 DEF AheadIsLater, Running
<1>6. AppliedIsDeleted'
  BY <1>1, <1>2 DEF AppliedIsDeleted
<1>7. ReadIsNew'
  BY <1>1, <1>2 DEF ReadIsNew
<1> QED
  BY <1>3, <1>4, <1>5, <1>6, <1>7

\* What a probe gives to a kfunc counts as applied, and every other request that
\* waits is later than it: those ahead, and the one of the call under way.
LEMMA OrderApplies ==
  ASSUME NEW p, Procs = {p}, LifeInv, MatchInv, Alone, Ordered,
         NEW c \in CPUs, Scans(c), Applies(c)
  PROVE  Ordered'
<1> USE LifeTypes DEF Ordered
<1>1. /\ UNCHANGED <<task, pc, written, together, i, age, readAge>>
      /\ c \in Running /\ step[c] = "kfunc" /\ step'[c] = "delete"
      /\ \A d \in CPUs \ {c} : step'[d] = step[d]
      /\ applied' = IF readAge[c] > applied THEN readAge[c] ELSE applied
  BY DEF Scans, Applies, Running
<1>2. Waiting' = Waiting /\ Running' = Running /\ InCall' = InCall
  BY <1>1 DEF Waiting, Running, InCall
<1>3. KeysInOrder' /\ PassedIsLast' /\ AheadIsLater'
  BY <1>1, <1>2 DEF KeysInOrder, PassedIsLast, AheadIsLater
<1>4. ASSUME NEW k \in Waiting, k # i[c] PROVE age[k] > readAge[c]
  <2>1. k \in Keys /\ age[k] # 0 /\ age[k] \in Nat /\ readAge[c] \in 0 .. written
    BY DEF Waiting
  <2>2. CASE k > i[c]
    BY <1>1, <2>2 DEF AheadIsLater
  <2>3. CASE k < i[c] /\ readAge[c] # 0
    <3>1. age[k] = written
      BY <1>1, <2>3 DEF PassedIsLast
    <3>2. (age[k] - 1) % MAX_PID_VA_ENTRIES = k /\ (readAge[c] - 1) % MAX_PID_VA_ENTRIES = i[c]
      BY <2>3 DEF MatchInv, NumbersMatch, ReadsMatch
    <3>3. age[k] # readAge[c]
      BY <1>4, <3>2
    <3> QED
      BY <2>1, <3>1, <3>3
  <2>4. CASE readAge[c] = 0
    BY <2>1, <2>4
  <2> QED
    BY <1>4, <2>1, <2>2, <2>3, <2>4 DEF Keys
<1>5. AppliedIsDeleted'
  <2>1. ASSUME NEW k \in Waiting
        PROVE  age[k] > applied' \/ \E d \in Running : step'[d] = "delete" /\ i[d] = k
    <3>1. CASE k = i[c]
      BY <1>1, <3>1
    <3>2. CASE age[k] > applied /\ k # i[c]
      BY <1>1, <1>4, <3>2
    <3>3. CASE \E d \in Running : step[d] = "delete" /\ i[d] = k
      BY <1>1, <3>3 DEF Running
    <3> QED
      BY <3>1, <3>2, <3>3 DEF AppliedIsDeleted
  <2> QED
    BY <1>1, <1>2, <2>1 DEF AppliedIsDeleted
<1>6. ReadIsNew'
  <2>1. ASSUME NEW d \in Running, ~together[d], step'[d] \in {"va", "flags", "kfunc"}
        PROVE  FALSE
    BY <1>1, <2>1 DEF Alone
  <2> QED
    BY <1>1, <1>2, <2>1 DEF ReadIsNew
<1> QED
  BY <1>3, <1>5, <1>6

\* The other steps of a probe.
LEMMA OrderScans ==
  ASSUME NEW p, Procs = {p}, LifeInv, MatchInv, Alone, Ordered,
         NEW c \in CPUs, Scans(c), ~Applies(c)
  PROVE  Ordered'
<1> USE LifeTypes DEF Ordered
<1>1. /\ UNCHANGED <<task, pc, written, together, applied>>
      /\ c \in Running
      /\ Skips(c) \/ Reads(c) \/ Loads(c) \/ Deletes(c)
      /\ \A d \in CPUs \ {c} : step'[d] = step[d] /\ readAge'[d] = readAge[d] /\ i'[d] = i[d]
  BY DEF Scans, Skips, Reads, Loads, Deletes, Running
<1>2. /\ Running' = Running /\ InCall' = InCall /\ Waiting' \subseteq Waiting
      /\ Running \subseteq CPUs /\ Waiting \subseteq Keys
      /\ \A k \in Waiting' : age'[k] = age[k]
      /\ Deletes(c) => Waiting' = Waiting \ {i[c]}
  BY <1>1, MatchScans DEF Running, InCall, Waiting, Deletes
<1>3. KeysInOrder'
  BY <1>2 DEF KeysInOrder
<1>p. ASSUME i'[c] = i[c] + 1, i[c] \notin Waiting' PROVE PassedIsLast'
  <2>1. ASSUME NEW d \in Running, NEW k \in Waiting', k < i'[d]
        PROVE  age'[k] = written' /\ InCall'
    <3>1. k \in Nat /\ i[d] \in Nat /\ i[c] \in Nat
      BY <1>2, <2>1 DEF Keys
    <3>2. k < i[d]
      BY <1>1, <1>2, <1>p, <2>1, <3>1
    <3>3. age[k] = written /\ InCall
      BY <1>2, <2>1, <3>2 DEF PassedIsLast
    <3> QED
      BY <1>1, <1>2, <2>1, <3>3
  <2> QED
    BY <1>2, <2>1 DEF PassedIsLast
<1>4. CASE Skips(c)
  <2>1. /\ step'[c] = "lookup" /\ step[c] = "lookup" /\ i'[c] = i[c] + 1
        /\ readAge'[c] = readAge[c] /\ i[c] \notin Waiting
    BY <1>4 DEF Skips, Waiting
  <2>2. PassedIsLast'
    BY <1>2, <1>p, <2>1
  <2>3. AheadIsLater'
    <3>1. ASSUME NEW d \in Running, NEW k \in Waiting', k > i'[d]
          PROVE  age'[k] > readAge'[d]
      <4>1. k \in Nat /\ i[d] \in Nat /\ i[c] \in Nat
        BY <1>2, <3>1 DEF Keys
      <4>2. k > i[d]
        BY <1>1, <1>2, <2>1, <3>1, <4>1
      <4>3. age[k] > readAge[d]
        BY <1>2, <3>1, <4>2 DEF AheadIsLater
      <4> QED
        BY <1>1, <1>2, <2>1, <3>1, <4>3
    <3> QED
      BY <1>2, <3>1 DEF AheadIsLater
  <2>4. AppliedIsDeleted'
    BY <1>1, <1>2, <2>1 DEF AppliedIsDeleted
  <2>5. ReadIsNew'
    BY <1>1, <1>2, <2>1 DEF ReadIsNew
  <2> QED
    BY <1>3, <2>2, <2>3, <2>4, <2>5
<1>5. CASE Reads(c)
  <2>1. /\ step'[c] = "va" /\ step[c] = "lookup" /\ i'[c] = i[c]
        /\ readAge'[c] = age[i[c]] /\ i[c] \in Waiting
    BY <1>5 DEF Scans, Reads, Waiting
  <2>2. PassedIsLast'
    BY <1>1, <1>2, <2>1 DEF PassedIsLast
  <2>3. AheadIsLater'
    BY <1>1, <1>2, <2>1 DEF AheadIsLater, KeysInOrder
  <2>4. AppliedIsDeleted'
    BY <1>1, <1>2, <2>1 DEF AppliedIsDeleted
  <2>5. ReadIsNew'
    <3>1. ASSUME ~together[c] PROVE readAge'[c] > applied
      <4>1. Running = {c}
        BY <1>1, <3>1 DEF Alone
      <4> QED
        BY <2>1, <4>1 DEF AppliedIsDeleted
    <3> QED
      BY <1>1, <1>2, <2>1, <3>1 DEF ReadIsNew
  <2> QED
    BY <1>3, <2>2, <2>3, <2>4, <2>5
<1>6. CASE Loads(c)
  <2>1. /\ step'[c] \in {"flags", "kfunc", "delete"} /\ step[c] \in {"va", "flags"}
        /\ i'[c] = i[c] /\ readAge'[c] = readAge[c]
    BY <1>6 DEF Loads
  <2>2. PassedIsLast' /\ AheadIsLater'
    BY <1>1, <1>2, <2>1 DEF PassedIsLast, AheadIsLater
  <2>3. AppliedIsDeleted'
    BY <1>1, <1>2, <2>1 DEF AppliedIsDeleted
  <2>4. ReadIsNew'
    BY <1>1, <1>2, <2>1 DEF ReadIsNew
  <2> QED
    BY <1>3, <2>2, <2>3, <2>4
<1>7. CASE Deletes(c)
  <2>1. /\ step'[c] = "lookup" /\ i'[c] = i[c] + 1 /\ readAge'[c] = 0
        /\ i[c] \notin Waiting'
    BY <1>2, <1>7 DEF Deletes
  <2>2. PassedIsLast'
    BY <1>2, <1>p, <2>1
  <2>3. AheadIsLater'
    <3>1. \A k \in Waiting' : age'[k] > 0
      BY <1>2 DEF Waiting
    <3> QED
      BY <1>1, <1>2, <2>1, <3>1 DEF AheadIsLater
  <2>4. AppliedIsDeleted'
    BY <1>1, <1>2, <2>1 DEF AppliedIsDeleted
  <2>5. ReadIsNew'
    BY <1>1, <1>2, <2>1 DEF ReadIsNew
  <2> QED
    BY <1>3, <2>2, <2>3, <2>4, <2>5
<1> QED
  BY <1>1, <1>4, <1>5, <1>6, <1>7

LEMMA OrderEnters ==
  ASSUME LifeInv, MatchInv, Ordered, NEW c \in CPUs, Enters(c)
  PROVE  Ordered'
<1> USE LifeTypes DEF Ordered
<1>1. /\ UNCHANGED <<pc, step, written, age, readAge, applied>>
      /\ task[c] = NoTask /\ i'[c] = 0
      /\ \A d \in CPUs \ {c} : task'[d] = task[d] /\ i'[d] = i[d]
      /\ \A d \in Running : ~together'[d] => ~together[d]
  BY DEF Enters, Running
<1>2. /\ Running' \subseteq Running \cup {c} /\ Running \subseteq Running' /\ c \notin Running
      /\ Waiting' = Waiting /\ InCall' = InCall /\ Waiting \subseteq Keys
  BY <1>1 DEF Enters, Running, Waiting, InCall
<1>3. step[c] = "lookup" /\ readAge[c] = 0
  BY <1>1 DEF MatchInv, ReadsMatch
<1>4. KeysInOrder'
  BY <1>1, <1>2 DEF KeysInOrder
<1>5. PassedIsLast'
  <2>1. \A k \in Waiting : ~(k < i'[c])
    BY <1>1, <1>2 DEF Keys
  <2> QED
    BY <1>1, <1>2, <2>1 DEF PassedIsLast, Running
<1>6. AheadIsLater'
  <2>1. \A k \in Waiting : age[k] > readAge[c]
    BY <1>3 DEF Waiting
  <2> QED
    BY <1>1, <1>2, <2>1 DEF AheadIsLater, Running
<1>7. AppliedIsDeleted'
  <2>1. \A d \in Running : d \in Running' /\ i'[d] = i[d]
    BY <1>1, <1>2 DEF Running
  <2> QED
    BY <1>1, <1>2, <2>1 DEF AppliedIsDeleted
<1>8. ReadIsNew'
  BY <1>1, <1>2, <1>3 DEF ReadIsNew
<1> QED
  BY <1>4, <1>5, <1>6, <1>7, <1>8

\* The last probe leaves an empty map, or the order it found; in an empty map all
\* requests are in order again.
LEMMA OrderFinishes ==
  ASSUME LifeInv, MatchInv, Order, NEW c \in CPUs, Finishes(c)
  PROVE  Order'
<1> USE LifeTypes DEF Ordered
<1>1. /\ UNCHANGED <<step, written, age, readAge, applied>>
      /\ i[c] = MAX_PID_VA_ENTRIES
      /\ \A d \in CPUs \ {c} : task'[d] = task[d] /\ i'[d] = i[d] /\ together'[d] = together[d]
      /\ (InCall => InCall') \/ Waiting = {}
      /\ skewed' = (skewed /\ (Pending # {} \/ Running # {c}))
  BY DEF Finishes
<1>2. Running' = Running \ {c} /\ Waiting' = Waiting /\ Waiting = Pending
  BY <1>1 DEF Finishes, Running, Waiting, MatchInv, NumbersMatch, Pending
<1>3. CASE ~skewed
  <2>1. Ordered
    BY <1>3 DEF Order
  <2>2. step[c] = "lookup"
    BY <1>1 DEF MatchInv, ReadsMatch
  <2>3. KeysInOrder'
    BY <1>1, <1>2, <2>1 DEF KeysInOrder
  <2>4. PassedIsLast'
    <3>1. CASE Waiting = {}
      BY <1>2, <3>1 DEF PassedIsLast
    <3>2. CASE InCall => InCall'
      BY <1>1, <1>2, <2>1, <3>2 DEF PassedIsLast, Running
    <3> QED
      BY <1>1, <3>1, <3>2
  <2>5. AheadIsLater'
    BY <1>1, <1>2, <2>1 DEF AheadIsLater, Running
  <2>6. AppliedIsDeleted'
    BY <1>1, <1>2, <2>1, <2>2 DEF AppliedIsDeleted, Running
  <2>7. ReadIsNew'
    BY <1>1, <1>2, <2>1 DEF ReadIsNew, Running
  <2> QED
    BY <2>3, <2>4, <2>5, <2>6, <2>7 DEF Order
<1>4. CASE skewed /\ ~skewed'
  <2>1. Running' = {} /\ Waiting' = {}
    BY <1>1, <1>2, <1>4
  <2> QED
    BY <2>1 DEF Order, KeysInOrder, PassedIsLast, AheadIsLater, AppliedIsDeleted, ReadIsNew
<1>5. CASE skewed'
  BY <1>5 DEF Order
<1> QED
  BY <1>1, <1>3, <1>4, <1>5

LEMMA OrderStep ==
  ASSUME NEW p, Procs = {p}, LifeInv, MatchInv, Recent, Alone, Order, [LifeNext]_allVars
  PROVE  Order'
<1> USE DEF Ordered
<1>1. CASE Writes(p)
  <2>1. skewed => skewed'
    BY <1>1 DEF Writes
  <2> QED
    BY <1>1, <2>1, OrderWrites DEF Order
<1>2. ASSUME NEW c \in CPUs, Scans(c) PROVE Order'
  <2>1. skewed' = skewed
    BY <1>2 DEF Scans
  <2> QED
    BY <1>2, <2>1, OrderApplies, OrderScans DEF Order
<1>3. ASSUME NEW c \in CPUs, Enters(c) PROVE Order'
  <2>1. skewed' = skewed
    BY <1>3 DEF Enters
  <2> QED
    BY <1>3, <2>1, OrderEnters DEF Order
<1>4. ASSUME NEW c \in CPUs, Finishes(c) PROVE Order'
  BY <1>4, OrderFinishes
<1>5. CASE Rests \/ ReturnsAlone(p)
  <2>1. /\ UNCHANGED <<task, step, i, written, age, readAge, applied, together>>
        /\ skewed => skewed'
    <3>1. CASE Rests
      BY <3>1 DEF Rests
    <3>2. CASE ReturnsAlone(p)
      BY <3>2 DEF ReturnsAlone
    <3> QED
      BY <1>5, <3>1, <3>2
  <2>2. Waiting' = Waiting /\ Running' = Running
    BY <2>1 DEF Waiting, Running
  <2>3. ~skewed' => KeysInOrder' /\ AheadIsLater' /\ AppliedIsDeleted' /\ ReadIsNew'
    BY <2>1, <2>2 DEF Order, KeysInOrder, AheadIsLater, AppliedIsDeleted, ReadIsNew
  <2>4. ~skewed' => PassedIsLast'
    <3>1. CASE Rests
      <4>1. InCall => InCall'
        BY <3>1 DEF Rests
      <4> QED
        BY <2>1, <2>2, <4>1 DEF Order, PassedIsLast
    <3>2. CASE ReturnsAlone(p)
      <4>1. ~skewed' => Running = {}
        BY <3>2 DEF ReturnsAlone
      <4> QED
        BY <2>2, <4>1 DEF PassedIsLast
    <3> QED
      BY <1>5, <3>1, <3>2
  <2> QED
    BY <2>3, <2>4 DEF Order
<1> QED
  BY <1>1, <1>2, <1>3, <1>4, <1>5, Effect

LEMMA NumbersInvStart ==
  ASSUME LifeInit
  PROVE  NumbersInv
<1>1. LifeInv
  BY LifeStart, NumbersStart DEF LifeInv
<1>2. /\ Waiting = {} /\ Running = {} /\ written = 0 /\ missed = 0
      /\ \A c \in CPUs : readAge[c] = 0 /\ step[c] = "lookup"
      /\ \A k \in Keys : age[k] = 0 /\ slot[k] = NoCell
      /\ \A p \in Procs : idx[p] = 0
  BY DEF LifeInit, Init, Waiting, Running, MapInit, ProbeInit, ApiInit
<1>3. 0 % MAX_PID_VA_ENTRIES = 0
  BY MapAssumption
<1>4. MatchInv
  BY <1>2, <1>3 DEF MatchInv, NumbersMatch, ReadsMatch
<1>5. Recent /\ NotLapped /\ Alone
  BY <1>2 DEF Recent, NotLapped, Alone
<1>6. Order
  BY <1>2 DEF Order, Ordered, KeysInOrder, PassedIsLast, AheadIsLater, AppliedIsDeleted, ReadIsNew
<1> QED
  BY <1>1, <1>4, <1>5, <1>6 DEF NumbersInv, RequestsInRing

LEMMA NumbersInvStep ==
  ASSUME NEW p, Procs = {p}, NumbersInv, [LifeNext]_allVars
  PROVE  NumbersInv'
<1> USE DEF NumbersInv, RequestsInRing
<1>1. LifeInv'
  BY LifeInvStep
<1>2. MatchInv' /\ Recent' /\ NotLapped' /\ Alone' /\ Order'
  BY MatchStep, RecentStep, AloneStep, OrderStep
<1> QED
  BY <1>1, <1>2

-----------------------------------------------------------------------------
(* The theorems about the requests of one client. *)

LEMMA NumbersInvariant ==
  ASSUME NEW p, Procs = {p}
  PROVE  LifeSpec => []NumbersInv
<1>1. LifeInit => NumbersInv
  BY NumbersInvStart
<1>2. NumbersInv /\ [LifeNext]_allVars => NumbersInv'
  BY NumbersInvStep
<1> QED
  BY <1>1, <1>2, PTL DEF LifeSpec

\* One client, any number of CPUs: the numbers follow the ring in every reachable
\* state, however the program comes and goes under running probes.
THEOREM RingFollowed ==
  ASSUME NEW p, Procs = {p}
  PROVE  LifeSpec => []RequestsInRing
<1>1. NumbersInv => RequestsInRing
  BY DEF NumbersInv
<1> QED
  BY <1>1, NumbersInvariant, PTL

\* One client, any number of CPUs: a probe deletes a request that it did not read only
\* after the client has gone round the whole ring under it, or when what it did read
\* was left over from a time without a program.
THEOREM OnlyLappedLost ==
  ASSUME NEW p, Procs = {p}
  PROVE  LifeSpec => LostOnlyWhenLapped
<1> DEFINE Lapped(c) == lag[c] = MAX_PID_VA_ENTRIES \/ readAge[c] <= missed
<1>1. ASSUME NumbersInv, NEW c \in CPUs, Delete(c), age[i[c]] \notin {0, readAge[c]}
      PROVE  Lapped(c)
  <2> USE <1>1, LifeTypes DEF NumbersInv, RequestsInRing
  <2>1. i[c] \in Keys /\ i[c] \in Waiting
    BY DEF Delete, At, Keys, Waiting
  <2>2. SUFFICES ASSUME readAge[c] > missed
                 PROVE  lag[c] = MAX_PID_VA_ENTRIES
    OBVIOUS
  <2>3. /\ (readAge[c] - 1) % MAX_PID_VA_ENTRIES = (age[i[c]] - 1) % MAX_PID_VA_ENTRIES
        /\ age[i[c]] > readAge[c] /\ readAge[c] >= 1 /\ age[i[c]] <= written
    BY <2>1, <2>2 DEF MatchInv, NumbersMatch, ReadsMatch
  <2>4. age[i[c]] - 1 >= (readAge[c] - 1) + MAX_PID_VA_ENTRIES
    <3>1. readAge[c] - 1 \in Nat /\ age[i[c]] - 1 \in Nat /\ readAge[c] - 1 < age[i[c]] - 1
      BY <2>1, <2>3
    <3> QED
      BY <2>3, <3>1, TurnApart
  <2>5. written >= readAge[c] + MAX_PID_VA_ENTRIES
    BY <2>1, <2>3, <2>4
  <2> QED
    BY <2>2, <2>5 DEF NotLapped
<1>2. NumbersInv => [\A c \in CPUs : Delete(c) /\ age[i[c]] \notin {0, readAge[c]}
                                     => Lapped(c)]_allVars
  BY <1>1
<1> QED
  BY <1>2, NumbersInvariant, PTL DEF LostOnlyWhenLapped

\* One client, any number of CPUs: what a probe gives to a kfunc is later than all that
\* was given to one before, unless probes overlapped, the ring wrapped over what was
\* pending, or the program was unloaded under a running probe.
THEOREM InOrder ==
  ASSUME NEW p, Procs = {p}
  PROVE  LifeSpec => AppliedInOrder
<1>1. ASSUME NumbersInv, NEW c \in CPUs, CallKfunc(c, Alive)
      PROVE  readAge[c] > applied \/ together[c] \/ skewed
  <2>1. c \in Running /\ step[c] = "kfunc"
    BY <1>1 DEF CallKfunc, At, Running
  <2> QED
    BY <1>1, <2>1 DEF NumbersInv, RequestsInRing, Order, Ordered, ReadIsNew
<1>2. NumbersInv => [\A c \in CPUs : CallKfunc(c, Alive)
                                     => readAge[c] > applied \/ together[c] \/ skewed]_allVars
  BY <1>1
<1> QED
  BY <1>2, NumbersInvariant, PTL DEF AppliedInOrder

-----------------------------------------------------------------------------
(* One CPU, any number of clients. *)

\* What the probe has read is what its slot still holds.
ReadHeld ==
  /\ \A k \in Keys : slot[k] = NoCell => age[k] = 0
  /\ \A c \in CPUs : step[c] # "lookup" => /\ task[c] # NoTask /\ i[c] < MAX_PID_VA_ENTRIES
                                           /\ readAge[c] = age[i[c]]

\* A probe deletes the request it has read (pid_va_map by key, at the end of the loop).
DeletesWhatItRead == [][\A c \in CPUs : Delete(c) => age[i[c]] = readAge[c]]_allVars

LEMMA HeldClient ==
  ASSUME NEW c, CPUs = {c}, LifeInv, ReadHeld, NEW p \in Procs, NumberedCall(p)
  PROVE  ReadHeld'
<1> USE LifeTypes
<1>1. PICK op \in 1 .. 4, addr \in VAs \cup {NullVA} : Submit(p, op, addr)
  BY CallIsSubmit DEF NumberedCall
<1>2. UNCHANGED <<task, step>> /\ task[c] = NoTask
  BY DEF NumberedCall, Call, CpuFree, probeVars, cpuVars
<1>3. \A k \in Keys : slot'[k] = NoCell => age'[k] = 0
  <2>1. CASE ~Written
    BY <2>1 DEF NumberedCall, Written, ReadHeld
  <2>2. CASE Written
    <3>1. PICK e \in Cells : slot' = [slot EXCEPT ![idx[p]] = e]
      BY <1>1, <2>2 DEF Submit, MapUpdate, FreeCells, Written, mapVars
    <3>2. age' = [age EXCEPT ![idx[p]] = written + 1] /\ idx[p] \in Keys
      BY <2>2 DEF NumberedCall
    <3> QED
      BY <3>1, <3>2, MapAssumption DEF ReadHeld
  <2> QED
    BY <2>1, <2>2
<1> QED
  BY <1>2, <1>3 DEF ReadHeld

LEMMA HeldScan ==
  ASSUME NEW c, CPUs = {c}, LifeInv, ReadHeld, NumberedScan(c)
  PROVE  ReadHeld'
<1> USE LifeTypes
<1>1. /\ Scan(c)
      /\ readAge' = [readAge EXCEPT ![c] = IF step[c] = "lookup" THEN age[i[c]]
                                           ELSE IF step'[c] = "lookup" THEN 0 ELSE @]
      /\ age' = [k \in Keys |-> IF slot'[k] = NoCell THEN 0 ELSE age[k]]
  BY DEF NumberedScan
<1>2. \A k \in Keys : slot'[k] = NoCell => age'[k] = 0
  BY <1>1
<1>3. i[c] \in Keys /\ task[c] # NoTask /\ i[c] < MAX_PID_VA_ENTRIES /\ UNCHANGED task
  BY <1>1 DEF Scan, Lookup, LoadVa, LoadFlags, CallKfunc, Delete, At, Keys
<1>4. CASE step'[c] = "lookup"
  BY <1>2, <1>4 DEF ReadHeld
<1>5. CASE step'[c] # "lookup"
  <2>1. slot' = slot /\ i' = i
    BY <1>1, <1>5 DEF Scan, Lookup, LoadVa, LoadFlags, CallKfunc, Delete, NextSlot, Goto, At,
       mapVars
  <2>2. age'[i[c]] = age[i[c]]
    BY <1>1, <1>3, <2>1 DEF ReadHeld
  <2>3. readAge'[c] = age[i[c]]
    BY <1>1, <1>5 DEF ReadHeld
  <2> QED
    BY <1>2, <1>3, <2>1, <2>2, <2>3 DEF ReadHeld
<1> QED
  BY <1>4, <1>5

LEMMA HeldStep ==
  ASSUME NEW c, CPUs = {c}, LifeInv, ReadHeld, [LifeNext]_allVars
  PROVE  ReadHeld'
<1> USE LifeTypes
<1>1. CASE UNCHANGED <<slot, age, step, task, i, readAge>>
  BY <1>1 DEF ReadHeld
<1>2. ASSUME NEW p \in Procs, ReturnUnprobed(p) \/ OpenPublished(p)
                              \/ ((Start(p) \/ Terminate(p)) /\ UNCHANGED lifeVars)
      PROVE  UNCHANGED <<slot, age, step, task, i, readAge>>
  BY <1>2 DEF ReturnUnprobed, OpenPublished, Open, OpenMap, Start, InitPagePatrol, Terminate,
     Exit, mapVars, probeVars, cpuVars, lifeVars, ages
<1>3. CASE EnterAttached(c)
  <2>1. task[c] = NoTask /\ UNCHANGED <<slot, age, step, readAge>>
    BY <1>3 DEF EnterAttached, EnterOther, EnterClient, Enter, mapVars, ages
  <2> QED
    BY <2>1 DEF ReadHeld
<1>4. CASE FinishServed(c)
  <2>1. i[c] = MAX_PID_VA_ENTRIES /\ UNCHANGED <<slot, age, step, readAge>>
    BY <1>4 DEF FinishServed, Finish, Leave, mapVars
  <2>2. step[c] = "lookup"
    BY <2>1 DEF ReadHeld
  <2> QED
    BY <2>1, <2>2 DEF ReadHeld
<1>5. CASE Load \/ Unload \/ UNCHANGED allVars
  <2>1. UNCHANGED <<slot, age, step, task, i, readAge>>
    BY <1>5 DEF Load, Unload, allVars, vars, mapVars, probeVars, cpuVars, lifeVars, ages
  <2> QED
    BY <1>1, <2>1
<1> QED
  BY <1>1, <1>2, <1>3, <1>4, <1>5, HeldClient, HeldScan DEF LifeNext

\* On one CPU a probe deletes the request it has read and no other, whatever the number
\* of clients, also when the program comes and goes: what LostOnlyWhenLapped allows, and
\* what takes a second CPU, does not happen.
THEOREM SoleCpuDeletesWhatItRead ==
  ASSUME NEW cpu, CPUs = {cpu}
  PROVE  LifeSpec => DeletesWhatItRead
<1> DEFINE I == LifeInv /\ ReadHeld
<1>1. LifeInit => I
  <2>1. LifeInit => ReadHeld
    BY DEF LifeInit, Init, ProbeInit, ReadHeld
  <2> QED
    BY <2>1, LifeStart, NumbersStart DEF LifeInv
<1>2. I /\ [LifeNext]_allVars => I'
  BY LifeInvStep, HeldStep
<1>3. I => [\A c \in CPUs : Delete(c) => age[i[c]] = readAge[c]]_allVars
  BY DEF ReadHeld, Delete, At
<1>4. LifeSpec => []I
  BY <1>1, <1>2, PTL DEF LifeSpec
<1> QED
  BY <1>3, <1>4, PTL DEF DeletesWhatItRead
=============================================================================
