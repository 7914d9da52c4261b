-------------------------- MODULE TranslateProofs --------------------------
(***************************************************************************)
(* An undisturbed user gets its own answer, 0 or none, and no call keeps   *)
(* an mm or a page, for any number of users, addresses and CPUs.           *)
(***************************************************************************)
EXTENDS TranslateService, FiniteSetTheorems, TLAPS

USE TranslateAssumption
USE DEF Stages, Steps, Physical, Ended

\* A probe past a lookup has found something, and has no result before the kfunc.
LoadedOK ==
  \A c \in CPUs :
    /\ step[c] \notin {"idle", "pid"} => pid[c] \in Users
    /\ step[c] \notin {"idle", "pid", "va"} => va[c] \in VAs
    /\ step[c] # "store" => pa[c] = NullPA

Inv == DataTypeOK /\ LoadedOK /\ TrustInv /\ TrustedAnswer

LEMMA InvInit == Init => Inv
BY DEF Init, Inv, DataTypeOK, LoadedOK, TrustInv, TrustedAnswer, Waiting, Answered

-----------------------------------------------------------------------------
\* Users.

\* The data keep their types.
LEMMA UserTypes ==
  ASSUME DataTypeOK, NEW u \in Users,
         OpenMaps(u) \/ PutPid(u) \/ PutVa(u) \/ ReadPa(u) \/ CleanUp(u) \/ Kill(u)
  PROVE  DataTypeOK'
<1> USE DEF DataTypeOK, UserStep, Go, Disturb, mapVars, probeVars, refVars
<1>1. CASE OpenMaps(u)
  BY <1>1 DEF OpenMaps
<1>2. CASE PutPid(u)
  BY <1>2 DEF PutPid
<1>3. CASE PutVa(u)
  BY <1>3 DEF PutVa
<1>4. CASE ReadPa(u)
  BY <1>4 DEF ReadPa
<1>5. CASE CleanUp(u)
  BY <1>5 DEF CleanUp
<1>6. CASE Kill(u)
  BY <1>6 DEF Kill
<1> QED
  BY <1>1, <1>2, <1>3, <1>4, <1>5, <1>6

\* A user that writes nothing: what it leaves in the maps, it may take out.
LEMMA UserReadsOrDeletes ==
  ASSUME Inv, NEW u \in Users,
         OpenMaps(u) \/ ReadPa(u) \/ CleanUp(u) \/ Kill(u)
  PROVE  TrustInv' /\ TrustedAnswer'
<1> USE DEF Inv, DataTypeOK, UserStep, Go, mapVars, probeVars, Waiting, Answered, OwnAddress
<1>1. /\ pid_map' \in {Absent, pid_map}
      /\ va_map' \in {Absent, va_map}
      /\ pa_map' \in {Absent, pa_map}
      /\ UNCHANGED <<addr, probeVars, undisturbed>>
  BY DEF OpenMaps, ReadPa, CleanUp, Kill
<1>2. \A w \in Users : w # u => pc'[w] = pc[w] /\ printed'[w] = printed[w]
  BY DEF OpenMaps, ReadPa, CleanUp, Kill
<1>3. ~Waiting(u)' /\ pc'[u] \notin {"open", "sleep"}
  BY DEF OpenMaps, ReadPa, CleanUp, Kill
<1>4. pc'[u] = "putpid" => pc[u] = "open" /\ printed'[u] = printed[u]
  BY DEF OpenMaps, ReadPa, CleanUp, Kill
<1>5. \/ printed'[u] = printed[u]
      \/ pc[u] = "sleep" /\ printed'[u] = pa_map
  BY DEF OpenMaps, ReadPa, CleanUp, Kill
<1>6. undisturbed[u] => printed'[u] \in {Absent, NullPA, OwnAddress(u)}
  BY <1>5 DEF TrustInv, TrustedAnswer, OnlyOwnData
<1>7. \A w \in Users : OnlyOwnData(w) => OnlyOwnData(w)'
  BY <1>1 DEF OnlyOwnData
<1>8. ASSUME NEW w \in Users
      PROVE  /\ pc'[w] \in {"open", "putpid", "putva", "sleep"} => printed'[w] = Absent
             /\ undisturbed'[w] /\ Waiting(w)' => OnlyOwnData(w)'
             /\ undisturbed'[w] => printed'[w] \in {Absent, NullPA, <<w, addr'[w]>>}
  <2>1. CASE w = u
    BY <2>1, <1>1, <1>3, <1>4, <1>6 DEF TrustInv, TrustedAnswer
  <2>2. CASE w # u
    BY <2>2, <1>1, <1>2, <1>7 DEF TrustInv, TrustedAnswer
  <2> QED
    BY <2>1, <2>2
<1> QED
  BY <1>8 DEF TrustInv, TrustedAnswer

\* The first write: nobody else is undisturbed now, and the writer is only if
\* there is neither an old address nor an old answer nor a request under way.
LEMMA FirstWrite ==
  ASSUME Inv, NEW u \in Users, PutPid(u)
  PROVE  TrustInv' /\ TrustedAnswer'
<1> USE DEF Inv, DataTypeOK, UserStep, Go, probeVars, Waiting, Answered, OwnAddress
<1>1. CASE pc' = [pc EXCEPT ![u] = "failed"] /\ UNCHANGED <<pid_map, undisturbed>>
  BY <1>1 DEF PutPid, TrustInv, TrustedAnswer, OnlyOwnData
<1>2. CASE /\ pid_map' = u
           /\ pc' = [pc EXCEPT ![u] = "putva"]
           /\ Disturb(u, va_map = Absent /\ pa_map = Absent /\ NoAnswerUnderWay)
  <2>1. UNCHANGED <<printed, addr, va_map, pa_map, step, pid, va, pa>> /\ ~Answered(u)
    BY DEF PutPid, TrustInv, TrustedAnswer
  <2>2. undisturbed'[u] => OnlyOwnData(u)'
    BY <1>2, <2>1 DEF Disturb, NoAnswerUnderWay, OnlyOwnData
  <2>3. \A w \in Users : undisturbed'[w] => w = u
    BY <1>2 DEF Disturb
  <2> QED
    BY <1>2, <2>1, <2>2, <2>3 DEF TrustInv, TrustedAnswer
<1> QED
  BY <1>1, <1>2 DEF PutPid

\* The second write disturbs the others, and completes the writer's own data.
LEMMA SecondWrite ==
  ASSUME Inv, NEW u \in Users, PutVa(u)
  PROVE  TrustInv' /\ TrustedAnswer'
<1> USE DEF Inv, DataTypeOK, UserStep, Go, probeVars, Waiting, Answered, OwnAddress
<1>1. CASE pc' = [pc EXCEPT ![u] = "failed"] /\ UNCHANGED <<va_map, undisturbed>>
  BY <1>1 DEF PutVa, TrustInv, TrustedAnswer, OnlyOwnData
<1>2. CASE va_map' = addr[u] /\ pc' = [pc EXCEPT ![u] = "sleep"] /\ Disturb(u, undisturbed[u])
  <2>1. UNCHANGED <<printed, addr, pid_map, pa_map, step, pid, va, pa>> /\ pc[u] = "putva"
    BY DEF PutVa
  <2>2. undisturbed'[u] => OnlyOwnData(u)'
    BY <1>2, <2>1 DEF Disturb, TrustInv, TrustedAnswer, OnlyOwnData
  <2>3. \A w \in Users : undisturbed'[w] => w = u /\ undisturbed[u]
    BY <1>2 DEF Disturb
  <2> QED
    BY <1>2, <2>1, <2>2, <2>3 DEF TrustInv, TrustedAnswer
<1> QED
  BY <1>1, <1>2 DEF PutVa

-----------------------------------------------------------------------------
\* Probes.

ProbeAction(c) ==
  \/ Unlink(c) \/ LookupPid(c) \/ LookupVa(c) \/ FindTask(c)
  \/ GetTaskMm(c) \/ PinUserPage(c) \/ Populate(c) \/ StorePa(c)

LEMMA ProbeTypes ==
  ASSUME DataTypeOK, LoadedOK, NEW c \in CPUs, ProbeAction(c)
  PROVE  DataTypeOK' /\ LoadedOK'
<1> USE DEF DataTypeOK, LoadedOK, ProbeStep, Return, userVars, mapVars
<1>1. CASE Unlink(c)
  BY <1>1 DEF Unlink
<1>2. CASE LookupPid(c)
  BY <1>2 DEF LookupPid
<1>3. CASE LookupVa(c)
  BY <1>3 DEF LookupVa
<1>4. CASE FindTask(c)
  BY <1>4 DEF FindTask
<1>5. CASE GetTaskMm(c)
  BY <1>5 DEF GetTaskMm
<1>6. CASE PinUserPage(c)
  BY <1>6 DEF PinUserPage, Pinned
<1>7. CASE Populate(c)
  BY <1>7 DEF Populate
<1>8. CASE StorePa(c)
  BY <1>8 DEF StorePa
<1> QED
  BY <1>1, <1>2, <1>3, <1>4, <1>5, <1>6, <1>7, <1>8 DEF ProbeAction

\* A probe stores what it computed from what it looked up, which is the data of
\* an undisturbed user as long as the user waits.
LEMMA ProbeTrust ==
  ASSUME Inv, NEW c \in CPUs, ProbeAction(c)
  PROVE  TrustInv' /\ TrustedAnswer'
<1> USE DEF Inv, DataTypeOK, ProbeStep, Return, userVars, mapVars
<1>1. UNCHANGED <<pc, addr, printed, undisturbed, pid_map, va_map>>
  BY DEF ProbeAction, Unlink, LookupPid, LookupVa, FindTask, GetTaskMm,
         PinUserPage, Pinned, Populate, StorePa
<1>2. \A d \in CPUs : d # c =>
        step'[d] = step[d] /\ pid'[d] = pid[d] /\ va'[d] = va[d] /\ pa'[d] = pa[d]
  BY DEF ProbeAction, Unlink, LookupPid, LookupVa, FindTask, GetTaskMm,
         PinUserPage, Pinned, Populate, StorePa
<1>3. ASSUME NEW u \in Users, OnlyOwnData(u)
      PROVE  OnlyOwnData(u)'
  <2> USE <1>3 DEF OnlyOwnData, OwnAddress
  <2>1. pa_map' \in {Absent, NullPA, <<u, addr[u]>>}
    BY DEF ProbeAction, Unlink, LookupPid, LookupVa, FindTask, GetTaskMm,
           PinUserPage, Pinned, Populate, StorePa
  <2>2. /\ step'[c] \notin {"idle", "pid"} => pid'[c] = u
        /\ step'[c] \notin {"idle", "pid", "va"} => va'[c] = addr[u]
        /\ step'[c] = "store" => pa'[c] \in {NullPA, <<u, addr[u]>>}
    <3>1. CASE Unlink(c)
      BY <3>1 DEF Unlink
    <3>2. CASE LookupPid(c)
      BY <3>2 DEF LookupPid
    <3>3. CASE LookupVa(c)
      BY <3>3 DEF LookupVa
    <3>4. CASE FindTask(c)
      BY <3>4 DEF FindTask
    <3>5. CASE GetTaskMm(c)
      BY <3>5 DEF GetTaskMm
    <3>6. CASE PinUserPage(c)
      BY <3>6 DEF PinUserPage, Pinned, LoadedOK
    <3>7. CASE Populate(c)
      BY <3>7 DEF Populate
    <3>8. CASE StorePa(c)
      BY <3>8 DEF StorePa
    <3> QED
      BY <3>1, <3>2, <3>3, <3>4, <3>5, <3>6, <3>7, <3>8 DEF ProbeAction
  <2> QED
    BY <1>1, <1>2, <2>1, <2>2
<1> QED
  BY <1>1, <1>3 DEF TrustInv, TrustedAnswer, Waiting, Answered, OwnAddress

-----------------------------------------------------------------------------
LEMMA InvStep == Inv /\ [Next]_vars => Inv'
<1> SUFFICES ASSUME Inv, [Next]_vars PROVE Inv'
  OBVIOUS
<1>1. ASSUME NEW u \in Users,
             OpenMaps(u) \/ PutPid(u) \/ PutVa(u) \/ ReadPa(u) \/ CleanUp(u) \/ Kill(u)
      PROVE  Inv'
  <2>1. DataTypeOK'
    BY <1>1, UserTypes DEF Inv
  <2>2. UNCHANGED probeVars
    BY <1>1 DEF OpenMaps, PutPid, PutVa, ReadPa, CleanUp, Kill, UserStep
  <2>3. LoadedOK'
    BY <2>2 DEF Inv, LoadedOK, probeVars
  <2>4. TrustInv' /\ TrustedAnswer'
    BY <1>1, UserReadsOrDeletes, FirstWrite, SecondWrite
  <2> QED
    BY <2>1, <2>3, <2>4 DEF Inv
<1>2. ASSUME NEW c \in CPUs, ProbeAction(c)
      PROVE  Inv'
  BY <1>2, ProbeTypes, ProbeTrust DEF Inv
<1>3. CASE UNCHANGED vars
  BY <1>3 DEF Inv, DataTypeOK, LoadedOK, TrustInv, TrustedAnswer, OnlyOwnData, Waiting, Answered,
              OwnAddress, vars, userVars, mapVars, probeVars
<1> QED
  BY <1>1, <1>2, <1>3 DEF Next, ProbeAction

\* A user that is not disturbed prints the translation of its own address,
\* 0 or nothing, whatever the number of users, addresses and CPUs and however late the
\* probes are (the user program's main and the probe on do_unlinkat).
THEOREM Trusted == Spec => []TrustedAnswer
<1>1. Inv => TrustedAnswer
  BY DEF Inv
<1> QED
  BY InvInit, InvStep, <1>1, PTL DEF Spec

-----------------------------------------------------------------------------
\* One user.  Before its first write the maps are empty and no probe has an answer under
\* way, and nobody disturbs it after that.
SoleInv ==
  \A u \in Users :
    /\ pc[u] \in {"open", "putpid"} =>
         /\ pid_map = Absent /\ va_map = Absent /\ pa_map = Absent
         /\ NoAnswerUnderWay
    /\ Waiting(u) \/ Answered(u) => undisturbed[u]

LEMMA SoleUser ==
  ASSUME NEW u, Users = {u}, Inv, SoleInv,
         OpenMaps(u) \/ PutPid(u) \/ PutVa(u) \/ ReadPa(u) \/ CleanUp(u) \/ Kill(u)
  PROVE  SoleInv'
<1> USE DEF Inv, DataTypeOK, TrustInv, SoleInv, Waiting, Answered, NoAnswerUnderWay,
            UserStep, Go, mapVars, probeVars
<1>1. CASE OpenMaps(u)
  BY <1>1 DEF OpenMaps
<1>2. CASE PutPid(u)
  <2>1. pc'[u] = "putva" => undisturbed'[u]
    BY <1>2 DEF PutPid, Disturb
  <2>2. pc'[u] \in {"putva", "failed"} /\ printed'[u] = Absent
    BY <1>2 DEF PutPid
  <2> QED
    BY <2>1, <2>2
<1>3. CASE PutVa(u)
  <2>1. pc'[u] = "sleep" => undisturbed'[u]
    BY <1>3 DEF PutVa, Disturb
  <2>2. pc'[u] \in {"sleep", "failed"} /\ printed'[u] = Absent
    BY <1>3 DEF PutVa
  <2> QED
    BY <2>1, <2>2
<1>4. CASE ReadPa(u)
  BY <1>4 DEF ReadPa
<1>5. CASE CleanUp(u)
  BY <1>5 DEF CleanUp
<1>6. CASE Kill(u)
  BY <1>6 DEF Kill
<1> QED
  BY <1>1, <1>2, <1>3, <1>4, <1>5, <1>6

LEMMA SoleProbe ==
  ASSUME NEW u, Users = {u}, Inv, SoleInv, NEW c \in CPUs, ProbeAction(c)
  PROVE  SoleInv'
<1> USE DEF Inv, DataTypeOK, SoleInv, Waiting, Answered, NoAnswerUnderWay
<1>1. UNCHANGED <<pc, printed, undisturbed>>
  BY DEF ProbeAction, Unlink, LookupPid, LookupVa, FindTask, GetTaskMm, PinUserPage, Pinned,
     Populate, StorePa, Return, ProbeStep, userVars
<1>2. ASSUME pc[u] \in {"open", "putpid"}
      PROVE  UNCHANGED mapVars /\ NoAnswerUnderWay'
  <2>1. Unlink(c) \/ (pid_map = Absent /\ LookupPid(c))
    BY <1>2 DEF ProbeAction, LookupPid, LookupVa, FindTask, GetTaskMm, PinUserPage, Pinned,
       Populate, StorePa, Return, ProbeStep
  <2> QED
    BY <1>2, <2>1 DEF Unlink, LookupPid, Return, ProbeStep
<1> QED
  BY <1>1, <1>2 DEF mapVars

\* With one user, any number of addresses and CPUs, no answer is another's: the run
\* mixed_answer needs its second user.
THEOREM SoleUserAnswered ==
  ASSUME NEW u, Users = {u}
  PROVE  Spec => []OwnAnswer
<1>1. Init => Inv /\ SoleInv
  <2>1. Init => SoleInv
    BY DEF Init, SoleInv, Waiting, Answered, NoAnswerUnderWay
  <2> QED
    BY <2>1, InvInit
<1>2. Inv /\ SoleInv /\ [Next]_vars => (Inv /\ SoleInv)'
  <2> SUFFICES ASSUME Inv, SoleInv, [Next]_vars PROVE SoleInv'
    BY InvStep
  <2>1. CASE UNCHANGED vars
    BY <2>1 DEF SoleInv, Waiting, Answered, NoAnswerUnderWay, vars, userVars, mapVars, probeVars
  <2> QED
    BY <2>1, SoleUser, SoleProbe DEF Next, ProbeAction
<1>3. Inv /\ SoleInv => OwnAnswer
  BY DEF Inv, TrustedAnswer, SoleInv, OwnAnswer, Answered
<1> QED
  BY <1>1, <1>2, <1>3, PTL DEF Spec

-----------------------------------------------------------------------------
\* References.  A step of the probe on one CPU makes it a holder, or no longer one.

RefInv ==
  /\ mmUsers \in [Users -> Int]
  /\ pagePins \in [Users -> Int]
  /\ RefsDropped

LEMMA HoldersCount ==
  ASSUME NEW S \in SUBSET CPUs, NEW c \in CPUs
  PROVE  /\ Cardinality(S) \in Nat
         /\ c \notin S => Cardinality(S \cup {c}) = Cardinality(S) + 1
         /\ c \in S => Cardinality(S \ {c}) = Cardinality(S) - 1
<1>1. IsFiniteSet(S)
  BY FS_Subset
<1> QED
  BY <1>1, FS_CardinalityType, FS_AddElement, FS_RemoveElement

\* How the step of one CPU changes how many hold a reference.
LEMMA HoldersStep ==
  ASSUME NEW c \in CPUs, NEW held, NEW u \in Users, pid[c] = u,
         \A d \in CPUs \ {c} : step'[d] = step[d] /\ pid'[d] = pid[d],
         step'[c] \in held => pid'[c] = u
  PROVE  Cardinality(Holders(u, held)')
           = Cardinality(Holders(u, held)) + (IF step'[c] \in held THEN 1 ELSE 0)
                                           - (IF step[c] \in held THEN 1 ELSE 0)
<1>1. Holders(u, held) \in SUBSET CPUs
  BY DEF Holders
<1>2. CASE step[c] \in held <=> step'[c] \in held
  <2>1. Holders(u, held)' = Holders(u, held)
    BY <1>2 DEF Holders
  <2>2. Cardinality(Holders(u, held)) \in Nat
    BY <1>1, HoldersCount
  <2>3. CASE step[c] \in held
    BY <1>2, <2>1, <2>2, <2>3
  <2>4. CASE step[c] \notin held
    BY <1>2, <2>1, <2>2, <2>4
  <2> QED
    BY <2>3, <2>4
<1>3. CASE step[c] \notin held /\ step'[c] \in held
  <2>1. c \notin Holders(u, held) /\ Holders(u, held)' = Holders(u, held) \cup {c}
    BY <1>3 DEF Holders
  <2> QED
    BY <1>1, <1>3, <2>1, HoldersCount
<1>4. CASE step[c] \in held /\ step'[c] \notin held
  <2>1. c \in Holders(u, held) /\ Holders(u, held)' = Holders(u, held) \ {c}
    BY <1>4 DEF Holders
  <2> QED
    BY <1>1, <1>4, <2>1, HoldersCount
<1> QED
  BY <1>2, <1>3, <1>4

LEMMA RefInit == Init => RefInv
<1> SUFFICES ASSUME Init PROVE RefInv
  OBVIOUS
<1>1. \A u \in Users : Holders(u, {"pin", "put"}) = {} /\ Holders(u, {"put"}) = {}
  BY DEF Init, Holders
<1>2. mmUsers = [u \in Users |-> 0] /\ pagePins = [u \in Users |-> 0]
  BY DEF Init
<1>3. Cardinality({}) = 0
  BY FS_EmptySet
<1>4. RefsDropped
  BY <1>1, <1>2, <1>3 DEF RefsDropped
<1> QED
  BY <1>2, <1>4 DEF RefInv

\* One CPU gains or loses the mm of the user it serves, and the page.
LEMMA RefGainOrLoss ==
  ASSUME DataTypeOK, RefInv, NEW c \in CPUs, NEW u \in Users, pid[c] = u,
         \A d \in CPUs \ {c} : step'[d] = step[d] /\ pid'[d] = pid[d],
         pid'[c] = u \/ step'[c] = "idle",
         mmUsers' \in [Users -> Int], pagePins' \in [Users -> Int],
         \A w \in Users \ {u} : mmUsers'[w] = mmUsers[w] /\ pagePins'[w] = pagePins[w],
         mmUsers'[u] = mmUsers[u] + (IF step'[c] \in {"pin", "put"} THEN 1 ELSE 0)
                                  - (IF step[c] \in {"pin", "put"} THEN 1 ELSE 0),
         pagePins'[u] = pagePins[u] + (IF step'[c] = "put" THEN 1 ELSE 0)
                                    - (IF step[c] = "put" THEN 1 ELSE 0)
  PROVE  RefInv'
<1>2. ASSUME NEW w \in Users
      PROVE  /\ mmUsers'[w] = Cardinality(Holders(w, {"pin", "put"})')
             /\ pagePins'[w] = Cardinality(Holders(w, {"put"})')
  <2>1. /\ mmUsers[w] = Cardinality(Holders(w, {"pin", "put"}))
        /\ pagePins[w] = Cardinality(Holders(w, {"put"}))
    BY DEF RefInv, RefsDropped
  <2>2. CASE w # u
    <3>1. \A held \in {{"pin", "put"}, {"put"}} : Holders(w, held)' = Holders(w, held)
      BY <2>2 DEF Holders
    <3> QED
      BY <2>1, <2>2, <3>1 DEF RefInv
  <2>3. CASE w = u
    <3>1. /\ Cardinality(Holders(u, {"pin", "put"})) \in Nat
          /\ Cardinality(Holders(u, {"put"})) \in Nat
      BY HoldersCount DEF Holders
    <3>2. Cardinality(Holders(u, {"pin", "put"})')
            = Cardinality(Holders(u, {"pin", "put"})) + (IF step'[c] \in {"pin", "put"} THEN 1 ELSE 0)
                                                      - (IF step[c] \in {"pin", "put"} THEN 1 ELSE 0)
      BY HoldersStep
    <3>3. Cardinality(Holders(u, {"put"})')
            = Cardinality(Holders(u, {"put"})) + (IF step'[c] \in {"put"} THEN 1 ELSE 0)
                                               - (IF step[c] \in {"put"} THEN 1 ELSE 0)
      BY HoldersStep
    <3> QED
      BY <2>1, <2>3, <3>1, <3>2, <3>3
  <2> QED
    BY <2>2, <2>3
<1> QED
  BY <1>2 DEF RefInv, RefsDropped

\* No CPU gains or loses a reference.
LEMMA RefQuiet ==
  ASSUME RefInv, UNCHANGED refVars,
         \A d \in CPUs : \/ step'[d] = step[d] /\ pid'[d] = pid[d]
                         \/ step[d] \notin {"pin", "put"} /\ step'[d] \notin {"pin", "put"}
  PROVE  RefInv'
<1>1. \A u \in Users : /\ Holders(u, {"pin", "put"})' = Holders(u, {"pin", "put"})
                       /\ Holders(u, {"put"})' = Holders(u, {"put"})
  BY DEF Holders
<1> QED
  BY <1>1 DEF RefInv, RefsDropped, refVars

LEMMA RefProbe ==
  ASSUME DataTypeOK, LoadedOK, RefInv, NEW c \in CPUs, ProbeAction(c)
  PROVE  RefInv'
<1> USE DEF ProbeStep, Return
<1>1. /\ step \in [CPUs -> Steps] /\ pid \in [CPUs -> Users \cup {NoPid}]
      /\ mmUsers \in [Users -> Int] /\ pagePins \in [Users -> Int]
  BY DEF DataTypeOK, RefInv
<1>2. CASE Unlink(c) \/ LookupPid(c) \/ LookupVa(c) \/ FindTask(c) \/ StorePa(c)
  <2>1. UNCHANGED refVars
    BY <1>2 DEF Unlink, LookupPid, LookupVa, FindTask, StorePa
  <2>2. \A d \in CPUs : \/ step'[d] = step[d] /\ pid'[d] = pid[d]
                        \/ step[d] \notin {"pin", "put"} /\ step'[d] \notin {"pin", "put"}
    BY <1>1, <1>2 DEF Unlink, LookupPid, LookupVa, FindTask, StorePa
  <2> QED
    BY <2>1, <2>2, RefQuiet
<1>3. CASE GetTaskMm(c) \/ PinUserPage(c) \/ Populate(c)
  <2> DEFINE u == pid[c]
  <2>1. /\ u \in Users
        /\ \A d \in CPUs \ {c} : step'[d] = step[d] /\ pid'[d] = pid[d]
        /\ pid'[c] = u \/ step'[c] = "idle"
    BY <1>1, <1>3 DEF LoadedOK, GetTaskMm, PinUserPage, Pinned, Populate
  <2>2. /\ mmUsers' \in [Users -> Int] /\ pagePins' \in [Users -> Int]
        /\ \A w \in Users \ {u} : mmUsers'[w] = mmUsers[w] /\ pagePins'[w] = pagePins[w]
        /\ mmUsers'[u] = mmUsers[u] + (IF step'[c] \in {"pin", "put"} THEN 1 ELSE 0)
                                    - (IF step[c] \in {"pin", "put"} THEN 1 ELSE 0)
        /\ pagePins'[u] = pagePins[u] + (IF step'[c] = "put" THEN 1 ELSE 0)
                                      - (IF step[c] = "put" THEN 1 ELSE 0)
    <3>1. CASE GetTaskMm(c)
      BY <1>1, <2>1, <3>1 DEF GetTaskMm
    <3>2. CASE PinUserPage(c)
      BY <1>1, <2>1, <3>2 DEF PinUserPage, Pinned, DropMm
    <3>3. CASE Populate(c)
      BY <1>1, <2>1, <3>3 DEF Populate, DropMm
    <3> QED
      BY <1>3, <3>1, <3>2, <3>3
  <2> HIDE DEF u
  <2>3. pid[c] = u
    BY DEF u
  <2> QED
    BY <2>1, <2>2, <2>3, RefGainOrLoss
<1> QED
  BY <1>2, <1>3 DEF ProbeAction

RefsInv == DataTypeOK /\ LoadedOK /\ RefInv

LEMMA RefStep == RefsInv /\ [Next]_vars => RefsInv'
<1> SUFFICES ASSUME RefsInv, [Next]_vars PROVE RefsInv'
  OBVIOUS
<1>1. ASSUME NEW u \in Users,
             OpenMaps(u) \/ PutPid(u) \/ PutVa(u) \/ ReadPa(u) \/ CleanUp(u) \/ Kill(u)
      PROVE  RefsInv'
  <2>1. DataTypeOK'
    BY <1>1, UserTypes DEF RefsInv
  <2>2. UNCHANGED <<probeVars, refVars>>
    BY <1>1 DEF OpenMaps, PutPid, PutVa, ReadPa, CleanUp, Kill, UserStep
  <2> QED
    BY <2>1, <2>2, RefQuiet DEF RefsInv, LoadedOK, probeVars
<1>2. ASSUME NEW c \in CPUs, ProbeAction(c)
      PROVE  RefsInv'
  BY <1>2, ProbeTypes, RefProbe DEF RefsInv
<1>3. CASE UNCHANGED vars
  BY <1>3, RefQuiet DEF RefsInv, DataTypeOK, LoadedOK, vars, userVars, mapVars, probeVars
<1> QED
  BY <1>1, <1>2, <1>3 DEF Next, ProbeAction

\* The mm and the page of a process are held by exactly the calls that are between
\* taking and dropping them, on every path through the kfunc and on any number of CPUs.
THEOREM Released == Spec => []RefsDropped
<1>1. Init => RefsInv
  BY InvInit, RefInit DEF Inv, RefsInv
<1>2. RefsInv => RefsDropped
  BY DEF RefsInv, RefInv
<1> QED
  BY <1>1, <1>2, RefStep, PTL DEF Spec

\* Every reachable state is well typed; in particular no reference count is dropped
\* below zero.
THEOREM WellTyped == Spec => []TypeOK
<1>1. Init => RefsInv
  BY InvInit, RefInit DEF Inv, RefsInv
<1>2. RefsInv => TypeOK
  <2> SUFFICES ASSUME RefsInv PROVE TypeOK
    OBVIOUS
  <2>1. \A u \in Users : mmUsers[u] \in Nat /\ pagePins[u] \in Nat
    <3> SUFFICES ASSUME NEW u \in Users PROVE mmUsers[u] \in Nat /\ pagePins[u] \in Nat
      OBVIOUS
    <3>1. /\ IsFiniteSet(Holders(u, {"pin", "put"}))
          /\ IsFiniteSet(Holders(u, {"put"}))
      BY FS_Subset DEF Holders
    <3> QED
      BY <3>1, FS_CardinalityType DEF RefsInv, RefInv, RefsDropped
  <2> QED
    BY <2>1 DEF RefsInv, RefInv, TypeOK
<1> QED
  BY <1>1, <1>2, RefStep, PTL DEF Spec

\* From its first write until it reads, an undisturbed user meets only its own pid,
\* address and answer, in the maps and in every probe past its lookups.
THEOREM OwnDataOnly == Spec => []TrustInv
<1>1. Inv => TrustInv
  BY DEF Inv
<1> QED
  BY InvInit, InvStep, <1>1, PTL DEF Spec
=============================================================================
