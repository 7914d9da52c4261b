----------------------------- MODULE LruProofs -----------------------------
(***************************************************************************)
(* For any number of processes, pages and CPUs, and however the single     *)
(* accesses of calls and kernel interleave: the model is well typed, and   *)
(* the mm of a process is held by exactly the calls that work with it.     *)
(* What the lists and their sizes are good for is only claimed while no    *)
(* two list operations overlap, and left to TLC: which pages a walk comes  *)
(* to is an induction.                                                     *)
(***************************************************************************)
EXTENDS LruModule, FiniteSetTheorems, SequenceTheorems, TLAPS

Flags == Lists \cup {"batched", "isolated", "held", "free"}
Steps == {"idle", "mm", "pte", "del", "add", "put", "mmput"}

ListsOK ==
  /\ lru \in [Pages -> Flags]
  /\ next \in [Pages \cup Heads -> Places]
  /\ prev \in [Pages \cup Heads -> Places]
  /\ size \in [Lists -> Int]
  /\ refs \in [Pages -> Int]
  /\ todo \in [Threads -> Seq(Accesses)]

ShapeOK ==
  /\ ListsOK
  /\ pte \in [Procs -> Pages]
  /\ step \in [CPUs -> Steps]
  /\ proc \in [CPUs -> Procs \cup {NoProc}]
  /\ page \in [CPUs -> Pages]
  /\ \A c \in CPUs : step[c] # "idle" => proc[c] \in Procs

USE LruAssumption

LEMMA PagesFinite == IsFiniteSet(Pages)
BY FS_AddElement DEF Pages

LEMMA ShapeInit == Init => ShapeOK
<1> SUFFICES ASSUME Init PROVE ShapeOK
  OBVIOUS
<1>1. lru \in [Pages -> Flags]
  BY DEF Init, Flags, Lists
<1>2. next \in [Pages \cup Heads -> Places] /\ prev \in [Pages \cup Heads -> Places]
  BY DEF Init, Places, Pages
<1>3. size \in [Lists -> Int]
  <2>1. \A l \in Lists : Cardinality({f \in Pages : lru[f] = l}) \in Nat
    <3> SUFFICES ASSUME NEW l \in Lists
                 PROVE  Cardinality({f \in Pages : lru[f] = l}) \in Nat
      OBVIOUS
    <3>1. IsFiniteSet({f \in Pages : lru[f] = l})
      BY PagesFinite, FS_Subset
    <3> QED
      BY <3>1, FS_CardinalityType
  <2> QED
    BY <2>1 DEF Init
<1>4. refs \in [Pages -> Int]
  <2>1. \A f \in Pages : Cardinality(Mapping(f)) \in Nat
    BY FS_Subset, FS_CardinalityType DEF Mapping
  <2> QED
    BY <2>1 DEF Init
<1>5. todo \in [Threads -> Seq(Accesses)]
  BY DEF Init
<1> QED
  BY <1>1, <1>2, <1>3, <1>4, <1>5 DEF Init, ShapeOK, ListsOK, Steps, Pages

-----------------------------------------------------------------------------
(* Accesses. *)

\* What list operations are made of.
LEMMA Operations ==
  ASSUME NEW f \in Pages
  PROVE  /\ \A l \in Lists, n \in Int : Count(l, n) \in Accesses
         /\ Detach(f) \in Accesses /\ Put(f) \in Accesses
         /\ \A h \in Heads : Attach(f, h) \in Accesses
         /\ \A l \in Lists : Set("flag", f, l) \in Accesses
         /\ ListDel(f) \in Seq(Accesses)
         /\ \A l \in Lists : DelFrom(l, f) \in Seq(Accesses)
         /\ \A l \in Lists \cap Heads : AddTo(l, f) \in Seq(Accesses)
<1>1. \A l \in Lists, n \in Int : Count(l, n) \in Accesses
  BY DEF Count, Accesses
<1>2. Detach(f) \in Accesses /\ Put(f) \in Accesses
  BY DEF Detach, Put, Accesses
<1>3. \A h \in Heads : Attach(f, h) \in Accesses
  BY DEF Attach, Accesses
<1>4. \A l \in Lists : Set("flag", f, l) \in Accesses
  BY DEF Set, Accesses
<1>5. Set("next", f, Poison) \in Accesses /\ Set("prev", f, Poison) \in Accesses
  BY DEF Set, Accesses, Places
<1>6. ListDel(f) \in Seq(Accesses)
  BY <1>2, <1>5 DEF ListDel
<1>7. \A l \in Lists : DelFrom(l, f) \in Seq(Accesses)
  BY <1>1, <1>6 DEF DelFrom
<1>8. \A l \in Lists \cap Heads : AddTo(l, f) \in Seq(Accesses)
  BY <1>1, <1>3 DEF AddTo
<1> QED
  BY <1>1, <1>2, <1>3, <1>4, <1>6, <1>7, <1>8

\* What a load finds makes stores.
LEMMA LoadedStores ==
  ASSUME ListsOK, NEW a \in Accesses, a.op \in {"count", "detach", "attach"}
  PROVE  Stores(a) \in Seq(Accesses)
<1>1. CASE a.op = "count"
  <2>1. a.at \in Lists /\ a.val \in Int
    BY <1>1 DEF Accesses
  <2>2. size[a.at] + a.val \in Int
    BY <2>1 DEF ListsOK
  <2>3. Set("size", a.at, size[a.at] + a.val) \in Accesses
    BY <2>1, <2>2 DEF Set, Accesses
  <2>4. Stores(a) = <<Set("size", a.at, size[a.at] + a.val)>>
    BY <1>1 DEF Stores
  <2> QED
    BY <2>3, <2>4
<1>2. CASE a.op = "detach"
  <2>1. a.at \in Pages
    BY <1>2 DEF Accesses
  <2>2. next[a.at] \in Places /\ prev[a.at] \in Places
    BY <2>1 DEF ListsOK
  <2>3. /\ Set("prev", next[a.at], prev[a.at]) \in Accesses
        /\ Set("next", prev[a.at], next[a.at]) \in Accesses
    BY <2>2 DEF Set, Accesses
  <2>4. Stores(a) = <<Set("prev", next[a.at], prev[a.at]), Set("next", prev[a.at], next[a.at])>>
    BY <1>2 DEF Stores
  <2> QED
    BY <2>3, <2>4
<1>3. CASE a.op = "attach"
  <2>1. a.at \in Pages /\ a.val \in Heads
    BY <1>3 DEF Accesses
  <2>2. next[a.val] \in Places /\ a.at \in Places /\ a.val \in Places
    BY <2>1 DEF ListsOK, Places
  <2>3. /\ Set("prev", next[a.val], a.at) \in Accesses
        /\ Set("next", a.at, next[a.val]) \in Accesses
        /\ Set("prev", a.at, a.val) \in Accesses
        /\ Set("next", a.val, a.at) \in Accesses
    BY <2>2 DEF Set, Accesses
  <2>4. Stores(a) = <<Set("prev", next[a.val], a.at), Set("next", a.at, next[a.val]),
                      Set("prev", a.at, a.val), Set("next", a.val, a.at)>>
    BY <1>3 DEF Stores
  <2> QED
    BY <2>3, <2>4
<1> QED
  BY <1>1, <1>2, <1>3

\* A step of the kernel's or the kfunc's that begins a list operation.
LEMMA Begins ==
  ASSUME ListsOK, NEW t \in Threads, NEW q \in Seq(Accesses), Begin(t, q),
         lru' \in [Pages -> Flags], refs' \in [Pages -> Int], UNCHANGED <<next, prev, size>>
  PROVE  ListsOK'
<1>1. todo' \in [Threads -> Seq(Accesses)]
  BY DEF Begin, ListsOK
<1> QED
  BY <1>1 DEF ListsOK

LEMMA AccessKeeps ==
  ASSUME ShapeOK, NEW t \in Threads, Load(t) \/ Store(t)
  PROVE  ShapeOK' /\ UNCHANGED <<alive, mmUsers, pte, callVars>>
<1>1. UNCHANGED <<alive, mmUsers, pte, callVars>>
  BY DEF Load, Store, kernelVars
<1> DEFINE a == Head(todo[t])
<1>2. /\ ListsOK
      /\ todo[t] \in Seq(Accesses) /\ todo[t] # <<>>
      /\ a \in Accesses /\ Tail(todo[t]) \in Seq(Accesses)
  <2>1. ListsOK /\ todo[t] \in Seq(Accesses) /\ todo[t] # <<>>
    BY DEF ShapeOK, ListsOK, Load, Store
  <2>2. Head(todo[t]) \in Accesses /\ Tail(todo[t]) \in Seq(Accesses)
    BY <2>1, HeadTailProperties
  <2> QED
    BY <2>1, <2>2
<1> HIDE DEF a
<1>3. CASE Load(t)
  <2>1. /\ a.op \in {"count", "detach", "attach"}
        /\ todo' = [todo EXCEPT ![t] = Stores(a) \o Tail(todo[t])]
        /\ UNCHANGED <<lru, next, prev, size, refs>>
    BY <1>3 DEF Load, listVars, kernelVars, a
  <2>2. Stores(a) \o Tail(todo[t]) \in Seq(Accesses)
    BY <1>2, <2>1, LoadedStores
  <2>3. ListsOK'
    BY <1>2, <2>1, <2>2 DEF ListsOK
  <2> QED
    BY <1>1, <2>3 DEF ShapeOK, callVars
<1>4. CASE Store(t)
  <2>1. todo' \in [Threads -> Seq(Accesses)]
    BY <1>2, <1>4 DEF Store, ListsOK
  <2>2. /\ lru' \in [Pages -> Flags]
        /\ next' \in [Pages \cup Heads -> Places]
        /\ prev' \in [Pages \cup Heads -> Places]
        /\ size' \in [Lists -> Int]
        /\ refs' \in [Pages -> Int]
    <3>1. CASE a.op \in {"next", "prev"} /\ a.at = Poison /\ UNCHANGED <<listVars, refs>>
      BY <1>2, <3>1 DEF ListsOK, listVars
    <3>2. CASE /\ a.op = "next" /\ a.at # Poison
               /\ next' = [next EXCEPT ![a.at] = a.val]
               /\ UNCHANGED <<lru, prev, size, refs>>
      <4>1. a.val \in Places
        BY <1>2, <3>2 DEF Accesses
      <4> QED
        BY <1>2, <3>2, <4>1 DEF ListsOK
    <3>3. CASE /\ a.op = "prev" /\ a.at # Poison
               /\ prev' = [prev EXCEPT ![a.at] = a.val]
               /\ UNCHANGED <<lru, next, size, refs>>
      <4>1. a.val \in Places
        BY <1>2, <3>3 DEF Accesses
      <4> QED
        BY <1>2, <3>3, <4>1 DEF ListsOK
    <3>4. CASE a.op = "size" /\ size' = [size EXCEPT ![a.at] = a.val]
               /\ UNCHANGED <<lru, next, prev, refs>>
      <4>1. a.val \in Int
        BY <1>2, <3>4 DEF Accesses
      <4> QED
        BY <1>2, <3>4, <4>1 DEF ListsOK
    <3>5. CASE a.op = "flag" /\ lru' = [lru EXCEPT ![a.at] = a.val]
               /\ UNCHANGED <<next, prev, size, refs>>
      <4>1. a.val \in Flags
        BY <1>2, <3>5 DEF Accesses, Flags
      <4> QED
        BY <1>2, <3>5, <4>1 DEF ListsOK
    <3>6. CASE a.op = "put" /\ DropRefs(a.at, 1) /\ UNCHANGED listVars
      <4>1. a.at \in Pages
        BY <1>2, <3>6 DEF Accesses
      <4>2. refs' = [refs EXCEPT ![a.at] = @ - 1]
        BY <3>6 DEF DropRefs
      <4> QED
        BY <1>2, <3>6, <4>1, <4>2 DEF ListsOK, listVars
    <3> QED
      BY <1>4, <3>1, <3>2, <3>3, <3>4, <3>5, <3>6 DEF Store, a
  <2>3. ListsOK'
    BY <2>1, <2>2 DEF ListsOK
  <2> QED
    BY <1>1, <2>3 DEF ShapeOK, callVars
<1> QED
  BY <1>3, <1>4

-----------------------------------------------------------------------------
(* The kernel. *)

KernelAction(f) ==
  \/ Activate(f) \/ Deactivate(f) \/ Isolate(f) \/ Take(f)
  \/ Unmap(f) \/ Evict(f) \/ PutOnList(f)

LEMMA KernelKeeps ==
  ASSUME ShapeOK, NEW f \in Frames, KernelAction(f)
  PROVE  /\ ShapeOK' /\ UNCHANGED <<alive, mmUsers, callVars>>
         /\ \A p \in Procs : pte'[p] \in {pte[p], Frame0}
<1>f. f \in Pages /\ LockHolder \in Threads
  BY DEF Pages, Threads
<1>t. ListsOK /\ lru[f] \in Flags /\ pte \in [Procs -> Pages] /\ Frame0 \in Pages
  BY <1>f DEF ShapeOK, ListsOK, Pages
<1>1. UNCHANGED <<alive, mmUsers, callVars>>
  BY DEF KernelAction, Activate, Deactivate, Move, Isolate, Take, Unmap, Evict, PutOnList,
         Kernel, kernelVars
<1>2. ASSUME ListsOK', pte' \in [Procs -> Pages]
      PROVE  ShapeOK'
  BY <1>1, <1>2 DEF ShapeOK, callVars
<1>3. ASSUME NEW from \in {"active", "inactive"}, NEW to \in {"active", "inactive"}, Move(f, from, to)
      PROVE  ListsOK' /\ UNCHANGED pte
  <2>1. /\ DelFrom(from, f) \in Seq(Accesses)
        /\ <<Set("flag", f, to)>> \in Seq(Accesses)
        /\ AddTo(to, f) \in Seq(Accesses)
    BY <1>f, Operations DEF Lists, Heads
  <2>2. DelFrom(from, f) \o <<Set("flag", f, to)>> \o AddTo(to, f) \in Seq(Accesses)
    BY <2>1
  <2>3. /\ Begin(LockHolder, DelFrom(from, f) \o <<Set("flag", f, to)>> \o AddTo(to, f))
        /\ UNCHANGED <<lru, next, prev, size, refs, pte>>
    BY <1>3 DEF Move, listVars, kernelVars
  <2>4. lru' \in [Pages -> Flags] /\ refs' \in [Pages -> Int]
    BY <1>t, <2>3 DEF ListsOK
  <2> QED
    BY <1>f, <1>t, <2>2, <2>3, <2>4, Begins
<1>4. CASE Isolate(f)
  <2>1. lru[f] \in {"active", "inactive"}
    BY <1>4 DEF Isolate
  <2>2. <<Detach(f), Attach(f, "reclaim"), Count(lru[f], -1)>> \in Seq(Accesses)
    <3>1. Detach(f) \in Accesses /\ Attach(f, "reclaim") \in Accesses
      BY <1>f, Operations DEF Heads
    <3>2. Count(lru[f], -1) \in Accesses
      BY <1>f, <2>1, Operations DEF Lists
    <3> QED
      BY <3>1, <3>2
  <2>3. lru' \in [Pages -> Flags] /\ refs' \in [Pages -> Int]
    <3>1. /\ lru' = [lru EXCEPT ![f] = "isolated"]
          /\ refs' = [refs EXCEPT ![f] = @ + 1]
      BY <1>4 DEF Isolate
    <3> QED
      BY <1>f, <1>t, <3>1 DEF ListsOK, Flags
  <2>4. /\ Begin(LockHolder, <<Detach(f), Attach(f, "reclaim"), Count(lru[f], -1)>>)
        /\ UNCHANGED <<next, prev, size, pte>>
    BY <1>4 DEF Isolate
  <2> QED
    BY <1>f, <1>t, <1>2, <2>2, <2>3, <2>4, <1>1, Begins
<1>5. CASE Take(f)
  <2>1. ListDel(f) \in Seq(Accesses)
    BY <1>f, Operations
  <2>2. lru' \in [Pages -> Flags] /\ refs' \in [Pages -> Int]
    BY <1>t, <1>5 DEF Take, ListsOK, Flags, kernelVars
  <2>3. Begin(LockHolder, ListDel(f)) /\ UNCHANGED <<next, prev, size, pte>>
    BY <1>5 DEF Take, kernelVars
  <2> QED
    BY <1>f, <1>t, <1>2, <2>1, <2>2, <2>3, <1>1, Begins
<1>6. CASE Unmap(f)
  <2>1. /\ pte' = [p \in Procs |-> IF pte[p] = f THEN Frame0 ELSE pte[p]]
        /\ UNCHANGED <<lru, next, prev, size, todo>>
    BY <1>6 DEF Unmap, listVars
  <2>2. refs' \in [Pages -> Int]
    <3>1. Cardinality(Mapping(f)) \in Nat
      BY FS_Subset, FS_CardinalityType DEF Mapping
    <3>2. refs' = [refs EXCEPT ![f] = @ - Cardinality(Mapping(f))]
      BY <1>6 DEF Unmap, DropRefs
    <3>3. refs \in [Pages -> Int] /\ refs[f] - Cardinality(Mapping(f)) \in Int
      BY <1>f, <1>t, <3>1 DEF ListsOK
    <3> QED
      BY <3>2, <3>3
  <2>3. ListsOK'
    BY <1>t, <2>1, <2>2 DEF ListsOK
  <2> QED
    BY <1>t, <1>1, <1>2, <2>1, <2>3
<1>7. CASE Evict(f)
  <2>1. /\ lru' = [lru EXCEPT ![f] = "free"]
        /\ refs' = [refs EXCEPT ![f] = 0]
        /\ UNCHANGED <<next, prev, size, todo, pte>>
    BY <1>7 DEF Evict
  <2>2. lru' \in [Pages -> Flags] /\ refs' \in [Pages -> Int]
    BY <1>f, <1>t, <2>1 DEF ListsOK, Flags
  <2>3. ListsOK'
    BY <1>t, <2>1, <2>2 DEF ListsOK
  <2> QED
    BY <1>t, <1>1, <1>2, <2>1, <2>3
<1>8. CASE PutOnList(f)
  <2>1. AddTo("inactive", f) \in Seq(Accesses) /\ <<Put(f)>> \in Seq(Accesses)
    BY <1>f, Operations DEF Lists, Heads
  <2>2. AddTo("inactive", f) \o <<Put(f)>> \in Seq(Accesses)
    BY <2>1
  <2>3. lru' \in [Pages -> Flags] /\ refs' \in [Pages -> Int]
    BY <1>t, <1>8 DEF PutOnList, ListsOK, Flags, Lists, kernelVars
  <2>4. Begin(LockHolder, AddTo("inactive", f) \o <<Put(f)>>) /\ UNCHANGED <<next, prev, size, pte>>
    BY <1>8 DEF PutOnList, kernelVars
  <2> QED
    BY <1>f, <1>t, <1>2, <2>2, <2>3, <2>4, <1>1, Begins
<1> QED
  BY <1>t, <1>1, <1>2, <1>3, <1>4, <1>5, <1>6, <1>7, <1>8 DEF KernelAction, Activate, Deactivate

\* mmput of process p, by its exit or by a call.
LEMMA DropMmKeeps ==
  ASSUME ShapeOK, NEW p \in Procs, DropMm(p)
  PROVE  /\ refs' \in [Pages -> Int]
         /\ pte' \in [Procs -> Pages]
         /\ \A q \in Procs : pte'[q] \in {pte[q], Frame0}
<1>1. /\ pte \in [Procs -> Pages] /\ refs \in [Pages -> Int] /\ Frame0 \in Pages
  BY DEF ShapeOK, ListsOK, Pages
<1> QED
  BY <1>1 DEF DropMm, DropRefs

LEMMA ExitKeeps ==
  ASSUME ShapeOK, NEW p \in Procs, Exit(p)
  PROVE  ShapeOK'
<1>1. DropMm(p) /\ UNCHANGED <<lru, next, prev, size, todo, callVars>>
  BY DEF Exit, listVars
<1>2. ListsOK'
  BY <1>1, DropMmKeeps DEF ShapeOK, ListsOK
<1> QED
  BY <1>1, <1>2, DropMmKeeps DEF ShapeOK, callVars

-----------------------------------------------------------------------------
(* The calls. *)

\* A step of a call that begins no list operation and leaves the mm alone.
QuietSteps(c) == (\E p \in Procs : FindTask(c, p)) \/ ReadPte(c) \/ PutPage(c)
LongSteps(c) == DelFolio(c) \/ AddFolio(c)

LEMMA LongKeeps ==
  ASSUME ShapeOK, NEW c \in CPUs, LongSteps(c)
  PROVE  ListsOK' /\ UNCHANGED <<alive, mmUsers, pte, proc, page>>
<1>1. ListsOK /\ page[c] \in Pages /\ c \in Threads
  BY DEF ShapeOK, Threads
<1>2. /\ UNCHANGED <<lru, next, prev, size, refs>>
      /\ UNCHANGED <<alive, mmUsers, pte, proc, page>>
  BY DEF LongSteps, DelFolio, AddFolio, listVars, kernelVars
<1>3. lru' \in [Pages -> Flags] /\ refs' \in [Pages -> Int]
  BY <1>1, <1>2 DEF ListsOK
<1>4. ListOf(page[c]) \in Lists
  BY DEF ListOf, Lists
<1>5. CASE DelFolio(c)
  <2>1. DelFrom(ListOf(page[c]), page[c]) \in Seq(Accesses)
    BY <1>1, <1>4, Operations
  <2>2. Begin(c, DelFrom(ListOf(page[c]), page[c]))
    BY <1>5 DEF DelFolio
  <2> QED
    BY <1>1, <1>2, <1>3, <2>1, <2>2, Begins
<1>6. CASE AddFolio(c)
  <2>1. <<Count("inactive", 1)>> \in Seq(Accesses) /\ AddTo("inactive", page[c]) \in Seq(Accesses)
    <3>1. Count("inactive", 1) \in Accesses /\ AddTo("inactive", page[c]) \in Seq(Accesses)
      BY <1>1, Operations DEF Lists, Heads
    <3> QED
      BY <3>1
  <2>2. Begin(c, IF ListOf(page[c]) = "unevictable" THEN <<Count("inactive", 1)>>
                 ELSE AddTo("inactive", page[c]))
    BY <1>6 DEF AddFolio
  <2>3. \E q \in Seq(Accesses) : Begin(c, q)
    BY <2>1, <2>2
  <2> QED
    BY <1>1, <1>2, <1>3, <2>3, Begins
<1> QED
  BY <1>5, <1>6 DEF LongSteps

LEMMA QuietKeeps ==
  ASSUME ShapeOK, NEW c \in CPUs, QuietSteps(c)
  PROVE  ListsOK' /\ page' \in [CPUs -> Pages] /\ UNCHANGED <<alive, mmUsers, pte>>
<1>1. /\ ListsOK /\ page \in [CPUs -> Pages] /\ pte \in [Procs -> Pages]
      /\ \A d \in CPUs : step[d] # "idle" => proc[d] \in Procs
  BY DEF ShapeOK
<1>2. /\ UNCHANGED <<lru, next, prev, size, todo>>
      /\ UNCHANGED <<alive, mmUsers, pte>>
  BY DEF QuietSteps, FindTask, ReadPte, PutPage, listVars, kernelVars
<1>3. CASE \E p \in Procs : FindTask(c, p)
  <2>1. UNCHANGED <<refs, page>>
    BY <1>3 DEF FindTask, kernelVars
  <2> QED
    BY <1>1, <1>2, <2>1 DEF ListsOK
<1>4. CASE ReadPte(c)
  <2>1. /\ UNCHANGED refs /\ step[c] = "pte"
        /\ page' = page \/ page' = [page EXCEPT ![c] = pte[proc[c]]]
    BY <1>4 DEF ReadPte, CallStep, kernelVars
  <2>2. pte[proc[c]] \in Pages
    BY <1>1, <2>1
  <2> QED
    BY <1>1, <1>2, <2>1, <2>2 DEF ListsOK
<1>5. CASE PutPage(c)
  <2>1. UNCHANGED page /\ refs' = [refs EXCEPT ![page[c]] = @ - 1] /\ page[c] \in Pages
    BY <1>1, <1>5 DEF PutPage, DropRefs
  <2> QED
    BY <1>1, <1>2, <2>1 DEF ListsOK
<1> QED
  BY <1>3, <1>4, <1>5 DEF QuietSteps

LEMMA ShapeStep == ShapeOK /\ [Next]_vars => ShapeOK'
<1> SUFFICES ASSUME ShapeOK, [Next]_vars PROVE ShapeOK'
  OBVIOUS
<1>t. /\ ListsOK /\ pte \in [Procs -> Pages] /\ page \in [CPUs -> Pages]
      /\ step \in [CPUs -> Steps]
      /\ proc \in [CPUs -> Procs \cup {NoProc}]
      /\ \A c \in CPUs : step[c] # "idle" => proc[c] \in Procs
      /\ Frame0 \in Pages
  BY DEF ShapeOK, Pages
<1>1. CASE UNCHANGED vars
  BY <1>1 DEF vars, listVars, kernelVars, callVars, ShapeOK, ListsOK
<1>2. ASSUME NEW f \in Frames, KernelAction(f)
      PROVE  ShapeOK'
  BY <1>2, KernelKeeps
<1>3. ASSUME NEW c \in CPUs, LongSteps(c)
      PROVE  ShapeOK'
  <2>1. ListsOK' /\ UNCHANGED <<pte, proc, page>>
    BY <1>3, LongKeeps
  <2>2. /\ step[c] # "idle"
        /\ \E s \in {"add", "put"} : step' = [step EXCEPT ![c] = s]
    BY <1>3 DEF LongSteps, DelFolio, AddFolio, CallStep, Goto
  <2> QED
    BY <1>t, <2>1, <2>2 DEF ShapeOK, Steps
<1>4. ASSUME NEW c \in CPUs, QuietSteps(c)
      PROVE  ShapeOK'
  <2>1. ListsOK' /\ page' \in [CPUs -> Pages] /\ UNCHANGED pte
    BY <1>4, QuietKeeps
  <2>2. CASE \E p \in Procs : FindTask(c, p)
    <3>1. PICK p \in Procs : FindTask(c, p)
      BY <2>2
    <3>2. step' = [step EXCEPT ![c] = "mm"] /\ proc' = [proc EXCEPT ![c] = p]
      BY <3>1 DEF FindTask, Goto
    <3> QED
      BY <1>t, <2>1, <3>2 DEF ShapeOK, Steps
  <2>3. CASE ReadPte(c) \/ PutPage(c)
    <3>1. /\ step[c] # "idle" /\ UNCHANGED proc
          /\ step' = step \/ \E s \in {"del", "mmput"} : step' = [step EXCEPT ![c] = s]
      BY <2>3 DEF ReadPte, PutPage, CallStep, Goto
    <3> QED
      BY <1>t, <2>1, <3>1 DEF ShapeOK, Steps
  <2> QED
    BY <1>4, <2>2, <2>3 DEF QuietSteps
<1>5. ASSUME NEW c \in CPUs, GetTaskMm(c)
      PROVE  ShapeOK'
  <2>1. /\ step[c] # "idle" /\ UNCHANGED <<lru, next, prev, size, refs, todo, pte, page>>
        /\ \/ step' = [step EXCEPT ![c] = "pte"] /\ UNCHANGED proc
           \/ step' = [step EXCEPT ![c] = "idle"] /\ proc' = [proc EXCEPT ![c] = NoProc]
    BY <1>5 DEF GetTaskMm, CallStep, Goto, listVars
  <2>2. ListsOK'
    BY <1>t, <2>1 DEF ListsOK
  <2> QED
    BY <1>t, <2>1, <2>2 DEF ShapeOK, Steps
<1>6. ASSUME NEW c \in CPUs, MmPut(c)
      PROVE  ShapeOK'
  <2>1. /\ step[c] # "idle" /\ UNCHANGED <<lru, next, prev, size, todo>>
        /\ DropMm(proc[c])
        /\ step' = [step EXCEPT ![c] = "idle"]
        /\ proc' = [proc EXCEPT ![c] = NoProc]
        /\ page' = [page EXCEPT ![c] = Frame0]
    BY <1>6 DEF MmPut, CallStep, Goto, listVars
  <2>2. refs' \in [Pages -> Int] /\ pte' \in [Procs -> Pages]
    BY <1>t, <2>1, DropMmKeeps
  <2>3. ListsOK'
    BY <1>t, <2>1, <2>2 DEF ListsOK
  <2> QED
    BY <1>t, <2>1, <2>2, <2>3 DEF ShapeOK, Steps
<1> QED
  BY <1>1, <1>2, <1>3, <1>4, <1>5, <1>6, AccessKeeps, ExitKeeps
     DEF Next, KernelAction, LongSteps, QuietSteps

-----------------------------------------------------------------------------
(* The users of an mm. *)

\* Two subsets of a finite set that differ in x at most.
LEMMA CountStep ==
  ASSUME NEW T, IsFiniteSet(T), NEW S \in SUBSET T, NEW R \in SUBSET T, NEW x,
         S \ {x} = R \ {x}
  PROVE  /\ Cardinality(S) \in Nat
         /\ Cardinality(R) = Cardinality(S) + (IF x \in R THEN 1 ELSE 0)
                                            - (IF x \in S THEN 1 ELSE 0)
<1>1. IsFiniteSet(S) /\ IsFiniteSet(R)
  BY FS_Subset
<1>2. Cardinality(S) \in Nat /\ Cardinality(R) \in Nat
  BY <1>1, FS_CardinalityType
<1>3. /\ Cardinality(S \ {x}) = IF x \in S THEN Cardinality(S) - 1 ELSE Cardinality(S)
      /\ Cardinality(R \ {x}) = IF x \in R THEN Cardinality(R) - 1 ELSE Cardinality(R)
  BY <1>1, FS_RemoveElement
<1>4. Cardinality(S \ {x}) = Cardinality(R \ {x})
  OBVIOUS
<1> QED
  BY <1>2, <1>3, <1>4

\* Calls between get_task_mm and mmput.
Users(p) == {c \in CPUs : proc[c] = p /\ step[c] # "mm"}

MmInv ==
  /\ ShapeOK
  /\ alive \subseteq Procs
  /\ mmUsers \in [Procs -> Int]
  /\ \A c \in CPUs : step[c] = "idle" => proc[c] = NoProc
  /\ MmHeld

\* A step that leaves the mm alone, and at most unmaps pages.
LEMMA MmQuiet ==
  ASSUME MmInv, ShapeOK', UNCHANGED <<alive, mmUsers>>,
         \A p \in Procs : pte'[p] \in {pte[p], Frame0} /\ Users(p)' = Users(p),
         \A c \in CPUs : step'[c] = "idle" => proc'[c] = NoProc
  PROVE  MmInv'
BY DEF MmInv, MmHeld, Users

\* A step of CPU c that changes the users of the mm of p.
LEMMA MmMoves ==
  ASSUME MmInv, ShapeOK', NEW p \in Procs, NEW c \in CPUs,
         alive' \subseteq Procs,
         mmUsers' \in [Procs -> Int],
         \A d \in CPUs : step'[d] = "idle" => proc'[d] = NoProc,
         \A q \in Procs : Users(q)' \ {c} = Users(q) \ {c},
         \A q \in Procs :
           mmUsers'[q] = mmUsers[q]
             + (IF q \in alive' THEN 1 ELSE 0) - (IF q \in alive THEN 1 ELSE 0)
             + (IF c \in Users(q)' THEN 1 ELSE 0) - (IF c \in Users(q) THEN 1 ELSE 0),
         \A q \in Procs : mmUsers'[q] = 0 => pte'[q] = Frame0
  PROVE  MmInv'
<1>1. ASSUME NEW q \in Procs
      PROVE  mmUsers'[q] = (IF q \in alive' THEN 1 ELSE 0) + Cardinality(Users(q)')
  <2>1. Users(q) \in SUBSET CPUs /\ Users(q)' \in SUBSET CPUs
    BY DEF Users
  <2>2. /\ Cardinality(Users(q)) \in Nat
        /\ Cardinality(Users(q)') = Cardinality(Users(q)) + (IF c \in Users(q)' THEN 1 ELSE 0)
                                                        - (IF c \in Users(q) THEN 1 ELSE 0)
    BY <2>1, CountStep
  <2>3. mmUsers[q] = (IF q \in alive THEN 1 ELSE 0) + Cardinality(Users(q))
    BY DEF MmInv, MmHeld, Users
  <2> QED
    BY <2>2, <2>3
<1>2. MmHeld'
  BY <1>1 DEF MmHeld, Users
<1> QED
  BY <1>2 DEF MmInv

\* mmput takes one user away, and the mapping when it was the last.
LEMMA MmDropped ==
  ASSUME MmInv, NEW p \in Procs, DropMm(p)
  PROVE  /\ mmUsers' = [mmUsers EXCEPT ![p] = @ - 1]
         /\ \A q \in Procs : pte'[q] \in {pte[q], Frame0}
         /\ mmUsers'[p] = 0 => pte'[p] = Frame0
BY DEF DropMm, MmInv, ShapeOK

LEMMA MmStep == MmInv /\ [Next]_vars => MmInv'
<1> SUFFICES ASSUME MmInv, [Next]_vars PROVE MmInv'
  OBVIOUS
<1>l. ShapeOK'
  BY ShapeStep DEF MmInv
<1>t. /\ pte \in [Procs -> Pages] /\ Frame0 \in Pages
      /\ step \in [CPUs -> Steps]
      /\ proc \in [CPUs -> Procs \cup {NoProc}]
      /\ \A c \in CPUs : step[c] # "idle" => proc[c] \in Procs
      /\ \A c \in CPUs : step[c] = "idle" => proc[c] = NoProc
      /\ alive \subseteq Procs /\ mmUsers \in [Procs -> Int]
  BY DEF MmInv, ShapeOK, Pages
<1>h. \A q \in Procs : mmUsers[q] = 0 => pte[q] = Frame0
  BY DEF MmInv, MmHeld
<1>1. CASE UNCHANGED <<alive, mmUsers, callVars>> /\ \A p \in Procs : pte'[p] \in {pte[p], Frame0}
  BY <1>l, <1>t, <1>1, MmQuiet DEF Users, callVars
<1>2. CASE UNCHANGED vars
  BY <1>t, <1>1, <1>2 DEF vars, kernelVars
<1>3. ASSUME NEW t \in Threads, Load(t) \/ Store(t)
      PROVE  MmInv'
  BY <1>t, <1>1, <1>3, AccessKeeps DEF MmInv
<1>4. ASSUME NEW f \in Frames, KernelAction(f)
      PROVE  MmInv'
  BY <1>1, <1>4, KernelKeeps DEF MmInv
<1>5. ASSUME NEW p \in Procs, Exit(p)
      PROVE  MmInv'
  <2>2. /\ p \in alive /\ alive' = alive \ {p}
        /\ UNCHANGED callVars
        /\ DropMm(p)
    BY <1>5 DEF Exit
  <2>3. /\ mmUsers' = [mmUsers EXCEPT ![p] = @ - 1]
        /\ \A q \in Procs : pte'[q] \in {pte[q], Frame0}
        /\ mmUsers'[p] = 0 => pte'[p] = Frame0
    BY <2>2, MmDropped
  <2>4. \A q \in Procs : Users(q)' = Users(q)
    BY <2>2 DEF Users, callVars
  <2>5. MmHeld'
    <3> SUFFICES ASSUME NEW q \in Procs
                 PROVE  /\ mmUsers'[q] = (IF q \in alive' THEN 1 ELSE 0) + Cardinality(Users(q)')
                        /\ mmUsers'[q] = 0 => pte'[q] = Frame0
      BY DEF MmHeld, Users
    <3>1. mmUsers[q] = (IF q \in alive THEN 1 ELSE 0) + Cardinality(Users(q))
      BY DEF MmInv, MmHeld, Users
    <3>2. Cardinality(Users(q)) \in Nat
      BY FS_Subset, FS_CardinalityType DEF Users
    <3> QED
      BY <1>t, <1>h, <2>2, <2>3, <2>4, <3>1, <3>2
  <2> QED
    BY <1>l, <1>t, <2>2, <2>3, <2>5 DEF MmInv, callVars
<1>6. ASSUME NEW c \in CPUs, NEW p \in Procs, FindTask(c, p)
      PROVE  MmInv'
  <2>1. /\ step[c] = "idle"
        /\ step' = [step EXCEPT ![c] = "mm"]
        /\ proc' = [proc EXCEPT ![c] = p]
        /\ UNCHANGED <<alive, mmUsers, pte>>
    BY <1>6 DEF FindTask, CallStep, Goto, kernelVars
  <2>2. \A q \in Procs : Users(q)' = Users(q)
    BY <1>t, <2>1 DEF Users
  <2>3. \A d \in CPUs : step'[d] = "idle" => proc'[d] = NoProc
    BY <1>t, <2>1
  <2> QED
    BY <1>l, <1>t, <2>1, <2>2, <2>3, MmQuiet
<1>7. ASSUME NEW c \in CPUs, GetTaskMm(c)
      PROVE  MmInv'
  <2>1. step[c] = "mm" /\ UNCHANGED <<alive, pte>> /\ proc[c] \in Procs
    BY <1>t, <1>7 DEF GetTaskMm, CallStep
  <2>2. CASE /\ mmUsers' = [mmUsers EXCEPT ![proc[c]] = @ + 1]
             /\ step' = [step EXCEPT ![c] = "pte"]
             /\ UNCHANGED proc
    <3>1. \A q \in Procs : /\ Users(q)' \ {c} = Users(q) \ {c}
                           /\ c \notin Users(q)
                           /\ c \in Users(q)' <=> q = proc[c]
      BY <1>t, <2>1, <2>2 DEF Users
    <3>2. \A d \in CPUs : step'[d] = "idle" => proc'[d] = NoProc
      BY <1>t, <2>1, <2>2
    <3>3. mmUsers[proc[c]] \in Nat
      <4>1. mmUsers[proc[c]] = (IF proc[c] \in alive THEN 1 ELSE 0) + Cardinality(Users(proc[c]))
        BY <2>1 DEF MmInv, MmHeld, Users
      <4>2. Cardinality(Users(proc[c])) \in Nat
        BY FS_Subset, FS_CardinalityType DEF Users
      <4> QED
        BY <4>1, <4>2
    <3>4. \A q \in Procs : mmUsers'[q] = 0 => pte'[q] = Frame0
      BY <1>t, <1>h, <2>1, <2>2, <3>3
    <3>5. \A q \in Procs : mmUsers'[q] = mmUsers[q] + (IF q = proc[c] THEN 1 ELSE 0)
      BY <1>t, <2>1, <2>2
    <3>6. mmUsers' \in [Procs -> Int] /\ alive' \subseteq Procs
      BY <1>t, <2>1, <2>2
    <3> QED
      BY <1>l, <1>t, <2>1, <3>1, <3>2, <3>4, <3>5, <3>6, MmMoves
  <2>3. CASE /\ step' = [step EXCEPT ![c] = "idle"]
             /\ proc' = [proc EXCEPT ![c] = NoProc]
             /\ UNCHANGED mmUsers
    <3>1. \A q \in Procs : Users(q)' = Users(q)
      BY <1>t, <2>1, <2>3 DEF Users
    <3>2. \A d \in CPUs : step'[d] = "idle" => proc'[d] = NoProc
      BY <1>t, <2>1, <2>3
    <3> QED
      BY <1>l, <1>t, <2>1, <2>3, <3>1, <3>2, MmQuiet
  <2> QED
    BY <1>7, <2>2, <2>3 DEF GetTaskMm, Goto
<1>8. ASSUME NEW c \in CPUs, ReadPte(c) \/ DelFolio(c) \/ AddFolio(c) \/ PutPage(c)
      PROVE  MmInv'
  <2>1. /\ step[c] \in {"pte", "del", "add", "put"}
        /\ step' = step \/ \E s \in {"del", "add", "put", "mmput"} : step' = [step EXCEPT ![c] = s]
        /\ UNCHANGED <<alive, mmUsers, pte, proc>>
    BY <1>8 DEF ReadPte, DelFolio, AddFolio, PutPage, CallStep, Goto, kernelVars
  <2>2. \A q \in Procs : Users(q)' = Users(q)
    BY <1>t, <2>1 DEF Users
  <2>3. \A d \in CPUs : step'[d] = "idle" => proc'[d] = NoProc
    BY <1>t, <2>1
  <2> QED
    BY <1>l, <1>t, <2>1, <2>2, <2>3, MmQuiet
<1>9. ASSUME NEW c \in CPUs, MmPut(c)
      PROVE  MmInv'
  <2>1. /\ step[c] = "mmput" /\ proc[c] \in Procs
        /\ step' = [step EXCEPT ![c] = "idle"]
        /\ proc' = [proc EXCEPT ![c] = NoProc]
        /\ UNCHANGED alive
        /\ DropMm(proc[c])
    BY <1>t, <1>9 DEF MmPut, CallStep, Goto
  <2>2. /\ mmUsers' = [mmUsers EXCEPT ![proc[c]] = @ - 1]
        /\ \A q \in Procs : pte'[q] \in {pte[q], Frame0}
        /\ mmUsers'[proc[c]] = 0 => pte'[proc[c]] = Frame0
    BY <2>1, MmDropped
  <2>3. \A q \in Procs : /\ Users(q)' \ {c} = Users(q) \ {c}
                         /\ c \notin Users(q)'
                         /\ c \in Users(q) <=> q = proc[c]
    BY <1>t, <2>1 DEF Users
  <2>4. \A d \in CPUs : step'[d] = "idle" => proc'[d] = NoProc
    BY <1>t, <2>1
  <2>5. \A q \in Procs : mmUsers'[q] = mmUsers[q] - (IF q = proc[c] THEN 1 ELSE 0)
    BY <1>t, <2>1, <2>2
  <2>6. \A q \in Procs : mmUsers'[q] = 0 => pte'[q] = Frame0
    BY <1>t, <1>h, <2>1, <2>2, <2>5
  <2>7. mmUsers' \in [Procs -> Int] /\ alive' \subseteq Procs
    BY <1>t, <2>1, <2>2
  <2> QED
    BY <1>l, <1>t, <2>1, <2>3, <2>4, <2>5, <2>6, <2>7, MmMoves
<1> QED
  BY <1>2, <1>3, <1>4, <1>5, <1>6, <1>7, <1>8, <1>9 DEF Next, KernelAction

LEMMA MmInit == Init => MmInv
<1> SUFFICES ASSUME Init PROVE MmInv
  OBVIOUS
<1>1. \A p \in Procs : Users(p) = {}
  BY DEF Init, Users
<1>2. \A p \in Procs : mmUsers[p] = (IF p \in alive THEN 1 ELSE 0) + Cardinality(Users(p))
  <2>1. alive = Procs /\ mmUsers = [p \in Procs |-> 1]
    BY DEF Init
  <2>2. \A p \in Procs : Cardinality(Users(p)) = 0
    BY <1>1, FS_EmptySet
  <2> QED
    BY <2>1, <2>2
<1>3. MmHeld
  BY <1>2 DEF Init, MmHeld, Users
<1> QED
  BY <1>3, ShapeInit DEF Init, MmInv

\* An mm is held by exactly the calls that are between get_task_mm and mmput, so it
\* outlives each of them and goes with the last: on every path, on any number of CPUs.
THEOREM MmBalanced == Spec => []MmHeld
<1>1. MmInv => MmHeld
  BY DEF MmInv
<1> QED
  BY <1>1, MmInit, MmStep, PTL DEF Spec

-----------------------------------------------------------------------------
(* Types. *)

\* What the other invariants do not say.
RestOK ==
  /\ broken \in {"no", "oops", "freed"}
  /\ calls \in 0 .. MaxCalls
  /\ returned \subseteq Pages
  /\ misfiled \in BOOLEAN
  /\ overlapped \in BOOLEAN

LEMMA RestInit == Init => RestOK
<1> SUFFICES ASSUME Init PROVE RestOK
  OBVIOUS
<1>1. broken = "no" /\ calls = 0 /\ returned = {} /\ misfiled = FALSE /\ overlapped = FALSE
  BY DEF Init
<1>2. calls \in 0 .. MaxCalls
  BY <1>1
<1> QED
  BY <1>1, <1>2 DEF RestOK

LEMMA RestStep == ShapeOK /\ RestOK /\ [Next]_vars => RestOK'
<1> SUFFICES ASSUME ShapeOK, RestOK, [Next]_vars PROVE RestOK'
  OBVIOUS
<1>1. CASE UNCHANGED vars
  BY <1>1 DEF vars, countVars, RestOK
<1>2. ASSUME NEW t \in Threads, Load(t) \/ Store(t)
      PROVE  RestOK'
  BY <1>2 DEF Load, Store, DropRefs, countVars, RestOK
<1>3. ASSUME NEW f \in Frames, KernelAction(f)
      PROVE  RestOK'
  BY <1>3 DEF KernelAction, Activate, Deactivate, Move, Isolate, Take, Unmap, Evict, PutOnList,
              Kernel, Begin, DropRefs, countVars, RestOK
<1>4. ASSUME NEW p \in Procs, Exit(p)
      PROVE  RestOK'
  BY <1>4 DEF Exit, DropMm, DropRefs, countVars, RestOK
<1>5. ASSUME NEW c \in CPUs, NEW p \in Procs, FindTask(c, p)
      PROVE  RestOK'
  BY <1>5 DEF FindTask, RestOK
<1>6. ASSUME NEW c \in CPUs, GetTaskMm(c) \/ ReadPte(c) \/ AddFolio(c) \/ PutPage(c)
      PROVE  RestOK'
  BY <1>6 DEF GetTaskMm, ReadPte, AddFolio, PutPage, Begin, DropRefs, countVars, RestOK
<1>7. ASSUME NEW c \in CPUs, DelFolio(c)
      PROVE  RestOK'
  BY <1>7 DEF DelFolio, Begin, RestOK
<1>8. ASSUME NEW c \in CPUs, MmPut(c)
      PROVE  RestOK'
  <2>1. UNCHANGED <<calls, misfiled, overlapped>> /\ DropMm(proc[c])
    BY <1>8 DEF MmPut
  <2>2. page[c] \in Pages /\ returned' = returned \cup {page[c]}
    BY <1>8 DEF MmPut, ShapeOK
  <2> QED
    BY <2>1, <2>2 DEF DropMm, DropRefs, RestOK
<1> QED
  BY <1>1, <1>2, <1>3, <1>4, <1>5, <1>6, <1>7, <1>8 DEF Next, KernelAction

\* Every reachable state is well typed: no mm has a negative number of users, and what
\* is written into a list is a page, a head or the poison, however stores interleave.
THEOREM WellTyped == Spec => []TypeOK
<1> DEFINE Inv == MmInv /\ RestOK
<1>1. Init => Inv
  BY MmInit, RestInit
<1>2. Inv /\ [Next]_vars => Inv'
  BY MmStep, RestStep DEF MmInv
<1>3. Inv => TypeOK
  <2> SUFFICES ASSUME Inv PROVE TypeOK
    OBVIOUS
  <2>1. ASSUME NEW p \in Procs
        PROVE  mmUsers[p] \in Nat
    <3>1. mmUsers[p] = (IF p \in alive THEN 1 ELSE 0) + Cardinality(Users(p))
      BY DEF MmInv, MmHeld, Users
    <3>2. Cardinality(Users(p)) \in Nat
      BY FS_Subset, FS_CardinalityType DEF Users
    <3> QED
      BY <3>1, <3>2
  <2>2. mmUsers \in [Procs -> Nat]
    BY <2>1 DEF MmInv
  <2> QED
    BY <2>2 DEF MmInv, RestOK, ShapeOK, ListsOK, Flags, Steps, TypeOK
<1> HIDE DEF Inv
<1> QED
  BY <1>1, <1>2, <1>3, PTL DEF Spec
=============================================================================
