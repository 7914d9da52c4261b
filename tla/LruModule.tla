----------------------------- MODULE LruModule -----------------------------
(***************************************************************************)
(* bpf_insert_file_vaddr_into_inactive_list, the kfunc of KernelModules/   *)
(* insert_file_vaddr_into_inactive_list, called on several CPUs at once by *)
(* a probe (eBPF/benchmark2 calls it for flags 0), next to a kernel that   *)
(* goes on managing the same pages.                                        *)
(*                                                                         *)
(* The kernel keeps two records of where a page is: its flags (lru), which *)
(* decide what list it is counted on, and the pointers it is chained by.   *)
(* It changes both under the lock of the lruvec; the kfunc changes the     *)
(* pointers and the sizes alone, and takes no lock.  Whoever changes them, *)
(* list_del, list_add and the += of a size are single loads and stores:    *)
(* todo holds those a thread is still to make, in their order, and each is *)
(* a step.  The loads that begin one operation are one step, and a list    *)
(* head is one page's neighbour like any other.                            *)
(* The references to pid, task and memcg, which no path drops, are not     *)
(* counted.                                                                *)
(***************************************************************************)
EXTENDS Integers, FiniteSets, Sequences

CONSTANTS
  Procs,      \* processes, each with one address that a file page may be mapped at
  Frames,     \* page frames that hold a page of the file
  Frame0,     \* page frame 0: reserved, on no list, what an empty PTE leads to
  CPUs,
  LockHolder, \* whatever task of the kernel has the lock of the lruvec
  NoProc,
  MaxCalls    \* bound of the model: calls made

ASSUME LruAssumption ==
  /\ Frame0 \notin Frames
  /\ NoProc \notin Procs
  /\ LockHolder \notin CPUs
  /\ IsFiniteSet(Procs) /\ IsFiniteSet(Frames) /\ IsFiniteSet(CPUs)
  /\ MaxCalls \in Nat

Pages == Frames \cup {Frame0}
Threads == CPUs \cup {LockHolder}
Lists == {"active", "inactive", "unevictable"}
\* Heads of lists: of the lruvec, and the private one of a reclaim.  Unevictable pages
\* are counted, not linked.
Heads == {"active", "inactive", "reclaim"}
Poison == "poison"
Places == Pages \cup Heads \cup {Poison}

VARIABLES
  alive,     \* processes that have not ended
  mmUsers,   \* mm_users of the mm of each process
  pte,       \* the page its address leads to
  lru,       \* per page, by its flags: a list, or "batched", "isolated" (on the private
             \* list), "held" (in the hands of a reclaim), "free"
  next, prev,  \* per page and list head
  size,      \* lru_size of each list
  refs,      \* reference count of each page
  broken,    \* "no", or why the kernel cannot go on
  todo,      \* per thread: the accesses its list operation is yet to make
  step, proc, page,  \* per CPU: next step of the call, its task and its page
  calls,     \* bound: calls made
  returned,  \* history: pages whose call has returned
  misfiled,  \* history: a call has moved a page that was not on the inactive list
  overlapped \* history: a list operation has begun during another thread's

listVars == <<lru, next, prev, size>>
kernelVars == <<alive, mmUsers, pte, refs>>
callVars == <<step, proc, page>>
countVars == <<calls, returned, misfiled>>
vars == <<listVars, kernelVars, broken, todo, callVars, countVars, overlapped>>

Mapping(f) == {p \in Procs : pte[p] = f}
\* folio_lru_list: a page off the lists has only the flags of an inactive one.
ListOf(f) == IF lru[f] \in Lists THEN lru[f] ELSE "inactive"

-----------------------------------------------------------------------------
(* Accesses to the lists. *)

Count(l, n) == [op |-> "count", at |-> l, val |-> n]          \* size[l] += n
Detach(f) == [op |-> "detach", at |-> f, val |-> Poison]      \* __list_del
Attach(f, h) == [op |-> "attach", at |-> f, val |-> h]        \* list_add
Set(field, x, y) == [op |-> field, at |-> x, val |-> y]       \* a store
Put(f) == [op |-> "put", at |-> f, val |-> 1]                 \* put_page

ListDel(f) == <<Detach(f), Set("next", f, Poison), Set("prev", f, Poison)>>

\* lruvec_del_folio and the two calls that make up its counterpart.
DelFrom(l, f) == <<Count(l, -1)>> \o (IF l = "unevictable" THEN <<>> ELSE ListDel(f))
AddTo(l, f) == <<Count(l, 1), Attach(f, l)>>

Accesses ==
  [op : {"count", "size"}, at : Lists, val : Int]
    \cup [op : {"next", "prev"}, at : Places, val : Places]
    \cup [op : {"detach"}, at : Pages, val : {Poison}]
    \cup [op : {"attach"}, at : Pages, val : Heads]
    \cup [op : {"flag"}, at : Pages, val : Lists]
    \cup [op : {"put"}, at : Pages, val : {1}]

Init ==
  /\ alive = Procs
  /\ mmUsers = [p \in Procs |-> 1]
  /\ pte \in [Procs -> Pages]
  /\ lru \in {w \in [Pages -> {"unevictable", "batched", "isolated"}] :
                w[Frame0] = "isolated" /\ \A f \in Frames : w[f] # "isolated"}
  /\ next = [x \in Pages \cup Heads |-> IF x \in Frames THEN Poison ELSE x]
  /\ prev = next
  /\ size = [l \in Lists |-> Cardinality({f \in Pages : lru[f] = l})]
  /\ refs = [f \in Pages |-> IF f = Frame0 THEN 1
                             ELSE 1 + Cardinality(Mapping(f)) + IF lru[f] = "batched" THEN 1 ELSE 0]
  /\ broken = "no"
  /\ todo = [t \in Threads |-> <<>>]
  /\ step = [c \in CPUs |-> "idle"]
  /\ proc = [c \in CPUs |-> NoProc]
  /\ page = [c \in CPUs |-> Frame0]
  /\ calls = 0
  /\ returned = {}
  /\ misfiled = FALSE
  /\ overlapped = FALSE

TypeOK ==
  /\ alive \subseteq Procs
  /\ mmUsers \in [Procs -> Nat]
  /\ pte \in [Procs -> Pages]
  /\ lru \in [Pages -> Lists \cup {"batched", "isolated", "held", "free"}]
  /\ next \in [Pages \cup Heads -> Places]
  /\ prev \in [Pages \cup Heads -> Places]
  /\ size \in [Lists -> Int]
  /\ refs \in [Pages -> Int]
  /\ broken \in {"no", "oops", "freed"}
  /\ todo \in [Threads -> Seq(Accesses)]
  /\ step \in [CPUs -> {"idle", "mm", "pte", "del", "add", "put", "mmput"}]
  /\ proc \in [CPUs -> Procs \cup {NoProc}]
  /\ page \in [CPUs -> Pages]
  /\ calls \in 0 .. MaxCalls
  /\ returned \subseteq Pages
  /\ misfiled \in BOOLEAN
  /\ overlapped \in BOOLEAN

\* The stores that follow from what an operation finds when it loads.
Stores(a) ==
  CASE a.op = "count"  -> <<Set("size", a.at, size[a.at] + a.val)>>
    [] a.op = "detach" -> <<Set("prev", next[a.at], prev[a.at]),
                            Set("next", prev[a.at], next[a.at])>>
    [] a.op = "attach" -> <<Set("prev", next[a.val], a.at), Set("next", a.at, next[a.val]),
                            Set("prev", a.at, a.val), Set("next", a.val, a.at)>>

Running == broken = "no"

\* Thread t starts an operation on the lists.
Begin(t, accesses) ==
  /\ todo[t] = <<>>
  /\ todo' = [todo EXCEPT ![t] = accesses]
  /\ overlapped' = (overlapped \/ \E u \in Threads \ {t} : todo[u] # <<>>)

\* A count that reaches zero frees a page the file still caches, and one that goes
\* below was dropped on a free page: what the kernel does then is not modelled.
\* Frame 0 is reserved, so the kernel complains and keeps it.
DropRefs(f, n) ==
  /\ refs' = [refs EXCEPT ![f] = @ - n]
  /\ broken' = IF refs'[f] <= 0 /\ f # Frame0 THEN "freed" ELSE "no"

Load(t) ==
  /\ Running /\ todo[t] # <<>>
  /\ Head(todo[t]).op \in {"count", "detach", "attach"}
  /\ todo' = [todo EXCEPT ![t] = Stores(Head(@)) \o Tail(@)]
  /\ UNCHANGED <<listVars, kernelVars, broken, callVars, countVars, overlapped>>

\* A store through a poisoned pointer stops the kernel.
Store(t) ==
  LET a == Head(todo[t])
  IN  /\ Running /\ todo[t] # <<>>
      /\ \/ /\ a.op \in {"next", "prev"} /\ a.at = Poison
            /\ broken' = "oops" /\ UNCHANGED <<listVars, refs>>
         \/ /\ a.op = "next" /\ a.at # Poison
            /\ next' = [next EXCEPT ![a.at] = a.val]
            /\ UNCHANGED <<lru, prev, size, refs, broken>>
         \/ /\ a.op = "prev" /\ a.at # Poison
            /\ prev' = [prev EXCEPT ![a.at] = a.val]
            /\ UNCHANGED <<lru, next, size, refs, broken>>
         \/ /\ a.op = "size"
            /\ size' = [size EXCEPT ![a.at] = a.val]
            /\ UNCHANGED <<lru, next, prev, refs, broken>>
         \/ /\ a.op = "flag"
            /\ lru' = [lru EXCEPT ![a.at] = a.val]
            /\ UNCHANGED <<next, prev, size, refs, broken>>
         \/ a.op = "put" /\ DropRefs(a.at, 1) /\ UNCHANGED listVars
      /\ todo' = [todo EXCEPT ![t] = Tail(@)]
      /\ UNCHANGED <<alive, mmUsers, pte, callVars, countVars, overlapped>>

-----------------------------------------------------------------------------
(* The kernel. *)

\* The task with the lock goes on only when its last operation is complete.
Kernel ==
  Running /\ todo[LockHolder] = <<>> /\ UNCHANGED <<callVars, countVars>>

\* Under the lock of the lruvec a page goes from the list of its flags to another.
Move(f, from, to) ==
  /\ Kernel /\ lru[f] = from
  /\ Begin(LockHolder, DelFrom(from, f) \o <<Set("flag", f, to)>> \o AddTo(to, f))
  /\ UNCHANGED <<listVars, kernelVars, broken>>

Activate(f) == Move(f, "inactive", "active")
Deactivate(f) == Move(f, "active", "inactive")

\* A reclaim takes a reference and moves the page to its private list.
Isolate(f) ==
  /\ Kernel /\ lru[f] \in {"active", "inactive"}
  /\ lru' = [lru EXCEPT ![f] = "isolated"]
  /\ refs' = [refs EXCEPT ![f] = @ + 1]
  /\ Begin(LockHolder, <<Detach(f), Attach(f, "reclaim"), Count(lru[f], -1)>>)
  /\ UNCHANGED <<next, prev, size, alive, mmUsers, pte, broken>>

\* It takes them from the end of that list one by one.
Take(f) ==
  /\ Kernel /\ prev["reclaim"] = f /\ lru[f] = "isolated"
  /\ lru' = [lru EXCEPT ![f] = "held"]
  /\ Begin(LockHolder, ListDel(f))
  /\ UNCHANGED <<next, prev, size, kernelVars, broken>>

\* It unmaps the page it has in hand,
Unmap(f) ==
  /\ Kernel /\ lru[f] = "held" /\ Mapping(f) # {}
  /\ pte' = [p \in Procs |-> IF pte[p] = f THEN Frame0 ELSE pte[p]]
  /\ DropRefs(f, Cardinality(Mapping(f)))
  /\ UNCHANGED <<listVars, alive, mmUsers, todo, overlapped>>

\* and frees one that only the file and the reclaim itself refer to.
Evict(f) ==
  /\ Kernel /\ lru[f] = "held" /\ Mapping(f) = {} /\ refs[f] = 2
  /\ lru' = [lru EXCEPT ![f] = "free"]
  /\ refs' = [refs EXCEPT ![f] = 0]
  /\ UNCHANGED <<next, prev, size, alive, mmUsers, pte, broken, todo, overlapped>>

\* A page of the per-CPU batch, or one that was not freed, goes on the inactive list.
PutOnList(f) ==
  /\ Kernel /\ lru[f] \in {"batched", "held"}
  /\ lru' = [lru EXCEPT ![f] = "inactive"]
  /\ Begin(LockHolder, AddTo("inactive", f) \o <<Put(f)>>)
  /\ UNCHANGED <<next, prev, size, kernelVars, broken>>

\* mmput: with the last user the process's mapping goes, and its reference.
DropMm(p) ==
  /\ mmUsers' = [mmUsers EXCEPT ![p] = @ - 1]
  /\ \/ /\ mmUsers[p] = 1 /\ pte[p] # Frame0
        /\ pte' = [pte EXCEPT ![p] = Frame0]
        /\ DropRefs(pte[p], 1)
     \/ (mmUsers[p] # 1 \/ pte[p] = Frame0) /\ UNCHANGED <<pte, refs, broken>>

Exit(p) ==
  /\ Running /\ p \in alive
  /\ alive' = alive \ {p}
  /\ DropMm(p)
  /\ UNCHANGED <<listVars, todo, callVars, countVars, overlapped>>

-----------------------------------------------------------------------------
(* The kfunc. *)

Goto(c, s) == step' = [step EXCEPT ![c] = s]
CallStep(c, s) == Running /\ step[c] = s /\ todo[c] = <<>>

\* The task is looked up; without one, or for address 0, the call ends.
FindTask(c, p) ==
  /\ CallStep(c, "idle") /\ calls < MaxCalls
  /\ calls' = calls + 1
  /\ p \in alive
  /\ proc' = [proc EXCEPT ![c] = p]
  /\ Goto(c, "mm")
  /\ UNCHANGED <<listVars, kernelVars, broken, todo, page, returned, misfiled, overlapped>>

\* Seeded fault: task->mm is used without a reference.
GetTaskMm_Borrowed(c) ==
  /\ CallStep(c, "mm")
  /\ Goto(c, "pte")
  /\ UNCHANGED <<listVars, kernelVars, broken, todo, proc, page, countVars, overlapped>>

\* get_task_mm: nothing to do for a task that has given up its memory.
GetTaskMm(c) ==
  /\ CallStep(c, "mm")
  /\ \/ /\ proc[c] \in alive
        /\ mmUsers' = [mmUsers EXCEPT ![proc[c]] = @ + 1]
        /\ Goto(c, "pte")
        /\ UNCHANGED proc
     \/ /\ proc[c] \notin alive
        /\ proc' = [proc EXCEPT ![c] = NoProc]
        /\ Goto(c, "idle")
        /\ UNCHANGED mmUsers
  /\ UNCHANGED <<listVars, alive, pte, refs, broken, todo, page, countVars, overlapped>>

\* The PTE is read under its lock, whether or not it is present.  get_locked_pte
\* returns NULL when it cannot allocate the table, and the call reads through it.
ReadPte(c) ==
  /\ CallStep(c, "pte")
  /\ \/ broken' = "oops" /\ UNCHANGED <<page, step>>
     \/ /\ page' = [page EXCEPT ![c] = pte[proc[c]]]
        /\ Goto(c, "del")
        /\ UNCHANGED broken
  /\ UNCHANGED <<listVars, kernelVars, todo, proc, countVars, overlapped>>

\* Seeded fault: list_del, which leaves the size alone.
DelFolio_ListDel(c) ==
  /\ CallStep(c, "del")
  /\ Begin(c, ListDel(page[c]))
  /\ misfiled' = (misfiled \/ lru[page[c]] # "inactive")
  /\ Goto(c, "add")
  /\ UNCHANGED <<listVars, kernelVars, broken, proc, page, calls, returned>>

\* lruvec_del_folio, for the list of its flags, wherever the page is linked.
DelFolio(c) ==
  /\ CallStep(c, "del")
  /\ Begin(c, DelFrom(ListOf(page[c]), page[c]))
  /\ misfiled' = (misfiled \/ lru[page[c]] # "inactive")
  /\ Goto(c, "add")
  /\ UNCHANGED <<listVars, kernelVars, broken, proc, page, calls, returned>>

\* Seeded fault: an active page is not added.
AddFolio_Dropped(c) ==
  /\ CallStep(c, "add")
  /\ Begin(c, IF ListOf(page[c]) = "inactive" THEN AddTo("inactive", page[c])
              ELSE <<Count("inactive", 1)>>)
  /\ Goto(c, "put")
  /\ UNCHANGED <<listVars, kernelVars, broken, proc, page, countVars>>

\* The flags are read again; then the page is counted as inactive, and linked unless
\* it is unevictable.
AddFolio(c) ==
  /\ CallStep(c, "add")
  /\ Begin(c, IF ListOf(page[c]) = "unevictable" THEN <<Count("inactive", 1)>>
              ELSE AddTo("inactive", page[c]))
  /\ Goto(c, "put")
  /\ UNCHANGED <<listVars, kernelVars, broken, proc, page, countVars>>

\* put_page, although the call took no reference to the page.
PutPage(c) ==
  /\ CallStep(c, "put")
  /\ DropRefs(page[c], 1)
  /\ Goto(c, "mmput")
  /\ UNCHANGED <<listVars, alive, mmUsers, pte, todo, proc, page, countVars, overlapped>>

MmPut(c) ==
  /\ CallStep(c, "mmput")
  /\ DropMm(proc[c])
  /\ returned' = returned \cup {page[c]}
  /\ proc' = [proc EXCEPT ![c] = NoProc]
  /\ page' = [page EXCEPT ![c] = Frame0]
  /\ Goto(c, "idle")
  /\ UNCHANGED <<listVars, alive, todo, calls, misfiled, overlapped>>

-----------------------------------------------------------------------------
Next ==
  \/ \E f \in Frames : \/ Activate(f) \/ Deactivate(f) \/ Isolate(f) \/ Take(f)
                        \/ Unmap(f) \/ Evict(f) \/ PutOnList(f)
  \/ \E p \in Procs : Exit(p)
  \/ \E c \in CPUs : \/ \E p \in Procs : FindTask(c, p)
                     \/ GetTaskMm(c) \/ ReadPte(c) \/ DelFolio(c) \/ AddFolio(c)
                     \/ PutPage(c) \/ MmPut(c)
  \/ \E t \in Threads : Load(t) \/ Store(t)

Spec == Init /\ [][Next]_vars

-----------------------------------------------------------------------------
\* No list operation is under way.
Settled == Running /\ \A t \in Threads : todo[t] = <<>>
\* A call has taken the page off its list and is yet to add it.
InHand(f) == \E c \in CPUs : step[c] = "add" /\ page[c] = f

\* The pages a walk from list head h along next comes to.
Chain(h) ==
  LET reach[n \in 0 .. Cardinality(Pages)] ==
        IF n = 0 THEN {next[h]} ELSE reach[n-1] \cup {next[f] : f \in reach[n-1] \cap Pages}
  IN  reach[Cardinality(Pages)] \cap Pages

OnAList(f) == \E h \in Heads : f \in Chain(h)

\* As long as no list operation begins during another one, whatever the kernel and
\* other calls do between the two operations of a call: the lists are whole in both
\* directions, and a page whose flags put it on one is on one, or in a call's hand.
ListsWhole ==
  Settled /\ ~overlapped =>
    /\ \A h \in Heads : \A x \in Chain(h) \cup {h} :
         next[x] \in Chain(h) \cup {h} /\ prev[next[x]] = x
    /\ \A f \in Pages :
         lru[f] \in {"active", "inactive"} => OnAList(f) \/ InHand(f)

\* And the sizes of the lists agree with the pages linked into them, as long as calls
\* only take pages off the inactive list.
SizesMatch ==
  Settled /\ ~overlapped /\ ~misfiled =>
    \A l \in {"active", "inactive"} : size[l] = Cardinality(Chain(l))

\* A page that a call was made for is on a list when the call is over and nothing is
\* under way.  This is NOT so (run lost_page): nothing keeps list operations apart.
StaysListed ==
  Settled =>
    \A f \in returned : lru[f] \in {"active", "inactive"} => OnAList(f) \/ InHand(f)

\* The mm of a process is held by exactly the calls between get_task_mm and mmput:
\* it lives as long as one of them may read its page table, and no longer.
MmHeld ==
  \A p \in Procs :
    /\ mmUsers[p] = (IF p \in alive THEN 1 ELSE 0)
                     + Cardinality({c \in CPUs : proc[c] = p /\ step[c] # "mm"})
    /\ mmUsers[p] = 0 => pte[p] = Frame0
=============================================================================
