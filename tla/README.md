# PagePatrol in TLA+

PagePatrol lets a process tell the kernel what to do with single pages of the
page cache: put the page behind an address on the active or the inactive list,
pin it, unpin it. A small client library writes requests into a BPF map, an eBPF
probe in the kernel takes them out and calls kernel functions (kfuncs) for them.
This directory holds TLA+ models of that machinery, the TLC configurations that
check them and TLAPS proofs about them.

## The system

| part | code | state | operations |
|---|---|---|---|
| client library | `API/PagePatrol.h`, `API/common.h` | `pid_va` (staging buffer), `idx` (ring index), map descriptor, per process | `init_page_patrol`, `mark_va_for_activation`, `mark_va_for_deactivation`, `pin_va`, `unpin_va` |
| request map | `pid_va_map` in the eBPF programs, kernel hash map | key -> `struct pid_va`, pool of entries | lookup (returns a pointer), update, delete |
| apply probe | `eBPF/insert_file_vaddr_into_inactive_list_kfunc` | loop counter and registers per CPU | scan of the whole map on each entry of `__task_pid_nr_ns` |
| frequency pinner | `eBPF/pinning_freaquent_pages` | `va_frequency_array`, `va_frequency_map`, `min_heap`, `pinned_va_map` | count requests and select the most frequent on each `shrink_lruvec` |
| indexed drain probes | `eBPF/debug`, `eBPF/benchmark2` | slot 0 of the map as a header | scan from the index of the header on `pid_nr_ns` |
| LRU kernel module | `KernelModules/insert_file_vaddr_into_inactive_list` | per call its task, mm and page; shared with the kernel: LRU lists and sizes, page flags, page tables, reference counts | kfunc `bpf_insert_file_vaddr_into_inactive_list` |
| VA to PA translation | `KernelModules/translate_va2pa`, `eBPF/translate_va2pa_kfunc`, `UserPrograms/translate_va2pa` | three maps of one entry | user program, probe on `do_unlinkat`, kfunc |
| workloads | `Benchmarks/Microbenchmark`, `Benchmarks/graph` | position, iteration, visit counts | access patterns that call the library |

How they interact. A call of the library writes slot `idx` of the map and ends
with `getpid()`. In the kernel `getpid()` runs `__task_pid_nr_ns`, the function
the apply probe is attached to, so the probe runs on the caller's CPU before the
call returns and drains the map: the protocol is synchronous, although nothing in
the library says so. The probe also runs whenever any other task asks for a pid,
on any CPU, and two probes are not excluded from each other.

What is hard about it:

* probes on several CPUs and clients share the map without a lock; a lookup
  returns a pointer into an entry that another CPU may delete and a client may
  get again for its next request;
* deletion is by key, so it hits whatever the key holds by then;
* every process has its own ring index into the one map, and each starts at 0;
* updates fail, maps cannot be opened, clients are killed in the middle of a call;
* the frequency pinner works on array maps, where deletion does not exist, with a
  size it copied at the start;
* the map is pinned by name and outlives the program: clients go on writing while
  no probe is attached, and a probe that runs at the unload goes on to its end;
* the kfuncs take references and locks with early returns in between, and the one
  for the LRU lists works beside the kernel's own list management without its lock.

What makes the parts correct: a call takes effect exactly once, between its start
and its return, with the arguments it was given, and every call returns (library,
map and probe); every request is counted once and the list of addresses agrees
with the hash of frequencies (pinner); the scan leaves nothing behind wherever it starts
(indexed probes); the mm and the page a kfunc holds are dropped on every path and no
reference it did not take, no page is lost from the lists, and their sizes count what they
hold (kernel modules: for references and lists of the LRU one this is not so, see below);
an answer belongs to the question asked (translation); requests applied late are
applied in order (loading and unloading).

## Modules

| module | models | state and actions |
|---|---|---|
| `PidVaMap` | the shared hash map | `slot` (key -> entry), `cell` (entry -> contents). `MapUpdate` links a fresh entry and leaves the old one readable, `MapDelete` unlinks by key. Kernel code, modelled from its use |
| `PagePatrolApi` | `API/PagePatrol.h` | `pc`, `idx`, `pid_va` per process. `InitPagePatrol` / `GetpidReturns` / `OpenMap` are the three parts of `init_page_patrol`; the four calls share `Submit` (stage, write, advance on success) and end in `GetpidReturns`; `Exit` |
| `PidVaProbe` | the apply probe | per CPU `task`, `step`, `i`, `ptr`, `va`, `flags`. `Enter`, then per slot `Lookup`, `LoadVa`, `LoadFlags`, `CallKfunc`, `Delete`, finally `Leave`. `active` and `pinned` stand for what the kfuncs do to pages |
| `PagePatrol` | library, map and probe on a set of CPUs | the composed actions, three history variables (`fate`, `lag`, `seen`), the properties, fairness |
| `PageHints` | what the library promises | one call per process: asked for, performed at most once, returned |
| `PagePatrolHints` | `PagePatrol` implements `PageHints` | the refinement mapping |
| `PagePatrolInv` | | the inductive invariants, in named parts |
| `Lifecycle` | `PagePatrol` while its program is loaded and unloaded | `attached`, `published` (the pinned file), and the numbers of the requests. `Load`, `Unload`; `OpenPublished`, `NumberedCall`, `ReturnUnprobed` (a `getpid()` without a probe), `EnterAttached`, `NumberedScan`, `FinishServed` |
| `LifecycleInv` | | the inductive invariant behind the order of requests, in named parts |
| `IndexedDrain` | the two programs on the same map, `debug` and `benchmark2`, under `PagePatrolApi` | per CPU `task`, `step`, `times`, `at`, `ptr`, `flags`. `Enter`, `LookupHeader`, `LoadStart`, per slot `Lookup`, `LoadFlags`, `CallKfunc`, `Delete`, finally `Return`. `program` is chosen at the start |
| `FrequencyPinner` | the frequency pinner | `ApiCall`; per CPU `Enter`, per slot `Skip` / `ReadFrequency` / `TableFull` / `WriteSize` / `WriteAddress` / `WriteFrequency`, finally `Select` |
| `TranslateService` | the translation: user program, probe and kfunc | per user `OpenMaps`, `PutPid`, `PutVa`, `ReadPa` (the end of the sleep), `CleanUp`, `Kill`; per CPU `Unlink`, `LookupPid`, `LookupVa`, the kfunc in the steps `FindTask`, `GetTaskMm`, `PinUserPage`, `Populate`, then `StorePa`. `mmUsers` and `pagePins` are the references a kfunc holds |
| `LruModule` | the LRU kfunc beside the kernel | per page its flags (`lru`) and `refs`, per page and list head the pointers `next` and `prev`, per list `size`, per process `pte` and `mmUsers`, per thread the accesses of its list operation that are still to be made (`todo`). The kfunc: `FindTask`, `GetTaskMm`, `ReadPte`, `DelFolio`, `AddFolio`, `PutPage`, `MmPut`. The kernel: `Activate`, `Deactivate`, `Isolate`, `Take`, `Unmap`, `Evict`, `PutOnList`, `Exit`. Both: `Load` and `Store`, the accesses of list operations |
| `PagePatrolApiProofs` | | facts about map and library for the proofs of every program on the map |
| `PagePatrolProofs`, `OneCpuProofs` | | proofs about `PagePatrol` for every number of CPUs, and for one |
| `LifecycleProofs`, `IndexedProofs`, `FrequencyProofs`, `TranslateProofs`, `LruProofs` | | proofs about the module of that name |
| `MCPagePatrol`, `MCLifecycle`, `MCIndexedDrain`, `MCFrequencyPinner`, `MCTranslateService`, `MCLruModule` | | symmetry and views for TLC |

Definitions whose name contains `_` after the name of another definition
(`Delete_Omitted`, `Advance_Stuck`, ...) are seeded faults: variants of the code
each of which breaks one of the checked properties.

### How the model corresponds to the code

* One step of the probe is one access to shared memory: a helper call, one load
  through the pointer, or a kfunc call. The compiler may keep what it loaded in a
  register, so address and flags are loaded once and the pid with the call.
* A probe runs with preemption disabled. A CPU that runs one does nothing else
  (`CpuFree` guards the clients' steps), and a process inside `getpid()` goes on
  when its probe has finished. With one CPU this makes a probe atomic towards the
  clients; that is a consequence here, not an assumption of the properties.
* The entries of the hash map come from a preallocated pool and are reused at
  once; a stale pointer therefore reads whatever was put there next.
* A process id identifies a process; it is not reused. `VAs` are addresses of
  mapped file pages, `NullVA` is address 0. File contents and physical pages do
  not occur, a kfunc adds or removes `<<pid, va>>` or fails.
* An update may fail at any time; so may a kfunc. `bpf_obj_get` may fail.
* A process may be killed outside the kernel, with its request in the map.
* `fate[p]` records what became of the last request of `p`, `lag[c]` how many
  requests were written since the probe on `c` began (up to the ring's size),
  `seen[c]` what the entry held when `c` looked it up. They decide nothing.
* Loading, unloading and re-loading the program around the pinned map is `Lifecycle`;
  in the other modules it stays loaded. Several threads in one client and logging are
  not modelled.
* `Lifecycle` numbers the requests. `missed` is the last one whose call returned without
  a probe, `together` marks probes that overlapped, `skewed` that a scan may meet
  requests out of order: the ring wrapped over pending requests, or a probe from before
  the unload was still running. They decide nothing.
* In `IndexedDrain` the start of a scan is whatever operation the request in slot 0 has,
  since the library knows no header. `debug` calls nothing, `benchmark2` pins for flags 1
  and would call the other kfunc for flags 0, which the library never writes.
* In `TranslateService` `<<u, v>>` stands for the physical address of `v` in `u`; a
  page does not move while a kfunc holds it. The probe loads pid and address when
  it looks them up. As written it also dereferences the pointer it has just found
  to be NULL, for a message; that is left out. `pin_user_pages_remote` may return
  1, an error or 0: newer kernels return 0 for the flags the kfunc passes, and the
  kfunc then reports success with address 0, which is why `TrustedAnswer` allows 0.
* `FrequencyPinner` runs the program with 4-byte keys. As written it declares
  8-byte keys for two array maps, which the kernel refuses to create. The selection
  returns on its first address, in the bubble-up loop, so what follows the loop is never
  reached and has no action. A client may overwrite a slot while a probe counts it;
  `mixed` records that, and that two probes overlapped.
* In `TranslateService` `FindTask` returns for address 0 as for a process that is gone, so
  the address 0 that may be answered comes from `pin_user_pages_remote` only.
* `LruModule` follows the list operations to their single loads and stores. `DelFolio` and
  `AddFolio` decide, by the flags of the page, what the operation consists of and put it
  in `todo`; each access then is a step, `Load` for what is read (a `+=`, the neighbours of
  a page, the first page of a list) and `Store` for every word written. The loads at the
  start of one operation are one step. The kernel's own operations are built from the
  same accesses; all that hold the lock of the lruvec are made by one thread, `LockHolder`,
  which begins the next when the last is complete. The kfunc takes no lock, so its
  accesses fall between those of the kernel and of other calls. `LockHolder` also
  stands for the reclaim's work on its private list, which takes no lock.
* A page keeps its flags when the kfunc moves it, the kernel changes flags and links
  together. Unevictable pages are counted and not linked. There is one lruvec. An address
  without a page leads to page frame 0, which is reserved and on no list. The references
  to pid, task and memcg are dropped on no path and not counted. A store through a
  poisoned pointer, a page table that cannot be allocated and a page freed with references
  left end in `broken`, after which nothing happens any more. The checks of
  `CONFIG_DEBUG_LIST`, and the kernel's correction of a size that it finds below zero, are
  left out.

## Runs

| run | instance | shows |
|---|---|---|
| `one_cpu` | 1 CPU, 2 clients, 2 slots, 3 entries, 1 address, all operations | types; a call drains the map; requests applied exactly once unless overwritten (`AppliedOnce`); kfunc arguments belong together; pages move only inside a matching call; the invariant of the proofs |
| `lifecycle` | 2 CPUs, 1 client, 3 slots, 4 entries, 4 requests | the probe a call waits for takes out everything of its process, left-overs included (`DrainedWhenServed`, `ServeCore`); a slow probe deletes a request it did not read only after a whole turn of the ring passed under it, or when what it read was left over (`LostOnlyWhenLapped`); requests are applied once and in order, with the exceptions named (`AppliedInOrder`); the invariant of the proofs (`RequestsInRing`) |
| `hints` | 1 CPU, 1 client, 2 slots, 3 entries, 3 operations | `PagePatrol` implements `PageHints`, with fairness; every call returns although other tasks keep taking the CPU |
| `indexed` | 1 CPU, 2 clients, 5 slots, 6 entries, 3 operations, both programs | the scan drains every slot but 0 wherever it starts (`DrainedBehindHeader`); slot 0 is never emptied (`HeaderKept`) |
| `frequency` | 2 CPUs, 3 slots, a table of 2 for 3 addresses | list and hash agree between probes that did not disturb each other; such a scan counts every slot but 0 once, wherever it starts |
| `translate` | 2 CPUs, 2 users, 2 addresses | a user that finds neither an old address nor an old answer nor a request under way, and that nobody overwrites, prints its own translation however late the probes are (`TrustedAnswer`); the kfunc drops mm and page on every path (`RefsDropped`) |
| `lru` | 2 CPUs, 2 processes, 2 frames and frame 0, 2 calls, list operations that do not overlap | whatever kernel and calls do between the operations of a call, the lists stay whole in both directions and hold every page whose flags say so (`ListsWhole`), and the sizes count what is linked while calls are for inactive pages (`SizesMatch`); an mm is held by exactly the calls that use it (`MmHeld`) |

Five runs end in a violation and document where the code does not do what the
repository says of it:

| run | what TLC finds |
|---|---|
| `torn_call` | 2 CPUs: a kfunc is called with parts of two requests, because the entry was reused between the loads |
| `slot_collision` | 1 CPU, 2 clients: the second client writes slot 0 too before the first one's probe ran; the first request is lost |
| `recounted` | the pinner's delete has no effect on an array map, every reclaim counts the same requests again |
| `mixed_answer` | a user of the translation prints the address of another user's page: pid, address and answer of all users share key 0 |
| `lost_page` | the kfunc's `list_add` falls between the stores of the kernel's, on the same list: when both are done the page of the call is on no list |

Several properties are stated with exceptions, and the exceptions are what is wrong
with the code there. `ListsWhole` and `SizesMatch` speak of list operations that do not
overlap (`overlapped`); nothing in the kfunc keeps them apart, and `lost_page` shows what
then happens to a page. A count is lost the same way, as its `+=` is a load and a store.
`SizesMatch` also fails for a call on a page that is not inactive (`misfiled`),
`ListMatchesMap` for two CPUs in `shrink_lruvec` at once or a client that overwrites the
slot being counted, and `HeaderKept` says that a request in slot 0 is never served.
`AppliedOnce`, `CallsWhatItLookedUp` and `OnlyCallsMovePages` are checked and proved on one
CPU: on two a probe may apply a request that another has applied, or apply it after its
call returned, by schedules like that of `torn_call`.

Three more disagreements are in the models as the code has them, and no property claims
the opposite:

* `LruModule`, `PutPage`: "Release the page reference" (line 70 of the kfunc) gives back a
  reference the call never took. Every call leaves its page with one reference less than
  its owners hold, without any interference; when they drop theirs, the page is freed
  while it is still in use (`broken` = "freed").
* `IndexedDrain`, `Benchmark2Calls`: `common.h` says that 1 means pin, and `benchmark2`
  pins for 1; `PagePatrol.h` writes 1 for an activation and 3 for pinning. Under `benchmark2`
  every activation pins its page, and `pin_va` pins nothing.
* `FrequencyPinner`, `Select`: the bubble-up loop is guarded the wrong way round, so the
  selection returns on the first address, and `pinned_va_map`, "Map to hold the top pinned
  VAs", stays empty.

Bounds. Two clients and two CPUs are the least for the races above, two users the
least that can disturb each other (a user runs the program once). Two slots let a probe
be at a slot while a client writes the other and make the ring wrap; a third separates
"one behind" from "lapped", and `MaxWrites` = 4 is one request more than that ring, so
that lapping happens. One entry more than slots is the least with which an update can
replace a linked entry, so reuse happens as early as possible. `indexed` has five slots,
the least above the four operations a start index can be. `Ops` restricts which calls
the clients make; `one_cpu` uses all four, `indexed` those that differ to its probes.
`MaxCalls` = 2 lets two CPUs call at once, for the same page or for two; with the
constraint `NoOverlap` the run `lru` checks states in which operations overlap and does
not go on from them, since nothing is claimed of the lists then. `lost_page`
needs one process, one CPU and one call. Both allow deadlock: the calls are bounded and the kernel may be broken. `MaxFrequency`
keeps the frequencies finite: a reclaim that could pass it by itself does not start.
It is no part of `TypeOK`, since probes that overlap can write frequencies past it. The code's
counters are 64 bits wide. With two CPUs each probe may add two to an address in
`frequency`, so 8 lets both run twice. Once two probes mixed the tables up nothing is
claimed of them: those states are checked and not explored further (`Unmixed`).
`IntBits` scales the widths of `int` and `__u64` for the conversion in `ParentIndex`,
whose outcome for index 0 is the same for every width.

Views and symmetry. Entries, addresses, users, frames and (where no fairness is used)
CPUs are compared for equality only, so the safety runs permute them. The views leave
out the contents of entries that are neither linked nor referenced by a probe, and the
history variables a run's properties do not read; `indexed`, on one CPU, looks at what
keys and pointer lead to and not at which entry holds it. The runs with temporal
properties on fairness (`hints`) use neither.

Fairness. `WF` for the steps of a running probe: it is never preempted and its
loop is bounded. `SF`, per process, for entering the probe: a process inside
`getpid()` is runnable but may find the CPUs taken again and again; the scheduler
does not starve it. Clients are not required to call or to go on.

## Proofs

All proofs are checked by TLAPS, for every value of the constants, from the named
assumptions only: `MapAssumption`, `ApiAssumption`, `ProbeAssumption` (the ring has a
slot; NULL is no entry, pid 0 no client, address 0 no page; the markers of a CPU without
client are no clients), `LifecycleAssumption` and `PinnerAssumption` (bounds and sizes are
numbers, a table holds at least two addresses), `IndexedAssumption` (more slots than
operations), `TranslateAssumption` and `LruAssumption` (what is counted is finite).

`PagePatrol`, any number of CPUs:

* `TypeCorrect`: `Spec => []TypeOK`. Needs `RegistersOK`: a probe past its lookup
  holds an entry and past its first check an address other than 0.
* `Drained`: `Spec => []DrainedOnReturn`. The invariant is `DrainInv`. The heart of it is
  `ServesClient`: the probe that works for `p` has no request of `p` at the slots it has
  passed. It needs `OneProbePerClient` (else another probe could still be serving `p`
  when `p` goes on) and `PidStored` (else a request of another process would count as
  `p`'s).
* `ProbeEnds`: `Spec => ScanAdvances`. `Left` counts the steps a probe has left; each of
  its own lowers it, no step of a client or another probe touches it. This is the part of
  `CallsReturn` that does not need fairness: at most `5 * MAX_PID_VA_ENTRIES` accesses
  lie between the start of a probe and its end.

`PagePatrol` on one CPU, where `torn_call` shows why the hypothesis cannot be dropped:

* `Applied`, `NotTorn`, `PagesFollowCalls`, `ScanInOrder`: `AppliedOnce`,
  `CallsWhatItLookedUp`, the action property `OnlyCallsMovePages`, and the invariant
  behind them. It adds to `DrainInv` that every process has at most one key
  (`OneKeyPerClient`), that a linked request is the last one of its process, which is
  still in the call or died in it (`LinkedIsCurrent`), that the fate of a process agrees
  with where its request is (`FateMatchesMap`) and that the registers agree with the
  entry (`RegistersCurrent`). `OneCpuScan` is the interesting lemma: the accesses of the
  probe that keep the request, those that move on, and the kfunc call.
* `ImplementsHintsSafely`, with one client: the initial states are initial states of
  `PageHints`, and every step is one of its steps or stutters. Four lemmas give the steps
  that are visible there (`CallAsks`, `ScanPerforms`, `FinishReturns`) and the rest
  (`HintStutters`); that a request performed is the one asked for is `OneCpuInv`. A request that is dropped,
  overwritten or applied twice is mapped to a status `PageHints` does not have, so that it
  cannot pass for one performed; `SoleClientKept` excludes the second.

`Lifecycle`: `ServedDrained`, `ServedInOrder`, `LifeTyped`. `ServeCore` is the part of
`DrainInv` that does not mention returning, so it survives calls that return unprobed;
`DrainedWhenServed` then follows a process from the step in which its probe ends.
`NumbersOK` bounds the numbers of requests by those given out.

`Lifecycle` with one client, any ring and any number of CPUs: `RingFollowed`,
`OnlyLappedLost`, `InOrder` (`RequestsInRing`, `LostOnlyWhenLapped`, `AppliedInOrder`).
One client is needed: each has a ring index of its own, so with two the slot says nothing
about the number (`slot_collision`). The argument goes as follows.

* Every kind of step is first reduced to what it does to numbers and places (`Effect`:
  `Rests`, `Writes`, `ReturnsAlone`, `Enters`, `Scans`, `Finishes`); the parts of the
  invariant are then kept one by one.
* `NumbersMatch`: the request in slot `k` has a number that leads to `k` modulo the ring,
  and `idx` is where the next number leads. `ReadsMatch`: what a probe has read is an
  earlier or the present number of its slot. `NextRest` and `TurnApart` are the facts
  about remainders: the next index is that of the next number, and two numbers of one
  slot are at least a whole ring apart.
* `Recent`: only the request of the call under way was written after the last call that no
  probe served; here `DrainedWhenServed` is used, for the call that returns served.
  `NotLapped`: a probe that read such a request has `lag` at least as large as what was
  written since. If its slot holds another number, `TurnApart` makes that a whole ring.
* `Order`, unless `skewed`: waiting requests are numbered upwards along the slots
  (`KeysInOrder`), ahead of a probe they are later than what it works on (`AheadIsLater`),
  behind it only the request of the call under way waits (`PassedIsLast`), and what was
  applied waits only under a probe about to delete it (`AppliedIsDeleted`). A probe that
  nobody met runs alone (`Alone`), so what it looks up is new (`ReadIsNew`). The
  interesting step is the kfunc call (`OrderApplies`).

`Lifecycle` on one CPU, any number of clients: `SoleCpuDeletesWhatItRead`. The probe holds
what its slot holds (`ReadHeld`), since no client runs until it ends: losing a request by
its key takes a second CPU.

`IndexedDrain`: `Drained`, `HeaderStays`, `WellTyped`.
`Distance` says how many slots the loop visits before a slot, `Ahead` that a slot is still
to be visited; the probe working for `p` has every slot of `p` but 0 `Ahead` of it. That a
probe finds a header at all is `HeaderFirst`: slot 0 is the first every client writes.

`FrequencyPinner`: `WellTyped`, `ListAndHashAgree`, `EverySlotOnce`. `WellTyped` holds also
of tables that overlapping probes have mixed up: the size a probe copied stays within the
table whatever the others write (`LocalsOK`, `TablesOK`). `TableInv` says, as long as nothing
was mixed up, that one probe runs and what the half-finished insertion of an address
looks like in list and hash. `TalliesKept` adds that each frequency is the one before the
scan plus the requests in the slots visited; the arithmetic of `(i + start) % N` visiting
every slot once is in `VisitsOnce` and `VisitsAll`.

`TranslateService`: `Trusted`, `OwnDataOnly`, `Released`, `WellTyped`, and with a single user
`SoleUserAnswered`: `OwnAnswer`, which `mixed_answer` refutes for two. `TrustInv` says that
from its first write until it reads, an undisturbed user finds only its own data in the
maps and in every probe past its lookups; `LoadedOK` adds that those probes hold a
pid and an address at all, and no result before the kfunc gave one. `Released` compares
each count with the set of CPUs that hold the reference; a step changes the set by at
most one CPU.

`LruModule`: `MmBalanced`, `WellTyped`, for every interleaving of single accesses,
overlapping ones included. `MmInv` compares the users of an mm with the set of calls between
`get_task_mm` and `mmput`, a step changing the set by at most one CPU. `WellTyped` needs
that what a load finds makes stores of pages, heads and poison only (`LoadedStores`) and
that a call past `FindTask` has a process (`ShapeOK`).

Model-checked only: `CallsReturn` and the liveness half of `ImplementsHints`, since
liveness is out of the prover's reach; `ListsWhole` and `SizesMatch`, since which pages a
walk along a list comes to is an induction over the walk.

## Plan

Done: all programs that run and keep state are modelled, list operations down to single
stores, and every safety property of the passing runs but the two above is a theorem. What
is left: several lruvecs in `LruModule`, since the kfunc takes the one of the calling
process's memory cgroup, which need not be the one the page is charged to.

## Not modelled

* The microbenchmarks are single-threaded clients. `PagePatrolApi` leaves the order, number
  and arguments of calls open, so what is checked and proved of the library holds under
  them; beyond that they produce timings. The hot/cold one calls `mark_va_for_eviction`,
  which the library does not have.
* The graph benchmark includes the library's header and calls nothing; random walk and
  visit counts are sequential arithmetic on random numbers.
* `UserPrograms/insert_file_vaddr_into_inactive_list` does not compile: two descriptors
  are not declared.
* Several probes only print their arguments and keep no state.
* The plotting and shell scripts are I/O and sequences of commands.
* The Linux fork with the kfuncs of the apply probe is a submodule that is not in the
  repository; its kfuncs are the external part of `PidVaProbe`.
* Registering the kfuncs when the kernel modules are loaded, several threads in one
  client (they would share `pid_va` and `idx` without a lock; no client of the repository
  has more than one), and the references to pid, task and memcg that no path drops.
