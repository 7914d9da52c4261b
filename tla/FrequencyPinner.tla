-------------------------- MODULE FrequencyPinner --------------------------
(***************************************************************************)
(* eBPF/pinning_freaquent_pages: a probe on shrink_lruvec that counts how  *)
(* often each address was passed to pin_va (flags 3, "access info" in      *)
(* common.h) and is to pin the most frequent ones.                         *)
(*                                                                         *)
(* Here pid_va_map is an ARRAY map: its elements always exist, an update   *)
(* overwrites them in place and bpf_map_delete_elem always fails.  Nothing *)
(* triggers the probe on behalf of a client, it runs when the kernel       *)
(* reclaims memory, which several CPUs can do at once.                     *)
(*                                                                         *)
(* The program declares min_heap and pinned_va_map with 8-byte keys, which *)
(* the kernel refuses for array maps; it is modelled as it would run with  *)
(* the 4-byte keys it passes.                                              *)
(***************************************************************************)
EXTENDS Integers, FiniteSets

CONSTANTS
  MAX_PID_VA_ENTRIES,
  MAX_FREQUENCY_ENTRIES,
  MAX_PINNED_PAGES,      \* a tenth of the former in the code
  VAs,
  NullVA,
  Ops,                   \* the operations the client calls
  CPUs,
  IntBits,               \* width of int; __u64 is twice as wide
  MaxFrequency           \* bound of the model: no reclaim starts that could pass it alone

ASSUME PinnerAssumption ==
  /\ MAX_PID_VA_ENTRIES \in Nat \ {0}
  /\ MAX_FREQUENCY_ENTRIES \in Nat \ {0, 1}
  /\ MAX_PINNED_PAGES \in 1 .. MAX_FREQUENCY_ENTRIES
  /\ NullVA \notin VAs
  /\ Ops \subseteq 1 .. 4
  /\ IntBits \in Nat \ {0}
  /\ MaxFrequency \in Nat

Access == 3
Slots == 0 .. MAX_PID_VA_ENTRIES - 1
Addresses == VAs \cup {NullVA}

VARIABLES
  request,             \* pid_va_map
  idx,                 \* the client's ring index
  va_frequency_array,  \* key 0: how many addresses are listed; 1 ..: the addresses
  va_frequency_map,    \* address -> frequency, 0 when the hash has no entry
  min_heap,            \* its element 0
  pinned_va_map,       \* the addresses it holds
  step,                \* next access of the probe on each CPU
  i, ptr,              \* its loop counter, and the slot it starts from
  size,                \* its frequecy_map_size, read once at the start
  new_freq,            \* the frequency it is about to write
  counted,             \* history: slots whose present request was counted
  before,              \* history: va_frequency_map when the last probe began
  called,              \* history: the client called since then
  mixed                \* history: see ListMatchesMap

clientVars == <<request, idx>>
tables == <<va_frequency_array, va_frequency_map>>
heapVars == <<min_heap, pinned_va_map>>
locals == <<i, ptr, size, new_freq>>
history == <<before, called, mixed>>
vars == <<clientVars, tables, heapVars, step, locals, counted, history>>

\* The size and the addresses share one array map; size is its element 0.
Listed(n) == va_frequency_array[n]
MapSize == va_frequency_array[0]

Init ==
  /\ request = [k \in Slots |-> [flags |-> 0, VA |-> NullVA]]
  /\ idx = 0
  /\ va_frequency_array = [n \in 0 .. MAX_FREQUENCY_ENTRIES |-> IF n = 0 THEN 0 ELSE NullVA]
  /\ va_frequency_map = [v \in Addresses |-> 0]
  /\ min_heap = NullVA
  /\ pinned_va_map = {}
  /\ step = [c \in CPUs |-> "idle"]
  /\ i = [c \in CPUs |-> 0]
  /\ ptr = [c \in CPUs |-> 0]
  /\ size = [c \in CPUs |-> 0]
  /\ new_freq = [c \in CPUs |-> 0]
  /\ counted = {}
  /\ before = va_frequency_map
  /\ called = FALSE
  /\ mixed = FALSE

\* __idx of the probe on CPU c
Slot(c) == (i[c] + ptr[c]) % MAX_PID_VA_ENTRIES

Goto(c, s) == step' = [step EXCEPT ![c] = s]

-----------------------------------------------------------------------------
\* A call of the client library, on a CPU that runs no probe.
ApiCall ==
  /\ \E c \in CPUs : step[c] = "idle"
  /\ \E op \in Ops, v \in Addresses : request' = [request EXCEPT ![idx] = [flags |-> op, VA |-> v]]
  /\ idx' = (idx + 1) % MAX_PID_VA_ENTRIES
  /\ counted' = counted \ {idx}
  /\ called' = TRUE
  /\ mixed' = (mixed \/ \E c \in CPUs : step[c] \in {"list", "count"} /\ Slot(c) = idx)
  /\ UNCHANGED <<tables, heapVars, step, locals, before>>

\* shrink_lruvec is entered: slot 0 tells where to start, whoever wrote it.
Enter(c) ==
  /\ step[c] = "idle"
  /\ \A v \in Addresses :
       va_frequency_map[v] + Cardinality(CPUs) * (MAX_PID_VA_ENTRIES - 1) <= MaxFrequency
  /\ size' = [size EXCEPT ![c] = MapSize]
  /\ ptr' = [ptr EXCEPT ![c] = request[0].flags]
  /\ i' = [i EXCEPT ![c] = 0]
  /\ Goto(c, "slot")
  /\ before' = va_frequency_map
  /\ called' = FALSE
  /\ mixed' = (mixed \/ \E d \in CPUs : step[d] # "idle")
  /\ UNCHANGED <<clientVars, tables, heapVars, new_freq, counted>>

\* Whether the loop has anything to do in the slot it is at.
Counts(c) ==
  /\ Slot(c) # 0
  /\ request[Slot(c)].VA # NullVA
  /\ request[Slot(c)].flags = Access

\* Seeded fault: the loop ends one slot early.
NextSlot_OneShort(c) ==
  /\ i' = [i EXCEPT ![c] = @ + 1]
  /\ Goto(c, IF i[c] + 1 >= MAX_PID_VA_ENTRIES - 1 THEN "select" ELSE "slot")

\* The end of an iteration; the delete before it has no effect on an array.
NextSlot(c) ==
  /\ i' = [i EXCEPT ![c] = @ + 1]
  /\ Goto(c, IF i[c] + 1 = MAX_PID_VA_ENTRIES THEN "select" ELSE "slot")

Skip(c) ==
  /\ step[c] = "slot"
  /\ ~Counts(c)
  /\ NextSlot(c)
  /\ UNCHANGED <<clientVars, tables, heapVars, ptr, size, new_freq, counted, history>>

\* The address has a frequency: it is read here and written by WriteFrequency.
ReadFrequency(c) ==
  /\ step[c] = "slot"
  /\ Counts(c)
  /\ va_frequency_map[request[Slot(c)].VA] # 0
  /\ new_freq' = [new_freq EXCEPT ![c] = va_frequency_map[request[Slot(c)].VA] + 1]
  /\ Goto(c, "count")
  /\ UNCHANGED <<clientVars, tables, heapVars, i, ptr, size, counted, history>>

\* A new address when the table is full is passed over.
TableFull(c) ==
  /\ step[c] = "slot"
  /\ Counts(c)
  /\ va_frequency_map[request[Slot(c)].VA] = 0
  /\ size[c] = MAX_FREQUENCY_ENTRIES
  /\ NextSlot(c)
  /\ UNCHANGED <<clientVars, tables, heapVars, ptr, size, new_freq, counted, history>>

\* Seeded fault: the size of the table is not checked.
WriteSize_Unbounded(c) ==
  /\ step[c] = "slot"
  /\ Counts(c)
  /\ va_frequency_map[request[Slot(c)].VA] = 0
  /\ size' = [size EXCEPT ![c] = @ + 1]
  /\ va_frequency_array' = [va_frequency_array EXCEPT ![0] = size'[c]]
  /\ Goto(c, "list")
  /\ UNCHANGED <<clientVars, va_frequency_map, heapVars, i, ptr, new_freq, counted, history>>

\* A new address: the size is written from the copy, then the address, then 1.
WriteSize(c) ==
  /\ step[c] = "slot"
  /\ Counts(c)
  /\ va_frequency_map[request[Slot(c)].VA] = 0
  /\ size[c] # MAX_FREQUENCY_ENTRIES
  /\ size' = [size EXCEPT ![c] = @ + 1]
  /\ va_frequency_array' = [va_frequency_array EXCEPT ![0] = size'[c]]
  /\ Goto(c, "list")
  /\ UNCHANGED <<clientVars, va_frequency_map, heapVars, i, ptr, new_freq, counted, history>>

\* Seeded fault: the address goes below the new size.
WriteAddress_OffByOne(c) ==
  /\ step[c] = "list"
  /\ va_frequency_array' = [va_frequency_array EXCEPT
       ![IF size[c] > 1 THEN size[c] - 1 ELSE 1] = request[Slot(c)].VA]
  /\ new_freq' = [new_freq EXCEPT ![c] = 1]
  /\ Goto(c, "count")
  /\ UNCHANGED <<clientVars, va_frequency_map, heapVars, i, ptr, size, counted, history>>

WriteAddress(c) ==
  /\ step[c] = "list"
  /\ va_frequency_array' = [va_frequency_array EXCEPT ![size[c]] = request[Slot(c)].VA]
  /\ new_freq' = [new_freq EXCEPT ![c] = 1]
  /\ Goto(c, "count")
  /\ UNCHANGED <<clientVars, va_frequency_map, heapVars, i, ptr, size, counted, history>>

WriteFrequency(c) ==
  /\ step[c] = "count"
  /\ va_frequency_map' = [va_frequency_map EXCEPT ![request[Slot(c)].VA] = new_freq[c]]
  /\ counted' = counted \cup {Slot(c)}
  /\ NextSlot(c)
  /\ UNCHANGED <<clientVars, va_frequency_array, heapVars, ptr, size, new_freq, history>>

-----------------------------------------------------------------------------
\* int parent_index = (index - 1) / 2 with index of type __u64.
ParentIndex(index) ==
  LET half == ((index - 1) % 2^(2 * IntBits)) \div 2
      low  == half % 2^IntBits
  IN  IF low < 2^(IntBits - 1) THEN low ELSE low - 2^IntBits

\* The first listed address is put at the root of the heap and bubbled up.  The
\* loop is left at once for an index above 0, not for 0, so it looks up the parent
\* of the root, finds none and the program returns.
Select(c) ==
  /\ step[c] = "select"
  /\ min_heap' = Listed(1)
  /\ ParentIndex(0) \notin 0 .. MAX_PINNED_PAGES - 1
  /\ Goto(c, "idle")
  /\ i' = [i EXCEPT ![c] = 0]
  /\ ptr' = [ptr EXCEPT ![c] = 0]
  /\ size' = [size EXCEPT ![c] = 0]
  /\ new_freq' = [new_freq EXCEPT ![c] = 0]
  /\ UNCHANGED <<clientVars, tables, pinned_va_map, counted, history>>

Next ==
  \/ ApiCall
  \/ \E c \in CPUs :
       \/ Enter(c) \/ Skip(c) \/ ReadFrequency(c) \/ TableFull(c) \/ WriteSize(c)
       \/ WriteAddress(c) \/ WriteFrequency(c) \/ Select(c)

Spec == Init /\ [][Next]_vars

-----------------------------------------------------------------------------
Quiet == \A c \in CPUs : step[c] = "idle"

\* Sizes and indices stay within the tables.  MaxFrequency is not part of it: it says
\* when a reclaim may start, and probes that overlap can write frequencies past it.
TypeOK ==
  /\ request \in [Slots -> [flags : 0 .. 4, VA : Addresses]]
  /\ idx \in Slots
  /\ MapSize \in 0 .. MAX_FREQUENCY_ENTRIES
  /\ \A n \in 1 .. MAX_FREQUENCY_ENTRIES : Listed(n) \in Addresses
  /\ va_frequency_map \in [Addresses -> Nat]
  /\ min_heap \in Addresses
  /\ pinned_va_map \subseteq Addresses
  /\ step \in [CPUs -> {"idle", "slot", "list", "count", "select"}]
  /\ i \in [CPUs -> 0 .. MAX_PID_VA_ENTRIES]
  /\ ptr \in [CPUs -> 0 .. 4]
  /\ size \in [CPUs -> 0 .. MAX_FREQUENCY_ENTRIES]
  /\ new_freq \in [CPUs -> Nat]
  /\ counted \subseteq Slots
  /\ before \in [Addresses -> Nat]
  /\ called \in BOOLEAN /\ mixed \in BOOLEAN

\* Between two probes the list and the hash agree: the addresses listed are those
\* with a frequency, each listed once.  Two things may end that, and nothing else:
\* two probes at once, which write the same size and so the same element, and a
\* client that replaces the address a probe is about to read again.
ListMatchesMap ==
  Quiet /\ ~mixed =>
    /\ \A n, m \in 1 .. MapSize : Listed(n) = Listed(m) => n = m
    /\ {Listed(n) : n \in 1 .. MapSize} = {v \in Addresses : va_frequency_map[v] > 0}

\* A probe that has the requests and the tables for itself counts every slot but 0
\* exactly once, wherever it starts; only addresses that found the table full are
\* left out.
ScanCounts ==
  \A c \in CPUs : step[c] = "select" /\ ~mixed /\ ~called =>
    \A v \in VAs :
      LET asked == Cardinality({k \in Slots \ {0} : request[k] = [flags |-> Access, VA |-> v]})
      IN  \/ va_frequency_map[v] = before[v] + asked
          \/ va_frequency_map[v] = 0 /\ MapSize = MAX_FREQUENCY_ENTRIES

\* A request is counted once.  It is NOT: the delete that follows the counting has
\* no effect on an array map (run recounted).
CountsOnce == [][\A c \in CPUs : WriteFrequency(c) => Slot(c) \notin counted]_vars
=============================================================================
