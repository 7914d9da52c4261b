-------------------------- MODULE FrequencyProofs --------------------------
(***************************************************************************)
(* The frequency pinner for every number of slots, addresses and CPUs and  *)
(* every size of its tables: as long as no two probes and no client mix    *)
(* them up, the list and the hash agree between two probes, and a scan     *)
(* counts every slot behind the header exactly once.                       *)
(***************************************************************************)
EXTENDS FrequencyPinner, FiniteSetTheorems, TLAPS

Entry(c) == request[Slot(c)].VA

\* The parts of the type invariant the arguments need.
LocalsOK ==
  /\ step \in [CPUs -> {"idle", "slot", "list", "count", "select"}]
  /\ i \in [CPUs -> 0 .. MAX_PID_VA_ENTRIES]
  /\ ptr \in [CPUs -> 0 .. 4]
  /\ size \in [CPUs -> 0 .. MAX_FREQUENCY_ENTRIES]
  /\ new_freq \in [CPUs -> Nat]
  /\ \A c \in CPUs :
       /\ step[c] \in {"slot", "list", "count"} => i[c] < MAX_PID_VA_ENTRIES
       /\ step[c] = "select" => i[c] = MAX_PID_VA_ENTRIES
       /\ step[c] = "list" => size[c] > 0

TablesOK ==
  /\ request \in [Slots -> [flags : 0 .. 4, VA : Addresses]]
  /\ idx \in Slots
  /\ va_frequency_array \in [0 .. MAX_FREQUENCY_ENTRIES -> Addresses \cup 0 .. MAX_FREQUENCY_ENTRIES]
  /\ MapSize \in 0 .. MAX_FREQUENCY_ENTRIES
  /\ \A n \in 1 .. MAX_FREQUENCY_ENTRIES : Listed(n) \in Addresses
  /\ va_frequency_map \in [Addresses -> Nat]
  /\ before \in [Addresses -> Nat]
  /\ called \in BOOLEAN /\ mixed \in BOOLEAN

\* The first n addresses of the list differ.
Distinct(n) == \A a, b \in 1 .. n : Listed(a) = Listed(b) => a = b

IsListed(v, n) == \E a \in 1 .. n : Listed(a) = v

Agree(n) == Distinct(n) /\ \A v \in Addresses : va_frequency_map[v] > 0 <=> IsListed(v, n)

\* Between the size and the address the last element is not in use yet; between the
\* address and its frequency it is ahead of the hash.
Consistent ==
  /\ \A c \in CPUs :
       /\ step[c] # "idle" => size[c] = MapSize
       /\ step[c] \in {"list", "count"} => Counts(c)
       /\ step[c] = "list" => va_frequency_map[Entry(c)] = 0 /\ Agree(MapSize - 1)
       /\ step[c] = "count" =>
            /\ new_freq[c] = va_frequency_map[Entry(c)] + 1
            /\ Distinct(MapSize)
            /\ \A v \in Addresses :
                 (va_frequency_map[v] > 0 \/ v = Entry(c)) <=> IsListed(v, MapSize)
  /\ (\A c \in CPUs : step[c] \notin {"list", "count"}) => Agree(MapSize)

OneProbe == \A c, d \in CPUs : step[c] # "idle" /\ step[d] # "idle" => c = d

TableInv == LocalsOK /\ TablesOK /\ (~mixed => OneProbe /\ Consistent)

LEMMA SizesAreNumbers ==
  /\ MAX_PID_VA_ENTRIES \in Nat /\ MAX_PID_VA_ENTRIES > 0
  /\ MAX_FREQUENCY_ENTRIES \in Nat /\ MAX_FREQUENCY_ENTRIES > 1
  /\ 0 \in Slots
  /\ Slots = 0 .. MAX_PID_VA_ENTRIES - 1
BY PinnerAssumption DEF Slots

LEMMA ModRange == ASSUME NEW a \in Nat, NEW n \in Nat \ {0} PROVE a % n \in 0 .. n - 1
OBVIOUS

LEMMA SlotInRange == ASSUME LocalsOK, NEW c \in CPUs PROVE Slot(c) \in Slots
<1>1. i[c] \in 0 .. MAX_PID_VA_ENTRIES /\ ptr[c] \in 0 .. 4
  BY DEF LocalsOK
<1>2. i[c] + ptr[c] \in Nat
  BY <1>1, SizesAreNumbers
<1>3. MAX_PID_VA_ENTRIES \in Nat \ {0}
  BY SizesAreNumbers
<1>4. (i[c] + ptr[c]) % MAX_PID_VA_ENTRIES \in 0 .. MAX_PID_VA_ENTRIES - 1
  BY <1>2, <1>3, ModRange
<1> QED
  BY <1>4 DEF Slot, Slots

LEMMA EntryIsAddress ==
  ASSUME LocalsOK, TablesOK, NEW c \in CPUs
  PROVE  request[Slot(c)] \in [flags : 0 .. 4, VA : Addresses] /\ Entry(c) \in Addresses
BY SlotInRange DEF TablesOK, Entry

-----------------------------------------------------------------------------
(* The types. *)

LEMMA TypesInit == Init => LocalsOK /\ TablesOK
<1> SUFFICES ASSUME Init PROVE LocalsOK /\ TablesOK
  OBVIOUS
<1> USE SizesAreNumbers DEF Init
<1>1. LocalsOK
  BY DEF LocalsOK
<1>2. /\ va_frequency_array \in [0 .. MAX_FREQUENCY_ENTRIES -> Addresses \cup 0 .. MAX_FREQUENCY_ENTRIES]
      /\ MapSize = 0
      /\ \A n \in 1 .. MAX_FREQUENCY_ENTRIES : Listed(n) \in Addresses
  BY DEF MapSize, Listed, Addresses
<1>3. request \in [Slots -> [flags : 0 .. 4, VA : Addresses]]
  BY DEF Addresses
<1>4. va_frequency_map \in [Addresses -> Nat] /\ before \in [Addresses -> Nat]
  OBVIOUS
<1>5. idx \in Slots /\ called \in BOOLEAN /\ mixed \in BOOLEAN
  OBVIOUS
<1> HIDE DEF Init
<1> QED
  BY <1>1, <1>2, <1>3, <1>4, <1>5 DEF TablesOK

LEMMA NextSlotKeeps ==
  ASSUME LocalsOK, NEW c \in CPUs, step[c] \in {"slot", "list", "count"}, NextSlot(c),
         UNCHANGED <<ptr, size, new_freq>>
  PROVE  LocalsOK'
BY SizesAreNumbers DEF LocalsOK, NextSlot, Goto

LEMMA TypesKept ==
  ASSUME LocalsOK, TablesOK, [Next]_vars
  PROVE  LocalsOK' /\ TablesOK'
<1> USE SizesAreNumbers
<1>1. CASE ApiCall
  <2>1. PICK op \in Ops, v \in Addresses : request' = [request EXCEPT ![idx] = [flags |-> op, VA |-> v]]
    BY <1>1 DEF ApiCall
  <2>2. request' \in [Slots -> [flags : 0 .. 4, VA : Addresses]]
    BY <2>1, PinnerAssumption DEF TablesOK
  <2>3. idx' \in Slots
    <3>1. idx + 1 \in Nat
      BY DEF TablesOK
    <3>2. (idx + 1) % MAX_PID_VA_ENTRIES \in Slots
      BY <3>1, ModRange
    <3> QED
      BY <1>1, <3>2 DEF ApiCall
  <2>4. UNCHANGED <<va_frequency_array, va_frequency_map, step, i, ptr, size, new_freq, before>>
    BY <1>1 DEF ApiCall, tables, locals
  <2>5. called' \in BOOLEAN /\ mixed' \in BOOLEAN
    BY <1>1 DEF ApiCall, TablesOK
  <2> QED
    BY <2>2, <2>3, <2>4, <2>5 DEF LocalsOK, TablesOK, MapSize, Listed
<1>2. ASSUME NEW c \in CPUs, Enter(c) PROVE LocalsOK' /\ TablesOK'
  <2>1. request[0].flags \in 0 .. 4
    BY DEF TablesOK
  <2>2. LocalsOK'
    BY <1>2, <2>1 DEF Enter, Goto, LocalsOK, TablesOK
  <2>3. called' \in BOOLEAN /\ mixed' \in BOOLEAN
    BY <1>2 DEF Enter, TablesOK
  <2> QED
    BY <1>2, <2>2, <2>3 DEF Enter, TablesOK, MapSize, Listed, clientVars, tables
<1>3. ASSUME NEW c \in CPUs, Skip(c) \/ TableFull(c) PROVE LocalsOK' /\ TablesOK'
  BY <1>3, NextSlotKeeps
     DEF Skip, TableFull, TablesOK, MapSize, Listed, clientVars, tables, history
<1>4. ASSUME NEW c \in CPUs, ReadFrequency(c) PROVE LocalsOK' /\ TablesOK'
  <2>1. va_frequency_map[request[Slot(c)].VA] + 1 \in Nat
    BY EntryIsAddress DEF TablesOK, Entry
  <2>2. LocalsOK'
    BY <1>4, <2>1 DEF ReadFrequency, Goto, LocalsOK
  <2> QED
    BY <1>4, <2>2 DEF ReadFrequency, TablesOK, MapSize, Listed, clientVars, tables, history
<1>5. ASSUME NEW c \in CPUs, WriteSize(c) PROVE LocalsOK' /\ TablesOK'
  <2>1. LocalsOK' /\ size'[c] \in 0 .. MAX_FREQUENCY_ENTRIES
    BY <1>5 DEF WriteSize, Goto, LocalsOK
  <2>2. va_frequency_array' = [va_frequency_array EXCEPT ![0] = size'[c]]
    BY <1>5 DEF WriteSize
  <2>3. /\ va_frequency_array' \in [0 .. MAX_FREQUENCY_ENTRIES -> Addresses \cup 0 .. MAX_FREQUENCY_ENTRIES]
        /\ MapSize' \in 0 .. MAX_FREQUENCY_ENTRIES
        /\ \A n \in 1 .. MAX_FREQUENCY_ENTRIES : Listed(n)' \in Addresses
    BY <2>1, <2>2 DEF TablesOK, MapSize, Listed
  <2> QED
    BY <1>5, <2>1, <2>3 DEF WriteSize, TablesOK, clientVars, history
<1>6. ASSUME NEW c \in CPUs, WriteAddress(c) PROVE LocalsOK' /\ TablesOK'
  <2>1. LocalsOK'
    BY <1>6 DEF WriteAddress, Goto, LocalsOK
  <2>2. /\ va_frequency_array' = [va_frequency_array EXCEPT ![size[c]] = Entry(c)]
        /\ size[c] \in 1 .. MAX_FREQUENCY_ENTRIES
    BY <1>6 DEF WriteAddress, LocalsOK, Entry
  <2>3. /\ va_frequency_array' \in [0 .. MAX_FREQUENCY_ENTRIES -> Addresses \cup 0 .. MAX_FREQUENCY_ENTRIES]
        /\ MapSize' \in 0 .. MAX_FREQUENCY_ENTRIES
        /\ \A n \in 1 .. MAX_FREQUENCY_ENTRIES : Listed(n)' \in Addresses
    <3>1. Entry(c) \in Addresses
      BY EntryIsAddress
    <3>2. va_frequency_array'[size[c]] = Entry(c)
      BY <2>2 DEF TablesOK
    <3>3. \A n \in 0 .. MAX_FREQUENCY_ENTRIES :
            n # size[c] => va_frequency_array'[n] = va_frequency_array[n]
      BY <2>2 DEF TablesOK
    <3>4. va_frequency_array' \in [0 .. MAX_FREQUENCY_ENTRIES -> Addresses \cup 0 .. MAX_FREQUENCY_ENTRIES]
      BY <2>2, <3>1 DEF TablesOK
    <3>5. MapSize' \in 0 .. MAX_FREQUENCY_ENTRIES
      BY <2>2, <3>3 DEF TablesOK, MapSize
    <3>6. ASSUME NEW n \in 1 .. MAX_FREQUENCY_ENTRIES PROVE Listed(n)' \in Addresses
      <4>1. n \in 0 .. MAX_FREQUENCY_ENTRIES /\ va_frequency_array[n] \in Addresses
        BY DEF TablesOK, Listed
      <4> QED
        BY <3>1, <3>2, <3>3, <4>1 DEF Listed
    <3> QED
      BY <3>4, <3>5, <3>6
  <2> QED
    BY <1>6, <2>1, <2>3 DEF WriteAddress, TablesOK, clientVars, history
<1>7. ASSUME NEW c \in CPUs, WriteFrequency(c) PROVE LocalsOK' /\ TablesOK'
  <2>1. LocalsOK'
    BY <1>7, NextSlotKeeps DEF WriteFrequency
  <2>2. va_frequency_map' \in [Addresses -> Nat]
    BY <1>7 DEF WriteFrequency, TablesOK, LocalsOK
  <2> QED
    BY <1>7, <2>1, <2>2 DEF WriteFrequency, TablesOK, MapSize, Listed, clientVars, history
<1>8. ASSUME NEW c \in CPUs, Select(c) PROVE LocalsOK' /\ TablesOK'
  BY <1>8 DEF Select, Goto, LocalsOK, TablesOK, MapSize, Listed, clientVars, tables, history
<1>9. CASE UNCHANGED vars
  BY <1>9 DEF vars, clientVars, tables, locals, history, LocalsOK, TablesOK, MapSize, Listed
<1> QED
  BY <1>1, <1>2, <1>3, <1>4, <1>5, <1>6, <1>7, <1>8, <1>9 DEF Next

-----------------------------------------------------------------------------
(* The list and the hash. *)

LEMMA ConsistentInit == Init => OneProbe /\ Consistent
<1> SUFFICES ASSUME Init PROVE OneProbe /\ Consistent
  OBVIOUS
<1>1. \A c \in CPUs : step[c] = "idle"
  BY DEF Init
<1>2. MapSize = 0 /\ \A v \in Addresses : va_frequency_map[v] = 0
  BY SizesAreNumbers DEF Init, MapSize
<1>3. Agree(MapSize)
  BY <1>2 DEF Agree, Distinct, IsListed
<1> QED
  BY <1>1, <1>3 DEF OneProbe, Consistent

\* A probe that is alone: only what becomes of itself is to be shown.
LEMMA Alone ==
  ASSUME LocalsOK, OneProbe, NEW c \in CPUs, step[c] # "idle", NEW s,
         step' = [step EXCEPT ![c] = s],
         s # "idle" => size'[c] = MapSize',
         s \in {"list", "count"} => Counts(c)',
         s = "list" => (va_frequency_map[Entry(c)] = 0 /\ Agree(MapSize - 1))',
         s = "count" => ( /\ new_freq[c] = va_frequency_map[Entry(c)] + 1
                          /\ Distinct(MapSize)
                          /\ \A v \in Addresses :
                               (va_frequency_map[v] > 0 \/ v = Entry(c)) <=> IsListed(v, MapSize))',
         s \notin {"list", "count"} => Agree(MapSize)'
  PROVE  OneProbe' /\ Consistent'
<1>1. \A d \in CPUs : step'[d] # "idle" => d = c
  BY DEF OneProbe, LocalsOK
<1>2. step'[c] = s
  BY DEF LocalsOK
<1>3. OneProbe'
  BY <1>1 DEF OneProbe
<1>4. (\A d \in CPUs : step[d] \notin {"list", "count"})' => Agree(MapSize)'
  BY <1>2
<1>5. ASSUME NEW d \in CPUs
      PROVE  ( /\ step[d] # "idle" => size[d] = MapSize
               /\ step[d] \in {"list", "count"} => Counts(d)
               /\ step[d] = "list" => va_frequency_map[Entry(d)] = 0 /\ Agree(MapSize - 1)
               /\ step[d] = "count" =>
                    /\ new_freq[d] = va_frequency_map[Entry(d)] + 1
                    /\ Distinct(MapSize)
                    /\ \A v \in Addresses :
                         (va_frequency_map[v] > 0 \/ v = Entry(d)) <=> IsListed(v, MapSize))'
  BY <1>1, <1>2
<1> QED
  BY <1>3, <1>4, <1>5 DEF Consistent

LEMMA SameTables ==
  ASSUME UNCHANGED <<va_frequency_array, va_frequency_map>>
  PROVE  /\ MapSize' = MapSize
         /\ \A n : Agree(n)' <=> Agree(n)
         /\ \A n : Distinct(n)' <=> Distinct(n)
         /\ \A v, n : IsListed(v, n)' <=> IsListed(v, n)
BY DEF MapSize, Agree, Distinct, IsListed, Listed

LEMMA NoneHalfDone ==
  ASSUME OneProbe, Consistent, NEW c \in CPUs, step[c] \notin {"idle", "list", "count"}
  PROVE  Agree(MapSize)
BY DEF OneProbe, Consistent

LEMMA ApiCallConsistent ==
  ASSUME TableInv, ~mixed', ApiCall
  PROVE  OneProbe' /\ Consistent'
<1>1. ~mixed /\ \A c \in CPUs : step[c] \in {"list", "count"} => Slot(c) # idx
  BY DEF ApiCall
<1>2. OneProbe /\ Consistent
  BY <1>1 DEF TableInv
<1>3. UNCHANGED <<va_frequency_array, va_frequency_map, step, i, ptr, size, new_freq>>
  BY DEF ApiCall, tables, locals
<1>4. \A c \in CPUs : Slot(c)' = Slot(c)
  BY <1>3 DEF Slot
<1>5. \A k \in Slots \ {idx} : request'[k] = request[k]
  BY DEF ApiCall, TableInv, TablesOK
<1>6. \A c \in CPUs : step[c] \in {"list", "count"} => Slot(c) \in Slots
  BY SlotInRange DEF TableInv
<1>7. \A c \in CPUs : step[c] \in {"list", "count"} => request'[Slot(c)'] = request[Slot(c)]
  BY <1>1, <1>4, <1>5, <1>6
<1>8. \A c \in CPUs : step[c] \in {"list", "count"} =>
        Entry(c)' = Entry(c) /\ (Counts(c)' <=> Counts(c))
  BY <1>4, <1>7 DEF Entry, Counts
<1>9. OneProbe'
  BY <1>2, <1>3 DEF OneProbe
<1>10. (\A c \in CPUs : step[c] \notin {"list", "count"})' => Agree(MapSize)'
  BY <1>2, <1>3, SameTables DEF Consistent
<1>11. ASSUME NEW c \in CPUs
       PROVE  ( /\ step[c] # "idle" => size[c] = MapSize
                /\ step[c] \in {"list", "count"} => Counts(c)
                /\ step[c] = "list" => va_frequency_map[Entry(c)] = 0 /\ Agree(MapSize - 1)
                /\ step[c] = "count" =>
                     /\ new_freq[c] = va_frequency_map[Entry(c)] + 1
                     /\ Distinct(MapSize)
                     /\ \A v \in Addresses :
                          (va_frequency_map[v] > 0 \/ v = Entry(c)) <=> IsListed(v, MapSize))'
  BY <1>2, <1>3, <1>8, SameTables DEF Consistent
<1> QED
  BY <1>9, <1>10, <1>11 DEF Consistent

LEMMA EnterConsistent ==
  ASSUME TableInv, ~mixed', NEW c \in CPUs, Enter(c)
  PROVE  OneProbe' /\ Consistent'
<1>1. ~mixed /\ \A d \in CPUs : step[d] = "idle"
  BY DEF Enter
<1>2. Agree(MapSize)
  BY <1>1 DEF TableInv, Consistent
<1>3. UNCHANGED <<va_frequency_array, va_frequency_map>>
  BY DEF Enter, tables
<1>4. MapSize' = MapSize /\ Agree(MapSize)'
  BY <1>2, <1>3, SameTables
<1>5. /\ \A d \in CPUs : step'[d] = IF d = c THEN "slot" ELSE "idle"
      /\ size'[c] = MapSize
  BY <1>1 DEF Enter, Goto, TableInv, LocalsOK
<1> QED
  BY <1>4, <1>5 DEF OneProbe, Consistent

\* The steps that only move on.
LEMMA PassConsistent ==
  ASSUME TableInv, ~mixed', NEW c \in CPUs, Skip(c) \/ TableFull(c) \/ Select(c)
  PROVE  OneProbe' /\ Consistent'
<1>1. OneProbe /\ Consistent
  BY DEF TableInv, Skip, TableFull, Select, history
<1>2. UNCHANGED <<va_frequency_array, va_frequency_map>>
  BY DEF Skip, TableFull, Select, tables
<1>3. PICK s \in {"idle", "slot", "select"} : step' = [step EXCEPT ![c] = s] /\ (s # "idle" => size' = size)
  BY DEF Skip, TableFull, Select, NextSlot, Goto
<1>4. step[c] \in {"slot", "select"}
  BY DEF Skip, TableFull, Select
<1>5. Agree(MapSize)
  BY <1>1, <1>4, NoneHalfDone
<1>6. s # "idle" => size'[c] = MapSize'
  BY <1>1, <1>2, <1>3, <1>4, SameTables DEF Consistent
<1>7. Agree(MapSize)'
  BY <1>2, <1>5, SameTables
<1> QED
  BY <1>1, <1>3, <1>4, <1>6, <1>7, Alone DEF TableInv

LEMMA ReadConsistent ==
  ASSUME TableInv, ~mixed', NEW c \in CPUs, ReadFrequency(c)
  PROVE  OneProbe' /\ Consistent'
<1>1. OneProbe /\ Consistent /\ step[c] = "slot" /\ Counts(c)
  BY DEF TableInv, ReadFrequency, history
<1>2. UNCHANGED <<va_frequency_array, va_frequency_map, request, i, ptr, size>>
  BY DEF ReadFrequency, tables, clientVars
<1>3. step' = [step EXCEPT ![c] = "count"]
  BY DEF ReadFrequency, Goto
<1>4. Entry(c)' = Entry(c) /\ Counts(c)'
  BY <1>1, <1>2 DEF Entry, Counts, Slot
<1>5. new_freq'[c] = va_frequency_map[Entry(c)] + 1 /\ va_frequency_map[Entry(c)] # 0
  BY DEF ReadFrequency, Entry, TableInv, LocalsOK
<1>6. Agree(MapSize)
  BY <1>1, NoneHalfDone
<1>7. Entry(c) \in Addresses /\ va_frequency_map[Entry(c)] \in Nat
  BY EntryIsAddress DEF TableInv, TablesOK
<1>8. Distinct(MapSize) /\ \A v \in Addresses :
        (va_frequency_map[v] > 0 \/ v = Entry(c)) <=> IsListed(v, MapSize)
  BY <1>5, <1>6, <1>7 DEF Agree
<1>9. ( /\ new_freq[c] = va_frequency_map[Entry(c)] + 1
        /\ Distinct(MapSize)
        /\ \A v \in Addresses :
             (va_frequency_map[v] > 0 \/ v = Entry(c)) <=> IsListed(v, MapSize))'
  BY <1>2, <1>4, <1>5, <1>8, SameTables
<1>10. size'[c] = MapSize'
  BY <1>1, <1>2, SameTables DEF Consistent
<1> QED
  BY <1>1, <1>3, <1>4, <1>9, <1>10, Alone DEF TableInv

LEMMA SizeConsistent ==
  ASSUME TableInv, ~mixed', NEW c \in CPUs, WriteSize(c)
  PROVE  OneProbe' /\ Consistent'
<1>1. OneProbe /\ Consistent /\ step[c] = "slot" /\ Counts(c)
  BY DEF TableInv, WriteSize, history
<1>2. UNCHANGED <<va_frequency_map, request, i, ptr>>
  BY DEF WriteSize, clientVars
<1>3. step' = [step EXCEPT ![c] = "list"]
  BY DEF WriteSize, Goto
<1>4. Entry(c)' = Entry(c) /\ Counts(c)' /\ va_frequency_map'[Entry(c)'] = 0
  BY <1>1, <1>2 DEF Entry, Counts, Slot, WriteSize
<1>5. size[c] = MapSize /\ size[c] \in 0 .. MAX_FREQUENCY_ENTRIES
  BY <1>1 DEF Consistent, TableInv, LocalsOK
<1>6. size'[c] = MapSize + 1 /\ MapSize' = size'[c] /\ \A n \in 1 .. MAX_FREQUENCY_ENTRIES : Listed(n)' = Listed(n)
  BY <1>5, SizesAreNumbers DEF WriteSize, MapSize, Listed, TableInv, TablesOK, LocalsOK
<1>7. Agree(MapSize)
  BY <1>1, NoneHalfDone
<1>8. MapSize' - 1 = MapSize
  BY <1>5, <1>6
<1>9. \A n \in 1 .. MapSize : Listed(n)' = Listed(n)
  BY <1>5, <1>6, SizesAreNumbers
<1>10. Agree(MapSize - 1)'
  BY <1>2, <1>7, <1>8, <1>9 DEF Agree, Distinct, IsListed
<1> QED
  BY <1>1, <1>3, <1>4, <1>6, <1>10, Alone DEF TableInv

LEMMA AddressConsistent ==
  ASSUME TableInv, ~mixed', NEW c \in CPUs, WriteAddress(c)
  PROVE  OneProbe' /\ Consistent'
<1>1. OneProbe /\ Consistent /\ step[c] = "list"
  BY DEF TableInv, WriteAddress, history
<1>2. UNCHANGED <<va_frequency_map, request, i, ptr, size>>
  BY DEF WriteAddress, clientVars
<1>3. step' = [step EXCEPT ![c] = "count"]
  BY DEF WriteAddress, Goto
<1>4. Counts(c) /\ va_frequency_map[Entry(c)] = 0 /\ Agree(MapSize - 1)
  BY <1>1 DEF Consistent
<1>5. Entry(c)' = Entry(c) /\ Counts(c)'
  BY <1>2, <1>4 DEF Entry, Counts, Slot
<1>6. MapSize \in 1 .. MAX_FREQUENCY_ENTRIES /\ size[c] = MapSize
  BY <1>1 DEF Consistent, TableInv, LocalsOK, TablesOK
<1>7. /\ MapSize' = MapSize
      /\ Listed(MapSize)' = Entry(c)
      /\ \A n \in 1 .. MapSize - 1 : Listed(n)' = Listed(n)
  BY <1>6 DEF WriteAddress, MapSize, Listed, Entry, TableInv, TablesOK
<1>8. new_freq'[c] = 1
  BY DEF WriteAddress, TableInv, LocalsOK
<1>9. Entry(c) \in Addresses
  BY EntryIsAddress DEF TableInv
<1>10. \A n \in 1 .. MapSize - 1 : Listed(n) # Entry(c)
  BY <1>4, <1>9, <1>6 DEF Agree, IsListed
<1>11. \A n \in 1 .. MapSize : n = MapSize \/ n \in 1 .. MapSize - 1
  BY <1>6
<1>12. Distinct(MapSize)'
  BY <1>4, <1>7, <1>10, <1>11 DEF Agree, Distinct
<1>13. ASSUME NEW v \in Addresses
       PROVE  (va_frequency_map[v] > 0 \/ v = Entry(c)) <=> IsListed(v, MapSize)'
  <2>1. va_frequency_map[v] > 0 <=> \E n \in 1 .. MapSize - 1 : Listed(n) = v
    BY <1>4 DEF Agree, IsListed
  <2>2. IsListed(v, MapSize)' <=> \E n \in 1 .. MapSize : Listed(n)' = v
    BY <1>7 DEF IsListed
  <2>3. MapSize \in 1 .. MapSize /\ 1 .. MapSize - 1 \subseteq 1 .. MapSize
    BY <1>6
  <2> QED
    BY <1>7, <1>11, <2>1, <2>2, <2>3
<1>14. ( /\ new_freq[c] = va_frequency_map[Entry(c)] + 1
         /\ Distinct(MapSize)
         /\ \A v \in Addresses :
              (va_frequency_map[v] > 0 \/ v = Entry(c)) <=> IsListed(v, MapSize))'
  BY <1>2, <1>4, <1>5, <1>8, <1>12, <1>13
<1>15. size'[c] = MapSize'
  BY <1>2, <1>6, <1>7
<1> QED
  BY <1>1, <1>3, <1>5, <1>14, <1>15, Alone DEF TableInv

LEMMA FrequencyConsistent ==
  ASSUME TableInv, ~mixed', NEW c \in CPUs, WriteFrequency(c)
  PROVE  OneProbe' /\ Consistent'
<1>1. OneProbe /\ Consistent /\ step[c] = "count"
  BY DEF TableInv, WriteFrequency, history
<1>2. UNCHANGED <<va_frequency_array, size>>
  BY DEF WriteFrequency
<1>3. PICK s \in {"slot", "select"} : step' = [step EXCEPT ![c] = s]
  BY DEF WriteFrequency, NextSlot, Goto
<1>4. MapSize' = MapSize /\ \A n : Listed(n)' = Listed(n)
  BY <1>2 DEF MapSize, Listed
<1>5. /\ new_freq[c] > 0
      /\ Distinct(MapSize)
      /\ \A v \in Addresses :
           (va_frequency_map[v] > 0 \/ v = Entry(c)) <=> IsListed(v, MapSize)
  <2>1. va_frequency_map[Entry(c)] \in Nat
    BY EntryIsAddress DEF TableInv, TablesOK
  <2> QED
    BY <1>1, <2>1 DEF Consistent
<1>6. \A v \in Addresses :
        va_frequency_map'[v] = IF v = Entry(c) THEN new_freq[c] ELSE va_frequency_map[v]
  BY DEF WriteFrequency, Entry, TableInv, TablesOK
<1>7. Agree(MapSize)'
  BY <1>4, <1>5, <1>6 DEF Agree, Distinct, IsListed
<1>8. size'[c] = MapSize'
  BY <1>1, <1>2, <1>4 DEF Consistent
<1> QED
  BY <1>1, <1>3, <1>7, <1>8, Alone DEF TableInv

LEMMA TableStep == TableInv /\ [Next]_vars => TableInv'
<1> SUFFICES ASSUME TableInv, [Next]_vars PROVE TableInv'
  OBVIOUS
<1>1. LocalsOK' /\ TablesOK'
  BY TypesKept DEF TableInv
<1>2. ASSUME ~mixed' PROVE OneProbe' /\ Consistent'
  <2>1. CASE ApiCall
    BY <1>2, <2>1, ApiCallConsistent
  <2>2. ASSUME NEW c \in CPUs, Enter(c) PROVE OneProbe' /\ Consistent'
    BY <1>2, <2>2, EnterConsistent
  <2>3. ASSUME NEW c \in CPUs, Skip(c) \/ TableFull(c) \/ Select(c) PROVE OneProbe' /\ Consistent'
    BY <1>2, <2>3, PassConsistent
  <2>4. ASSUME NEW c \in CPUs, ReadFrequency(c) PROVE OneProbe' /\ Consistent'
    BY <1>2, <2>4, ReadConsistent
  <2>5. ASSUME NEW c \in CPUs, WriteSize(c) PROVE OneProbe' /\ Consistent'
    BY <1>2, <2>5, SizeConsistent
  <2>6. ASSUME NEW c \in CPUs, WriteAddress(c) PROVE OneProbe' /\ Consistent'
    BY <1>2, <2>6, AddressConsistent
  <2>7. ASSUME NEW c \in CPUs, WriteFrequency(c) PROVE OneProbe' /\ Consistent'
    BY <1>2, <2>7, FrequencyConsistent
  <2>8. CASE UNCHANGED vars
    <3>1. OneProbe /\ Consistent
      BY <1>2, <2>8 DEF vars, history, TableInv
    <3>2. UNCHANGED <<request, va_frequency_array, va_frequency_map, step, i, ptr, size, new_freq>>
      BY <2>8 DEF vars, clientVars, tables, locals
    <3> QED
      BY <3>1, <3>2 DEF OneProbe, Consistent, Counts, Entry, Slot, MapSize, Agree, Distinct,
         IsListed, Listed
  <2> QED
    BY <2>1, <2>2, <2>3, <2>4, <2>5, <2>6, <2>7, <2>8 DEF Next
<1> QED
  BY <1>1, <1>2 DEF TableInv

LEMMA AgreeIsMatch == TableInv => ListMatchesMap
<1> SUFFICES ASSUME TableInv, Quiet, ~mixed
             PROVE  /\ \A n, m \in 1 .. MapSize : Listed(n) = Listed(m) => n = m
                    /\ {Listed(n) : n \in 1 .. MapSize} = {v \in Addresses : va_frequency_map[v] > 0}
  BY DEF ListMatchesMap
<1>1. Agree(MapSize)
  BY DEF TableInv, Consistent, Quiet
<1>2. \A n \in 1 .. MapSize : Listed(n) \in Addresses
  BY SizesAreNumbers DEF TableInv, TablesOK
<1> QED
  BY <1>1, <1>2 DEF Agree, Distinct, IsListed

\* Between two probes that did not disturb each other the list and the hash hold the
\* same addresses, for every size of the tables and any number of CPUs (va_frequency_array
\* and va_frequency_map are written one after the other, from a copy of the size).
THEOREM ListAndHashAgree == Spec => []ListMatchesMap
<1>1. Init => TableInv
  BY TypesInit, ConsistentInit DEF TableInv
<1> QED
  BY <1>1, TableStep, AgreeIsMatch, PTL DEF Spec

-----------------------------------------------------------------------------
(* The slots a scan visits. *)

LEMMA DivMod ==
  ASSUME NEW a \in Nat, NEW n \in Nat \ {0}
  PROVE  a \div n \in Nat /\ a = (n * (a \div n)) + (a % n)
<1>1. a \div n \in Nat
  OBVIOUS
<1>2. a = (n * (a \div n)) + (a % n)
  OBVIOUS
<1> QED
  BY <1>1, <1>2

LEMMA SameRest ==
  ASSUME NEW a \in Nat, NEW b \in Nat, NEW n \in Nat \ {0}, a % n = b % n, b < a
  PROVE  a - b >= n
<1> DEFINE q == a \div n
           r == b \div n
<1>1. q \in Nat /\ r \in Nat
  BY DivMod
<1>2. a = n * q + (a % n) /\ b = n * r + (a % n)
  BY DivMod
<1>3. a % n \in 0 .. n - 1
  OBVIOUS
<1> HIDE DEF q, r
<1>4. a - b = n * (q - r)
  BY <1>1, <1>2, <1>3
<1>5. q - r >= 1
  BY <1>1, <1>4
<1> QED
  BY <1>1, <1>4, <1>5

LEMMA RestOf ==
  ASSUME NEW q \in Nat, NEW n \in Nat \ {0}, NEW k \in 0 .. n - 1
  PROVE  (n * q + k) % n = k
OBVIOUS

LEMMA Reached ==
  ASSUME NEW a \in Nat, NEW n \in Nat \ {0}, NEW k \in 0 .. n - 1
  PROVE  \E j \in 0 .. n - 1 : (j + a) % n = k
<1> DEFINE q == a \div n
           r == a % n
<1>1. r \in 0 .. n - 1
  OBVIOUS
<1>2. q \in Nat /\ a = n * q + r
  BY DivMod
<1> HIDE DEF q, r
<1>3. CASE r <= k
  <2>1. (k - r) + a = n * q + k /\ k - r \in 0 .. n - 1
    BY <1>1, <1>2, <1>3
  <2>2. ((k - r) + a) % n = k
    BY <1>2, <2>1, RestOf
  <2> QED
    BY <2>1, <2>2
<1>4. CASE r > k
  <2>1. (k - r + n) + a = n * (q + 1) + k /\ k - r + n \in 0 .. n - 1
    BY <1>1, <1>2, <1>4
  <2>2. q + 1 \in Nat
    BY <1>2
  <2>3. ((k - r + n) + a) % n = k
    BY <2>1, <2>2, RestOf
  <2> QED
    BY <2>1, <2>3
<1> QED
  BY <1>1, <1>3, <1>4

\* The slots the probe on c has left behind.
Visited(c) == {(j + ptr[c]) % MAX_PID_VA_ENTRIES : j \in 0 .. i[c] - 1}

\* The requests for v among the slots of S.
Asked(v, S) == {k \in S \ {0} : request[k] = [flags |-> Access, VA |-> v]}

LEMMA VisitsOnce ==
  ASSUME LocalsOK, NEW c \in CPUs, step[c] \in {"slot", "list", "count"}
  PROVE  Visited(c) \subseteq Slots /\ Slot(c) \notin Visited(c)
<1>1. i[c] \in Nat /\ i[c] < MAX_PID_VA_ENTRIES /\ ptr[c] \in Nat
  <2>1. i[c] \in 0 .. MAX_PID_VA_ENTRIES /\ ptr[c] \in 0 .. 4 /\ i[c] < MAX_PID_VA_ENTRIES
    BY DEF LocalsOK
  <2> QED
    BY <2>1, SizesAreNumbers
<1>2. MAX_PID_VA_ENTRIES \in Nat \ {0}
  BY SizesAreNumbers
<1>3. ASSUME NEW j \in 0 .. i[c] - 1
      PROVE  /\ (j + ptr[c]) % MAX_PID_VA_ENTRIES \in Slots
             /\ (j + ptr[c]) % MAX_PID_VA_ENTRIES # Slot(c)
  <2>1. j + ptr[c] \in Nat /\ i[c] + ptr[c] \in Nat
    BY <1>1
  <2>2. j + ptr[c] < i[c] + ptr[c] /\ (i[c] + ptr[c]) - (j + ptr[c]) < MAX_PID_VA_ENTRIES
    BY <1>1, <1>2
  <2>3. (j + ptr[c]) % MAX_PID_VA_ENTRIES # (i[c] + ptr[c]) % MAX_PID_VA_ENTRIES
    BY <1>2, <2>1, <2>2, SameRest
  <2> QED
    BY <1>2, <2>1, <2>3, ModRange DEF Slot, Slots
<1> QED
  BY <1>3 DEF Visited

LEMMA VisitsAll ==
  ASSUME LocalsOK, NEW c \in CPUs, step[c] = "select"
  PROVE  Visited(c) = Slots
<1>1. i[c] = MAX_PID_VA_ENTRIES /\ ptr[c] \in Nat
  BY DEF LocalsOK
<1>2. MAX_PID_VA_ENTRIES \in Nat \ {0} /\ Slots = 0 .. MAX_PID_VA_ENTRIES - 1
  BY SizesAreNumbers
<1>3. ASSUME NEW j \in 0 .. MAX_PID_VA_ENTRIES - 1
      PROVE  (j + ptr[c]) % MAX_PID_VA_ENTRIES \in Slots
  <2>1. j + ptr[c] \in Nat
    BY <1>1, <1>2
  <2> QED
    BY <1>2, <2>1, ModRange
<1>4. \A k \in Slots : \E j \in 0 .. MAX_PID_VA_ENTRIES - 1 : (j + ptr[c]) % MAX_PID_VA_ENTRIES = k
  BY <1>1, <1>2, Reached
<1> QED
  BY <1>1, <1>3, <1>4 DEF Visited

LEMMA VisitsNext ==
  ASSUME LocalsOK, NEW c \in CPUs, NextSlot(c), UNCHANGED ptr
  PROVE  Visited(c)' = Visited(c) \cup {Slot(c)}
<1>1. i[c] \in Nat /\ i'[c] = i[c] + 1
  BY SizesAreNumbers DEF LocalsOK, NextSlot
<1>2. 0 .. i'[c] - 1 = (0 .. i[c] - 1) \cup {i[c]}
  BY <1>1
<1> QED
  BY <1>2 DEF Visited, Slot

\* One more slot is one more request for the address in it, if it is counted at all.
LEMMA AskedMore ==
  ASSUME NEW S \in SUBSET Slots, NEW k \in Slots \ S, NEW v
  PROVE  /\ Cardinality(Asked(v, S)) \in Nat
         /\ Cardinality(Asked(v, S \cup {k})) = Cardinality(Asked(v, S)) +
              (IF k # 0 /\ request[k] = [flags |-> Access, VA |-> v] THEN 1 ELSE 0)
<1>1. IsFiniteSet(Asked(v, S))
  <2>1. IsFiniteSet(Slots)
    BY FS_Interval, SizesAreNumbers
  <2> QED
    BY <2>1, FS_Subset DEF Asked
<1>2. Cardinality(Asked(v, S)) \in Nat
  BY <1>1, FS_CardinalityType
<1>3. CASE k # 0 /\ request[k] = [flags |-> Access, VA |-> v]
  <2>1. Asked(v, S \cup {k}) = Asked(v, S) \cup {k} /\ k \notin Asked(v, S)
    BY <1>3 DEF Asked
  <2> QED
    BY <1>1, <1>2, <1>3, <2>1, FS_AddElement
<1>4. CASE ~(k # 0 /\ request[k] = [flags |-> Access, VA |-> v])
  <2>1. Asked(v, S \cup {k}) = Asked(v, S)
    BY <1>4 DEF Asked
  <2>2. Cardinality(Asked(v, S \cup {k})) = Cardinality(Asked(v, S))
    BY <2>1
  <2> QED
    BY <1>2, <1>4, <2>2
<1> QED
  BY <1>3, <1>4

-----------------------------------------------------------------------------
(* What a scan counts. *)

Tally(c, v) == va_frequency_map[v] = before[v] + Cardinality(Asked(v, Visited(c)))

\* The table was full when v was first seen.
LeftOut(v) == va_frequency_map[v] = 0 /\ MapSize = MAX_FREQUENCY_ENTRIES

Busy(c) == step[c] \in {"list", "count"}

\* An address that is about to get a frequency is not one of those left out.
TalliesKept ==
  \A c \in CPUs : step[c] # "idle" =>
    \A v \in VAs : Tally(c, v) \/ (LeftOut(v) /\ ~(Busy(c) /\ v = Entry(c)))

ScanInv == TableInv /\ (~mixed /\ ~called => TalliesKept)

\* Steps within an iteration visit no slot and write no frequency.
LEMMA SameTally ==
  ASSUME UNCHANGED <<request, i, ptr, va_frequency_map, before>>, NEW c \in CPUs, NEW v
  PROVE  (Tally(c, v))' <=> Tally(c, v)
<1>1. Asked(v, Visited(c))' = Asked(v, Visited(c))
  BY DEF Asked, Visited
<1>2. Cardinality(Asked(v, Visited(c)))' = Cardinality(Asked(v, Visited(c)))
  BY <1>1
<1> QED
  BY <1>2 DEF Tally

\* Moving on visits the slot the probe was at.
LEMMA TallyNext ==
  ASSUME LocalsOK, NEW c \in CPUs, step[c] \in {"slot", "list", "count"},
         NextSlot(c), UNCHANGED <<request, ptr>>, NEW v
  PROVE  /\ Cardinality(Asked(v, Visited(c))) \in Nat
         /\ Cardinality(Asked(v, Visited(c)))' = Cardinality(Asked(v, Visited(c))) +
              (IF Slot(c) # 0 /\ request[Slot(c)] = [flags |-> Access, VA |-> v] THEN 1 ELSE 0)
<1>1. Visited(c) \in SUBSET Slots /\ Slot(c) \in Slots \ Visited(c)
  BY VisitsOnce, SlotInRange
<1>2. Visited(c)' = Visited(c) \cup {Slot(c)}
  BY VisitsNext
<1>3. Asked(v, Visited(c))' = Asked(v, Visited(c) \cup {Slot(c)})
  BY <1>2 DEF Asked
<1>4. Cardinality(Asked(v, Visited(c)))' = Cardinality(Asked(v, Visited(c) \cup {Slot(c)}))
  BY <1>3
<1> QED
  BY <1>1, <1>4, AskedMore

LEMMA OnlyOneTallies ==
  ASSUME LocalsOK, OneProbe, NEW c \in CPUs, step[c] # "idle", NEW s, step' = [step EXCEPT ![c] = s],
         s # "idle" => (\A v \in VAs : Tally(c, v) \/ (LeftOut(v) /\ ~(Busy(c) /\ v = Entry(c))))'
  PROVE  TalliesKept'
<1>1. \A d \in CPUs : step'[d] # "idle" => d = c
  BY DEF OneProbe, LocalsOK
<1>2. step'[c] = s
  BY DEF LocalsOK
<1> QED
  BY <1>1, <1>2 DEF TalliesKept

LEMMA VAsAreAddresses == VAs \subseteq Addresses /\ NullVA \notin VAs
BY PinnerAssumption DEF Addresses

LEMMA EnterTallies ==
  ASSUME TableInv, ~mixed', NEW c \in CPUs, Enter(c)
  PROVE  TalliesKept'
<1>1. \A d \in CPUs : step'[d] # "idle" => d = c
  BY DEF Enter, Goto, TableInv, LocalsOK
<1>2. i'[c] = 0 /\ before' = va_frequency_map /\ va_frequency_map' = va_frequency_map
  BY DEF Enter, TableInv, LocalsOK, tables
<1>3. ASSUME NEW v \in VAs PROVE (Tally(c, v))'
  <2>1. Asked(v, Visited(c))' = {}
    BY <1>2 DEF Asked, Visited
  <2>2. Cardinality(Asked(v, Visited(c)))' = 0
    BY <2>1, FS_EmptySet
  <2>3. va_frequency_map[v] \in Nat
    BY VAsAreAddresses DEF TableInv, TablesOK
  <2> QED
    BY <1>2, <2>2, <2>3 DEF Tally
<1> QED
  BY <1>1, <1>3 DEF TalliesKept

\* A slot that is passed over holds no request that counts, or one for an address the
\* full table has no room for.
LEMMA PassTallies ==
  ASSUME TableInv, ~mixed, TalliesKept, NEW c \in CPUs, Skip(c) \/ TableFull(c)
  PROVE  TalliesKept'
<1>1. /\ LocalsOK /\ OneProbe /\ Consistent
      /\ step[c] = "slot" /\ NextSlot(c)
      /\ UNCHANGED <<request, ptr, va_frequency_array, va_frequency_map, before>>
  BY DEF TableInv, Skip, TableFull, clientVars, tables, history
<1>2. PICK s \in {"slot", "select"} : step' = [step EXCEPT ![c] = s]
  BY <1>1 DEF NextSlot, Goto
<1>3. ~Busy(c)'
  BY <1>1, <1>2 DEF Busy, LocalsOK
<1>4. ASSUME NEW v \in VAs PROVE (Tally(c, v) \/ LeftOut(v))'
  <2>1. Tally(c, v) \/ LeftOut(v)
    BY <1>1 DEF TalliesKept
  <2>2. LeftOut(v)' <=> LeftOut(v)
    BY <1>1 DEF LeftOut, MapSize
  <2>3. CASE Slot(c) # 0 /\ request[Slot(c)] = [flags |-> Access, VA |-> v]
    <3>1. Counts(c)
      BY <2>3, VAsAreAddresses DEF Counts
    <3>2. va_frequency_map[v] = 0 /\ size[c] = MAX_FREQUENCY_ENTRIES
      BY <2>3, <3>1 DEF Skip, TableFull
    <3>3. size[c] = MapSize
      BY <1>1 DEF Consistent
    <3> QED
      BY <2>2, <3>2, <3>3 DEF LeftOut
  <2>4. CASE ~(Slot(c) # 0 /\ request[Slot(c)] = [flags |-> Access, VA |-> v])
    <3>1. Cardinality(Asked(v, Visited(c)))' = Cardinality(Asked(v, Visited(c)))
      BY <1>1, <2>4, TallyNext
    <3>2. (Tally(c, v))' <=> Tally(c, v)
      BY <1>1, <3>1 DEF Tally
    <3> QED
      BY <2>1, <2>2, <3>2
  <2> QED
    BY <2>3, <2>4
<1> QED
  BY <1>1, <1>2, <1>3, <1>4, OnlyOneTallies

\* An address enters the table, or has its frequency read, with its tally right.
LEMMA ReadTallies ==
  ASSUME TableInv, ~mixed, TalliesKept, NEW c \in CPUs,
         ReadFrequency(c) \/ WriteSize(c) \/ WriteAddress(c)
  PROVE  TalliesKept'
<1>1. /\ LocalsOK /\ OneProbe /\ Consistent
      /\ UNCHANGED <<request, i, ptr, va_frequency_map, before>>
  BY DEF TableInv, ReadFrequency, WriteSize, WriteAddress, clientVars, tables, history
<1>2. PICK s \in {"list", "count"} : step' = [step EXCEPT ![c] = s]
  BY DEF ReadFrequency, WriteSize, WriteAddress, Goto
<1>3. step[c] # "idle"
  BY DEF ReadFrequency, WriteSize, WriteAddress
<1>4. Entry(c)' = Entry(c)
  BY <1>1 DEF Entry, Slot
<1>5. ASSUME NEW v \in VAs
      PROVE  (Tally(c, v) \/ (LeftOut(v) /\ ~(Busy(c) /\ v = Entry(c))))'
  <2>1. Tally(c, v) \/ (LeftOut(v) /\ ~(Busy(c) /\ v = Entry(c)))
    BY <1>3 DEF TalliesKept
  <2>2. (Tally(c, v))' <=> Tally(c, v)
    BY <1>1, SameTally
  <2>3. CASE ReadFrequency(c)
    <3>1. LeftOut(v)' <=> LeftOut(v)
      BY <1>1, <2>3 DEF ReadFrequency, tables, LeftOut, MapSize
    <3>2. LeftOut(v) => v # Entry(c)
      BY <2>3 DEF ReadFrequency, LeftOut, Entry
    <3> QED
      BY <1>4, <2>1, <2>2, <3>1, <3>2
  <2>4. CASE WriteSize(c)
    <3>1. ~LeftOut(v)
      BY <1>1, <1>3, <2>4 DEF WriteSize, LeftOut, Consistent
    <3> QED
      BY <2>1, <2>2, <3>1
  <2>5. CASE WriteAddress(c)
    <3>1. size[c] \in 1 .. MAX_FREQUENCY_ENTRIES
      BY <1>1, <2>5 DEF WriteAddress, LocalsOK
    <3>2. MapSize' = MapSize
      BY <2>5, <3>1 DEF WriteAddress, MapSize, TableInv, TablesOK
    <3>3. LeftOut(v)' <=> LeftOut(v)
      BY <1>1, <3>2 DEF LeftOut
    <3>4. Busy(c)
      BY <2>5 DEF WriteAddress, Busy
    <3> QED
      BY <1>4, <2>1, <2>2, <3>3, <3>4
  <2> QED
    BY <2>3, <2>4, <2>5
<1> QED
  BY <1>1, <1>2, <1>3, <1>5, OnlyOneTallies

LEMMA FrequencyTallies ==
  ASSUME TableInv, ~mixed, TalliesKept, NEW c \in CPUs, WriteFrequency(c)
  PROVE  TalliesKept'
<1>1. /\ LocalsOK /\ OneProbe /\ Consistent
      /\ step[c] = "count" /\ NextSlot(c)
      /\ UNCHANGED <<request, ptr, va_frequency_array, before>>
  BY DEF TableInv, WriteFrequency, clientVars, history
<1>2. PICK s \in {"slot", "select"} : step' = [step EXCEPT ![c] = s]
  BY <1>1 DEF NextSlot, Goto
<1>3. ~Busy(c)'
  BY <1>1, <1>2 DEF Busy, LocalsOK
<1>4. Counts(c) /\ new_freq[c] = va_frequency_map[Entry(c)] + 1
  BY <1>1 DEF Consistent
<1>5. request[Slot(c)] = [flags |-> Access, VA |-> Entry(c)]
  BY <1>4, EntryIsAddress DEF Counts, Entry, TableInv
<1>6. \A v \in Addresses :
        va_frequency_map'[v] = IF v = Entry(c) THEN new_freq[c] ELSE va_frequency_map[v]
  BY DEF WriteFrequency, Entry, TableInv, TablesOK
<1>7. ASSUME NEW v \in VAs PROVE (Tally(c, v) \/ LeftOut(v))'
  <2>1. Tally(c, v) \/ (LeftOut(v) /\ ~(Busy(c) /\ v = Entry(c)))
    BY <1>1 DEF TalliesKept
  <2>2. v \in Addresses /\ va_frequency_map[v] \in Nat /\ before[v] \in Nat
    BY VAsAreAddresses DEF TableInv, TablesOK
  <2>3. CASE v = Entry(c)
    <3>1. Tally(c, v)
      BY <1>1, <2>1, <2>3 DEF Busy
    <3>2. /\ Cardinality(Asked(v, Visited(c))) \in Nat
          /\ Cardinality(Asked(v, Visited(c)))' = Cardinality(Asked(v, Visited(c))) + 1
      BY <1>1, <1>4, <1>5, <2>3, TallyNext DEF Counts
    <3>3. va_frequency_map'[v] = va_frequency_map[v] + 1
      BY <1>4, <1>6, <2>2, <2>3
    <3> QED
      BY <1>1, <2>2, <3>1, <3>2, <3>3 DEF Tally
  <2>4. CASE v # Entry(c)
    <3>1. request[Slot(c)] # [flags |-> Access, VA |-> v]
      BY <2>4 DEF Entry
    <3>2. Cardinality(Asked(v, Visited(c)))' = Cardinality(Asked(v, Visited(c)))
      BY <1>1, <3>1, TallyNext
    <3>3. va_frequency_map'[v] = va_frequency_map[v]
      BY <1>6, <2>2, <2>4
    <3>4. ((Tally(c, v))' <=> Tally(c, v)) /\ (LeftOut(v)' <=> LeftOut(v))
      BY <1>1, <3>2, <3>3 DEF Tally, LeftOut, MapSize
    <3> QED
      BY <2>1, <3>4
  <2> QED
    BY <2>3, <2>4
<1> QED
  BY <1>1, <1>2, <1>3, <1>7, OnlyOneTallies

LEMMA ScanStep == ScanInv /\ [Next]_vars => ScanInv'
<1> SUFFICES ASSUME ScanInv, [Next]_vars, ~mixed', ~called' PROVE TalliesKept'
  BY TableStep DEF ScanInv
<1> USE DEF ScanInv
<1>1. CASE ApiCall
  BY <1>1 DEF ApiCall
<1>2. ASSUME NEW c \in CPUs, Enter(c) PROVE TalliesKept'
  BY <1>2, EnterTallies
<1>3. ASSUME NEW c \in CPUs, Skip(c) \/ TableFull(c) PROVE TalliesKept'
  <2>1. ~mixed /\ ~called
    BY <1>3 DEF Skip, TableFull, history
  <2> QED
    BY <1>3, <2>1, PassTallies
<1>4. ASSUME NEW c \in CPUs, ReadFrequency(c) \/ WriteSize(c) \/ WriteAddress(c)
      PROVE  TalliesKept'
  <2>1. ~mixed /\ ~called
    BY <1>4 DEF ReadFrequency, WriteSize, WriteAddress, history
  <2> QED
    BY <1>4, <2>1, ReadTallies
<1>5. ASSUME NEW c \in CPUs, WriteFrequency(c) PROVE TalliesKept'
  <2>1. ~mixed /\ ~called
    BY <1>5 DEF WriteFrequency, history
  <2> QED
    BY <1>5, <2>1, FrequencyTallies
<1>6. ASSUME NEW c \in CPUs, Select(c) PROVE TalliesKept'
  <2>1. ~mixed /\ ~called /\ step[c] # "idle" /\ step' = [step EXCEPT ![c] = "idle"]
    BY <1>6 DEF Select, Goto, history
  <2> QED
    BY <2>1, OnlyOneTallies DEF TableInv
<1>7. CASE UNCHANGED vars
  <2>1. ~mixed /\ ~called
    BY <1>7 DEF vars, history
  <2>2. UNCHANGED <<request, i, ptr, va_frequency_array, va_frequency_map, before, step>>
    BY <1>7 DEF vars, clientVars, tables, locals, history
  <2>3. \A c \in CPUs, v \in VAs : (Tally(c, v))' <=> Tally(c, v)
    BY <2>2, SameTally
  <2> QED
    BY <2>1, <2>2, <2>3 DEF TalliesKept, LeftOut, MapSize, Busy, Entry, Slot
<1> QED
  BY <1>1, <1>2, <1>3, <1>4, <1>5, <1>6, <1>7 DEF Next

LEMMA TalliesAreCounts == ScanInv => ScanCounts
<1> SUFFICES ASSUME ScanInv, NEW c \in CPUs, step[c] = "select", ~mixed, ~called, NEW v \in VAs
             PROVE  \/ va_frequency_map[v] = before[v] + Cardinality(Asked(v, Slots))
                    \/ va_frequency_map[v] = 0 /\ MapSize = MAX_FREQUENCY_ENTRIES
  BY DEF ScanCounts, Asked
<1>1. Visited(c) = Slots
  BY VisitsAll DEF ScanInv, TableInv
<1>2. Asked(v, Visited(c)) = Asked(v, Slots)
  BY <1>1
<1>3. Tally(c, v) \/ LeftOut(v)
  BY DEF ScanInv, TalliesKept
<1> QED
  BY <1>2, <1>3 DEF Tally, LeftOut

\* A scan nobody disturbs counts every request behind slot 0 exactly once, wherever it
\* starts and however many slots there are; only addresses that found the table full are
\* left out (the loop of the probe and its index (idx + iter) % MAX_PID_VA_ENTRIES).
THEOREM EverySlotOnce == Spec => []ScanCounts
<1>1. Init => ScanInv
  <2>1. Init => TableInv
    BY TypesInit, ConsistentInit DEF TableInv
  <2>2. Init => TalliesKept
    BY DEF Init, TalliesKept
  <2> QED
    BY <2>1, <2>2 DEF ScanInv
<1> QED
  BY <1>1, ScanStep, TalliesAreCounts, PTL DEF Spec

-----------------------------------------------------------------------------
(* The rest of the types: the heap, what was pinned and what was counted. *)

RestOK == min_heap \in Addresses /\ pinned_va_map \subseteq Addresses /\ counted \subseteq Slots

LEMMA RestKept ==
  ASSUME LocalsOK, TablesOK, RestOK, [Next]_vars
  PROVE  RestOK'
<1> USE SizesAreNumbers DEF RestOK
<1>1. CASE ApiCall
  BY <1>1 DEF ApiCall, heapVars
<1>2. ASSUME NEW c \in CPUs,
             Enter(c) \/ Skip(c) \/ ReadFrequency(c) \/ TableFull(c) \/ WriteSize(c) \/ WriteAddress(c)
      PROVE  RestOK'
  BY <1>2 DEF Enter, Skip, ReadFrequency, TableFull, WriteSize, WriteAddress, heapVars
<1>3. ASSUME NEW c \in CPUs, WriteFrequency(c) PROVE RestOK'
  BY <1>3, SlotInRange DEF WriteFrequency, heapVars
<1>4. ASSUME NEW c \in CPUs, Select(c) PROVE RestOK'
  <2>1. Listed(1) \in Addresses
    BY DEF TablesOK
  <2> QED
    BY <1>4, <2>1 DEF Select
<1>5. CASE UNCHANGED vars
  BY <1>5 DEF vars, heapVars
<1> QED
  BY <1>1, <1>2, <1>3, <1>4, <1>5 DEF Next

\* Sizes and indices stay within the tables for any number of CPUs, those that disturb
\* each other included (the check of the size at line 106 against the copy).
THEOREM WellTyped == Spec => []TypeOK
<1> DEFINE I == LocalsOK /\ TablesOK /\ RestOK
<1>1. Init => I
  <2>1. Init => RestOK
    BY DEF Init, RestOK, Addresses
  <2> QED
    BY <2>1, TypesInit
<1>2. I /\ [Next]_vars => I'
  BY TypesKept, RestKept
<1>3. I => TypeOK
  BY DEF LocalsOK, TablesOK, RestOK, TypeOK
<1> QED
  BY <1>1, <1>2, <1>3, PTL DEF Spec
=============================================================================
