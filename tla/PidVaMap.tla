------------------------------ MODULE PidVaMap ------------------------------
(***************************************************************************)
(* The map pid_va_map that client processes and the kernel probe share: a  *)
(* BPF_MAP_TYPE_HASH with the keys 0 .. MAX_PID_VA_ENTRIES-1, pinned under *)
(* /sys/fs/bpf.  The kernel keeps the entries of such a map in a           *)
(* preallocated pool.  A lookup returns a POINTER to the entry, an update  *)
(* links a fresh entry in place of the old one, and an entry that is       *)
(* unlinked can be handed out again at once, also while another CPU still  *)
(* holds a pointer to it.  The pool is therefore part of the state.        *)
(*                                                                         *)
(* The map is kernel code and not in this repository; it is modelled from  *)
(* how API/PagePatrol.h and the eBPF programs use it.                      *)
(***************************************************************************)
EXTENDS Naturals

CONSTANTS
  MAX_PID_VA_ENTRIES,  \* number of keys
  Cells,               \* the preallocated entries of the map
  NoCell,              \* the NULL pointer a failed lookup returns
  Procs,               \* client processes, identified by their pid
  NoPid,               \* pid 0: the content of an entry that was never used
  VAs,                 \* addresses of pages of the clients' mapped files
  NullVA               \* address 0

ASSUME MapAssumption ==
  /\ MAX_PID_VA_ENTRIES \in Nat \ {0}
  /\ NoCell \notin Cells
  /\ NoPid \notin Procs
  /\ NullVA \notin VAs

VARIABLES
  slot,   \* key -> the entry linked under it, or NoCell
  cell    \* entry -> the struct pid_va it holds, whether linked or not

mapVars == <<slot, cell>>

Keys == 0 .. MAX_PID_VA_ENTRIES - 1

\* struct pid_va
Request == [flags : 0 .. 4, PID : Procs \cup {NoPid}, VA : VAs \cup {NullVA}]

MapInit ==
  /\ slot = [k \in Keys |-> NoCell]
  /\ cell = [e \in Cells |-> [flags |-> 0, PID |-> NoPid, VA |-> NullVA]]

MapTypeOK ==
  /\ slot \in [Keys -> Cells \cup {NoCell}]
  /\ cell \in [Cells -> Request]

FreeCells == {e \in Cells : \A k \in Keys : slot[k] # e}

\* bpf_map_lookup_elem
MapLookup(k) == slot[k]

\* bpf_map_update_elem(..., BPF_ANY): the new entry replaces the linked one,
\* which stays readable to whoever still holds a pointer to it.
MapUpdate(k, r) ==
  \E e \in FreeCells :
    /\ slot' = [slot EXCEPT ![k] = e]
    /\ cell' = [cell EXCEPT ![e] = r]

\* bpf_map_delete_elem: unlinks whatever the key holds NOW.
MapDelete(k) ==
  /\ slot' = [slot EXCEPT ![k] = NoCell]
  /\ UNCHANGED cell

\* The requests the map holds for process p, by key.
KeysOf(p) == {k \in Keys : slot[k] # NoCell /\ cell[slot[k]].PID = p}
=============================================================================
