--------------------------- MODULE MCIndexedDrain ---------------------------
(***************************************************************************)
(* The run of IndexedDrain has one CPU: which entry of the pool holds a    *)
(* request makes no difference then, only what each key and the pointer of *)
(* the probe lead to.                                                      *)
(***************************************************************************)
EXTENDS IndexedDrain, TLC

Symmetry == Permutations(VAs)

Content(e) == IF e = NoCell THEN NoCell ELSE cell[e]
Contents == <<[k \in Keys |-> Content(slot[k])], [c \in CPUs |-> Content(ptr[c])]>>

\* Of pid_va only the pid is ever read again.
View == <<Contents, pc, idx, [p \in Procs |-> pid_va[p].PID],
          task, step, times, at, flags, program, pinned>>
=============================================================================
