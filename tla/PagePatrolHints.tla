-------------------------- MODULE PagePatrolHints --------------------------
(***************************************************************************)
(* PagePatrol with one CPU and one client implements PageHints: the ring,  *)
(* the pool of entries, the loop of the probe and its registers are        *)
(* invisible to the caller.                                                *)
(***************************************************************************)
EXTENDS PagePatrol

\* The call of p in progress, as its fate tells.  PageHints knows no "lost": a request
\* that is dropped, overwritten or applied twice is a step it does not allow.
HintOf(p) ==
  [status |-> IF pc[p] = "exited" THEN "gone"
              ELSE IF pc[p] # "getpid" THEN "none"
              ELSE CASE fate[p] = "pending" -> "asked"
                     [] fate[p] = "none"    -> "refused"
                     [] fate[p] = "applied" -> "done"
                     [] OTHER               -> "lost",
   op |-> IF pc[p] = "getpid" THEN pid_va[p].flags ELSE 0,
   va |-> IF pc[p] = "getpid" THEN pid_va[p].VA ELSE NullVA]

Hints == INSTANCE PageHints WITH call <- [p \in Procs |-> HintOf(p)]

\* The library keeps its promise: HintsSpec, its fairness included, follows from
\* the fairness of the probe and of the scheduler.
ImplementsHints == Hints!HintsSpec
=============================================================================
