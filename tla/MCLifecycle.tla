---------------------------- MODULE MCLifecycle ----------------------------
(***************************************************************************)
(* Symmetry and view of the run of Lifecycle.  What the requests ask for   *)
(* is followed by their numbers, so the view leaves out the pages and what *)
(* the other history variables of PagePatrol say of them.                  *)
(***************************************************************************)
EXTENDS LifecycleInv, MCPagePatrol

LifeSymmetry == Symmetry \cup Permutations(CPUs)

LifeView == <<slot, LiveCells, apiVars, cpuVars, lag, lifeVars>>
=============================================================================
