---------------------------- MODULE MCLruModule ----------------------------
EXTENDS LruModule, TLC

\* Processes, frames and CPUs are only compared for equality.
Symmetry == Permutations(Procs) \cup Permutations(Frames) \cup Permutations(CPUs)

\* Bound of the run lru: nothing follows a step that lets two list operations overlap.
NoOverlap == ~overlapped
=============================================================================
