---------------------------- MODULE MCPagePatrol ----------------------------
(***************************************************************************)
(* What the safety runs of PagePatrol use beside its definitions.          *)
(***************************************************************************)
EXTENDS PagePatrolInv, TLC

\* Entries of the map's pool are interchangeable (they are never compared
\* except for equality), and so are addresses.
Symmetry == Permutations(Cells) \cup Permutations(VAs)

\* An entry that is neither linked nor held by a probe is overwritten before
\* anybody reads it: states that differ only in such an entry behave alike.
Readable(e) == (\E k \in Keys : slot[k] = e) \/ \E c \in CPUs : ptr[c] = e
LiveCells == [e \in Cells |-> IF Readable(e) THEN cell[e] ELSE NoCell]

\* The history variables decide nothing, so a run leaves out what its properties do
\* not read.
ViewPages == <<slot, LiveCells, apiVars, probeVars, fate, seen>>
=============================================================================
