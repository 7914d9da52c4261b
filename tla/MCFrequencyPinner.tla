------------------------- MODULE MCFrequencyPinner -------------------------
EXTENDS FrequencyPinner, TLC

\* Addresses and CPUs are only compared for equality.
Symmetry == Permutations(VAs) \cup Permutations(CPUs)

\* The slots already counted matter to CountsOnce alone, the element of the heap to
\* nothing, and what a scan began with only while ScanCounts may still hold it to that.
ScanView == <<clientVars, tables, step, i, ptr, size, new_freq, mixed,
              IF mixed \/ called \/ Quiet THEN <<>> ELSE before>>

\* Nothing is claimed of the tables once two probes have mixed them up: such states
\* are checked, not explored further.
Unmixed == ~mixed
=============================================================================
