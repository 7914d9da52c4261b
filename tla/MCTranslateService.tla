------------------------ MODULE MCTranslateService ------------------------
\* Users, addresses and CPUs are compared for equality only.
EXTENDS TranslateService, TLC

Symmetry == Permutations(Users) \cup Permutations(VAs) \cup Permutations(CPUs)
=============================================================================
