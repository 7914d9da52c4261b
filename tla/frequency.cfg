SPECIFICATION Spec
CONSTANTS
  MAX_PID_VA_ENTRIES = 3
  MAX_FREQUENCY_ENTRIES = 2
  MAX_PINNED_PAGES = 1
  VAs = {v1, v2, v3}
  NullVA = NullVA
  Ops = {1, 3}
  CPUs = {c1, c2}
  IntBits = 8
  MaxFrequency = 8
SYMMETRY Symmetry
VIEW ScanView
CONSTRAINT Unmixed
INVARIANTS TypeOK ListMatchesMap ScanCounts
