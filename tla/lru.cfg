SPECIFICATION Spec
CONSTANTS
  Procs = {p1, p2}
  Frames = {f1, f2}
  Frame0 = Frame0
  LockHolder = LockHolder
  CPUs = {c1, c2}
  NoProc = NoProc
  MaxCalls = 2
SYMMETRY Symmetry
INVARIANTS TypeOK ListsWhole SizesMatch MmHeld
CHECK_DEADLOCK FALSE
CONSTRAINT NoOverlap
