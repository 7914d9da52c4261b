SPECIFICATION Spec
CONSTANTS
  Procs = {p1}
  Frames = {f1, f2}
  Frame0 = Frame0
  LockHolder = LockHolder
  CPUs = {c1}
  NoProc = NoProc
  MaxCalls = 1
SYMMETRY Symmetry
INVARIANT StaysListed
CHECK_DEADLOCK FALSE
