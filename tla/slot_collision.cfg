SPECIFICATION Spec
CONSTANTS
  MAX_PID_VA_ENTRIES = 2
  Cells = {e1, e2, e3}
  Procs = {p1, p2}
  CPUs = {c1}
  VAs = {v1}
  Ops = {3, 4}
  NoCell = NoCell
  NoPid = NoPid
  NullVA = NullVA
  NoTask = NoTask
  OtherTask = OtherTask
SYMMETRY Symmetry
INVARIANT NoCollision
