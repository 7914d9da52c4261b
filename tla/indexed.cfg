SPECIFICATION Spec
CONSTANTS
  MAX_PID_VA_ENTRIES = 5
  Cells = {e1, e2, e3, e4, e5, e6}
  Procs = {p1, p2}
  CPUs = {c1}
  VAs = {v1}
  Ops = {1, 3, 4}
  NoCell = NoCell
  NoPid = NoPid
  NullVA = NullVA
  NoTask = NoTask
  OtherTask = OtherTask
SYMMETRY Symmetry
VIEW View
INVARIANTS TypeOK DrainedBehindHeader
PROPERTY HeaderKept
