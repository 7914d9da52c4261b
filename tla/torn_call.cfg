SPECIFICATION Spec
CONSTANTS
  MAX_PID_VA_ENTRIES = 1
  Cells = {e1, e2, e3}
  Procs = {p1}
  CPUs = {c1, c2}
  VAs = {v1, v2}
  Ops = {3, 4}
  NoCell = NoCell
  NoPid = NoPid
  NullVA = NullVA
  NoTask = NoTask
  OtherTask = OtherTask
SYMMETRY Symmetry
INVARIANT CallsWhatItLookedUp
