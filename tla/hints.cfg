SPECIFICATION FairSpec
CONSTANTS
  MAX_PID_VA_ENTRIES = 2
  Cells = {e1, e2, e3}
  Procs = {p1}
  CPUs = {c1}
  VAs = {v1}
  Ops = {1, 2, 3}
  NoCell = NoCell
  NoPid = NoPid
  NullVA = NullVA
  NoTask = NoTask
  OtherTask = OtherTask
PROPERTIES ImplementsHints CallsReturn
