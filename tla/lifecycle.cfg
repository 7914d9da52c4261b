SPECIFICATION LifeSpec
CONSTANTS
  MAX_PID_VA_ENTRIES = 3
  Cells = {e1, e2, e3, e4}
  Procs = {p1}
  CPUs = {c1, c2}
  VAs = {v1}
  Ops = {3}
  MaxWrites = 4
  NoCell = NoCell
  NoPid = NoPid
  NullVA = NullVA
  NoTask = NoTask
  OtherTask = OtherTask
SYMMETRY LifeSymmetry
VIEW LifeView
INVARIANTS LifeTypeOK ServeCore DrainedWhenServed RequestsInRing
PROPERTIES LostOnlyWhenLapped AppliedInOrder
