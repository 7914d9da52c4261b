SPECIFICATION Spec
CONSTANTS
  Users = {u1, u2}
  VAs = {a1, a2}
  CPUs = {c1, c2}
  NoPid = NoPid
  NullVA = NullVA
  NullPA = NullPA
  Absent = Absent
INVARIANT OwnAnswer
SYMMETRY Symmetry
