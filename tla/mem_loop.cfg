CONSTANTS
  s1 = s1
  k1 = k1
  k2 = k2
  d1 = d1
  Key = {k1, k2, d1}
  Call = {c1, c2}
  Session = {s1}
  Owner <- MCOwner
  Goal = {k2}
  Derivable = {d1}
  ItemLimit = 1
  None = None
SPECIFICATION Spec
SYMMETRY LoopSymmetry
INVARIANTS TypeOK WorkingSetSound SeizureWarned
PROPERTIES ContainmentHolds
