CONSTANTS
  Alias = {nexus, spec}
  Resident = {nexus}
  Child = {p1, p2, p3}
  Client = {c1, c2}
  Profiles = 1
  MaxWarm = 0
  SweepEnabled = TRUE
  CrashExit = TRUE
  None = None
SPECIFICATION Spec
SYMMETRY ChildSymmetry
INVARIANTS TypeOK UnsweptTracked
PROPERTIES StatusBacked BackendsAsAssumed
CHECK_DEADLOCK FALSE
