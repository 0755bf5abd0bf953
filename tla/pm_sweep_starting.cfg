CONSTANTS
  Alias = {spec}
  Resident = {}
  Child = {p1, p2}
  Client = {c1}
  Profiles = 1
  MaxWarm = 0
  SweepEnabled = TRUE
  CrashExit = FALSE
  None = None
SPECIFICATION Spec
PROPERTY StartingNeverTouched
CHECK_DEADLOCK FALSE
