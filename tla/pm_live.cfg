CONSTANTS
  Alias = {spec}
  Resident = {}
  Child = {p1, p2}
  Client = {c1, c2}
  Profiles = 2
  MaxWarm = 0
  SweepEnabled = TRUE
  CrashExit = FALSE
  None = None
SPECIFICATION FairSpec
PROPERTIES EnsureSettles ToldToStopDies
CHECK_DEADLOCK FALSE
