CONSTANTS
  s1 = s1
  Key = {k1, k2, k3}
  Call = {c1, c2}
  Session = {s1}
  Owner <- MCOwner
  Goal = {}
  Derivable = {}
  ItemLimit = 2
  None = None
  DreamTask = dream
  DreamDrive = drive1
  DreamRight = write
  DreamLease = {l1, l2}
  DreamAttempts = 2
  LeaseTicks = 1
  LastTick = 1
  k1 = k1
  k2 = k2
  k3 = k3
  TurnKey <- MCTurnKey
  Dreamer = {c2}
  WriteThrough = {k1}
SPECIFICATION HostSpec
INVARIANTS NoOrphanLease
PROPERTY TurnReturns
