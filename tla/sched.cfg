CONSTANTS
  root = root
  child = child
  dream = dream
  chore = chore
  write = write
  Drive = {root, child}
  Parent <- MCParent
  Rank <- MCRank
  Task = {dream, chore}
  Data <- MCData
  Capability = {write}
  Lease = {l1, l2}
  MaxAttempts = 2
  MaxPromotions = 1
  LeaseMs = 1
  MaxTime = 2
  None = None
SPECIFICATION SchedSpec
INVARIANTS SchedTypeOK LeaseCoherent LeasedOnlyIdle AttemptsWithinBudget
PROPERTIES StaleSettleHarmless
