CONSTANTS
  Session = {s1, s2, s3}
  Gen = {g1, g2}
  Priority = {1, 2}
  MaxPending = 2
  MaxSessions = 2
  MaxSequence = 4
  None = None
SPECIFICATION Spec
SYMMETRY IrqSymmetry
INVARIANTS TypeOK LeaseReachable SessionsBounded HighestRetained
PROPERTIES PreemptedByPending FirstReasonWins
