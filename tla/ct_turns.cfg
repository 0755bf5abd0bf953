CONSTANTS
  Turn = {t1, t2, t3}
  Spec = {s1}
  Native = {n1}
  Logical = {}
  Command = {}
  Nexus = nexus
  MaxHops = 2
  Max = 1
  None = None
SPECIFICATION SafeSpec
SYMMETRY TurnSymmetry
INVARIANTS TypeOK SlotsAccounted
PROPERTIES GateIsFair
