CONSTANTS
  Turn = {t1, t2}
  Spec = {s1, s2}
  Native = {}
  Logical = {}
  Command = {}
  Nexus = nexus
  MaxHops = 2
  Max = 1
  None = None
SPECIFICATION SafeSpec
INVARIANT HeavyWithinPolicy
