CONSTANTS
  Turn = {t1, t2}
  Spec = {s1}
  Native = {}
  Logical = {monitor}
  Command = {tts}
  Nexus = nexus
  MaxHops = 2
  Max = 1
  None = None
SPECIFICATION FairSpec
PROPERTIES TurnEnds
