SPECIFICATION FairSpec
CONSTANTS
  Works = {w1, w2}
  Variants = {large}
  None = None
  MaxObjects = 3
  MaxGeneration = 2
INVARIANTS
  OneOwner
  DecodeUsesLive
  ReadyIsCurrent
PROPERTIES
  EveryWorkSettles
CHECK_DEADLOCK FALSE
