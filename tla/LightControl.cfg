SPECIFICATION FairSpec
CONSTANTS
  Sources = {"ui", "voice", "cloud"}
  MaxSeq = 2
  MaxMoves = 1
INVARIANTS
  LockIsHeld
PROPERTIES
  WaitForNewest
  WaitEnds
  IconFollowsLamp
