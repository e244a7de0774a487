SPECIFICATION FairSpec
CONSTANTS
  MaxSeq = 2
  MaxMoves = 1
INVARIANTS
PROPERTIES
  WaitForNewest
  WaitEnds
  ShownFollowsDoor
