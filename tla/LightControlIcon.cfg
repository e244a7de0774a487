SPECIFICATION FairSpec
CONSTANTS
  Sources = {"planner"}
  MaxSeq = 1
  MaxMoves = 0
PROPERTIES
  IconFollowsLamp
