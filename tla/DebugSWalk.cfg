SPECIFICATION FairWalkSpec
CONSTANTS
  ShortMax = 3
  MaxDebugS = 4
  MaxSubs = 3
  Lengths = {6}
INVARIANTS
  PassesReadAlike
  PathsFollowTheTable
PROPERTIES
  WalkEnds
