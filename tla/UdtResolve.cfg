SPECIFICATION FairSpec
CONSTANTS
  Udts = {u1, u2}
  MaxParts = 2
  MaxDepth = 3
INVARIANTS
  DiesOnlyInACycle
  EveryReachedClassIsRead
PROPERTIES
  ConstructionEnds
