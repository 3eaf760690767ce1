SPECIFICATION FairSpec
CONSTANTS
  Sections = {s1, s2}
  MaxFuncs = 3
  MaxStarts = 2
INVARIANTS
  TypeOK
  EachNameOnce
  NothingLost
  BodiesAreOwn
  LinesAreOwn
PROPERTIES
  WalkEnds
