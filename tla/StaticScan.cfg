SPECIFICATION FairSpec
CONSTANTS
  MaxLines = 3
  MaxTokens = 2
INVARIANTS
  VerdictIsRight
  NothingEarlierCounts
PROPERTIES
  ScanEnds
