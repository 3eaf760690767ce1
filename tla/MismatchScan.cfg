SPECIFICATION FairSpec
CONSTANTS
  Bytes = {x, y, nop}
  NOP = nop
  MaxLen = 4
INVARIANTS
  TypeOK
  PassedCodeAgrees
  DecidesNoMismatch
  IndexIsFirstDifference
PROPERTIES
  ScanEnds
