SPECIFICATION Spec
CONSTANTS
  Bytes = {x, y, nop}
  NOP = nop
  Rests = {r1, r2}
  MaxItems = 3
  MaxLen = 2
INVARIANTS
  EveryItemPrintedOnce
  GroupsAreRight
  ReportShowsADifference
