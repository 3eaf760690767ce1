SPECIFICATION CompareSpec
CONSTANTS
  TUs = {t1, t2}
  Classes <- MCClasses
  m1 = 1
  m2 = 2
  m3 = 3
INVARIANTS
  SameIsNotReported
  DifferencesAreReported
