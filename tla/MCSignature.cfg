SPECIFICATION SignatureSpec
CONSTANTS
  Words <- MCWords
  Types <- MCTypes
  Classes <- MCClasses
  MaxArgs = 3
INVARIANTS
  ArgsAreFound
  ReturnTypeIsFound
  KindIsFound
