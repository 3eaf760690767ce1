SPECIFICATION Spec
CONSTANTS
  MaxSections = 2
  MaxSymbols = 2
  MaxAux = 2
  MaxRelocs = 3
  WordMax = 2
INVARIANTS
  WholeFilesAreRead
  KeptRecordsAreInTheFile
  SymbolsAreTaken
