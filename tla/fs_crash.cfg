CONSTANTS
  NumSectors = 12
  NumDirect = 1
  Paths <- MCFewPaths
  Sizes = {2}
  Values = {v1}
  NumDirEntries = 2
  MapBits = 6
  UninitSectors <- MCUninitAborts
  MaxCuts = 2
SPECIFICATION StoreSpec
PROPERTIES ImplementsStore
CHECK_DEADLOCK FALSE
