CONSTANTS
  NumSectors = 11
  NumDirect = 2
  Paths <- MCFewPaths
  Sizes = {1, 3}
  Values = {v1}
  NumDirEntries = 2
  MapBits = 6
  UninitSectors <- MCUninitAny
  MaxCuts = 0
SPECIFICATION Spec
PROPERTY RemovedIsGone
CHECK_DEADLOCK FALSE
