CONSTANTS
  NumSectors = 11
  NumDirect = 2
  Paths <- MCFewPaths
  Sizes = {1, 3}
  Values = {v1}
  NumDirEntries = 2
  MapBits = 6
  UninitSectors <- MCUninitSectors
  MaxCuts = 0
SPECIFICATION Spec
INVARIANT NoSectorLost
CHECK_DEADLOCK FALSE
