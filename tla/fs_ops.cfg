CONSTANTS
  NumSectors = 11
  NumDirect = 2
  Paths <- MCPaths
  Sizes = {1, 3}
  Values = {v1}
  NumDirEntries = 2
  MapBits = 6
  UninitSectors <- MCUninitSectors
  MaxCuts = 0
SPECIFICATION StoreSpec
INVARIANTS TypeOK OthersSound NothingGarbled AllocateIsByCalls
PROPERTIES ImplementsStore
CHECK_DEADLOCK FALSE
