CONSTANTS
  p1 = p1 c1 = c1 c2 = c2
  Producers = {p1}
  Consumers = {c1, c2}
  None = None
  LineCounts = {1, 4}
  Capacity <- MCCapacity
  LowThreshold = 1
  HighThreshold = 1
  Destroy = {"waits", "frees"}
SPECIFICATION FairSpec
INVARIANTS TypeOK OnePlace PoolConsistent FewLinesStall
PROPERTY AllWritten
