CONSTANTS
  p1 = p1 c1 = c1 c2 = c2
  Producers = {p1}
  Consumers = {c1}
  None = None
  LineCounts = {2}
  Capacity <- MCCapacity
  LowThreshold = 1
  HighThreshold = 1
  Destroy = {"waits"}
SPECIFICATION FairSpec
PROPERTY ProgramEnds
