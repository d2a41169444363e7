CONSTANTS
  p1 = p1 p2 = p2 c1 = c1 c2 = c2
  Producers = {p1, p2}
  Consumers = {c1, c2}
  Thread = {p1, p2, c1, c2}
  BufferSize = 3
  None = None
  Item <- MCItem
SPECIFICATION TestSpec
INVARIANTS TypeOK RingConsistent NoLostWakeup
PROPERTIES Linearizable TestEnds
