SPECIFICATION Spec
CONSTANTS
  None = None
  Program = {p1, p2, p3}
  NumPhysPages = 4
  MaxPages = 2
  p1 = p1
  p2 = p2
  p3 = p3
  Numbers <- MCNumbers
  NumChars = 2
INVARIANTS TypeOK MemoryOfItsOwn RefusedWhenFull
PROPERTIES ImplementsPrinting AllEnd
CHECK_DEADLOCK FALSE
