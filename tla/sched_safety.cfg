CONSTANTS
  Thread = {m, a, b, c}
  Main = m
  None = None
  m = m a = a b = b c = c
  Priorities = {49}
  Ticks = {1}
  TimerDelays = {2}
  AgingWait = 2
  AgingStep = 50
  BurstUnit = 1
  MaxRun = 1
  FreedChunk = {"reused", "intact"}
SPECIFICATION Spec
INVARIANTS TypeOK QueuedOnce QueuedExclusive NoThreadLost ListsSorted SortIsInsertion PreemptionBound AgingBound
PROPERTY DispatchesBest
SYMMETRY Others
