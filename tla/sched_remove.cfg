CONSTANTS
  Thread = {m, a, b}
  Main = m
  None = None
  m = m a = a b = b
  Priorities = {49, 60}
  Ticks = {1}
  TimerDelays = {1}
  AgingWait = 2
  AgingStep = 50
  BurstUnit = 1
  MaxRun = 1
  FreedChunk = {"reused"}
SPECIFICATION Spec
INVARIANT NoAssertionFails
