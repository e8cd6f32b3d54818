CONSTANTS
  a = a
  b = b
  c = c
  d = d
  Callers <- Dispatches
  Limits = {1, 2}
  QueueDepth = 2
  DefaultMax = 3
  MaxTimers = 3
  NoGate = NoGate
SPECIFICATION FairSpec
INVARIANTS TypeOK SlotsAreCounted WaitersStayQueued NoStrandedWaiter
PROPERTIES AdmitsWithRoom WaitersAreServed
