CONSTANTS
  a = a
  b = b
  c = c
  d = d
  Callers <- Dispatches
  Limits = {1}
  QueueDepth = 3
  DefaultMax = 3
  MaxTimers = 2
  NoGate = NoGate
SPECIFICATION Spec
PROPERTY CooldownBlocks
