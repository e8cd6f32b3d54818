CONSTANTS
  c1 = c1
  c2 = c2
  c3 = c3
  Calls <- ThreeCalls
  FailureThreshold = 3
  DegradationThreshold = 2
  HalfOpenRequests = 1
  MaxFailures = 4
SPECIFICATION Spec
INVARIANT HalfOpenIsProbing
