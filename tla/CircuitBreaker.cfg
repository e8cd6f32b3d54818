CONSTANTS
  c1 = c1
  c2 = c2
  c3 = c3
  Calls <- ThreeCalls
  FailureThreshold = 3
  DegradationThreshold = 2
  HalfOpenRequests = 2
  MaxFailures = 4
SPECIFICATION FairSpec
INVARIANTS TypeOK SavedIsCurrent ClosedBelowThreshold ProbesAreLimited
PROPERTIES OpenBlocks OpenEnds
