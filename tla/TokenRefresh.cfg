SPECIFICATION FairSpec
CONSTANTS
  k1 = k1
  k2 = k2
  c1 = c1
  c2 = c2
  c3 = c3
  Connections = {k1, k2}
  Callers = {c1, c2, c3}
  Of <- MCOf
  Roles <- MCRoles
  Bound <- MCBound
  Attempts = 2
  NULL = NULL
  Dead = Dead
INVARIANTS TypeOK SiblingsTakeTurns NobodyWaitsInVain LiveTokenIsKept NoTokenPresentedTwice
PROPERTIES LiveConnectionsStayActive CallersEnd
CHECK_DEADLOCK FALSE
