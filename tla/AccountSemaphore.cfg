CONSTANTS
  a = a
  b = b
  c = c
  d = d
  Requests = {a, b, c, d}
  Keys <- ThreeKeys
  Accounts = {2}
  Wants <- TwoAccounts
  MaxQueue = 2
  NoGate = NoGate
SPECIFICATION FairSpec
INVARIANTS TypeOK QueuesAgree SlotsAreCounted NoLostWakeup NobodyWaitsInCircles
PROPERTIES AdmitsWithRoom NobodyOvertakes WaitersAreServed
