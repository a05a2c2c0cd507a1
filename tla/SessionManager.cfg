SPECIFICATION FairSpec
CONSTANTS
  c1 = c1
  c2 = c2
  c3 = c3
  s1 = s1
  s2 = s2
  u1 = u1
  Clients = {c1, c2, c3}
  VUs = {u1}
  Sessions = {s1, s2}
  Setups <- MCSetups
  None = None
INVARIANTS
  Exclusive
  UsedStaysOpen
  NoLostWakeup
  ChurnBounded
  NoLeak
PROPERTIES
  CancelledReturns
