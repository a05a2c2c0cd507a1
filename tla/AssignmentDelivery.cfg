SPECIFICATION MCSpec
CONSTANTS
  l1 = l1
  l2 = l2
  r1 = r1
  r2 = r2
  Leases = {l1, l2}
  Setups <- MCSetups
  MaxLate = 1
  N = 4
  Runs <- MCRuns
  NoRun = NoRun
  RunOf <- Alternating
  BufferSize = 2
  BatchSize = 2
  MaxRetries = 1
INVARIANTS
  Accounted
  RepeatsExplained
  CopiesExplained
PROPERTIES
  Delivered
  StopReaches
  ShutdownEnds
