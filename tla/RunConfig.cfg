SPECIFICATION MCSpec
CONSTANTS
  SystemPolicy <- Policy
  Base <- Document
  Edits <- AllEdits
  Workers = {w1, w2, w3}
  MaxCapacity = 3
  MaxTarget = 7
  Refused = Refused
INVARIANTS
  AcceptedRunnable
  Identified
  PlacementExact
