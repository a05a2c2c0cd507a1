SPECIFICATION MCSpec
CONSTANTS
  SystemPolicy <- Policy
  Base <- Document
  Edits <- AllEdits
  Workers = {w1}
  MaxCapacity = 1
  MaxTarget = 1
  Refused = Refused
INVARIANTS StallGuarded
