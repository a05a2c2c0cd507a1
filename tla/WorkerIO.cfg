SPECIFICATION MCSpec
CONSTANTS
  p1 = p1
  p2 = p2
  c1 = c1
  c2 = c2
  Capacity = 2
  Producers = {p1, p2}
  Consumers = {c1, c2}
  Setups <- MCSetups
  MaxRecords = 4
  ValidIDs = {"evt_1", "evt_2"}
  Locations <- MCLocations
  Subdomains <- MCSubdomains
  Addresses <- MCAddresses
  BlockedRanges = {"10.0.0.1"}
  Origin <- MCOrigin
  Plans <- MCPlans
INVARIANTS
  OnlyShedLost
  StreamVerdict
  BlameExact
PROPERTIES
  RequestEnds
