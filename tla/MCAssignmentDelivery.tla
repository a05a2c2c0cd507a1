------------------------ MODULE MCAssignmentDelivery ------------------------
(***************************************************************************)
(* What a worker and the control plane exchange: assignments one way, the  *)
(* outcomes of operations the other.  A behaviour is one part's; the other *)
(* stays as it starts.                                                     *)
(*                                                                         *)
(* Assignments: a queue that overflows, batches of two, a run that stops.  *)
(* Outcomes: two runs that alternate.                                      *)
(***************************************************************************)
EXTENDS AssignmentDelivery, TelemetryShipper

CONSTANTS l1, l2, r1, r2

VARIABLE part

MCSetups ==
  {[leases |-> {l1, l2}, limit |-> 1, stops |-> FALSE],
   [leases |-> {l1, l2}, limit |-> 2, stops |-> FALSE],
   [leases |-> {l1}, limit |-> 1, stops |-> TRUE]}

MCRuns == {r1, r2}
Alternating == [o \in 1 .. N |-> IF o % 2 = 1 THEN r1 ELSE r2]

exchangeVars == <<part, vars, shipperVars>>

MCInit ==
  /\ part \in {"assignments", "outcomes"}
  /\ Init /\ (part # "assignments" => setup = CHOOSE s \in Setups : TRUE)
  /\ ShipInit

MCNext ==
  /\ \/ part = "assignments" /\ Next /\ UNCHANGED shipperVars
     \/ part = "outcomes" /\ ShipNext /\ UNCHANGED vars
  /\ UNCHANGED part

\* A shipper that nobody cancels is under no obligation.
MCSpec ==
  /\ MCInit /\ [][MCNext]_exchangeVars
  /\ part = "assignments" => Fairness
  /\ ShipFairness
=============================================================================
