-------------------------- MODULE MCStageDispatch --------------------------
(* Small instances of StageDispatch. *)
EXTENDS StageDispatch, TLC

CONSTANTS w1, w2

Load(target, start, steps) == [targetVUs |-> target, startVUs |-> start, rampSteps |-> steps]

Base ==
  [maxVUs |-> (w1 :> 2 @@ w2 :> 1),
   load |-> [preflight |-> Load(1, 0, 0), baseline |-> Load(3, 0, 0),
             ramp |-> Load(2, 1, 1), soak |-> Load(2, 0, 0)],
   hardCap |-> 2,
   policy |-> "fail_fast",
   silent |-> {w1},
   busy |-> {},
   stops |-> FALSE]

\* Losses under each policy; a saturating worker and stops at any time.
LeasePlans ==
  {Base,
   [Base EXCEPT !.maxVUs = (w1 :> 2 @@ w2 :> 2), !.policy = "replace_if_possible"],
   [Base EXCEPT !.policy = "best_effort", !.load.ramp = Load(1, 0, 0)],
   [Base EXCEPT !.silent = {}, !.busy = {w2}, !.hardCap = 3, !.stops = TRUE]}

\* One loss under fail_fast.
FailFastPlans == {Base}
=============================================================================
