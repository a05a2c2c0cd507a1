---------------------------- MODULE MCRunManager ----------------------------
(* Instances of RunManager for TLC. *)
EXTENDS RunManager, TLC

CONSTANTS c1, c2, f1, f2

MCStarters == {c1, c2}
MCStopCalls == {<<"drain", "other">>, <<"immediate", "emergency">>}
MCFinalizers == {f1, f2}
MCSymmetry == Permutations(MCStarters) \cup Permutations(MCFinalizers)

BothStores == {"telemetry", "artifacts"}

Plain ==
  [scheduler |-> "absent", stores |-> BothStores, soak |-> FALSE,
   conditions |-> {}, calls |-> 1, policy |-> "fail_fast", slow |-> FALSE,
   shutdown |-> FALSE]

\* Two evaluators that replace each other; a dispatching run with an auto-ramp
\* and replaced workers; an analysis that times out or is cut by a shutdown; two
\* concurrent starts, with and without the means to schedule.
StopConfigs ==
  {[Plain EXCEPT !.soak = TRUE, !.conditions = {"ramp", "soak"}],
   [Plain EXCEPT !.scheduler = "complete", !.policy = "replace_if_possible"],
   [Plain EXCEPT !.policy = "best_effort", !.slow = TRUE, !.shutdown = TRUE],
   [Plain EXCEPT !.calls = 2],
   [Plain EXCEPT !.calls = 2, !.scheduler = "partial"]}

\* A dispatching run; one without an artifact store; an analysis that may be too slow.
LiveConfigs ==
  {[Plain EXCEPT !.scheduler = "complete", !.soak = TRUE],
   [Plain EXCEPT !.slow = TRUE],
   [Plain EXCEPT !.stores = {"telemetry"}, !.conditions = {"ramp"},
                 !.policy = "best_effort"]}

\* As cmd/server wires the manager: no artifact store.
ServerConfigs == {[Plain EXCEPT !.stores = {"telemetry"}]}
=============================================================================
