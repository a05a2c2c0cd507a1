---------------------------- MODULE RunLifecycle ----------------------------
(***************************************************************************)
(* What the run state machine promises: the state of a run only moves      *)
(* along the table of internal/controlplane/runmanager/state_machine.go.   *)
(* RunManager.tla is shown to implement this specification.                *)
(***************************************************************************)

VARIABLE state

RunState ==
  {"created", "preflight_running", "preflight_passed", "preflight_failed",
   "baseline_running", "ramp_running", "soak_running", "stopping",
   "analyzing", "completed", "failed", "aborted"}

Terminal == {"completed", "failed", "aborted"}

allowedTransitions ==
  {<<"created", "preflight_running">>, <<"created", "failed">>,
   <<"created", "aborted">>,
   <<"preflight_running", "preflight_passed">>,
   <<"preflight_running", "preflight_failed">>,
   <<"preflight_running", "stopping">>,
   <<"preflight_failed", "stopping">>,
   <<"preflight_passed", "baseline_running">>,
   <<"preflight_passed", "stopping">>,
   <<"baseline_running", "ramp_running">>, <<"baseline_running", "stopping">>,
   <<"ramp_running", "soak_running">>, <<"ramp_running", "stopping">>,
   <<"soak_running", "stopping">>,
   <<"stopping", "analyzing">>, <<"stopping", "stopping">>,
   <<"analyzing", "completed">>, <<"analyzing", "failed">>,
   <<"analyzing", "aborted">>}

CanTransition(from, to) == <<from, to>> \in allowedTransitions

\* TransitionToBaseline takes two transitions of the table while it holds the
\* manager's lock, so no other goroutine sees the state in between.
PassesThrough(from, to) ==
  /\ CanTransition(from, "preflight_passed")
  /\ CanTransition("preflight_passed", to)

Init == state = "created"

Next == \E to \in RunState :
          /\ CanTransition(state, to) \/ PassesThrough(state, to)
          /\ state' = to

Spec == Init /\ [][Next]_state
=============================================================================
