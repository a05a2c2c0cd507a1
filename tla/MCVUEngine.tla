----------------------------- MODULE MCVUEngine -----------------------------
(***************************************************************************)
(* Two virtual users, so that one can end, start or be removed while the   *)
(* other works; one alone with two operations in flight.                   *)
(***************************************************************************)
EXTENDS VUEngine

Base ==
  [mode |-> "normal", sessionMode |-> "reuse", inFlightPerVU |-> 1,
   maxConcurrent |-> 0, targetVUs |-> 2, updates |-> {0, 1}]

MCConfigs ==
  {Base,
   [Base EXCEPT !.inFlightPerVU = 2, !.targetVUs = 1, !.updates = {2}],
   [Base EXCEPT !.sessionMode = "other", !.updates = {}],
   [Base EXCEPT !.mode = "swarm", !.maxConcurrent = 1, !.updates = {}],
   [Base EXCEPT !.mode = "swarm", !.sessionMode = "other", !.maxConcurrent = 2,
                !.updates = {}]}
=============================================================================
