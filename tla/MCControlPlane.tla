---------------------------- MODULE MCControlPlane ----------------------------
(***************************************************************************)
(* The parts of the server that keep the telemetry, the events, the agents *)
(* and the request rates of its clients.  They share no state; a behaviour *)
(* is one of one part, and the others stay as they were at the start.      *)
(***************************************************************************)
EXTENDS RunReports, StopConditions, EventStream, AgentStore, ApiRateLimiter

CONSTANTS r1, r2, r3, a1, a2, p1, p2

VARIABLE part

Did(operation, tool, session, ok, dropped, latency) ==
  [operation |-> operation, toolName |-> tool, session |-> session, ok |-> ok,
   dropped |-> dropped, latency |-> latency]

o1 == Did("tools/call", "echo", 1, TRUE, FALSE, 1)
o2 == Did("tools_call", "echo", 0, TRUE, FALSE, 3)
o3 == Did("ping", "", 1, FALSE, TRUE, 2)
o4 == Did("tools_call", "", 2, FALSE, FALSE, 2)

MCOutcomes == {o1, o2, o3, o4}

\* Three runs in a store of two; one run with more logs than it may keep, two at a
\* time; one run whose reports are asked for.
MCConfigs ==
  {[maxOperations |-> 1, maxLogs |-> 1, maxTotalRuns |-> 2, ttl |-> 1, runs |-> {r1, r2, r3},
    outcomes |-> {o1}, received |-> 2, batchSizes |-> {1}, asked |-> {}],
   [maxOperations |-> 2, maxLogs |-> 3, maxTotalRuns |-> 0, ttl |-> 1, runs |-> {r1},
    outcomes |-> {o1, o2}, received |-> 4, batchSizes |-> {1, 2}, asked |-> {}],
   [maxOperations |-> 0, maxLogs |-> 0, maxTotalRuns |-> 0, ttl |-> 3, runs |-> {r1},
    outcomes |-> {o1, o3, o4}, received |-> 3, batchSizes |-> {3}, asked |-> {r1}],
   [maxOperations |-> 1, maxLogs |-> 1, maxTotalRuns |-> 0, ttl |-> 1, runs |-> {r1},
    outcomes |-> {o2, o3}, received |-> 2, batchSizes |-> {1}, asked |-> {r1}]}

Op(ok, latency, events) == [ok |-> ok, latency |-> latency, events |-> events]
Cond(id, metric, comparator, num, den, window, sustain) ==
  [id |-> id, metric |-> metric, comparator |-> comparator, threshold |-> <<num, den>>,
   window |-> window, sustain |-> sustain]

\* Two conditions of different windows over a list that is evicted; latencies over
\* a list at its limit; a stream, with enough room for its logs and without, of workers whose
\* clocks are ahead and of operations that take two polls.
MCEvalSetups ==
  {[conditions |-> <<Cond("errors", "error_rate", ">", 1, 2, 1, 2),
                     Cond("ok", "error_rate", "<=", 1, 2, 2, 3)>>,
    stall |-> 0, minEvents |-> 0, maxOps |-> 0, maxLogs |-> 0,
    arriving |-> {Op(TRUE, 1, 0), Op(FALSE, 1, 0)}, ages |-> {0}, arrivals |-> 4, evictions |-> 1, polls |-> 5],
   [conditions |-> <<Cond("p50", "latency_p50_ms", ">=", 2, 1, 2, 2),
                     Cond("what", "unknown", "<", 1, 1, 1, 1),
                     Cond("p99", "latency_p99_ms", ">", 2, 1, 1, 1),
                     Cond("off", "error_rate", ">=", 0, 1, 0, 1)>>,
    stall |-> 0, minEvents |-> 0, maxOps |-> 3, maxLogs |-> 0,
    arriving |-> {Op(TRUE, n, 0) : n \in 1 .. 3}, ages |-> {0}, arrivals |-> 4, evictions |-> 0, polls |-> 5],
   [conditions |-> <<Cond("errors", "error_rate", ">=", 1, 1, 2, 2)>>,
    stall |-> 1, minEvents |-> 1, maxOps |-> 0, maxLogs |-> 3,
    arriving |-> {Op(FALSE, 1, 0), Op(TRUE, 1, 2)}, ages |-> {-1, 0, 2}, arrivals |-> 4,
    evictions |-> 1, polls |-> 7]}

MCWorkerSkews == {-1, 1}

Lab(agents_, skew, cleanup, port, restarts_) ==
  [agents |-> agents_, skew |-> skew, cleanup |-> cleanup, timeout |-> 1, maxSamples |-> 1,
   port |-> port, pids |-> IF port THEN 2 ELSE 0, restarts |-> restarts_, samples |-> 2, horizon |-> 5]

\* One agent with a process that restarts, in little time; one with a server that does,
\* and time for slow registrations; two agents and the cleanup.
MCAgentSetups ==
  {[Lab({a1}, 3, FALSE, TRUE, 0) EXCEPT !.horizon = 3], Lab({a1}, -3, TRUE, FALSE, 1),
   [Lab({a1, a2}, 0, TRUE, FALSE, 0) EXCEPT !.samples = 1, !.horizon = 2]}

\* Two clients in a table of one; one client whose bucket is dropped when idle,
\* full by then, and not.
MCLimiterSetups ==
  {[rate |-> 1, burst |-> 2, maxClients |-> 1, ttl |-> 4, interval |-> 9,
    clients |-> {p1, p2}, requests |-> 2, horizon |-> 3],
   [rate |-> 3, burst |-> 2, maxClients |-> 0, ttl |-> 2, interval |-> 1,
    clients |-> {p1, p2}, requests |-> 2, horizon |-> 4],
   [rate |-> 1, burst |-> 1, maxClients |-> 0, ttl |-> 2, interval |-> 2,
    clients |-> {p1}, requests |-> 2, horizon |-> 9],
   [rate |-> 1, burst |-> 3, maxClients |-> 0, ttl |-> 2, interval |-> 1,
    clients |-> {p1}, requests |-> 3, horizon |-> 7]}

Some(S) == {CHOOSE x \in S : TRUE}

MCInit ==
  /\ part \in {"store", "evaluator", "events", "agents", "limiter"}
  /\ ReportInit /\ (part # "store" => config \in Some(Configs))
  /\ EvalInit(IF part = "evaluator" THEN EvalSetups ELSE Some(EvalSetups))
  /\ StreamInit
  /\ AgentInit(IF part = "agents" THEN AgentSetups ELSE Some(AgentSetups))
  /\ LimiterInit(IF part = "limiter" THEN LimiterSetups ELSE Some(LimiterSetups))

MCNext ==
  /\ UNCHANGED part
  /\ \/ part = "store" /\ ReportNext /\ UNCHANGED <<evalVars, streamVars, agentVars, limiterVars>>
     \/ part = "evaluator" /\ EvalNext /\ UNCHANGED <<reportVars, streamVars, agentVars, limiterVars>>
     \/ part = "events" /\ StreamNext /\ UNCHANGED <<reportVars, evalVars, agentVars, limiterVars>>
     \/ part = "agents" /\ AgentNext /\ UNCHANGED <<reportVars, evalVars, streamVars, limiterVars>>
     \/ part = "limiter" /\ LimiterNext /\ UNCHANGED <<reportVars, evalVars, streamVars, agentVars>>

allVars == <<part, reportVars, evalVars, streamVars, agentVars, limiterVars>>

MCSpec == MCInit /\ [][MCNext]_allVars
          /\ \A r \in Readers : WF_allVars(part = "events" /\ ReaderStep(r) /\ UNCHANGED <<part, reportVars, evalVars, agentVars, limiterVars>>)
===============================================================================
