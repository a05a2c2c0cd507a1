------------------------------ MODULE AgentStore ------------------------------
(***************************************************************************)
(* Telemetry agents: the agent process (cmd/agent/main.go), the handlers   *)
(* that register it and take its samples                                   *)
(* (controlplane/api/agent_handlers.go) and the store behind them          *)
(* (controlplane/api/agent_store.go).                                      *)
(*                                                                         *)
(* The clock is the server's; an agent's own clock is skew behind it.  All *)
(* agents have one pair key.  A process registers once under an identifier *)
(* of its own, for which the process itself stands.                        *)
(***************************************************************************)
EXTENDS Integers, Sequences, FiniteSets, SequencesExt, FiniteSetsExt

CONSTANTS
  Agents,        \* agent processes
  AgentSetups,
  WorkerSkews,   \* how far the clocks of workers may be behind the server's
  timeMarginMs   \* of handleGetServerMetrics

AgentSetup ==
  [agents : SUBSET Agents,
   skew : Int,
   cleanup : BOOLEAN,      \* StartCleanup was called; the server does not
   timeout : Nat,          \* agentTimeout
   maxSamples : Nat,       \* maxSamplesPerAgent
   port : BOOLEAN,         \* --listen-port was given
   pids : Nat,             \* bound: starts of the monitored process
   restarts : Nat,         \* bound: restarts of the server
   samples : Nat,          \* bound: samples of an agent
   horizon : Nat]          \* bound: the clock stops here

ASSUME AgentAssumption ==
  AgentSetups \subseteq AgentSetup /\ WorkerSkews \subseteq Int /\ timeMarginMs \in Nat

VARIABLES
  lab,             \* the setup
  clock,
  agents,          \* s.agents: when an agent was last seen
  agentsByPairKey, \* the list of the one key
  metrics,         \* s.metrics; taken is a history: the server's time
  proc,            \* the agent processes; rtt is a history: the time registration took
  target,          \* pid of the monitored process, 0 while it is down
  lastPid, restarts

agentVars == <<lab, clock, agents, agentsByPairKey, metrics, proc, target, lastPid, restarts>>
storeVars == <<agents, agentsByPairKey, metrics>>
labVars == <<lab, clock, target, lastPid, restarts>>

Start == 10   \* any time late enough for clocks to be positive

NewProcess ==
  [at |-> "new", before |-> 0, serverTime |-> 0, offset |-> 0, rtt |-> 0, pid |-> 0, pidValid |-> FALSE,
   sample |-> [ts |-> 0, taken |-> 0, pid |-> 0], taken |-> 0]

AgentInit(setups) ==
  /\ lab \in setups
  /\ clock = Start
  /\ agents = <<>> /\ agentsByPairKey = <<>> /\ metrics = <<>>
  /\ proc = [a \in Agents |-> NewProcess]
  /\ target = 1 /\ lastPid = 1 /\ restarts = 0

Local == clock - lab.skew

Step(a, from, p) == proc[a].at = from /\ proc' = [proc EXCEPT ![a] = p]

-----------------------------------------------------------------------------
(* Registration.                                                           *)

\* main, up to the request.
RegisterSend(a) ==
  /\ a \in lab.agents
  /\ Step(a, "new", [proc[a] EXCEPT !.at = "registering", !.before = Local])
  /\ UNCHANGED <<storeVars, labVars>>

\* Under s.mu: a new agent, in the map and at the end of the list of its key.
Register(a) ==
  /\ agents' = [x \in DOMAIN agents \cup {a} |-> IF x = a THEN clock ELSE agents[x]]
  /\ agentsByPairKey' = Append(agentsByPairKey, a)
  /\ UNCHANGED metrics

handleAgentRegister(a) ==
  /\ Step(a, "registering", [proc[a] EXCEPT !.at = "registered", !.serverTime = clock])
  /\ Register(a)
  /\ UNCHANGED labVars

\* Slip: the offset is taken from the time of the request.
clockOffset_Before(p, after) == p.serverTime - p.before
clockOffset(p, after) == p.serverTime - (p.before + after) \div 2

findProcessByPort == IF lab.port THEN target ELSE 0

\* The reply arrives, after however long; the process looks for its target and starts to
\* collect.
RegisterDone(a) ==
  /\ Step(a, "registered",
          [proc[a] EXCEPT !.at = "collecting", !.offset = clockOffset(proc[a], Local),
                          !.rtt = Local - proc[a].before,
                          !.pid = findProcessByPort, !.pidValid = findProcessByPort > 0])
  /\ UNCHANGED <<storeVars, labVars>>

\* The request or the reply is lost, and the process exits.
RegisterFails(a) ==
  /\ proc[a].at \in {"registering", "registered"}
  /\ proc' = [proc EXCEPT ![a].at = "exited"]
  /\ UNCHANGED <<storeVars, labVars>>

-----------------------------------------------------------------------------
(* Samples.                                                                *)

\* Dated by the agent's clock and its offset; without a process that is gone.
CollectSample(a, pid) ==
  [ts |-> Local + proc[a].offset, taken |-> clock, pid |-> IF pid = target THEN pid ELSE 0]

\* collectAndSend: a target that was lost is looked for again, and is lost when
\* the sample has nothing of it.
Collect(a) ==
  LET again == ~proc[a].pidValid /\ findProcessByPort > 0
      pid == IF again THEN findProcessByPort ELSE proc[a].pid
      sample == CollectSample(a, pid)
  IN  /\ proc[a].taken < lab.samples
      /\ Step(a, "collecting",
              [proc[a] EXCEPT !.at = "sending", !.taken = @ + 1, !.pid = pid,
                 !.pidValid = (@ \/ again) /\ ~(pid > 0 /\ sample.pid = 0),
                 !.sample = sample])
      /\ UNCHANGED <<storeVars, labVars>>

\* The first section of handleAgentMetrics: an agent the store does not know is
\* refused, and the process drops the sample and goes on.
CheckAgent(a) ==
  /\ Step(a, "sending", [proc[a] EXCEPT !.at = IF a \in DOMAIN agents THEN "checked" ELSE "collecting"])
  /\ UNCHANGED <<storeVars, labVars>>

SendFails(a) ==
  /\ Step(a, "sending", [proc[a] EXCEPT !.at = "collecting"])
  /\ UNCHANGED <<storeVars, labVars>>

Trimmed(seq) == SubSeq(seq, Max({1, Len(seq) - lab.maxSamples + 1}), Len(seq))

SamplesOf(a) == IF a \in DOMAIN metrics THEN metrics[a] ELSE <<>>

\* The second section; the samples are kept whether or not the agent still is.
IngestMetrics(a) ==
  /\ Step(a, "checked", [proc[a] EXCEPT !.at = "collecting"])
  /\ agents' = [x \in DOMAIN agents |-> IF x = a THEN clock ELSE agents[x]]
  /\ metrics' = [x \in DOMAIN metrics \cup {a} |->
                   IF x = a THEN Trimmed(Append(SamplesOf(a), proc[a].sample)) ELSE metrics[x]]
  /\ UNCHANGED <<agentsByPairKey, labVars>>

Stop(a) ==
  /\ Step(a, "collecting", [proc[a] EXCEPT !.at = "exited"])
  /\ UNCHANGED <<storeVars, labVars>>

-----------------------------------------------------------------------------
(* Cleanup and the rest of the world.                                      *)

Removed(f, gone) == [x \in DOMAIN f \ gone |-> f[x]]

Unlisted(gone) == SelectSeq(agentsByPairKey, LAMBDA a : a \notin gone)

CleanupStale ==
  LET stale == {a \in DOMAIN agents : agents[a] < clock - lab.timeout}
  IN  /\ lab.cleanup /\ stale # {}
      /\ agents' = Removed(agents, stale)
      /\ metrics' = Removed(metrics, stale)
      /\ agentsByPairKey' = Unlisted(stale)
      /\ UNCHANGED <<proc, labVars>>

\* The store is memory only; agents do not register again.
ServerRestart ==
  /\ restarts < lab.restarts /\ agents # <<>>
  /\ restarts' = restarts + 1
  /\ agents' = <<>> /\ agentsByPairKey' = <<>> /\ metrics' = <<>>
  /\ proc' = [a \in Agents |-> [proc[a] EXCEPT !.at = IF @ = "checked" THEN "collecting" ELSE @]]
  /\ UNCHANGED <<lab, clock, target, lastPid>>

TargetStep ==
  /\ \/ target # 0 /\ target' = 0 /\ UNCHANGED lastPid
     \/ target = 0 /\ lastPid < lab.pids /\ lastPid' = lastPid + 1 /\ target' = lastPid'
  /\ lab.pids > 0
  /\ UNCHANGED <<storeVars, proc, lab, clock, restarts>>

AgentTick == clock < Start + lab.horizon /\ clock' = clock + 1
             /\ UNCHANGED <<storeVars, proc, lab, target, lastPid, restarts>>

AgentNext ==
  \/ \E a \in Agents : RegisterSend(a) \/ handleAgentRegister(a) \/ RegisterDone(a) \/ RegisterFails(a)
  \/ \E a \in Agents : Collect(a) \/ CheckAgent(a) \/ SendFails(a) \/ IngestMetrics(a) \/ Stop(a)
  \/ CleanupStale \/ ServerRestart \/ TargetStep \/ AgentTick

-----------------------------------------------------------------------------
(* Replies.                                                                *)

InRange(seq, from, to) ==
  SelectSeq(seq, LAMBDA s : (from = 0 \/ s.ts >= from) /\ (to = 0 \/ s.ts <= to))

\* The samples of the agents of a key; the order by time is left out.
GetMetricsByPairKey(from, to) ==
  UNION {{[agent |-> a, sample |-> s] : s \in ToSet(InRange(SamplesOf(a), from, to))} :
           a \in ToSet(agentsByPairKey)}

\* The reply for a run, to a query that gives neither bounds nor an agent.  The run is dated
\* by the starts of its first and last operation as the workers stamped them, for want of
\* telemetry by the times of its record, and up to now while it goes on.
handleGetServerMetrics(run) ==
  LET runStartMs == IF run.start = 0 THEN run.created ELSE run.start
      runEndMs == IF run.end = 0 THEN run.updated ELSE run.end
      from == IF runStartMs > 0 THEN Max({0, runStartMs - timeMarginMs}) ELSE 0
      to == IF run.terminal /\ runEndMs > 0 THEN runEndMs ELSE clock
  IN  GetMetricsByPairKey(from, to + timeMarginMs)

-----------------------------------------------------------------------------
(* Properties.                                                             *)

\* Runs as the server sees them: one whose first and last operation started at these
\* times, by workers whose clocks are so far behind; and one without operations.
Measured(first, last, behind1, behind2, terminal) ==
  [start |-> Min({first - behind1, last - behind2}), end |-> Max({first - behind1, last - behind2}),
   created |-> Start, updated |-> clock, terminal |-> terminal]
Unmeasured(created, updated, terminal) ==
  [start |-> 0, end |-> 0, created |-> created, updated |-> updated, terminal |-> terminal]

\* The reply for the run has the sample of the agent if it was taken between these times
\* and the margin covers half the agent's registration and the error of the workers' clocks;
\* it does not have it if it was taken further outside than the margin and those errors.
Shown(a, s, run, first, last, error) ==
  LET until == IF run.terminal THEN last ELSE clock
      off == error + (proc[a].rtt + 1) \div 2
      found == [agent |-> a, sample |-> s] \in handleGetServerMetrics(run)
  IN  /\ off <= timeMarginMs /\ s.taken \in first .. until => found
      /\ found => s.taken \in first - timeMarginMs - off .. until + timeMarginMs + off

\* GET /runs/{id}/server-metrics finds the samples taken from the start of a run's first
\* operation to that of its last, up to now while the run goes on, and next to no others,
\* however far the agent's clock is from the server's: what is left of its skew is half a
\* round trip, and the margin of ten seconds pays for that and for the workers' clocks.
\* It does not pay for more: clocks of workers further off, a slower registration, or a last
\* operation that runs longer than the slack, lose samples taken during the run.
RunSamplesFound ==
  \A a \in ToSet(agentsByPairKey) : \A s \in ToSet(SamplesOf(a)) :
    \A first \in Start .. clock : \A last \in first .. clock : \A terminal \in BOOLEAN :
      /\ Shown(a, s, Unmeasured(first, last, terminal), first, last, 0)
      /\ \A b1, b2 \in WorkerSkews :
           Shown(a, s, Measured(first, last, b1, b2, terminal), first, last, Max({b1, -b1, b2, -b2}))
===============================================================================
