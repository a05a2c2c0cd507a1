------------------------------ MODULE VUEngine ------------------------------
(***************************************************************************)
(* The virtual users of one assignment (internal/vu/engine.go,             *)
(* executor.go, rate_limiter.go).  The engine spawns virtual users, each a *)
(* goroutine that acquires sessions and starts operations, each of those a *)
(* goroutine again.  Stop cancels their context, marks them Draining and   *)
(* closes the result channel once all are gone.                            *)
(*                                                                         *)
(* Operations and the results they send are told apart only by their       *)
(* phase; the send itself never blocks (select with default).  The rate    *)
(* limiter and the think time only delay.                                  *)
(***************************************************************************)
EXTENDS Integers, FiniteSets

CONSTANTS
  VUs,       \* identities; one that has ended may be used again
  Configs    \* the configurations considered

EngineConfig ==
  [mode : {"normal", "swarm"},             \* config.Mode
   sessionMode : {"reuse", "other"},       \* "other": a session per operation
   inFlightPerVU : Nat \ {0},              \* config.InFlightPerVU
   maxConcurrent : Nat,                    \* SwarmConfig.MaxConcurrentVUs
   targetVUs : 0 .. Cardinality(VUs),      \* config.Load.TargetVUs at the start
   updates : SUBSET (0 .. Cardinality(VUs))] \* bound: what UpdateLoad is called with, once each

ASSUME ConfigsAssumption == Configs \subseteq EngineConfig

VARIABLES
  config,      \* e.config, its load apart
  started,     \* e.started
  stopper,     \* Stop: "no", "marking" the executors, "waiting", "closed"
  cancelled,   \* e.ctx is done
  spawner,     \* runSwarmMode: "off", "ticking", "marking", "waiting"
  target,      \* e.config.Load.TargetVUs
  updates,     \* history: targets UpdateLoad has not been called with yet
  tracked,     \* the keys of e.vus and e.executors
  pc,          \* where each VU's goroutine is
  state,       \* vu.state
  expired,     \* VUs whose lifetime context has ended (swarm)
  ops,         \* operation goroutines of each VU, by phase
  current,     \* inFlightLimiter.current
  holds,       \* sessions the VU's own goroutine holds
  active,      \* metrics.ActiveVUs
  sessions     \* metrics.ActiveSessions

engineVars == <<config, started, stopper, cancelled, spawner, target, updates>>
vuVars == <<tracked, pc, state, expired, ops, current, holds, active, sessions>>
vars == <<engineVars, vuVars>>

Phases == {"acquire", "execute", "release"}
NoOps == [p \in Phases |-> 0]
Running(v) == ops[v]["acquire"] + ops[v]["execute"] + ops[v]["release"]
Alive == {v \in VUs : pc[v] # "none"}
Done(v) == cancelled \/ v \in expired

Init ==
  /\ started = FALSE /\ stopper = "no" /\ cancelled = FALSE
  /\ config \in Configs
  /\ spawner = "off" /\ target = config.targetVUs /\ updates = config.updates
  /\ tracked = {} /\ expired = {}
  /\ pc = [v \in VUs |-> "none"] /\ state = [v \in VUs |-> "idle"]
  /\ ops = [v \in VUs |-> NoOps] /\ current = [v \in VUs |-> 0]
  /\ holds = [v \in VUs |-> 0]
  /\ active = 0 /\ sessions = 0

-----------------------------------------------------------------------------
(* The engine.                                                             *)

\* spawnVULocked for each member of S.
Spawn(S) ==
  /\ tracked' = tracked \cup S
  /\ pc' = [v \in VUs |-> IF v \in S THEN "start" ELSE pc[v]]
  /\ state' = [v \in VUs |-> IF v \in S THEN "idle" ELSE state[v]]
  /\ UNCHANGED <<expired, ops, current, holds, active, sessions>>

Start ==
  /\ ~started /\ stopper = "no"
  /\ started' = TRUE
  /\ IF config.mode = "swarm"
     THEN spawner' = "ticking" /\ UNCHANGED vuVars
     ELSE /\ UNCHANGED spawner
          /\ \E S \in SUBSET VUs : Cardinality(S) = target /\ Spawn(S)
  /\ UNCHANGED <<config, stopper, cancelled, target, updates>>

\* UpdateLoad: new VUs are spawned; those in excess are marked Draining and
\* forgotten at once.
UpdateLoad(n) ==
  /\ updates' = updates \ {n}
  /\ target' = n
  /\ LET size == Cardinality(tracked)
     IN  CASE started /\ config.mode = "normal" /\ n > size ->
                \E S \in SUBSET {v \in VUs : pc[v] = "none" /\ v \notin tracked} :
                  Cardinality(S) = n - size /\ Spawn(S)
           [] started /\ config.mode = "normal" /\ n < size ->
                \E S \in SUBSET tracked :
                  /\ Cardinality(S) = size - n
                  /\ state' = [v \in VUs |-> IF v \in S THEN "draining" ELSE state[v]]
                  /\ tracked' = tracked \ S
                  /\ UNCHANGED <<pc, expired, ops, current, holds, active, sessions>>
           [] OTHER -> UNCHANGED vuVars
  /\ UNCHANGED <<config, started, stopper, cancelled, spawner>>

\* A tick of runSwarmMode: the VUs counted are those that have started up.  With a tick
\* and the end of the context both ready, the select may take the tick.
SpawnTick ==
  /\ spawner = "ticking"
  /\ active < config.maxConcurrent /\ active < target
  /\ \E v \in VUs : pc[v] = "none" /\ Spawn({v})
  /\ UNCHANGED engineVars

\* The lifetime of a swarm VU ends.
LifetimeEnds(v) ==
  /\ config.mode = "swarm" /\ pc[v] # "none" /\ v \notin expired
  /\ expired' = expired \cup {v}
  /\ UNCHANGED <<engineVars, tracked, pc, state, ops, current, holds, active, sessions>>

\* executor.Stop() for every executor the engine still knows.
MarkDraining ==
  /\ state' = [v \in VUs |-> IF v \in tracked THEN "draining" ELSE state[v]]
  /\ UNCHANGED <<tracked, pc, expired, ops, current, holds, active, sessions>>

\* drainAllVUs, in its two passes.  The second waits with the read lock of the
\* maps in its hands, so no VU leaves them meanwhile.
SpawnerDone ==
  /\ spawner = "ticking" /\ cancelled
  /\ spawner' = "marking"
  /\ MarkDraining
  /\ UNCHANGED <<config, started, stopper, cancelled, target, updates>>

AwaitOperations ==
  /\ spawner = "marking"
  /\ spawner' = "waiting"
  /\ UNCHANGED <<config, started, stopper, cancelled, target, updates, vuVars>>

drainAllVUs ==
  /\ spawner = "waiting"
  /\ \A v \in tracked : Running(v) = 0
  /\ spawner' = "off"
  /\ UNCHANGED <<config, started, stopper, cancelled, target, updates, vuVars>>

\* AssignmentExecutor.StopRun cancels the context the engine's derives from.
StopRun ==
  /\ started /\ ~cancelled
  /\ cancelled' = TRUE
  /\ UNCHANGED <<config, started, stopper, spawner, target, updates, vuVars>>

\* Slip: the context is not cancelled, the marks are to do.
Stop_Uncancelled ==
  /\ started /\ stopper = "no"
  /\ stopper' = "marking"
  /\ UNCHANGED <<config, started, cancelled, spawner, target, updates, vuVars>>

\* Engine.Stop, after the duration or the cancellation: the closed flag and
\* the cancellation, the marks, and the goroutine that awaits the VUs.
Stop ==
  /\ started /\ stopper = "no"
  /\ stopper' = "marking"
  /\ cancelled' = TRUE
  /\ UNCHANGED <<config, started, spawner, target, updates, vuVars>>

StopExecutors ==
  /\ stopper = "marking"
  /\ stopper' = "waiting"
  /\ MarkDraining
  /\ UNCHANGED <<config, started, cancelled, spawner, target, updates>>

\* e.wg.Wait() and close(e.resultChan).
CloseResults ==
  /\ stopper = "waiting"
  /\ Alive = {} /\ spawner = "off"
  /\ stopper' = "closed"
  /\ UNCHANGED <<config, started, cancelled, spawner, target, updates, vuVars>>

-----------------------------------------------------------------------------
(* A virtual user: VUExecutor.Run.                                         *)

Goto(v, where) == pc' = [pc EXCEPT ![v] = where]
SetState(v, s) == state' = [state EXCEPT ![v] = s]

\* n sessions more, or less, in the hands of v's own goroutine.
Hold(v, n) ==
  /\ holds' = [holds EXCEPT ![v] = @ + n]
  /\ sessions' = sessions + n

Begin(v) ==
  /\ pc[v] = "start"
  /\ Goto(v, "acquire") /\ SetState(v, "initializing")
  /\ UNCHANGED <<engineVars, tracked, expired, ops, current, holds, active, sessions>>

\* acquireSessionWithRetry at the start, its retries included.
AcquireSession(v) ==
  /\ pc[v] = "acquire"
  /\ \/ Goto(v, "startup") /\ Hold(v, 1) /\ UNCHANGED state
     \/ Goto(v, "ended") /\ SetState(v, "stopped") /\ UNCHANGED <<holds, sessions>>
  /\ UNCHANGED <<engineVars, tracked, expired, ops, current, active>>

\* The startup sequence is over, whatever its outcome.  The state is set to
\* Running even if Stop has set it to Draining meanwhile.
StartupSequence(v) ==
  /\ pc[v] = "startup"
  /\ IF config.sessionMode = "reuse" THEN UNCHANGED <<holds, sessions>> ELSE Hold(v, -1)
  /\ Goto(v, "loop") /\ SetState(v, "running")
  /\ active' = active + 1
  /\ UNCHANGED <<engineVars, tracked, expired, ops, current>>

\* The top of the loop.  The periodic tools/list, which holds a session for its
\* own time only, is part of going on.
LoopTop(v) ==
  /\ pc[v] = "loop"
  /\ \/ Done(v) /\ Goto(v, "exit") /\ SetState(v, "draining")
     \/ ~Done(v) /\ state[v] = "draining" /\ Goto(v, "exit") /\ UNCHANGED state
     \/ /\ ~Done(v) /\ state[v] # "draining" /\ UNCHANGED state
        /\ \/ Goto(v, "slot")
           \/ config.sessionMode = "reuse" /\ Goto(v, "expired")
  /\ UNCHANGED <<engineVars, tracked, expired, ops, current, holds, active, sessions>>

\* The reused session has expired or was closed: it is invalidated once the
\* operations that use it are done, ...
InvalidateSession(v) ==
  /\ pc[v] = "expired" /\ Running(v) = 0
  /\ Goto(v, "reacquire") /\ Hold(v, -1)
  /\ UNCHANGED <<engineVars, tracked, state, expired, ops, current, active>>

\* ... and a VU that gets no other one ends.
ReacquireSession(v) ==
  /\ pc[v] = "reacquire"
  /\ \/ Goto(v, "slot") /\ Hold(v, 1) /\ UNCHANGED <<state, active>>
     \/ /\ Goto(v, "ended") /\ SetState(v, "stopped")
        /\ active' = active - 1
        /\ UNCHANGED <<holds, sessions>>
  /\ UNCHANGED <<engineVars, tracked, expired, ops, current>>

HasSlot(v) == current[v] < config.inFlightPerVU

\* The two limiters give up when the context ends; a slot starts an operation.
\* Nothing looks at the state here.
StartOperation(v) ==
  /\ pc[v] = "slot"
  /\ Goto(v, "loop")
  /\ \/ Done(v) /\ UNCHANGED <<ops, current>>
     \/ /\ ~Done(v) /\ HasSlot(v)
        /\ current' = [current EXCEPT ![v] = @ + 1]
        /\ LET first == IF config.sessionMode = "reuse" THEN "execute" ELSE "acquire"
           IN  ops' = [ops EXCEPT ![v][first] = @ + 1]
  /\ UNCHANGED <<engineVars, tracked, state, expired, holds, active, sessions>>

\* Slip: the VU does not wait for its operations.
Exit_Unwaited(v) ==
  /\ pc[v] = "exit"
  /\ Goto(v, "ended") /\ SetState(v, "stopped")
  /\ active' = active - 1
  /\ Hold(v, -holds[v])
  /\ UNCHANGED <<engineVars, tracked, expired, ops, current>>

\* wg.Wait(), the release of the reused session, and the deferred updates.
Exit(v) ==
  /\ pc[v] = "exit" /\ Running(v) = 0
  /\ Goto(v, "ended") /\ SetState(v, "stopped")
  /\ active' = active - 1
  /\ Hold(v, -holds[v])
  /\ UNCHANGED <<engineVars, tracked, expired, ops, current>>

\* The rest of the VU's goroutine: a swarm VU also leaves the engine's maps.
GoroutineEnds(v) ==
  /\ pc[v] = "ended" /\ spawner # "waiting"
  /\ Goto(v, "none")
  /\ tracked' = IF config.mode = "swarm" THEN tracked \ {v} ELSE tracked
  /\ expired' = expired \ {v}
  /\ UNCHANGED <<engineVars, state, ops, current, holds, active, sessions>>

-----------------------------------------------------------------------------
(* An operation's goroutine.                                               *)

Move(v, from, to) ==
  /\ ops[v][from] > 0
  /\ ops' = [ops EXCEPT ![v][from] = @ - 1, ![v][to] = @ + 1]
  /\ UNCHANGED <<engineVars, tracked, pc, state, expired, current, holds, active>>

\* An error to acquire is sent as a result as well.
OperationSession(v) ==
  \/ Move(v, "acquire", "execute") /\ sessions' = sessions + 1
  \/ Move(v, "acquire", "release") /\ UNCHANGED sessions

\* executeOperation up to its result; the session goes back after it.
executeOperation(v) ==
  /\ Move(v, "execute", "release")
  /\ sessions' = IF config.sessionMode = "reuse" THEN sessions ELSE sessions - 1

\* The deferred Release and wg.Done.
OperationEnds(v) ==
  /\ ops[v]["release"] > 0
  /\ ops' = [ops EXCEPT ![v]["release"] = @ - 1]
  /\ current' = [current EXCEPT ![v] = IF @ > 0 THEN @ - 1 ELSE @]
  /\ UNCHANGED <<engineVars, tracked, pc, state, expired, holds, active, sessions>>

-----------------------------------------------------------------------------
VUStep(v) ==
  \/ Begin(v) \/ AcquireSession(v) \/ StartupSequence(v) \/ LoopTop(v)
  \/ InvalidateSession(v) \/ ReacquireSession(v) \/ StartOperation(v)
  \/ Exit(v) \/ GoroutineEnds(v)

OperationStep(v) == OperationSession(v) \/ executeOperation(v) \/ OperationEnds(v)

EngineStep == StopExecutors \/ CloseResults \/ SpawnTick \/ SpawnerDone
              \/ AwaitOperations \/ drainAllVUs

\* The results are closed and every goroutine is gone.
Finished == stopper = "closed" /\ Alive = {} /\ UNCHANGED vars

Next ==
  \/ Start \/ Stop \/ StopRun \/ EngineStep \/ Finished
  \/ \E n \in updates : UpdateLoad(n)
  \/ \E v \in VUs : VUStep(v) \/ OperationStep(v) \/ LifetimeEnds(v)

Spec == Init /\ [][Next]_vars

\* Goroutines are scheduled, and an operation ends: its transport has timeouts.  A select
\* picks at random among what is ready, so ticks do not keep the spawner from the end of
\* its context for ever.
Fairness ==
  /\ WF_vars(EngineStep)
  /\ WF_vars(SpawnerDone)
  /\ \A v \in VUs : WF_vars(VUStep(v)) /\ WF_vars(OperationStep(v))

FairSpec == Spec /\ Fairness

-----------------------------------------------------------------------------
(* Properties.                                                             *)

\* No goroutine sends on the result channel after Stop has closed it, which
\* would panic: the VUs wait for their operations and Stop for the VUs, and a
\* VU that a late UpdateLoad spawns starts no operation.
NoSendOnClosed ==
  stopper = "closed" => \A v \in VUs : ops[v]["acquire"] = 0 /\ ops[v]["execute"] = 0

\* Engine.Stop ends: whatever state the VUs are in, the result channel is
\* closed in the end and collectResults terminates.
StopEnds == (stopper # "no") ~> (stopper = "closed")
=============================================================================
