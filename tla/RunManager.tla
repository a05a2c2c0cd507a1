----------------------------- MODULE RunManager -----------------------------
(***************************************************************************)
(* One run of the control plane (internal/controlplane/runmanager): the    *)
(* API handlers and every goroutine that moves the run, interleaved at the *)
(* granularity of the manager's lock.  A section of code that holds rm.mu  *)
(* is one action; an unlock followed by a lock is a step boundary.         *)
(***************************************************************************)
EXTENDS Integers, Sequences, FiniteSets

CONSTANTS
  Starters,    \* concurrent calls of StartRun (each owns the goroutines it spawns)
  Finalizers,  \* identities for the goroutines running finalizeRun
  Configs,     \* the run configurations and server set-ups considered
  StopCalls,   \* the mode and actor of the stops that users ask for
  None         \* nil: no channel, no cancel function, no stage

Stages == {"preflight", "baseline", "ramp", "soak"}

\* What of the configuration, and of how the server was wired, decides control.
Config ==
  [scheduler  : {"complete", "partial", "absent"},
   stores     : SUBSET {"telemetry", "artifacts"},   \* the stores configured
   soak       : BOOLEAN,   \* does the configuration enable a soak stage?
   conditions : SUBSET Stages,
   calls      : Nat,       \* bound: how many of the calls of StartRun are made
   policy     : {"fail_fast", "replace_if_possible", "best_effort"},
   slow       : BOOLEAN,   \* may the analysis outlive its timeout?
   shutdown   : BOOLEAN]   \* may RunManager.Shutdown be called?

ASSUME ConfigsAssumption == Configs \subseteq Config
ASSUME StopCallsAssumption ==
  StopCalls \subseteq {"drain", "immediate"} \X {"emergency", "other"}
ASSUME EntryAssumption == "entry" \notin Finalizers

VARIABLES
  config,
  \* ---- the RunRecord, guarded by rm.mu
  state, activeStage, stopReason, immediateStop, drainCancel,
  progressionCancel, rampCancel, stopConditionsCancel,
  \* ---- what channels and contexts have been signalled
  closed, cancelled, shutdown,
  \* ---- goroutines
  start, prog, ramp, eval, fin, ana, expired,
  \* ---- what the rest of the control plane sees of the run
  metadata, artifacts, log,
  entered      \* history: the states the run has entered since its creation

recordVars == <<state, activeStage, stopReason, immediateStop, drainCancel,
                progressionCancel, rampCancel, stopConditionsCancel>>
signalVars == <<closed, cancelled, shutdown>>
routineVars == <<start, prog, ramp, eval, fin, ana, expired>>
outsideVars == <<metadata, artifacts, log, entered>>
vars == <<config, recordVars, signalVars, routineVars, outsideVars>>

L == INSTANCE RunLifecycle

Running == {"preflight_running", "baseline_running", "ramp_running", "soak_running"}

\* Slip: STOPPING counted as a running state.
isRunningState_AlsoStopping(s) == s \in Running \cup {"stopping"}

isRunningState(s) == s \in Running

\* The contexts created with context.WithCancel(rm.ctx), named by what they run.
Contexts == ({"progression", "ramp"} \X Starters) \cup ({"evaluator"} \X Stages)

\* The drainCancel channels: the one made on entering STOPPING, and one that a
\* finalizer makes when it finds none.
Chans == {"entry"} \cup Finalizers

HasStores == {"telemetry", "artifacts"} \subseteq config.stores

ASSUME NoneAssumption == None \notin Contexts \cup Chans \cup Stages

Done(ctx) == shutdown \/ ctx \in cancelled

NoStop == [mode |-> None, reason |-> None, actor |-> None]
StopReasons ==
  [mode : {None, "drain", "immediate"},
   reason : {None, "stop_requested", "emergency_stop", "worker_failure",
             "stop_condition_triggered", "stage_timeout",
             "preflight_passed_timeout", "stage_transition_failed"},
   actor : {None, "emergency", "other"}]

StartPc == {"idle", "allocate", "reject", "commit", "dispatch", "progress", "done"}
ProgPc == {"off", "wait", "enter", "active", "event", "dispatch", "autoramp",
           "evaluator", "timeout", "refused", "finish", "exit"}
RampPc == {"off", "hold", "read", "step", "exit"}
EvalPc == {"off", "running", "metadata", "request", "exit"}
FinPc == {"off", "drain", "wait", "cut", "sleep", "check", "complete",
          "analyze", "select", "fail", "exit"}
AnaPc == {"off", "begin", "fetch", "aggregate", "json", "html", "savejson",
          "savehtml", "report", "finish", "failing", "ok", "err"}

-----------------------------------------------------------------------------
(* Moves of the record, each made by a caller that holds rm.mu.            *)

\* Slip: the event of the transition is forgotten.
MoveTo_Unlogged(to) ==
  /\ state' = to
  /\ entered' = entered \cup {to}
  /\ UNCHANGED log

\* Enter a state and append its STATE_TRANSITION event under the same lock.  The log of a
\* run drops events only beyond its limit (EventStream), which the few of a run's states
\* do not reach.
MoveTo(to) ==
  /\ state' = to
  /\ entered' = entered \cup {to}
  /\ log' = Append(log, to)

\* go rm.finalizeRun(...)
spawnFinalizer(pc) ==
  \E f \in Finalizers :
    /\ fin[f].pc = "off"
    /\ fin' = [fin EXCEPT ![f].pc = pc]

cancelStageProgressionLocked ==
  /\ progressionCancel' = None
  /\ rampCancel' = None

\* Slip: the ramp's cancel function is dropped without being called.
CancelProgressionAndEvaluator_NotRamp ==
  /\ cancelStageProgressionLocked
  /\ stopConditionsCancel' = None
  /\ cancelled' = cancelled \cup ({progressionCancel, stopConditionsCancel} \ {None})

CancelProgressionAndEvaluator ==
  /\ cancelStageProgressionLocked
  /\ stopConditionsCancel' = None
  /\ cancelled' = cancelled \cup
       ({progressionCancel, rampCancel, stopConditionsCancel} \ {None})

requestStopWithReason(mode, reason, actor) ==
  \/ /\ state \in L!Terminal
     /\ UNCHANGED <<recordVars, cancelled, fin, metadata, log, entered>>
  \/ /\ state \notin L!Terminal
     /\ state = "stopping" \/ ~L!CanTransition(state, "stopping")
     /\ CancelProgressionAndEvaluator
     /\ UNCHANGED <<state, activeStage, stopReason, immediateStop, drainCancel,
                    fin, metadata, log, entered>>
  \/ /\ state # "stopping"
     /\ L!CanTransition(state, "stopping")
     /\ CancelProgressionAndEvaluator
     /\ MoveTo("stopping")
     /\ stopReason' = [mode |-> mode, reason |-> reason, actor |-> actor]
     /\ drainCancel' = IF drainCancel = None THEN "entry" ELSE drainCancel
     /\ metadata' = IF "telemetry" \in config.stores THEN reason ELSE metadata
     /\ spawnFinalizer("drain")
     /\ UNCHANGED <<activeStage, immediateStop>>

handleFailFastLocked ==
  /\ CancelProgressionAndEvaluator
  /\ MoveTo("stopping")
  /\ stopReason' = [mode |-> "immediate", reason |-> "worker_failure",
                     actor |-> "other"]
  /\ drainCancel' = IF drainCancel = None THEN "entry" ELSE drainCancel
  /\ spawnFinalizer("drain")
  /\ UNCHANGED <<activeStage, immediateStop, metadata>>

\* Slip: the record keeps the channel it has closed.
closeDrainCancel_Kept ==
  /\ closed' = closed \cup ({drainCancel} \ {None})
  /\ UNCHANGED drainCancel

\* close(record.drainCancel); record.drainCancel = nil
closeDrainCancel ==
  /\ closed' = closed \cup ({drainCancel} \ {None})
  /\ drainCancel' = None

-----------------------------------------------------------------------------
(* API: starting, stopping and losing workers.                             *)

Init ==
  /\ config \in Configs
  /\ state = "created"
  /\ activeStage = None
  /\ stopReason = NoStop
  /\ immediateStop = FALSE
  /\ drainCancel = None
  /\ progressionCancel = None
  /\ rampCancel = None
  /\ stopConditionsCancel = None
  /\ closed = {}
  /\ cancelled = {}
  /\ shutdown = FALSE
  /\ start = [c \in Starters |-> "idle"]
  /\ prog = [c \in Starters |-> [at |-> "off", stage |-> "preflight"]]
  /\ ramp = [c \in Starters |-> "off"]
  /\ eval = [s \in Stages |-> "off"]
  /\ fin = [f \in Finalizers |-> [pc |-> "off", chan |-> None]]
  /\ ana = [f \in Finalizers |-> "off"]
  /\ expired = {}
  /\ metadata = None
  /\ artifacts = {}
  /\ log = <<>>
  /\ entered = {}

SetStart(c, pc) == start' = [start EXCEPT ![c] = pc]

\* First locked section of StartRun, and the misconfiguration check after it.
StartRun(c) ==
  /\ start[c] = "idle"
  /\ Cardinality({d \in Starters : start[d] # "idle"}) < config.calls
  /\ SetStart(c, IF state # "created" THEN "done"
                 ELSE CASE config.scheduler = "partial"  -> "reject"
                        [] config.scheduler = "complete" -> "allocate"
                        [] config.scheduler = "absent"   -> "commit")
  /\ UNCHANGED <<config, recordVars, signalVars, prog, ramp, eval, fin, ana,
                 expired, outsideVars>>

\* The allocator answers from the workers registered at the time.
tryAllocateForStage(c) ==
  /\ start[c] = "allocate"
  /\ SetStart(c, "commit") \/ SetStart(c, "reject")
  /\ UNCHANGED <<config, recordVars, signalVars, prog, ramp, eval, fin, ana,
                 expired, outsideVars>>

transitionToFailedFromCreated(c) ==
  /\ start[c] = "reject"
  /\ SetStart(c, "done")
  /\ IF state = "created"
       THEN MoveTo("failed")
       ELSE UNCHANGED <<state, log, entered>>
  /\ UNCHANGED <<config, activeStage, stopReason, immediateStop, drainCancel,
                 progressionCancel, rampCancel, stopConditionsCancel,
                 signalVars, prog, ramp, eval, fin, ana, expired,
                 metadata, artifacts>>

\* Slip: the state is not checked again after the allocation.
StartRunCommit_NoRecheck(c) ==
  /\ start[c] = "commit"
  /\ MoveTo("preflight_running")
  /\ SetStart(c, IF config.scheduler = "complete" THEN "dispatch" ELSE "progress")
  /\ UNCHANGED <<config, activeStage, stopReason, immediateStop, drainCancel,
                 progressionCancel, rampCancel, stopConditionsCancel,
                 signalVars, prog, ramp, eval, fin, ana, expired,
                 metadata, artifacts>>

\* Second locked section of StartRun: allocation succeeded, re-check and move.
StartRunCommit(c) ==
  /\ start[c] = "commit"
  /\ IF state = "created"
       THEN /\ MoveTo("preflight_running")
            /\ SetStart(c, IF config.scheduler = "complete" THEN "dispatch"
                                                            ELSE "progress")
       ELSE /\ SetStart(c, "done")
            /\ UNCHANGED <<state, log, entered>>
  /\ UNCHANGED <<config, activeStage, stopReason, immediateStop, drainCancel,
                 progressionCancel, rampCancel, stopConditionsCancel,
                 signalVars, prog, ramp, eval, fin, ana, expired,
                 metadata, artifacts>>

\* createAndDispatchAssignmentsForStage runs outside rm.mu; what it does to the
\* leases and assignments is StageDispatch's subject.
StartRunDispatch(c) ==
  /\ start[c] = "dispatch"
  /\ SetStart(c, "progress")
  /\ UNCHANGED <<config, recordVars, signalVars, prog, ramp, eval, fin, ana,
                 expired, outsideVars>>

\* The state is not looked at again: the run may have been stopped meanwhile.
startStageProgression(c) ==
  /\ start[c] = "progress"
  /\ SetStart(c, "done")
  /\ progressionCancel' = <<"progression", c>>
  /\ activeStage' = "preflight"
  /\ prog' = [prog EXCEPT ![c] = [at |-> "wait", stage |-> "preflight"]]
  /\ UNCHANGED <<config, state, stopReason, immediateStop, drainCancel,
                 rampCancel, stopConditionsCancel, signalVars, ramp, eval, fin,
                 ana, expired, outsideVars>>

RequestStop ==
  /\ \E call \in StopCalls :
       requestStopWithReason(call[1], "stop_requested", call[2])
  /\ UNCHANGED <<config, closed, shutdown, start, prog, ramp, eval, ana,
                 expired, artifacts>>

EmergencyReason ==
  [mode |-> "immediate", reason |-> "emergency_stop", actor |-> "other"]

\* EmergencyStop leaves the stop-condition evaluator running, and makes no
\* drainCancel channel: its finalizer does not wait.
EmergencyStop ==
  /\ state \notin L!Terminal
  /\ cancelStageProgressionLocked
  /\ cancelled' = cancelled \cup ({progressionCancel, rampCancel} \ {None})
  /\ \/ /\ state = "stopping"
        /\ stopReason' = EmergencyReason
        /\ immediateStop' = TRUE
        /\ closeDrainCancel
        /\ UNCHANGED <<state, fin, metadata, log, entered>>
     \/ /\ state # "stopping"
        /\ L!CanTransition(state, "stopping")
        /\ MoveTo("stopping")
        /\ stopReason' = EmergencyReason
        /\ metadata' = IF "telemetry" \in config.stores THEN "emergency_stop" ELSE metadata
        /\ spawnFinalizer("check")
        /\ UNCHANGED <<immediateStop, drainCancel, closed>>
     \/ /\ ~L!CanTransition(state, "stopping")
        /\ UNCHANGED <<state, stopReason, immediateStop, drainCancel, closed,
                       fin, metadata, log, entered>>
  /\ UNCHANGED <<config, activeStage, stopConditionsCancel, shutdown, start,
                 prog, ramp, eval, ana, expired, artifacts>>

\* A reallocation that fails, for whatever reason, falls back to fail_fast; one
\* that succeeds issues leases and leaves the record alone.
handleReplaceIfPossibleLocked == handleFailFastLocked

HandleWorkerCapacityLost ==
  /\ \/ /\ state = "stopping"
        /\ closeDrainCancel
        /\ UNCHANGED <<state, activeStage, stopReason, immediateStop,
                       progressionCancel, rampCancel, stopConditionsCancel,
                       cancelled, fin, metadata, log, entered>>
     \/ /\ \/ state = "preflight_running"
           \/ isRunningState(state) /\ config.policy = "fail_fast"
        /\ handleFailFastLocked
        /\ UNCHANGED closed
     \/ /\ isRunningState(state) /\ state # "preflight_running"
        /\ config.policy = "replace_if_possible"
        /\ handleReplaceIfPossibleLocked
        /\ UNCHANGED closed
  /\ UNCHANGED <<config, shutdown, start, prog, ramp, eval, ana, expired,
                 artifacts>>

Shutdown ==
  /\ config.shutdown
  /\ shutdown' = TRUE
  /\ UNCHANGED <<config, recordVars, closed, cancelled, routineVars, outsideVars>>

-----------------------------------------------------------------------------
(* The stage progression goroutine, spawned by startStageProgression.      *)

StageState == [s \in Stages |-> CASE s = "preflight" -> "preflight_running"
                                  [] s = "baseline"  -> "baseline_running"
                                  [] s = "ramp"      -> "ramp_running"
                                  [] s = "soak"      -> "soak_running"]

ProgAt(c, pc) == prog' = [prog EXCEPT ![c].at = pc]

\* The select of waitForStageDurationWithTimeout.  The planned timer may have
\* fired before a cancellation stopped it, and select then picks either.
waitForStageDurationWithTimeout(c) ==
  /\ prog[c].at = "wait"
  /\ \/ Done(<<"progression", c>>) /\ ProgAt(c, "exit")
     \/ ProgAt(c, "timeout")
     \/ ProgAt(c, CASE prog[c].stage \in {"preflight", "baseline"} -> "enter"
                    [] prog[c].stage = "ramp" /\ config.soak       -> "enter"
                    [] prog[c].stage = "ramp" /\ ~config.soak      -> "finish"
                    [] prog[c].stage = "soak"                      -> "finish")
  /\ UNCHANGED <<config, recordVars, signalVars, start, ramp, eval, fin, ana,
                 expired, outsideVars>>

\* A requestStopWithReason made by the progression goroutine, which then ends.
ProgStop(c, pc, mode, reason) ==
  /\ prog[c].at = pc
  /\ requestStopWithReason(mode, reason, "other")
  /\ ProgAt(c, "exit")
  /\ UNCHANGED <<config, closed, shutdown, start, ramp, eval, ana, expired,
                 artifacts>>

handleStageTimeout(c) == ProgStop(c, "timeout", "immediate", "stage_timeout")

ProgRefused(c) ==
  ProgStop(c, "refused", "immediate",
           IF prog[c].stage = "preflight" THEN "preflight_passed_timeout"
                                          ELSE "stage_transition_failed")

\* Slip: the goroutine ends without asking for the stop.
ProgFinish_NoStop(c) ==
  /\ prog[c].at = "finish"
  /\ ProgAt(c, "exit")
  /\ UNCHANGED <<config, recordVars, signalVars, start, ramp, eval, fin, ana,
                 expired, outsideVars>>

ProgFinish(c) == ProgStop(c, "finish", "drain", "stop_requested")

\* The locked section of a transition from one running stage to the next.  The
\* event of the new state is appended later, in AppendStageEvent.
TransitionTo(c, from, to, through) ==
  /\ prog[c].at = "enter" /\ prog[c].stage = from
  /\ IF state = StageState[from]
       THEN /\ state' = StageState[to]
            /\ entered' = entered \cup through \cup {StageState[to]}
            /\ prog' = [prog EXCEPT ![c] = [at |-> "active", stage |-> to]]
       ELSE /\ ProgAt(c, "refused")
            /\ UNCHANGED <<state, entered>>
  /\ UNCHANGED <<config, activeStage, stopReason, immediateStop, drainCancel,
                 progressionCancel, rampCancel, stopConditionsCancel,
                 signalVars, start, ramp, eval, fin, ana, expired,
                 metadata, artifacts>>

TransitionToBaseline(c) ==
  /\ TransitionTo(c, "preflight", "baseline", {"preflight_passed"})
  /\ log' = IF state = "preflight_running" THEN Append(log, "preflight_passed")
                                           ELSE log

\* Slip: the state of the run is not looked at again.
TransitionToRamp_Unchecked(c) ==
  /\ prog[c].at = "enter" /\ prog[c].stage = "baseline"
  /\ state' = "ramp_running" /\ entered' = entered \cup {"ramp_running"}
  /\ prog' = [prog EXCEPT ![c] = [at |-> "active", stage |-> "ramp"]]
  /\ UNCHANGED <<config, activeStage, stopReason, immediateStop, drainCancel,
                 progressionCancel, rampCancel, stopConditionsCancel,
                 signalVars, start, ramp, eval, fin, ana, expired,
                 metadata, artifacts, log>>

TransitionToRamp(c) == TransitionTo(c, "baseline", "ramp", {}) /\ UNCHANGED log

TransitionToSoak(c) == TransitionTo(c, "ramp", "soak", {}) /\ UNCHANGED log

\* The rest of a transition runs without looking at the state again: set
\* ActiveStage, append the event, dispatch, start the evaluator.
SetActiveStage(c) ==
  /\ prog[c].at = "active"
  /\ activeStage' = prog[c].stage
  /\ ProgAt(c, "event")
  /\ UNCHANGED <<config, state, stopReason, immediateStop, drainCancel,
                 progressionCancel, rampCancel, stopConditionsCancel,
                 signalVars, start, ramp, eval, fin, ana, expired, outsideVars>>

AppendStageEvent(c) ==
  /\ prog[c].at = "event"
  /\ log' = Append(log, StageState[prog[c].stage])
  /\ ProgAt(c, CASE config.scheduler # "complete" -> "evaluator"
                 [] config.scheduler = "complete" /\ prog[c].stage = "ramp" -> "autoramp"
                 [] config.scheduler = "complete" /\ prog[c].stage # "ramp" -> "dispatch")
  /\ UNCHANGED <<config, recordVars, signalVars, start, ramp, eval, fin, ana,
                 expired, metadata, artifacts, entered>>

createAndDispatchAssignmentsForStage(c) ==
  /\ prog[c].at = "dispatch"
  /\ ProgAt(c, "evaluator")
  /\ UNCHANGED <<config, recordVars, signalVars, start, ramp, eval, fin, ana,
                 expired, outsideVars>>

\* startAutoRamp: publish the cancel function, dispatch the first virtual
\* users, spawn the goroutine that adds the others.
startAutoRamp(c) ==
  /\ prog[c].at = "autoramp"
  /\ rampCancel' = <<"ramp", c>>
  /\ ramp' = [ramp EXCEPT ![c] = "hold"]
  /\ ProgAt(c, "evaluator")
  /\ UNCHANGED <<config, state, activeStage, stopReason, immediateStop,
                 drainCancel, progressionCancel, stopConditionsCancel,
                 signalVars, start, eval, fin, ana, expired, outsideVars>>

startStopConditionEvaluator(c) ==
  /\ prog[c].at = "evaluator"
  /\ ProgAt(c, "wait")
  /\ IF prog[c].stage \in config.conditions /\ "telemetry" \in config.stores
       THEN /\ cancelled' = cancelled \cup ({stopConditionsCancel} \ {None})
            /\ stopConditionsCancel' = <<"evaluator", prog[c].stage>>
            /\ eval' = [eval EXCEPT ![prog[c].stage] = "running"]
       ELSE UNCHANGED <<cancelled, stopConditionsCancel, eval>>
  /\ UNCHANGED <<config, state, activeStage, stopReason, immediateStop,
                 drainCancel, progressionCancel, rampCancel, closed, shutdown,
                 start, ramp, fin, ana, expired, outsideVars>>

-----------------------------------------------------------------------------
(* The auto-ramp goroutine: hold, look at the state, dispatch, repeat.     *)

RampHold(c) ==
  /\ ramp[c] = "hold"
  /\ \/ Done(<<"ramp", c>>) /\ ramp' = [ramp EXCEPT ![c] = "exit"]
     \/ ramp' = [ramp EXCEPT ![c] = "read"]
  /\ UNCHANGED <<config, recordVars, signalVars, start, prog, eval, fin, ana,
                 expired, outsideVars>>

\* record.State is read after the unlock; a torn read compares unequal.
RampRead(c) ==
  /\ ramp[c] = "read"
  /\ ramp' = [ramp EXCEPT ![c] = IF state = "ramp_running" THEN "step" ELSE "exit"]
  /\ UNCHANGED <<config, recordVars, signalVars, start, prog, eval, fin, ana,
                 expired, outsideVars>>

\* dispatchRampAssignments, then the loop goes on or the target is reached; the
\* deferred cancel() runs on every exit and is of no further effect.
RampStep(c) ==
  /\ ramp[c] = "step"
  /\ \E next \in {"hold", "exit"} : ramp' = [ramp EXCEPT ![c] = next]
  /\ UNCHANGED <<config, recordVars, signalVars, start, prog, eval, fin, ana,
                 expired, metadata, artifacts, log, entered>>

-----------------------------------------------------------------------------
(* The stop-condition evaluator goroutine of a stage.                      *)

EvalAt(s, pc) == eval' = [eval EXCEPT ![s] = pc]

\* A tick may race the cancellation: select then picks either.
EvaluatorRun(s) ==
  /\ eval[s] = "running"
  /\ \/ Done(<<"evaluator", s>>) /\ EvalAt(s, "exit")
     \/ EvalAt(s, "metadata")
  /\ UNCHANGED <<config, recordVars, signalVars, start, prog, ramp, fin, ana,
                 expired, outsideVars>>

\* handleStopConditionTrigger: overwrite the stop reason kept with the
\* telemetry, then ask for the stop.
TriggerMetadata(s) ==
  /\ eval[s] = "metadata"
  /\ metadata' = "stop_condition_triggered"
  /\ EvalAt(s, "request")
  /\ UNCHANGED <<config, recordVars, signalVars, start, prog, ramp, fin, ana,
                 expired, artifacts, log, entered>>

handleStopConditionTrigger(s) ==
  /\ eval[s] = "request"
  /\ requestStopWithReason("drain", "stop_condition_triggered", "other")
  /\ EvalAt(s, "exit")
  /\ UNCHANGED <<config, closed, shutdown, start, prog, ramp, ana, expired,
                 artifacts>>

-----------------------------------------------------------------------------
(* finalizeRun: wait for the drain, then complete or analyse the run.      *)

FinAt(f, pc) == fin' = [fin EXCEPT ![f].pc = pc]

\* Pick up the record's channel, or publish a new one when it has none.
FinDrain(f) ==
  /\ fin[f].pc = "drain"
  /\ LET ch == IF drainCancel = None THEN f ELSE drainCancel
     IN  /\ fin' = [fin EXCEPT ![f] = [pc |-> "wait", chan |-> ch]]
         /\ drainCancel' = ch
  /\ UNCHANGED <<config, state, activeStage, stopReason, immediateStop,
                 progressionCancel, rampCancel, stopConditionsCancel,
                 signalVars, start, prog, ramp, eval, ana, expired, outsideVars>>

\* The drain timer, or the early end of the drain.
FinWait(f) ==
  /\ \/ fin[f].pc = "wait" /\ FinAt(f, "check")
     \/ fin[f].pc = "wait" /\ fin[f].chan \in closed /\ FinAt(f, "cut")
     \/ fin[f].pc = "cut" /\ FinAt(f, IF immediateStop THEN "sleep" ELSE "check")
     \/ fin[f].pc = "sleep" /\ FinAt(f, "check")
  /\ UNCHANGED <<config, recordVars, signalVars, start, prog, ramp, eval, ana,
                 expired, outsideVars>>

FinCheck(f) ==
  /\ fin[f].pc = "check"
  /\ FinAt(f, IF state # "stopping" THEN "exit"
              ELSE IF HasStores THEN "analyze" ELSE "complete")
  /\ UNCHANGED <<config, recordVars, signalVars, start, prog, ramp, eval, ana,
                 expired, outsideVars>>

transitionToCompleted(f) ==
  /\ fin[f].pc = "complete"
  /\ IF state = "stopping" THEN MoveTo("completed")
                           ELSE UNCHANGED <<state, log, entered>>
  /\ FinAt(f, "exit")
  /\ UNCHANGED <<config, activeStage, stopReason, immediateStop, drainCancel,
                 progressionCancel, rampCancel, stopConditionsCancel,
                 signalVars, start, prog, ramp, eval, ana, expired,
                 metadata, artifacts>>

TransitionToAnalyzing(f) ==
  /\ fin[f].pc = "analyze"
  /\ IF state = "stopping"
       THEN /\ MoveTo("analyzing")
            /\ FinAt(f, "select")
            /\ ana' = [ana EXCEPT ![f] = "begin"]
       ELSE /\ FinAt(f, "exit")
            /\ UNCHANGED <<state, log, entered, ana>>
  /\ UNCHANGED <<config, activeStage, stopReason, immediateStop, drainCancel,
                 progressionCancel, rampCancel, stopConditionsCancel,
                 signalVars, start, prog, ramp, eval, expired,
                 metadata, artifacts>>

\* The deadline of the analysis context passes.
AnalysisDeadline(f) ==
  /\ config.slow
  /\ fin[f].pc = "select"
  /\ expired' = expired \cup {f}
  /\ UNCHANGED <<config, recordVars, signalVars, start, prog, ramp, eval, fin,
                 ana, outsideVars>>

\* The select of analyzeRunWithTimeout: with both channels ready it takes either.
analyzeRunWithTimeout(f) ==
  /\ fin[f].pc = "select"
  /\ \/ ana[f] \in {"ok", "err"} /\ FinAt(f, "exit")
     \/ f \in expired /\ FinAt(f, "fail")
     \/ shutdown /\ f \notin expired /\ FinAt(f, "exit")
  /\ UNCHANGED <<config, recordVars, signalVars, start, prog, ramp, eval, ana,
                 expired, outsideVars>>

\* failAnalysis, called by the waiting finalizer or by the analysis itself.
failAnalysis ==
  /\ IF state = "analyzing" THEN MoveTo("failed")
                            ELSE UNCHANGED <<state, log, entered>>
  /\ UNCHANGED <<config, activeStage, stopReason, immediateStop, drainCancel,
                 progressionCancel, rampCancel, stopConditionsCancel,
                 signalVars, start, prog, ramp, eval, expired,
                 metadata, artifacts>>

FinFail(f) ==
  /\ fin[f].pc = "fail"
  /\ failAnalysis
  /\ FinAt(f, "exit")
  /\ UNCHANGED ana

-----------------------------------------------------------------------------
(* analyzeRunWithContext, in a goroutine of its own.  The context is        *)
(* checked before every stage of the analysis, and each stage may fail.     *)

AnaAt(f, pc) == ana' = [ana EXCEPT ![f] = pc]

ContextErr(f) == shutdown \/ f \in expired

\* The stages that check the context first, each with the one that follows.
AnalysisOrder ==
  {<<"begin", "fetch">>, <<"fetch", "aggregate">>, <<"aggregate", "json">>,
   <<"json", "html">>, <<"html", "savejson">>, <<"savejson", "savehtml">>,
   <<"savehtml", "report">>}

analyzeRunWithContext(f) ==
  /\ \E step \in AnalysisOrder :
       /\ ana[f] = step[1]
       /\ \/ /\ ContextErr(f) /\ step[1] # "savehtml"
             /\ AnaAt(f, "err")
             /\ UNCHANGED artifacts
          \/ /\ step[1] = "begin" /\ state # "analyzing"
             /\ AnaAt(f, "err")
             /\ UNCHANGED artifacts
          \/ /\ step[1] \notin {"begin", "aggregate"}
             /\ AnaAt(f, "failing")
             /\ UNCHANGED artifacts
          \/ /\ ~(ContextErr(f) /\ step[1] # "savehtml")
             /\ ~(step[1] = "begin" /\ state # "analyzing")
             /\ AnaAt(f, step[2])
             /\ artifacts' = artifacts \cup
                  (CASE step[1] = "savejson" -> {"report.json"}
                     [] step[1] = "savehtml" -> {"report.html"}
                     [] OTHER                -> {})
  /\ UNCHANGED <<config, recordVars, signalVars, start, prog, ramp, eval, fin,
                 expired, metadata, log, entered>>

\* emitReportGeneratedEvent: the event is appended whatever the state is now.
emitReportGeneratedEvent(f) ==
  /\ ana[f] = "report"
  /\ AnaAt(f, "finish")
  /\ UNCHANGED <<config, recordVars, signalVars, start, prog, ramp, eval, fin,
                 expired, outsideVars>>

\* Slip: only the actor of the stop is looked at.
EmergencyStopped_ActorOnly ==
  stopReason.mode = "immediate" /\ stopReason.actor = "emergency"

EmergencyStopped ==
  \/ stopReason.reason = "emergency_stop"
  \/ stopReason.mode = "immediate" /\ stopReason.actor = "emergency"

completeAnalysis(f) ==
  /\ ana[f] = "finish"
  /\ IF state = "analyzing"
       THEN MoveTo(IF EmergencyStopped THEN "aborted" ELSE "completed")
       ELSE UNCHANGED <<state, log, entered>>
  /\ AnaAt(f, "ok")
  /\ UNCHANGED <<config, activeStage, stopReason, immediateStop, drainCancel,
                 progressionCancel, rampCancel, stopConditionsCancel,
                 signalVars, start, prog, ramp, eval, fin, expired,
                 metadata, artifacts>>

AnaFail(f) ==
  /\ ana[f] = "failing"
  /\ failAnalysis
  /\ AnaAt(f, "err")
  /\ UNCHANGED fin

-----------------------------------------------------------------------------
StartStep(c) ==
  \/ tryAllocateForStage(c) \/ transitionToFailedFromCreated(c)
  \/ StartRunCommit(c) \/ StartRunDispatch(c) \/ startStageProgression(c)

ProgStep(c) ==
  \/ waitForStageDurationWithTimeout(c) \/ handleStageTimeout(c)
  \/ ProgRefused(c) \/ ProgFinish(c)
  \/ TransitionToBaseline(c) \/ TransitionToRamp(c) \/ TransitionToSoak(c)
  \/ SetActiveStage(c) \/ AppendStageEvent(c)
  \/ createAndDispatchAssignmentsForStage(c) \/ startAutoRamp(c)
  \/ startStopConditionEvaluator(c)

RampRoutine(c) == RampHold(c) \/ RampRead(c) \/ RampStep(c)

TriggerStep(s) == TriggerMetadata(s) \/ handleStopConditionTrigger(s)

FinStep(f) ==
  \/ FinDrain(f) \/ FinWait(f) \/ FinCheck(f) \/ transitionToCompleted(f)
  \/ TransitionToAnalyzing(f) \/ analyzeRunWithTimeout(f) \/ FinFail(f)

AnaStep(f) ==
  \/ analyzeRunWithContext(f) \/ emitReportGeneratedEvent(f)
  \/ completeAnalysis(f) \/ AnaFail(f)

Environment == RequestStop \/ EmergencyStop \/ HandleWorkerCapacityLost \/ Shutdown

Next ==
  \/ Environment
  \/ \E c \in Starters : StartRun(c) \/ StartStep(c) \/ ProgStep(c) \/ RampRoutine(c)
  \/ \E s \in Stages : EvaluatorRun(s) \/ TriggerStep(s)
  \/ \E f \in Finalizers : AnalysisDeadline(f) \/ FinStep(f) \/ AnaStep(f)

\* Goroutines run and timers fire; nobody is obliged to call the API, and no
\* stop condition is obliged to be met.
Fairness ==
  /\ \A c \in Starters : /\ WF_vars(StartStep(c))
                         /\ WF_vars(ProgStep(c))
                         /\ WF_vars(RampRoutine(c))
  /\ \A s \in Stages : WF_vars(TriggerStep(s))
  /\ \A f \in Finalizers : WF_vars(FinStep(f)) /\ WF_vars(AnaStep(f))

Spec == Init /\ [][Next]_vars

FairSpec == Spec /\ Fairness

-----------------------------------------------------------------------------
TypeOK ==
  /\ config \in Configs
  /\ state \in L!RunState
  /\ activeStage \in Stages \cup {None}
  /\ stopReason \in StopReasons
  /\ immediateStop \in BOOLEAN
  /\ drainCancel \in Chans \cup {None}
  /\ progressionCancel \in Contexts \cup {None}
  /\ rampCancel \in Contexts \cup {None}
  /\ stopConditionsCancel \in Contexts \cup {None}
  /\ closed \subseteq Chans
  /\ cancelled \subseteq Contexts
  /\ shutdown \in BOOLEAN
  /\ start \in [Starters -> StartPc]
  /\ prog \in [Starters -> [at : ProgPc, stage : Stages]]
  /\ ramp \in [Starters -> RampPc]
  /\ eval \in [Stages -> EvalPc]
  /\ fin \in [Finalizers -> [pc : FinPc, chan : Chans \cup {None}]]
  /\ ana \in [Finalizers -> AnaPc]
  /\ expired \subseteq Finalizers
  /\ metadata \in {None, "stop_requested", "emergency_stop", "stage_timeout",
                   "stop_condition_triggered", "preflight_passed_timeout",
                   "stage_transition_failed"}
  /\ artifacts \subseteq {"report.json", "report.html"}
  /\ log \in Seq(L!RunState)
  /\ entered \subseteq L!RunState

\* The state of a run only changes along the transition table, whichever
\* handlers and goroutines interleave (state_machine.go, CanTransition).
ImplementsLifecycle == L!Spec

\* Of two concurrent StartRun calls at most one passes the re-check of CREATED,
\* so a run never has two dispatching starts or two stage progressions.
StartedBy(c) == start[c] \in {"dispatch", "progress"} \/ prog[c].at # "off"
OneStart == \A c, d \in Starters : StartedBy(c) /\ StartedBy(d) => c = d

\* However many stops, emergency stops, stop conditions, stage timeouts and lost
\* workers race, one finalizeRun goroutine is spawned for the run.
OneFinalizer ==
  \A f, g \in Finalizers : fin[f].pc # "off" /\ fin[g].pc # "off" => f = g

\* The record never keeps a drainCancel channel that is already closed: closing
\* it again (EmergencyStop, HandleWorkerCapacityLost) would panic.
DrainCancelOpen == drainCancel \notin closed

\* With the stores configured a run stopped by an emergency never ends
\* COMPLETED (completeAnalysis), whichever stop came first.
EmergencyAborts ==
  HasStores /\ state = "completed" => stopReason.reason # "emergency_stop"

\* With the stores configured a run that ends COMPLETED or ABORTED has both its
\* report files, even when the analysis timeout races the analysis.
ReportStored ==
  HasStores /\ state \in {"completed", "aborted"}
    => artifacts = {"report.json", "report.html"}

\* Every state the run enters is logged by exactly one STATE_TRANSITION event,
\* except the one whose event a stage transition still owes.
Owed == {StageState[prog[c].stage] : c \in {d \in Starters : prog[d].at \in {"active", "event"}}}
LogAccounts ==
  LET logged == {log[i] : i \in DOMAIN log}
  IN  /\ \A i, j \in DOMAIN log : log[i] = log[j] => i = j
      /\ logged \cap Owed = {}
      /\ logged \cup Owed = entered

\* A running goroutine whose context was not cancelled can still be cancelled
\* through the record: replacing or clearing a cancel function loses no goroutine.
NoOrphanRoutine ==
  /\ \A c \in Starters :
       /\ prog[c].at \notin {"off", "exit"} /\ <<"progression", c>> \notin cancelled
            => progressionCancel = <<"progression", c>>
       /\ ramp[c] \notin {"off", "exit"} /\ <<"ramp", c>> \notin cancelled
            => rampCancel = <<"ramp", c>>
  /\ \A s \in Stages : eval[s] = "running" /\ <<"evaluator", s>> \notin cancelled
                         => stopConditionsCancel = <<"evaluator", s>>

\* The first stop keeps its reason: only an emergency stop of a run that is still
\* STOPPING replaces it.
ReasonKept ==
  [][stopReason' # stopReason =>
       \/ stopReason = NoStop
       \/ state = "stopping" /\ stopReason' = EmergencyReason]_vars

\* The analysis finds its deadline passed and returns without failAnalysis; the select of
\* analyzeRunWithTimeout takes that answer rather than the deadline, and finalizeRun logs it.
AnalysisCutShort ==
  /\ state = "analyzing"
  /\ \E f \in Finalizers : f \in expired /\ ana[f] = "err" /\ fin[f].pc = "exit"

\* A run that was started reaches a terminal state by itself, with one exception: an analysis
\* that its deadline cuts short may leave the run ANALYZING for good.  An analysis that ends
\* in time, fails, or is given up by the finalizer at the deadline does not.  (A shutdown of
\* the server ends every run where it is.)
StartedRunEnds ==
  state = "preflight_running" ~> (state \in L!Terminal \/ AnalysisCutShort)

\* An emergency stop leads to ABORTED, not COMPLETED (analysis.go), also when the
\* server has no artifact store.
EmergencyAbortsAlways == state = "completed" => stopReason.reason # "emergency_stop"
=============================================================================
