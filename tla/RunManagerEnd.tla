--------------------------- MODULE RunManagerEnd ----------------------------
(***************************************************************************)
(* The variables of RunManager stay in their types, and how a run ends:    *)
(* what one stop, one finalizer and one drain channel promise when any     *)
(* number of actors stop the run.                                          *)
(***************************************************************************)
EXTENDS RunManager, TLAPS

\* Every definition that only groups variables.
USE DEF recordVars, signalVars, routineVars, outsideVars


-----------------------------------------------------------------------------
(* Types.                                                                    *)

\* The initial state of a run (CreateRun) is well typed.
LEMMA InitTyped == Init => TypeOK
<1> SUFFICES ASSUME Init PROVE TypeOK
  OBVIOUS
<1> USE DEF Init
<1>1. config \in Configs /\ state \in L!RunState /\ immediateStop \in BOOLEAN /\ shutdown \in BOOLEAN
  BY Zenon DEF L!RunState
<1>2. stopReason \in StopReasons
  BY DEF StopReasons, NoStop
<1>3. start \in [Starters -> StartPc] /\ ramp \in [Starters -> RampPc]
  BY DEF StartPc, RampPc
<1>4. prog \in [Starters -> [at : ProgPc, stage : Stages]]
  BY DEF ProgPc, Stages
<1>5. eval \in [Stages -> EvalPc] /\ ana \in [Finalizers -> AnaPc]
  BY DEF EvalPc, AnaPc
<1>6. fin \in [Finalizers -> [pc : FinPc, chan : Chans \cup {None}]]
  BY DEF FinPc
<1>7. log \in Seq(L!RunState)
  OBVIOUS
<1>8. QED
  BY <1>1, <1>2, <1>3, <1>4, <1>5, <1>6, <1>7 DEF TypeOK

\* Entering a state keeps the state, its history and its log well typed.
LEMMA MoveTyped ==
  ASSUME TypeOK, NEW to \in L!RunState, MoveTo(to)
  PROVE  state' \in L!RunState /\ entered' \subseteq L!RunState /\ log' \in Seq(L!RunState)
  BY DEF TypeOK, MoveTo

\* Spawning finalizeRun keeps the finalizers well typed.
LEMMA SpawnTyped ==
  ASSUME TypeOK, NEW pc \in FinPc, spawnFinalizer(pc)
  PROVE  fin' \in [Finalizers -> [pc : FinPc, chan : Chans \cup {None}]]
<1>1. fin \in [Finalizers -> [pc : FinPc, chan : Chans \cup {None}]]
  BY DEF TypeOK
<1>2. QED BY <1>1 DEF spawnFinalizer

\* Every stop request (requestStopWithReason) keeps what it touches well typed.
LEMMA StopTyped ==
  ASSUME TypeOK,
         NEW mode \in {"drain", "immediate"},
         NEW reason \in {"stop_requested", "stop_condition_triggered", "stage_timeout",
                         "preflight_passed_timeout", "stage_transition_failed"},
         NEW actor \in {"emergency", "other"},
         requestStopWithReason(mode, reason, actor)
  PROVE  /\ state' \in L!RunState
         /\ activeStage' = activeStage
         /\ stopReason' \in StopReasons
         /\ immediateStop' = immediateStop
         /\ drainCancel' \in Chans \cup {None}
         /\ progressionCancel' \in Contexts \cup {None}
         /\ rampCancel' \in Contexts \cup {None}
         /\ stopConditionsCancel' \in Contexts \cup {None}
         /\ cancelled' \subseteq Contexts
         /\ fin' \in [Finalizers -> [pc : FinPc, chan : Chans \cup {None}]]
         /\ metadata' \in {None, "stop_requested", "emergency_stop", "stage_timeout",
                   "stop_condition_triggered", "preflight_passed_timeout",
                   "stage_transition_failed"}
         /\ log' \in Seq(L!RunState)
         /\ entered' \subseteq L!RunState
<1>1. CASE state \in L!Terminal
  BY Zenon, <1>1 DEF TypeOK, requestStopWithReason, L!Terminal, L!CanTransition, L!allowedTransitions
<1>2. CASE state \notin L!Terminal /\ (state = "stopping" \/ ~L!CanTransition(state, "stopping"))
  BY <1>2 DEF TypeOK, requestStopWithReason, CancelProgressionAndEvaluator, cancelStageProgressionLocked
<1>3. CASE state # "stopping" /\ L!CanTransition(state, "stopping")
  <2>1. state \notin L!Terminal
    BY <1>3 DEF L!Terminal, L!CanTransition, L!allowedTransitions
  <2>2. /\ CancelProgressionAndEvaluator
        /\ MoveTo("stopping")
        /\ stopReason' = [mode |-> mode, reason |-> reason, actor |-> actor]
        /\ drainCancel' = IF drainCancel = None THEN "entry" ELSE drainCancel
        /\ metadata' = IF "telemetry" \in config.stores THEN reason ELSE metadata
        /\ spawnFinalizer("drain")
        /\ UNCHANGED <<activeStage, immediateStop>>
    BY <1>3, <2>1 DEF requestStopWithReason
  <2>3. fin' \in [Finalizers -> [pc : FinPc, chan : Chans \cup {None}]]
    <3>1. "drain" \in FinPc
      BY DEF FinPc
    <3>2. QED BY <2>2, <3>1, SpawnTyped
  <2>4. stopReason' \in StopReasons
    BY <2>2 DEF StopReasons
  <2>5. state' \in L!RunState /\ entered' \subseteq L!RunState /\ log' \in Seq(L!RunState)
    <3>1. "stopping" \in L!RunState
      BY DEF L!RunState
    <3>2. QED BY <2>2, <3>1, MoveTyped
  <2>6. QED
    BY <2>2, <2>3, <2>4, <2>5 DEF TypeOK, CancelProgressionAndEvaluator, cancelStageProgressionLocked, Chans
<1>4. QED BY <1>1, <1>2, <1>3

\* Moving a goroutine along keeps its position well typed: a call of StartRun,
LEMMA StartTyped ==
  ASSUME TypeOK, NEW c \in Starters, NEW pc \in StartPc, SetStart(c, pc)
  PROVE  start' \in [Starters -> StartPc]
<1>1. start \in [Starters -> StartPc]
  BY DEF TypeOK
<1>2. QED BY <1>1 DEF SetStart

\* the progression within a stage,
LEMMA ProgTyped ==
  ASSUME TypeOK, NEW c \in Starters, NEW pc \in ProgPc, ProgAt(c, pc)
  PROVE  prog' \in [Starters -> [at : ProgPc, stage : Stages]]
<1>1. prog \in [Starters -> [at : ProgPc, stage : Stages]]
  BY DEF TypeOK
<1>2. QED BY <1>1 DEF ProgAt

\* the progression to a stage,
LEMMA StageTyped ==
  ASSUME TypeOK, NEW c \in Starters, NEW pc \in ProgPc, NEW s \in Stages,
         prog' = [prog EXCEPT ![c] = [at |-> pc, stage |-> s]]
  PROVE  prog' \in [Starters -> [at : ProgPc, stage : Stages]]
<1>1. prog \in [Starters -> [at : ProgPc, stage : Stages]]
  BY DEF TypeOK
<1>2. QED BY <1>1

\* the automatic ramp,
LEMMA RampTyped ==
  ASSUME TypeOK, NEW c \in Starters, NEW pc \in RampPc, ramp' = [ramp EXCEPT ![c] = pc]
  PROVE  ramp' \in [Starters -> RampPc]
<1>1. ramp \in [Starters -> RampPc]
  BY DEF TypeOK
<1>2. QED BY <1>1

\* an evaluator,
LEMMA EvalTyped ==
  ASSUME TypeOK, NEW s \in Stages, NEW pc \in EvalPc, EvalAt(s, pc)
  PROVE  eval' \in [Stages -> EvalPc]
<1>1. eval \in [Stages -> EvalPc]
  BY DEF TypeOK
<1>2. QED BY <1>1 DEF EvalAt

\* a finalizer,
LEMMA FinTyped ==
  ASSUME TypeOK, NEW f \in Finalizers, NEW pc \in FinPc, FinAt(f, pc)
  PROVE  fin' \in [Finalizers -> [pc : FinPc, chan : Chans \cup {None}]]
<1>1. fin \in [Finalizers -> [pc : FinPc, chan : Chans \cup {None}]]
  BY DEF TypeOK
<1>2. QED BY <1>1 DEF FinAt

\* and an analysis.
LEMMA AnaTyped ==
  ASSUME TypeOK, NEW f \in Finalizers, NEW pc \in AnaPc, AnaAt(f, pc)
  PROVE  ana' \in [Finalizers -> AnaPc]
<1>1. ana \in [Finalizers -> AnaPc]
  BY DEF TypeOK
<1>2. QED BY <1>1 DEF AnaAt

\* A stop made by the progression keeps the run well typed.
LEMMA ProgStopTyped ==
  ASSUME TypeOK, NEW c \in Starters, NEW pc, NEW mode \in {"drain", "immediate"},
         NEW reason \in {"stop_requested", "stop_condition_triggered", "stage_timeout",
                         "preflight_passed_timeout", "stage_transition_failed"},
         ProgStop(c, pc, mode, reason)
  PROVE  TypeOK'
<1>1. /\ requestStopWithReason(mode, reason, "other") /\ ProgAt(c, "exit")
      /\ UNCHANGED <<config, closed, shutdown, start, ramp, eval, ana, expired, artifacts>>
  BY DEF ProgStop
<1>2. prog' \in [Starters -> [at : ProgPc, stage : Stages]]
  BY <1>1, ProgTyped DEF ProgPc
<1> QED BY <1>1, <1>2, StopTyped DEF TypeOK

\* Stopping a run that lost a worker (handleFailFastLocked) keeps it well typed.
LEMMA FailFastTyped ==
  ASSUME TypeOK, handleFailFastLocked, UNCHANGED closed,
         UNCHANGED <<config, shutdown, start, prog, ramp, eval, ana, expired, artifacts>>
  PROVE  TypeOK'
<1>1. state' \in L!RunState /\ entered' \subseteq L!RunState /\ log' \in Seq(L!RunState)
  BY MoveTyped DEF handleFailFastLocked, L!RunState
<1>2. fin' \in [Finalizers -> [pc : FinPc, chan : Chans \cup {None}]]
  BY SpawnTyped DEF handleFailFastLocked, FinPc
<1>3. stopReason' \in StopReasons
  BY DEF handleFailFastLocked, StopReasons
<1>4. QED
  BY <1>1, <1>2, <1>3 DEF TypeOK, handleFailFastLocked, CancelProgressionAndEvaluator,
     cancelStageProgressionLocked, Chans

\* The calls from outside (stop, emergency stop, lost capacity, shutdown) keep the
\* run well typed.
LEMMA EnvironmentTyped ==
  ASSUME TypeOK, Environment
  PROVE  TypeOK'
<1>1. CASE RequestStop
  BY Zenon, <1>1, StopTyped, StopCallsAssumption DEF TypeOK, RequestStop
<1>2. CASE EmergencyStop
  <2>1. stopReason' \in {stopReason, EmergencyReason}
    BY <1>2 DEF EmergencyStop
  <2>2. stopReason' \in StopReasons
    <3>1. EmergencyReason \in StopReasons
      BY DEF EmergencyReason, StopReasons
    <3>2. QED BY <2>1, <3>1 DEF TypeOK
  <2>3. fin' \in [Finalizers -> [pc : FinPc, chan : Chans \cup {None}]]
    <3>1. fin' = fin \/ spawnFinalizer("check")
      BY <1>2 DEF EmergencyStop
    <3>2. "check" \in FinPc
      BY DEF FinPc
    <3>3. QED BY <3>1, <3>2, SpawnTyped DEF TypeOK
  <2>4. state' \in L!RunState /\ entered' \subseteq L!RunState /\ log' \in Seq(L!RunState)
    BY Zenon, <1>2, MoveTyped DEF TypeOK, EmergencyStop, L!RunState
  <2>5. closed' \subseteq Chans /\ drainCancel' \in Chans \cup {None}
    BY <1>2 DEF TypeOK, EmergencyStop, closeDrainCancel
  <2>6. metadata' \in {metadata, "emergency_stop"} /\ immediateStop' \in {immediateStop, TRUE}
    BY Zenon, <1>2 DEF EmergencyStop
  <2>7. /\ cancelled' \subseteq Contexts
        /\ progressionCancel' = None
        /\ rampCancel' = None
    BY <1>2 DEF TypeOK, EmergencyStop, cancelStageProgressionLocked
  <2>8. UNCHANGED <<config, activeStage, stopConditionsCancel, shutdown, start,
                    prog, ramp, eval, ana, expired, artifacts>>
    BY <1>2 DEF EmergencyStop
  <2>9. QED
    BY Zenon, <2>2, <2>3, <2>4, <2>5, <2>6, <2>7, <2>8 DEF TypeOK
<1>3. CASE HandleWorkerCapacityLost
  <2>1. CASE state = "stopping"
    BY Zenon, <1>3, <2>1 DEF TypeOK, HandleWorkerCapacityLost, closeDrainCancel, isRunningState, Running
  <2>2. CASE state # "stopping"
    BY <1>3, <2>2, FailFastTyped DEF HandleWorkerCapacityLost, handleReplaceIfPossibleLocked
  <2>3. QED BY <2>1, <2>2
<1>4. CASE Shutdown
  BY <1>4 DEF Shutdown, TypeOK
<1>5. QED BY Zenon, <1>1, <1>2, <1>3, <1>4 DEF Environment

\* Each step of StartRun keeps the run well typed.
LEMMA StartStepTyped ==
  ASSUME TypeOK, NEW c \in Starters, StartRun(c) \/ StartStep(c)
  PROVE  TypeOK'
<1>1. CASE StartRun(c)
  <2>1. config.scheduler \in {"complete", "partial", "absent"}
    BY ConfigsAssumption DEF TypeOK, Config
  <2>2. \E pc \in StartPc : SetStart(c, pc)
    BY <1>1, <2>1 DEF StartRun, StartPc
  <2>3. start' \in [Starters -> StartPc]
    BY <2>2, StartTyped
  <2>4. UNCHANGED <<config, recordVars, signalVars, prog, ramp, eval, fin,
                    ana, expired, outsideVars>>
    BY <1>1 DEF StartRun
  <2>5. QED BY <2>1, <2>2, <2>3, <2>4 DEF TypeOK
<1>2. CASE tryAllocateForStage(c)
  <2>1. start' \in [Starters -> StartPc]
    BY <1>2, StartTyped DEF tryAllocateForStage, StartPc
  <2>2. UNCHANGED <<config, recordVars, signalVars, prog, ramp, eval, fin,
                    ana, expired, outsideVars>>
    BY <1>2 DEF tryAllocateForStage
  <2>3. QED BY <2>1, <2>2 DEF TypeOK
<1>3. CASE transitionToFailedFromCreated(c)
  <2>1. state' \in L!RunState /\ entered' \subseteq L!RunState /\ log' \in Seq(L!RunState)
    BY Zenon, <1>3, MoveTyped DEF TypeOK, transitionToFailedFromCreated, L!RunState
  <2>2. start' \in [Starters -> StartPc]
    BY <1>3, StartTyped DEF transitionToFailedFromCreated, StartPc
  <2>3. UNCHANGED <<config, activeStage, stopReason, immediateStop,
                    drainCancel, progressionCancel, rampCancel, stopConditionsCancel,
                    signalVars, prog, ramp, eval, fin, ana, expired, metadata,
                    artifacts>>
    BY <1>3 DEF transitionToFailedFromCreated
  <2>4. QED BY <2>1, <2>2, <2>3 DEF TypeOK
<1>4. CASE StartRunCommit(c)
  <2>1. state' \in L!RunState /\ entered' \subseteq L!RunState /\ log' \in Seq(L!RunState)
    BY Zenon, <1>4, MoveTyped DEF TypeOK, StartRunCommit, L!RunState
  <2>2. \E pc \in StartPc : SetStart(c, pc)
    BY <1>4 DEF StartRunCommit, StartPc
  <2>3. start' \in [Starters -> StartPc]
    BY <2>2, StartTyped
  <2>4. UNCHANGED <<config, activeStage, stopReason, immediateStop,
                    drainCancel, progressionCancel, rampCancel, stopConditionsCancel,
                    signalVars, prog, ramp, eval, fin, ana, expired, metadata,
                    artifacts>>
    BY <1>4 DEF StartRunCommit
  <2>5. QED BY <2>1, <2>2, <2>3, <2>4 DEF TypeOK
<1>5. CASE StartRunDispatch(c)
  <2>1. start' \in [Starters -> StartPc]
    BY <1>5, StartTyped DEF StartRunDispatch, StartPc
  <2>2. UNCHANGED <<config, recordVars, signalVars, prog, ramp, eval, fin,
                    ana, expired, outsideVars>>
    BY <1>5 DEF StartRunDispatch
  <2>3. QED BY <2>1, <2>2 DEF TypeOK
<1>6. CASE startStageProgression(c)
  <2>1. start' \in [Starters -> StartPc]
    BY <1>6, StartTyped DEF startStageProgression, StartPc
  <2>2. prog' \in [Starters -> [at : ProgPc, stage : Stages]]
    BY Zenon, <1>6, StageTyped DEF startStageProgression, ProgPc, Stages
  <2>3. progressionCancel' \in Contexts /\ activeStage' \in Stages
    BY <1>6 DEF startStageProgression, Contexts, Stages
  <2>4. UNCHANGED <<config, state, stopReason, immediateStop, drainCancel,
                    rampCancel, stopConditionsCancel, signalVars, ramp, eval, fin, ana,
                    expired, outsideVars>>
    BY <1>6 DEF startStageProgression
  <2>5. QED BY <2>1, <2>2, <2>3, <2>4 DEF TypeOK
<1>7. QED BY Zenon, <1>1, <1>2, <1>3, <1>4, <1>5, <1>6 DEF StartStep

\* Each step of the stage progression keeps the run well typed.
LEMMA ProgStepTyped ==
  ASSUME TypeOK, NEW c \in Starters, ProgStep(c)
  PROVE  TypeOK'
<1>1. CASE waitForStageDurationWithTimeout(c)
  <2>1. prog[c].stage \in Stages
    BY DEF TypeOK
  <2>2. \E pc \in ProgPc : ProgAt(c, pc)
    BY <1>1, <2>1 DEF waitForStageDurationWithTimeout, ProgPc, Stages
  <2>3. prog' \in [Starters -> [at : ProgPc, stage : Stages]]
    BY <2>2, ProgTyped
  <2>4. UNCHANGED <<config, recordVars, signalVars, start, ramp, eval, fin,
                    ana, expired, outsideVars>>
    BY <1>1 DEF waitForStageDurationWithTimeout
  <2>5. QED BY <2>1, <2>2, <2>3, <2>4 DEF TypeOK
<1>2. CASE handleStageTimeout(c)
  BY <1>2, ProgStopTyped DEF handleStageTimeout
<1>3. CASE ProgRefused(c)
  BY <1>3, ProgStopTyped DEF ProgRefused
<1>4. CASE ProgFinish(c)
  BY <1>4, ProgStopTyped DEF ProgFinish
<1>5. CASE TransitionToBaseline(c)
  <2>1. \/ prog' = [prog EXCEPT ![c] = [at |-> "active", stage |-> "baseline"]]
        \/ ProgAt(c, "refused")
    BY <1>5 DEF TransitionToBaseline, TransitionTo
  <2>2. prog' \in [Starters -> [at : ProgPc, stage : Stages]]
    BY <2>1, StageTyped, ProgTyped DEF ProgPc, Stages
  <2>3. state' \in L!RunState /\ entered' \subseteq L!RunState
    BY <1>5 DEF TypeOK, TransitionToBaseline, TransitionTo, StageState, Stages, L!RunState
  <2>4. log' \in Seq(L!RunState)
    BY <1>5 DEF TypeOK, TransitionToBaseline, L!RunState
  <2>5. UNCHANGED <<config, activeStage, stopReason, immediateStop,
                    drainCancel, progressionCancel, rampCancel, stopConditionsCancel,
                    signalVars, start, ramp, eval, fin, ana, expired, metadata,
                    artifacts>>
    BY <1>5 DEF TransitionToBaseline, TransitionTo
  <2>6. QED BY <2>1, <2>2, <2>3, <2>4, <2>5 DEF TypeOK
<1>6. CASE TransitionToRamp(c)
  <2>1. \/ prog' = [prog EXCEPT ![c] = [at |-> "active", stage |-> "ramp"]]
        \/ ProgAt(c, "refused")
    BY <1>6 DEF TransitionToRamp, TransitionTo
  <2>2. prog' \in [Starters -> [at : ProgPc, stage : Stages]]
    BY <2>1, StageTyped, ProgTyped DEF ProgPc, Stages
  <2>3. state' \in L!RunState /\ entered' \subseteq L!RunState
    BY <1>6 DEF TypeOK, TransitionToRamp, TransitionTo, StageState, Stages, L!RunState
  <2>4. log' \in Seq(L!RunState)
    BY <1>6 DEF TypeOK, TransitionToRamp
  <2>5. UNCHANGED <<config, activeStage, stopReason, immediateStop,
                    drainCancel, progressionCancel, rampCancel, stopConditionsCancel,
                    signalVars, start, ramp, eval, fin, ana, expired, metadata,
                    artifacts>>
    BY <1>6 DEF TransitionToRamp, TransitionTo
  <2>6. QED BY <2>1, <2>2, <2>3, <2>4, <2>5 DEF TypeOK
<1>7. CASE TransitionToSoak(c)
  <2>1. \/ prog' = [prog EXCEPT ![c] = [at |-> "active", stage |-> "soak"]]
        \/ ProgAt(c, "refused")
    BY <1>7 DEF TransitionToSoak, TransitionTo
  <2>2. prog' \in [Starters -> [at : ProgPc, stage : Stages]]
    BY <2>1, StageTyped, ProgTyped DEF ProgPc, Stages
  <2>3. state' \in L!RunState /\ entered' \subseteq L!RunState
    BY <1>7 DEF TypeOK, TransitionToSoak, TransitionTo, StageState, Stages, L!RunState
  <2>4. log' \in Seq(L!RunState)
    BY <1>7 DEF TypeOK, TransitionToSoak
  <2>5. UNCHANGED <<config, activeStage, stopReason, immediateStop,
                    drainCancel, progressionCancel, rampCancel, stopConditionsCancel,
                    signalVars, start, ramp, eval, fin, ana, expired, metadata,
                    artifacts>>
    BY <1>7 DEF TransitionToSoak, TransitionTo
  <2>6. QED BY <2>1, <2>2, <2>3, <2>4, <2>5 DEF TypeOK
<1>8. CASE SetActiveStage(c)
  <2>1. prog' \in [Starters -> [at : ProgPc, stage : Stages]]
    BY <1>8, ProgTyped DEF SetActiveStage, ProgPc
  <2>2. activeStage' \in Stages
    BY <1>8 DEF TypeOK, SetActiveStage
  <2>3. UNCHANGED <<config, state, stopReason, immediateStop, drainCancel,
                    progressionCancel, rampCancel, stopConditionsCancel, signalVars,
                    start, ramp, eval, fin, ana, expired, outsideVars>>
    BY Zenon, <1>8 DEF SetActiveStage
  <2>4. QED BY <2>1, <2>2, <2>3 DEF TypeOK
<1>9. CASE AppendStageEvent(c)
  <2>1. prog[c].stage \in Stages
    BY DEF TypeOK
  <2>2. StageState[prog[c].stage] \in L!RunState
    BY <2>1 DEF StageState, Stages, L!RunState
  <2>3. log' \in Seq(L!RunState)
    BY <1>9, <2>2 DEF TypeOK, AppendStageEvent
  <2>4. \E pc \in {"evaluator", "autoramp", "dispatch"} : ProgAt(c, pc)
    BY <1>9 DEF AppendStageEvent
  <2>5. prog' \in [Starters -> [at : ProgPc, stage : Stages]]
    BY <2>4, ProgTyped DEF ProgPc
  <2>6. UNCHANGED <<config, recordVars, signalVars, start, ramp, eval, fin,
                    ana, expired, metadata, artifacts, entered>>
    BY <1>9 DEF AppendStageEvent
  <2>7. QED BY <2>1, <2>2, <2>3, <2>4, <2>5, <2>6 DEF TypeOK
<1>10. CASE createAndDispatchAssignmentsForStage(c)
  <2>1. prog' \in [Starters -> [at : ProgPc, stage : Stages]]
    BY <1>10, ProgTyped DEF createAndDispatchAssignmentsForStage, ProgPc
  <2>2. UNCHANGED <<config, recordVars, signalVars, start, ramp, eval, fin,
                    ana, expired, outsideVars>>
    BY <1>10 DEF createAndDispatchAssignmentsForStage
  <2>3. QED BY <2>1, <2>2 DEF TypeOK
<1>11. CASE startAutoRamp(c)
  <2>1. rampCancel' \in Contexts
    BY <1>11 DEF startAutoRamp, Contexts
  <2>2. prog' \in [Starters -> [at : ProgPc, stage : Stages]]
    BY <1>11, ProgTyped DEF startAutoRamp, ProgPc
  <2>3. ramp' \in [Starters -> RampPc]
    BY Zenon, <1>11, RampTyped DEF startAutoRamp, RampPc
  <2>4. UNCHANGED <<config, state, activeStage, stopReason, immediateStop,
                    drainCancel, progressionCancel, stopConditionsCancel, signalVars,
                    start, eval, fin, ana, expired, outsideVars>>
    BY <1>11 DEF startAutoRamp
  <2>5. QED BY <2>1, <2>2, <2>3, <2>4 DEF TypeOK
<1>12. CASE startStopConditionEvaluator(c)
  <2>1. prog[c].stage \in Stages /\ <<"evaluator", prog[c].stage>> \in Contexts
    BY DEF TypeOK, Contexts
  <2>2. prog' \in [Starters -> [at : ProgPc, stage : Stages]]
    BY Zenon, <1>12, ProgTyped DEF startStopConditionEvaluator, ProgPc
  <2>3. eval' = eval \/ EvalAt(prog[c].stage, "running")
    BY <1>12 DEF startStopConditionEvaluator, EvalAt
  <2>4. eval' \in [Stages -> EvalPc]
    BY <2>1, <2>3, EvalTyped DEF TypeOK, EvalPc
  <2>5. /\ stopConditionsCancel' \in Contexts \cup {None}
        /\ cancelled' \subseteq Contexts
    BY Zenon, <1>12, <2>1 DEF TypeOK, startStopConditionEvaluator
  <2>6. UNCHANGED <<config, state, activeStage, stopReason, immediateStop,
                    drainCancel, progressionCancel, rampCancel, closed, shutdown, start,
                    ramp, fin, ana, expired, outsideVars>>
    BY Zenon, <1>12 DEF startStopConditionEvaluator
  <2>7. QED BY <2>1, <2>2, <2>3, <2>4, <2>5, <2>6 DEF TypeOK
<1>13. QED BY Zenon, <1>1, <1>2, <1>3, <1>4, <1>5, <1>6, <1>7, <1>8, <1>9, <1>10, <1>11, <1>12 DEF ProgStep

\* Each step of the automatic ramp keeps the run well typed.
LEMMA RampRoutineTyped ==
  ASSUME TypeOK, NEW c \in Starters, RampRoutine(c)
  PROVE  TypeOK'
<1>1. CASE RampHold(c)
  <2>1. \E pc \in RampPc : ramp' = [ramp EXCEPT ![c] = pc]
    BY <1>1 DEF RampHold, RampPc
  <2>2. ramp' \in [Starters -> RampPc]
    BY Zenon, <2>1, RampTyped
  <2>3. UNCHANGED <<config, recordVars, signalVars, start, prog, eval, fin,
                    ana, expired, outsideVars>>
    BY <1>1 DEF RampHold
  <2>4. QED BY <2>1, <2>2, <2>3 DEF TypeOK
<1>2. CASE RampRead(c)
  <2>1. \E pc \in RampPc : ramp' = [ramp EXCEPT ![c] = pc]
    BY Zenon, <1>2 DEF RampRead, RampPc
  <2>2. ramp' \in [Starters -> RampPc]
    BY Zenon, <2>1, RampTyped
  <2>3. UNCHANGED <<config, recordVars, signalVars, start, prog, eval, fin,
                    ana, expired, outsideVars>>
    BY <1>2 DEF RampRead
  <2>4. QED BY <2>1, <2>2, <2>3 DEF TypeOK
<1>3. CASE RampStep(c)
  <2>1. \E pc \in RampPc : ramp' = [ramp EXCEPT ![c] = pc]
    BY Zenon, <1>3 DEF RampStep, RampPc
  <2>2. ramp' \in [Starters -> RampPc]
    BY Zenon, <2>1, RampTyped
  <2>3. UNCHANGED <<config, recordVars, signalVars, start, prog, eval, fin,
                    ana, expired, outsideVars>>
    BY <1>3 DEF RampStep
  <2>4. QED BY <2>1, <2>2, <2>3 DEF TypeOK
<1>4. QED BY Zenon, <1>1, <1>2, <1>3 DEF RampRoutine

\* Each step of a stop condition evaluator keeps the run well typed.
LEMMA EvaluatorTyped ==
  ASSUME TypeOK, NEW s \in Stages, EvaluatorRun(s) \/ TriggerStep(s)
  PROVE  TypeOK'
<1>1. CASE EvaluatorRun(s)
  <2>1. \E pc \in EvalPc : EvalAt(s, pc)
    BY <1>1 DEF EvaluatorRun, EvalPc
  <2>2. eval' \in [Stages -> EvalPc]
    BY <2>1, EvalTyped
  <2>3. UNCHANGED <<config, recordVars, signalVars, start, prog, ramp, fin,
                    ana, expired, outsideVars>>
    BY <1>1 DEF EvaluatorRun
  <2>4. QED BY <2>1, <2>2, <2>3 DEF TypeOK
<1>2. CASE TriggerMetadata(s)
  <2>1. eval' \in [Stages -> EvalPc]
    BY <1>2, EvalTyped DEF TriggerMetadata, EvalPc
  <2>2. metadata' = "stop_condition_triggered"
    BY <1>2 DEF TriggerMetadata
  <2>3. UNCHANGED <<config, recordVars, signalVars, start, prog, ramp, fin,
                    ana, expired, artifacts, log, entered>>
    BY <1>2 DEF TriggerMetadata
  <2>4. QED BY <2>1, <2>2, <2>3 DEF TypeOK
<1>3. CASE handleStopConditionTrigger(s)
  <2>1. eval' \in [Stages -> EvalPc]
    BY <1>3, EvalTyped DEF handleStopConditionTrigger, EvalPc
  <2>2. /\ requestStopWithReason("drain", "stop_condition_triggered", "other")
        /\ UNCHANGED <<config, closed, shutdown, start, prog, ramp, ana, expired, artifacts>>
    BY <1>3 DEF handleStopConditionTrigger
  <2>3. QED BY <2>1, <2>2, StopTyped DEF TypeOK
<1>4. QED BY Zenon, <1>1, <1>2, <1>3 DEF TriggerStep

\* Each step of a finalizer, and the deadline of its analysis, keeps the run well typed.
LEMMA FinStepTyped ==
  ASSUME TypeOK, NEW f \in Finalizers, AnalysisDeadline(f) \/ FinStep(f)
  PROVE  TypeOK'
<1>1. CASE AnalysisDeadline(f)
  <2>1. expired' \subseteq Finalizers
    BY <1>1 DEF TypeOK, AnalysisDeadline
  <2>2. UNCHANGED <<config, recordVars, signalVars, start, prog, ramp, eval,
                    fin, ana, outsideVars>>
    BY Zenon, <1>1 DEF AnalysisDeadline
  <2>3. QED BY <2>1, <2>2 DEF TypeOK
<1>2. CASE FinDrain(f)
  <2>1. PICK ch \in Chans :
          drainCancel' = ch /\ fin' = [fin EXCEPT ![f] = [pc |-> "wait", chan |-> ch]]
    BY Zenon, <1>2 DEF TypeOK, FinDrain, Chans
  <2>2. fin' \in [Finalizers -> [pc : FinPc, chan : Chans \cup {None}]]
    BY <2>1 DEF TypeOK, FinPc
  <2>3. UNCHANGED <<config, state, activeStage, stopReason, immediateStop,
                    progressionCancel, rampCancel, stopConditionsCancel, signalVars,
                    start, prog, ramp, eval, ana, expired, outsideVars>>
    BY <1>2 DEF FinDrain
  <2>4. QED BY Zenon, <2>1, <2>2, <2>3 DEF TypeOK
<1>3. CASE FinWait(f)
  <2>1. \E pc \in FinPc : FinAt(f, pc)
    BY Zenon, <1>3 DEF FinWait, FinPc
  <2>2. fin' \in [Finalizers -> [pc : FinPc, chan : Chans \cup {None}]]
    BY <2>1, FinTyped
  <2>3. UNCHANGED <<config, recordVars, signalVars, start, prog, ramp, eval,
                    ana, expired, outsideVars>>
    BY Zenon, <1>3 DEF FinWait
  <2>4. QED BY <2>1, <2>2, <2>3 DEF TypeOK
<1>4. CASE FinCheck(f)
  <2>1. \E pc \in FinPc : FinAt(f, pc)
    BY <1>4 DEF FinCheck, FinPc
  <2>2. fin' \in [Finalizers -> [pc : FinPc, chan : Chans \cup {None}]]
    BY <2>1, FinTyped
  <2>3. UNCHANGED <<config, recordVars, signalVars, start, prog, ramp, eval,
                    ana, expired, outsideVars>>
    BY <1>4 DEF FinCheck
  <2>4. QED BY <2>1, <2>2, <2>3 DEF TypeOK
<1>5. CASE transitionToCompleted(f)
  <2>1. state' \in L!RunState /\ entered' \subseteq L!RunState /\ log' \in Seq(L!RunState)
    BY Zenon, <1>5, MoveTyped DEF TypeOK, transitionToCompleted, L!RunState
  <2>2. \E pc \in FinPc : FinAt(f, pc)
    BY Zenon, <1>5 DEF transitionToCompleted, FinPc
  <2>3. fin' \in [Finalizers -> [pc : FinPc, chan : Chans \cup {None}]]
    BY <2>2, FinTyped
  <2>4. UNCHANGED <<config, activeStage, stopReason, immediateStop,
                    drainCancel, progressionCancel, rampCancel, stopConditionsCancel,
                    signalVars, start, prog, ramp, eval, ana, expired, metadata,
                    artifacts>>
    BY <1>5 DEF transitionToCompleted
  <2>5. QED BY <2>1, <2>2, <2>3, <2>4 DEF TypeOK
<1>6. CASE TransitionToAnalyzing(f)
  <2>1. state' \in L!RunState /\ entered' \subseteq L!RunState /\ log' \in Seq(L!RunState)
    BY Zenon, <1>6, MoveTyped DEF TypeOK, TransitionToAnalyzing, L!RunState
  <2>2. \E pc \in FinPc : FinAt(f, pc)
    BY Zenon, <1>6 DEF TransitionToAnalyzing, FinPc
  <2>3. fin' \in [Finalizers -> [pc : FinPc, chan : Chans \cup {None}]]
    BY <2>2, FinTyped
  <2>4. ana' = ana \/ AnaAt(f, "begin")
    BY <1>6 DEF TransitionToAnalyzing, AnaAt
  <2>5. ana' \in [Finalizers -> AnaPc]
    BY <2>4, AnaTyped DEF TypeOK, AnaPc
  <2>6. UNCHANGED <<config, activeStage, stopReason, immediateStop,
                    drainCancel, progressionCancel, rampCancel, stopConditionsCancel,
                    signalVars, start, prog, ramp, eval, expired, metadata, artifacts>>
    BY Zenon, <1>6 DEF TransitionToAnalyzing
  <2>7. QED BY <2>1, <2>2, <2>3, <2>4, <2>5, <2>6 DEF TypeOK
<1>7. CASE analyzeRunWithTimeout(f)
  <2>1. \E pc \in FinPc : FinAt(f, pc)
    BY <1>7 DEF analyzeRunWithTimeout, FinPc
  <2>2. fin' \in [Finalizers -> [pc : FinPc, chan : Chans \cup {None}]]
    BY <2>1, FinTyped
  <2>3. UNCHANGED <<config, recordVars, signalVars, start, prog, ramp, eval,
                    ana, expired, outsideVars>>
    BY <1>7 DEF analyzeRunWithTimeout
  <2>4. QED BY <2>1, <2>2, <2>3 DEF TypeOK
<1>8. CASE FinFail(f)
  <2>1. state' \in L!RunState /\ entered' \subseteq L!RunState /\ log' \in Seq(L!RunState)
    BY Zenon, <1>8, MoveTyped DEF TypeOK, FinFail, failAnalysis, L!RunState
  <2>2. fin' \in [Finalizers -> [pc : FinPc, chan : Chans \cup {None}]]
    BY <1>8, FinTyped DEF FinFail, FinPc
  <2>3. UNCHANGED <<config, activeStage, stopReason, immediateStop,
                    drainCancel, progressionCancel, rampCancel, stopConditionsCancel,
                    signalVars, start, prog, ramp, eval, ana, expired, metadata,
                    artifacts>>
    BY <1>8 DEF FinFail, failAnalysis
  <2>4. QED BY <2>1, <2>2, <2>3 DEF TypeOK
<1>9. QED BY Zenon, <1>1, <1>2, <1>3, <1>4, <1>5, <1>6, <1>7, <1>8 DEF FinStep

\* Each step of an analysis keeps the run well typed.
LEMMA AnaStepTyped ==
  ASSUME TypeOK, NEW f \in Finalizers, AnaStep(f)
  PROVE  TypeOK'
<1>1. CASE analyzeRunWithContext(f)
  <2>1. \E pc \in AnaPc : AnaAt(f, pc)
    BY <1>1 DEF analyzeRunWithContext, AnaPc, AnalysisOrder
  <2>2. ana' \in [Finalizers -> AnaPc]
    BY <2>1, AnaTyped
  <2>3. artifacts' \subseteq {"report.json", "report.html"}
    BY <1>1 DEF TypeOK, analyzeRunWithContext
  <2>4. UNCHANGED <<config, recordVars, signalVars, start, prog, ramp, eval,
                    fin, expired, metadata, log, entered>>
    BY <1>1 DEF analyzeRunWithContext
  <2>5. QED BY <2>1, <2>2, <2>3, <2>4 DEF TypeOK
<1>2. CASE emitReportGeneratedEvent(f)
  <2>1. ana' \in [Finalizers -> AnaPc]
    BY <1>2, AnaTyped DEF emitReportGeneratedEvent, AnaPc
  <2>2. UNCHANGED <<config, recordVars, signalVars, start, prog, ramp, eval,
                    fin, expired, outsideVars>>
    BY <1>2 DEF emitReportGeneratedEvent
  <2>3. QED BY <2>1, <2>2 DEF TypeOK
<1>3. CASE completeAnalysis(f)
  <2>1. state' \in L!RunState /\ entered' \subseteq L!RunState /\ log' \in Seq(L!RunState)
    BY Zenon, <1>3, MoveTyped DEF TypeOK, completeAnalysis, L!RunState
  <2>2. ana' \in [Finalizers -> AnaPc]
    BY <1>3, AnaTyped DEF completeAnalysis, AnaPc
  <2>3. UNCHANGED <<config, activeStage, stopReason, immediateStop,
                    drainCancel, progressionCancel, rampCancel, stopConditionsCancel,
                    signalVars, start, prog, ramp, eval, fin, expired, metadata,
                    artifacts>>
    BY <1>3 DEF completeAnalysis
  <2>4. QED BY <2>1, <2>2, <2>3 DEF TypeOK
<1>4. CASE AnaFail(f)
  <2>1. state' \in L!RunState /\ entered' \subseteq L!RunState /\ log' \in Seq(L!RunState)
    BY Zenon, <1>4, MoveTyped DEF TypeOK, AnaFail, failAnalysis, L!RunState
  <2>2. ana' \in [Finalizers -> AnaPc]
    BY <1>4, AnaTyped DEF AnaFail, AnaPc
  <2>3. UNCHANGED <<config, activeStage, stopReason, immediateStop,
                    drainCancel, progressionCancel, rampCancel, stopConditionsCancel,
                    signalVars, start, prog, ramp, eval, fin, expired, metadata,
                    artifacts>>
    BY <1>4 DEF AnaFail, failAnalysis
  <2>4. QED BY <2>1, <2>2, <2>3 DEF TypeOK
<1>5. QED BY Zenon, <1>1, <1>2, <1>3, <1>4 DEF AnaStep

\* Every handler and every goroutine step keeps the run well typed.
LEMMA StepTyped == TypeOK /\ [Next]_vars => TypeOK'
<1> SUFFICES ASSUME TypeOK, [Next]_vars PROVE TypeOK'
  OBVIOUS
<1>1. CASE UNCHANGED vars
  BY <1>1 DEF vars, TypeOK
<1>2. CASE Environment
  BY <1>2, EnvironmentTyped
<1>3. ASSUME NEW c \in Starters, StartRun(c) \/ StartStep(c) \/ ProgStep(c) \/ RampRoutine(c)
      PROVE  TypeOK'
  BY <1>3, StartStepTyped, ProgStepTyped, RampRoutineTyped
<1>4. ASSUME NEW s \in Stages, EvaluatorRun(s) \/ TriggerStep(s) PROVE TypeOK'
  BY <1>4, EvaluatorTyped
<1>5. ASSUME NEW f \in Finalizers, AnalysisDeadline(f) \/ FinStep(f) \/ AnaStep(f)
      PROVE  TypeOK'
  BY <1>5, FinStepTyped, AnaStepTyped
<1>6. QED
  BY Zenon, <1>1, <1>2, <1>3, <1>4, <1>5 DEF Next

\* Every behaviour of a run keeps its variables in their types: the record only
\* holds channels and contexts that exist, and the log only run states.
THEOREM TypeCorrect == Spec => []TypeOK
<1>1. QED BY InitTyped, StepTyped, PTL DEF Spec

-----------------------------------------------------------------------------
(* The end of a run.  Steps are sorted by what they do to the variables that  *)
(* decide it, so that the invariant is argued once per kind of step.          *)

\* The states from which a stop still has to be accepted.
Early == {"created", "preflight_failed", "preflight_passed"} \cup Running

\* A step that leaves the stop and its finalizer alone.
Calm ==
  /\ UNCHANGED <<config, stopReason, drainCancel, closed, fin>>
  /\ \/ state' = state
     \/ state \in Early /\ state' \in Early \cup {"failed"}

\* The stop that is accepted: the only step that spawns a finalizer.
Stop ==
  /\ state \in Early /\ state' = "stopping"
  /\ drainCancel' \in {"entry", drainCancel}
  /\ UNCHANGED <<config, closed>>
  /\ spawnFinalizer("drain") \/ spawnFinalizer("check")

\* A step that cuts the drain of a stopping run.
Cut ==
  /\ state = "stopping" /\ state' = state
  /\ stopReason' \in {stopReason, EmergencyReason}
  /\ closeDrainCancel
  /\ UNCHANGED <<config, fin>>

\* What a finalizer may have done so far, by where it stands, and what must hold
\* before there is one: the strengthening that makes the properties inductive.
FinInv ==
  /\ state \in Early => /\ \A f \in Finalizers : fin[f].pc = "off"
                        /\ drainCancel = None /\ closed = {} /\ stopReason = NoStop
  /\ \A f \in Finalizers :
       /\ f \in closed \cup {drainCancel} => fin[f].pc \notin {"off", "drain"}
       /\ fin[f].pc = "complete" => ~HasStores
  /\ OneFinalizer
  /\ DrainCancelOpen
  /\ EmergencyAborts

\* A stop request is accepted from an early state or changes nothing but contexts.
LEMMA StopKind ==
  ASSUME TypeOK, NEW mode, NEW reason, NEW actor,
         requestStopWithReason(mode, reason, actor), UNCHANGED <<config, closed>>
  PROVE  Calm \/ Stop
<1>1. CASE state # "stopping" /\ L!CanTransition(state, "stopping")
  <2>1. state \in Early /\ state \notin L!Terminal
    BY <1>1 DEF L!CanTransition, L!allowedTransitions, L!Terminal, Early, Running
  <2>2. QED
    BY Zenon, <1>1, <2>1 DEF requestStopWithReason, Stop, MoveTo
<1>2. CASE ~(state # "stopping" /\ L!CanTransition(state, "stopping"))
  BY <1>2 DEF requestStopWithReason, Calm
<1>3. QED BY <1>1, <1>2

\* Every step of a run is calm, accepts a stop, cuts a drain, or belongs to the
\* finalizer or its analysis.
LEMMA StepKind ==
  ASSUME TypeOK, [Next]_vars
  PROVE  Calm \/ Stop \/ Cut \/ \E f \in Finalizers : FinStep(f) \/ AnaStep(f)
<1>1. CASE UNCHANGED vars
  BY <1>1 DEF vars, Calm
<1>2. CASE RequestStop
  BY <1>2, StopKind DEF RequestStop
<1>3. CASE EmergencyStop
  <2>1. CASE state = "stopping"
    BY <1>3, <2>1 DEF EmergencyStop, Cut, L!CanTransition, L!allowedTransitions
  <2>2. CASE state # "stopping" /\ L!CanTransition(state, "stopping")
    <3>1. state \in Early
      BY <2>2 DEF L!CanTransition, L!allowedTransitions, Early, Running
    <3>2. QED BY <1>3, <2>2, <3>1 DEF EmergencyStop, Stop, MoveTo
  <2>3. CASE ~L!CanTransition(state, "stopping")
    BY <1>3, <2>3 DEF EmergencyStop, Calm, L!CanTransition, L!allowedTransitions
  <2>4. QED BY <2>1, <2>2, <2>3
<1>4. CASE HandleWorkerCapacityLost
  <2>1. CASE state = "stopping"
    BY <1>4, <2>1 DEF HandleWorkerCapacityLost, Cut, isRunningState, Running
  <2>2. CASE state # "stopping"
    <3>1. state \in Early /\ handleFailFastLocked /\ UNCHANGED <<config, closed>>
      BY <1>4, <2>2 DEF HandleWorkerCapacityLost, handleReplaceIfPossibleLocked,
         isRunningState, Running, Early
    <3>2. QED BY <3>1 DEF handleFailFastLocked, Stop, MoveTo
  <2>3. QED BY <2>1, <2>2
<1>5. CASE Shutdown
  BY <1>5 DEF Shutdown, Calm
<1>6. ASSUME NEW c \in Starters, StartRun(c) \/ StartStep(c) PROVE Calm
  BY <1>6 DEF StartRun, StartStep, tryAllocateForStage, transitionToFailedFromCreated,
     StartRunCommit, StartRunDispatch, startStageProgression, MoveTo, Calm, Early, Running
<1>7. ASSUME NEW c \in Starters, ProgStep(c) PROVE Calm \/ Stop
  <2>1. CASE \/ waitForStageDurationWithTimeout(c) \/ SetActiveStage(c)
             \/ AppendStageEvent(c) \/ createAndDispatchAssignmentsForStage(c)
             \/ startAutoRamp(c) \/ startStopConditionEvaluator(c)
    BY <2>1 DEF waitForStageDurationWithTimeout, SetActiveStage, AppendStageEvent,
       createAndDispatchAssignmentsForStage, startAutoRamp, startStopConditionEvaluator, Calm
  <2>2. CASE handleStageTimeout(c) \/ ProgRefused(c) \/ ProgFinish(c)
    BY Zenon, <2>2, StopKind DEF handleStageTimeout, ProgRefused, ProgFinish, ProgStop
  <2>3. CASE TransitionToBaseline(c) \/ TransitionToRamp(c) \/ TransitionToSoak(c)
    BY <2>3 DEF TransitionToBaseline, TransitionToRamp, TransitionToSoak, TransitionTo,
       StageState, Stages, Calm, Early, Running
  <2>4. QED BY <1>7, <2>1, <2>2, <2>3 DEF ProgStep
<1>8. ASSUME NEW c \in Starters, RampRoutine(c) PROVE Calm
  BY <1>8 DEF RampRoutine, RampHold, RampRead, RampStep, Calm
<1>9. ASSUME NEW s \in Stages, EvaluatorRun(s) \/ TriggerStep(s) PROVE Calm \/ Stop
  <2>1. CASE EvaluatorRun(s) \/ TriggerMetadata(s)
    BY Zenon, <2>1 DEF EvaluatorRun, TriggerMetadata, Calm
  <2>2. CASE handleStopConditionTrigger(s)
    BY <2>2, StopKind DEF handleStopConditionTrigger
  <2>3. QED BY <1>9, <2>1, <2>2 DEF TriggerStep
<1>10. ASSUME NEW f \in Finalizers, AnalysisDeadline(f) PROVE Calm
  BY Zenon, <1>10 DEF AnalysisDeadline, Calm
<1>11. QED
  BY <1>1, <1>2, <1>3, <1>4, <1>5, <1>6, <1>7, <1>8, <1>9, <1>10 DEF Next, Environment

\* A run starts with no finalizer and no channel.
LEMMA InitFin == Init => FinInv
  BY NoneAssumption DEF Init, FinInv, OneFinalizer, DrainCancelOpen, EmergencyAborts,
     Early, Running, Chans

\* Moving a finalizer changes where it stands and no other finalizer.
LEMMA FinMoved ==
  ASSUME TypeOK, NEW f \in Finalizers, NEW pc, FinAt(f, pc)
  PROVE  \A g \in Finalizers : fin'[g].pc = IF g = f THEN pc ELSE fin[g].pc
  BY DEF TypeOK, FinAt

\* A finalizer is spawned by moving one that does not exist yet.
LEMMA FinSpawned ==
  ASSUME TypeOK, NEW pc, spawnFinalizer(pc)
  PROVE  \E f \in Finalizers :
           \A g \in Finalizers : fin'[g].pc = IF g = f THEN pc ELSE fin[g].pc
  BY DEF TypeOK, spawnFinalizer

\* A finalizer on its way, once it has drained, keeps the invariant if the run does
\* not go back, and completes without an analysis only if it has no stores.
LEMMA FinKept ==
  ASSUME FinInv, NEW f \in Finalizers, NEW pc,
         fin[f].pc \notin {"off", "drain"}, pc \notin {"off", "drain"},
         \A g \in Finalizers : fin'[g].pc = IF g = f THEN pc ELSE fin[g].pc,
         UNCHANGED <<config, stopReason, drainCancel, closed>>,
         state' \notin Early,
         HasStores => pc # "complete" /\ (state' = "completed" => state = "completed")
  PROVE  FinInv'
<1>1. HasStores' <=> HasStores
  BY DEF HasStores
<1>2. \A g \in Finalizers : fin'[g].pc \in {"off", "drain"} <=> fin[g].pc \in {"off", "drain"}
  OBVIOUS
<1>3. \A g \in Finalizers : fin'[g].pc = "off" => fin[g].pc = "off"
  OBVIOUS
<1>4. \A g \in Finalizers : fin'[g].pc # "off" => fin[g].pc # "off"
  OBVIOUS
<1>5. OneFinalizer'
  BY <1>4 DEF FinInv, OneFinalizer
<1>6. DrainCancelOpen'
  BY DEF FinInv, DrainCancelOpen
<1>7. EmergencyAborts'
  BY <1>1 DEF FinInv, EmergencyAborts
<1>8. \A g \in Finalizers : fin'[g].pc = "complete" => ~HasStores'
  BY <1>1 DEF FinInv
<1>9. \A g \in Finalizers : g \in closed' \cup {drainCancel'} => fin'[g].pc \notin {"off", "drain"}
  BY <1>2 DEF FinInv
<1> QED BY <1>5, <1>6, <1>7, <1>8, <1>9 DEF FinInv

\* The first step of a finalizer: it takes over the channel there is, or makes its own.
LEMMA FinDrainKept ==
  ASSUME TypeOK, FinInv, NEW f \in Finalizers, FinDrain(f)
  PROVE  FinInv'
<1>1. \A g \in Finalizers : fin'[g].pc = IF g = f THEN "wait" ELSE fin[g].pc
  BY DEF FinDrain, TypeOK
<1>2. /\ fin[f].pc = "drain" /\ UNCHANGED <<config, state, stopReason, closed>>
      /\ drainCancel' = IF drainCancel = None THEN f ELSE drainCancel
  BY DEF FinDrain
<1>3. state \notin Early
  BY <1>2 DEF FinInv
<1>4. f \notin closed
  BY <1>2 DEF FinInv
<1>5. OneFinalizer'
  BY <1>1, <1>2 DEF FinInv, OneFinalizer
<1>6. DrainCancelOpen'
  BY <1>2, <1>4 DEF FinInv, DrainCancelOpen
<1>7. HasStores' <=> HasStores
  BY <1>2 DEF HasStores
<1>8. EmergencyAborts'
  BY <1>2, <1>7 DEF FinInv, EmergencyAborts
<1>9. ASSUME NEW g \in Finalizers
      PROVE  /\ g \in closed' \cup {drainCancel'} => fin'[g].pc \notin {"off", "drain"}
             /\ fin'[g].pc = "complete" => ~HasStores'
  <2>1. CASE g = f
    BY <1>1, <2>1
  <2>2. CASE g # f
    BY <1>1, <1>2, <1>7, <2>2 DEF FinInv
  <2> QED BY <2>1, <2>2
<1> QED BY <1>2, <1>3, <1>5, <1>6, <1>8, <1>9 DEF FinInv

\* Every step of a finalizer keeps the invariant about the end of the run.
LEMMA FinStepKept ==
  ASSUME TypeOK, FinInv, NEW f \in Finalizers, FinStep(f)
  PROVE  FinInv'
<1> DEFINE Rest == UNCHANGED <<config, stopReason, drainCancel, closed>>
<1>1. fin[f].pc # "off" => state \notin Early
  BY DEF FinInv
<1>2. fin[f].pc = "complete" => ~HasStores
  BY DEF FinInv
<1>3. CASE FinDrain(f)
  BY <1>3, FinDrainKept
<1>4. CASE FinWait(f)
  <2>1. fin[f].pc \in {"wait", "cut", "sleep"} /\ state' = state /\ Rest
    BY <1>4 DEF FinWait
  <2>2. PICK pc \in {"cut", "sleep", "check"} : FinAt(f, pc)
    BY <1>4 DEF FinWait
  <2>3. QED BY <1>1, <2>1, <2>2, FinMoved, FinKept
<1>5. CASE FinCheck(f)
  <2>1. fin[f].pc = "check" /\ state' = state /\ Rest
    BY <1>5 DEF FinCheck
  <2>2. PICK pc \in {"exit", "analyze", "complete"} :
          FinAt(f, pc) /\ (pc = "complete" => ~HasStores)
    BY <1>5 DEF FinCheck
  <2>3. QED BY <1>1, <2>1, <2>2, FinMoved, FinKept
<1>6. CASE transitionToCompleted(f)
  <2>1. fin[f].pc = "complete" /\ FinAt(f, "exit") /\ Rest
    BY <1>6 DEF transitionToCompleted
  <2>2. state' \in {state, "completed"}
    BY <1>6 DEF transitionToCompleted, MoveTo
  <2>3. state' \notin Early
    BY <1>1, <2>1, <2>2 DEF Early, Running
  <2>4. \A g \in Finalizers : fin'[g].pc = IF g = f THEN "exit" ELSE fin[g].pc
    BY <2>1, FinMoved
  <2>5. QED BY <1>2, <2>1, <2>3, <2>4, FinKept
<1>7. CASE TransitionToAnalyzing(f)
  <2>1. fin[f].pc = "analyze" /\ Rest
    BY <1>7 DEF TransitionToAnalyzing
  <2>2. PICK pc \in {"select", "exit"} : FinAt(f, pc)
    BY <1>7 DEF TransitionToAnalyzing
  <2>3. state' \in {state, "analyzing"}
    BY <1>7 DEF TransitionToAnalyzing, MoveTo
  <2>4. state' \notin Early /\ (state' = "completed" => state = "completed")
    BY <1>1, <2>1, <2>3 DEF Early, Running
  <2>5. QED BY <2>1, <2>2, <2>4, FinMoved, FinKept
<1>8. CASE analyzeRunWithTimeout(f)
  <2>1. fin[f].pc = "select" /\ state' = state /\ Rest
    BY <1>8 DEF analyzeRunWithTimeout
  <2>2. PICK pc \in {"fail", "exit"} : FinAt(f, pc)
    BY <1>8 DEF analyzeRunWithTimeout
  <2>3. QED BY <1>1, <2>1, <2>2, FinMoved, FinKept
<1>9. CASE FinFail(f)
  <2>1. fin[f].pc = "fail" /\ FinAt(f, "exit") /\ Rest
    BY <1>9 DEF FinFail, failAnalysis
  <2>2. state' \in {state, "failed"}
    BY <1>9 DEF FinFail, failAnalysis, MoveTo
  <2>3. state' \notin Early /\ (state' = "completed" => state = "completed")
    BY <1>1, <2>1, <2>2 DEF Early, Running
  <2>4. QED BY <2>1, <2>3, FinMoved, FinKept
<1> QED BY <1>3, <1>4, <1>5, <1>6, <1>7, <1>8, <1>9 DEF FinStep

\* Every step keeps the invariant about the end of the run.
LEMMA StepFin == TypeOK /\ FinInv /\ [Next]_vars => FinInv'
<1> SUFFICES ASSUME TypeOK, FinInv, [Next]_vars PROVE FinInv'
  OBVIOUS
<1> USE DEF FinInv, OneFinalizer, DrainCancelOpen, EmergencyAborts, HasStores
<1>1. CASE Calm
  BY Zenon, <1>1 DEF Calm, Early, Running
<1>2. CASE Stop
  <2>1. PICK f \in Finalizers, pc \in {"drain", "check"} :
          \A g \in Finalizers : fin'[g].pc = IF g = f THEN pc ELSE fin[g].pc
    BY <1>2, FinSpawned DEF Stop
  <2>2. drainCancel' \in {"entry", None} /\ closed' = {} /\ state' = "stopping"
    BY <1>2 DEF Stop
  <2>3. \A g \in Finalizers : g \notin closed' \cup {drainCancel'}
    BY <2>2, EntryAssumption, NoneAssumption DEF Chans
  <2>4. QED BY <1>2, <2>1, <2>2, <2>3 DEF Stop, Early, Running
<1>3. CASE Cut
  <2>1. closed \subseteq Chans /\ None \notin Chans
    BY NoneAssumption DEF TypeOK
  <2>2. None \notin closed'
    BY <1>3, <2>1 DEF Cut, closeDrainCancel
  <2>3. \A g \in Finalizers : g # None
    BY <2>1 DEF Chans
  <2>4. QED BY <1>3, <2>2, <2>3 DEF Cut, closeDrainCancel, Early, Running
<1>4. ASSUME NEW f \in Finalizers, FinStep(f) PROVE FinInv'
  BY <1>4, FinStepKept
<1>5. ASSUME NEW f \in Finalizers, AnaStep(f) PROVE FinInv'
  <2>1. UNCHANGED <<config, stopReason, drainCancel, closed, fin>>
    BY <1>5 DEF AnaStep, analyzeRunWithContext, emitReportGeneratedEvent,
       completeAnalysis, AnaFail, failAnalysis
  <2>2. \/ state' = state
        \/ state' \in {"failed", "aborted"}
        \/ state' = "completed" /\ ~EmergencyStopped
    BY <1>5 DEF AnaStep, analyzeRunWithContext, emitReportGeneratedEvent,
       completeAnalysis, AnaFail, failAnalysis, MoveTo
  <2>3. QED BY <2>1, <2>2 DEF EmergencyStopped, Early, Running
<1>6. QED
  BY Zenon, StepKind, <1>1, <1>2, <1>3, <1>4, <1>5

\* The invariant holds in every reachable state.
LEMMA FinCorrect == Spec => []FinInv
<1>1. QED BY InitFin, StepFin, TypeCorrect, PTL, InitTyped, StepTyped DEF Spec

\* A run is finalized by at most one goroutine, whatever stops, emergency stops,
\* stop conditions, stage timeouts and worker losses race.
THEOREM FinalizedOnce == Spec => []OneFinalizer
<1>1. FinInv => OneFinalizer
  BY DEF FinInv
<1>2. QED BY <1>1, FinCorrect, PTL

\* No drainCancel channel is ever closed twice.
THEOREM DrainCancelClosedOnce == Spec => []DrainCancelOpen
<1>1. FinInv => DrainCancelOpen
  BY DEF FinInv
<1>2. QED BY <1>1, FinCorrect, PTL

\* With the stores configured no emergency-stopped run ends COMPLETED.
THEOREM EmergencyNeverCompletes == Spec => []EmergencyAborts
<1>1. FinInv => EmergencyAborts
  BY DEF FinInv
<1>2. QED BY <1>1, FinCorrect, PTL

\* The first stop keeps its reason: before it is accepted there is none, and after
\* it only an emergency stop of a stopping run writes one.
THEOREM FirstReasonKept == Spec => ReasonKept
<1>1. ASSUME TypeOK, FinInv, [Next]_vars
      PROVE  stopReason' # stopReason =>
               \/ stopReason = NoStop
               \/ state = "stopping" /\ stopReason' = EmergencyReason
  <2>1. CASE Calm BY <2>1 DEF Calm
  <2>2. CASE Stop BY <1>1, <2>2 DEF Stop, FinInv
  <2>3. CASE Cut BY <2>3 DEF Cut
  <2>4. ASSUME NEW f \in Finalizers, FinStep(f) \/ AnaStep(f) PROVE stopReason' = stopReason
    BY Zenon, <2>4 DEF FinStep, AnaStep, FinDrain, FinWait, FinCheck, transitionToCompleted,
       TransitionToAnalyzing, analyzeRunWithTimeout, FinFail, failAnalysis,
       analyzeRunWithContext, emitReportGeneratedEvent, completeAnalysis, AnaFail
  <2>5. QED BY <1>1, StepKind, <2>1, <2>2, <2>3, <2>4
<1>2. QED BY <1>1, TypeCorrect, FinCorrect, PTL DEF Spec, ReasonKept
=============================================================================
