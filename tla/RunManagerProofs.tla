-------------------------- MODULE RunManagerProofs --------------------------
(***************************************************************************)
(* How a run starts, what reports it leaves, that it follows the           *)
(* transition table of RunLifecycle, that its event log accounts for the   *)
(* states it entered, and which of its goroutines can still be cancelled.  *)
(***************************************************************************)
EXTENDS RunManagerEnd

\* Every definition that only groups variables.
USE DEF recordVars, signalVars, routineVars, outsideVars

-----------------------------------------------------------------------------
(* The start of a run.                                                       *)

\* A start that got past the re-check found the run CREATED, and moved it on.
StartInv ==
  /\ state = "created" => \A c \in Starters : ~StartedBy(c)
  /\ OneStart

\* Every step but the commit of a start leaves at most the starts there were.
LEMMA StartKind ==
  ASSUME TypeOK, [Next]_vars
  PROVE  \/ /\ \A c \in Starters : StartedBy(c)' => StartedBy(c)
            /\ state' = "created" => state = "created"
         \/ \E c \in Starters : StartRunCommit(c)
<1> DEFINE NoNew == /\ \A c \in Starters : StartedBy(c)' => StartedBy(c)
                    /\ state' = "created" => state = "created"
<1> USE DEF StartedBy
<1>1. CASE UNCHANGED vars
  BY <1>1 DEF vars
<1>2. CASE Environment
  BY <1>2 DEF Environment, RequestStop, requestStopWithReason, EmergencyStop,
     HandleWorkerCapacityLost, handleReplaceIfPossibleLocked, handleFailFastLocked,
     Shutdown, MoveTo
<1>3. ASSUME NEW c \in Starters, StartRun(c) \/ (StartStep(c) /\ ~StartRunCommit(c))
      PROVE  NoNew
  <2>1. CASE StartRun(c)
    <3>1. config.scheduler \in {"complete", "partial", "absent"}
      BY ConfigsAssumption DEF Config, TypeOK
    <3>2. PICK pc \in {"done", "reject", "allocate", "commit"} : SetStart(c, pc)
      BY <2>1, <3>1 DEF StartRun
    <3>3. \A d \in Starters : start'[d] = IF d = c THEN pc ELSE start[d]
      BY <3>2 DEF SetStart, TypeOK
    <3>4. QED BY <2>1, <3>3 DEF StartRun
  <2>2. CASE tryAllocateForStage(c) \/ transitionToFailedFromCreated(c) \/ StartRunDispatch(c)
    BY <2>2 DEF tryAllocateForStage, transitionToFailedFromCreated, StartRunDispatch,
       SetStart, MoveTo, TypeOK
  <2>3. CASE startStageProgression(c)
    BY <2>3 DEF startStageProgression, SetStart, TypeOK
  <2>4. QED BY <1>3, <2>1, <2>2, <2>3 DEF StartStep
<1>4. ASSUME NEW c \in Starters, ProgStep(c) PROVE NoNew
  <2>1. prog[c].at # "off" /\ UNCHANGED start
    BY Zenon, <1>4 DEF ProgStep, waitForStageDurationWithTimeout, handleStageTimeout, ProgRefused,
       ProgFinish, ProgStop, TransitionToBaseline, TransitionToRamp, TransitionToSoak,
       TransitionTo, SetActiveStage, AppendStageEvent,
       createAndDispatchAssignmentsForStage, startAutoRamp, startStopConditionEvaluator
  <2>2. \A d \in Starters : d # c => prog'[d] = prog[d]
    BY Zenon, <1>4 DEF ProgStep, waitForStageDurationWithTimeout, handleStageTimeout, ProgRefused,
       ProgFinish, ProgStop, TransitionToBaseline, TransitionToRamp, TransitionToSoak,
       TransitionTo, SetActiveStage, AppendStageEvent, ProgAt, TypeOK,
       createAndDispatchAssignmentsForStage, startAutoRamp, startStopConditionEvaluator
  <2>3. state' = "created" => state = "created"
    BY Zenon, <1>4 DEF ProgStep, waitForStageDurationWithTimeout, handleStageTimeout, ProgRefused,
       ProgFinish, ProgStop, requestStopWithReason, MoveTo, TransitionToBaseline,
       TransitionToRamp, TransitionToSoak, TransitionTo, StageState, Stages,
       SetActiveStage, AppendStageEvent, createAndDispatchAssignmentsForStage,
       startAutoRamp, startStopConditionEvaluator
  <2>4. QED BY <2>1, <2>2, <2>3
<1>5. ASSUME NEW c \in Starters, RampRoutine(c) PROVE NoNew
  BY <1>5 DEF RampRoutine, RampHold, RampRead, RampStep
<1>6. ASSUME NEW s \in Stages, EvaluatorRun(s) \/ TriggerStep(s) PROVE NoNew
  BY <1>6 DEF EvaluatorRun, TriggerStep, TriggerMetadata, handleStopConditionTrigger,
     requestStopWithReason, MoveTo
<1>7. ASSUME NEW f \in Finalizers, AnalysisDeadline(f) \/ FinStep(f) \/ AnaStep(f) PROVE NoNew
  BY Zenon, <1>7 DEF AnalysisDeadline, FinStep, AnaStep, FinDrain, FinWait, FinCheck,
     transitionToCompleted, TransitionToAnalyzing, analyzeRunWithTimeout, FinFail,
     failAnalysis, analyzeRunWithContext, emitReportGeneratedEvent, completeAnalysis,
     AnaFail, MoveTo
<1>8. QED
  BY <1>1, <1>2, <1>3, <1>4, <1>5, <1>6, <1>7 DEF Next

\* Of any number of concurrent StartRun calls at most one dispatches the run and
\* spawns its stage progression.
THEOREM StartedOnce == Spec => []OneStart
<1>1. Init => StartInv
  BY DEF Init, StartInv, StartedBy, OneStart
<1>2. TypeOK /\ StartInv /\ [Next]_vars => StartInv'
  <2> SUFFICES ASSUME TypeOK, StartInv, [Next]_vars PROVE StartInv'
    OBVIOUS
  <2>1. ASSUME NEW c \in Starters, StartRunCommit(c) PROVE StartInv'
    <3>1. \A d \in Starters : d # c => (StartedBy(d)' <=> StartedBy(d))
      BY <2>1 DEF StartRunCommit, SetStart, StartedBy, TypeOK
    <3>2. CASE state = "created"
      BY <2>1, <3>1, <3>2 DEF StartRunCommit, MoveTo, StartInv, OneStart
    <3>3. CASE state # "created"
      <4>1. StartedBy(c)' => StartedBy(c)
        BY <2>1, <3>3 DEF StartRunCommit, SetStart, StartedBy, TypeOK
      <4>2. QED BY <2>1, <3>1, <3>3, <4>1 DEF StartRunCommit, StartInv, OneStart
    <3>4. QED BY <3>2, <3>3
  <2>2. CASE /\ \A c \in Starters : StartedBy(c)' => StartedBy(c)
             /\ state' = "created" => state = "created"
    BY <2>2 DEF StartInv, OneStart
  <2>3. QED BY <2>1, <2>2, StartKind
<1>3. StartInv => OneStart
  BY DEF StartInv
<1>4. QED BY <1>1, <1>2, <1>3, TypeCorrect, PTL DEF Spec

-----------------------------------------------------------------------------
(* The reports of a run, and the transition table.                           *)

\* What the analysis has stored, by where it stands.
AnaInv ==
  /\ \A f \in Finalizers :
       /\ ana[f] = "savehtml" => "report.json" \in artifacts
       /\ ana[f] \in {"report", "finish"} => artifacts = {"report.json", "report.html"}
  /\ ReportStored

\* A step outside the analysis stores nothing, starts an analysis at its beginning
\* if at all, and ends the run only when there is nothing to analyse.
LEMMA AnaKind ==
  ASSUME TypeOK, FinInv, [Next]_vars
  PROVE  \/ /\ UNCHANGED <<config, artifacts>>
            /\ \A f \in Finalizers : ana'[f] \in {ana[f], "begin"}
            /\ state' \in {"completed", "aborted"} => state' = state \/ ~HasStores
         \/ \E f \in Finalizers : AnaStep(f)
<1> DEFINE NoReport == /\ UNCHANGED <<config, artifacts>>
                       /\ \A f \in Finalizers : ana'[f] \in {ana[f], "begin"}
                       /\ state' \in {"completed", "aborted"} => state' = state \/ ~HasStores
<1>1. CASE UNCHANGED vars
  BY <1>1 DEF vars
<1>2. CASE Environment
  BY Zenon, <1>2 DEF Environment, RequestStop, requestStopWithReason, EmergencyStop,
     HandleWorkerCapacityLost, handleReplaceIfPossibleLocked, handleFailFastLocked,
     Shutdown, MoveTo
<1>3. ASSUME NEW c \in Starters, StartRun(c) \/ StartStep(c) \/ RampRoutine(c) PROVE NoReport
  BY Zenon, <1>3 DEF StartRun, StartStep, tryAllocateForStage, transitionToFailedFromCreated,
     StartRunCommit, StartRunDispatch, startStageProgression, MoveTo,
     RampRoutine, RampHold, RampRead, RampStep
<1>4. ASSUME NEW c \in Starters, ProgStep(c) PROVE NoReport
  BY Zenon, <1>4 DEF ProgStep, waitForStageDurationWithTimeout, handleStageTimeout, ProgRefused,
     ProgFinish, ProgStop, requestStopWithReason, MoveTo, TransitionToBaseline,
     TransitionToRamp, TransitionToSoak, TransitionTo, StageState, Stages,
     SetActiveStage, AppendStageEvent, createAndDispatchAssignmentsForStage,
     startAutoRamp, startStopConditionEvaluator
<1>5. ASSUME NEW s \in Stages, EvaluatorRun(s) \/ TriggerStep(s) PROVE NoReport
  BY <1>5 DEF EvaluatorRun, TriggerStep, TriggerMetadata, handleStopConditionTrigger,
     requestStopWithReason, MoveTo
<1>6. ASSUME NEW f \in Finalizers, AnalysisDeadline(f) \/ FinStep(f) PROVE NoReport
  <2>1. CASE \/ AnalysisDeadline(f) \/ FinDrain(f) \/ FinWait(f) \/ FinCheck(f)
             \/ analyzeRunWithTimeout(f) \/ FinFail(f)
    BY Zenon, <2>1 DEF AnalysisDeadline, FinDrain, FinWait, FinCheck, analyzeRunWithTimeout,
       FinFail, failAnalysis, MoveTo
  <2>2. CASE transitionToCompleted(f)
    BY <2>2 DEF transitionToCompleted, FinInv
  <2>3. CASE TransitionToAnalyzing(f)
    BY <2>3 DEF TransitionToAnalyzing, MoveTo, TypeOK
  <2>4. QED BY <1>6, <2>1, <2>2, <2>3 DEF FinStep
<1>7. QED
  BY <1>1, <1>2, <1>3, <1>4, <1>5, <1>6 DEF Next

\* With the stores configured a run that ends COMPLETED or ABORTED has both of its
\* report files, also when the analysis timeout or a shutdown races the analysis.
THEOREM ReportsStored == Spec => []ReportStored
<1>1. Init => AnaInv
  BY DEF Init, AnaInv, ReportStored
<1>2. TypeOK /\ FinInv /\ AnaInv /\ [Next]_vars => AnaInv'
  <2> SUFFICES ASSUME TypeOK, FinInv, AnaInv, [Next]_vars PROVE AnaInv'
    OBVIOUS
  <2> USE DEF AnaInv, ReportStored, HasStores
  <2>1. CASE /\ UNCHANGED <<config, artifacts>>
             /\ \A f \in Finalizers : ana'[f] \in {ana[f], "begin"}
             /\ state' \in {"completed", "aborted"} => state' = state \/ ~HasStores
    BY <2>1
  <2>2. ASSUME NEW f \in Finalizers, analyzeRunWithContext(f) PROVE AnaInv'
    <3>1. PICK pc \in AnaPc :
            /\ AnaAt(f, pc)
            /\ artifacts \subseteq artifacts'
            /\ pc = "savehtml" => "report.json" \in artifacts'
            /\ pc = "report" => artifacts' = artifacts \cup {"report.html"} /\ ana[f] = "savehtml"
            /\ pc # "finish"
      BY <2>2 DEF analyzeRunWithContext, AnalysisOrder, AnaPc
    <3>2. \A g \in Finalizers : ana'[g] = IF g = f THEN pc ELSE ana[g]
      BY <3>1 DEF AnaAt, TypeOK
    <3>3. artifacts' \subseteq {"report.json", "report.html"}
      BY StepTyped DEF TypeOK
    <3>4. UNCHANGED <<state, config>>
      BY <2>2 DEF analyzeRunWithContext
    <3>5. QED BY Zenon, <3>1, <3>2, <3>3, <3>4
  <2>3. ASSUME NEW f \in Finalizers,
               emitReportGeneratedEvent(f) \/ completeAnalysis(f) \/ AnaFail(f)
        PROVE  AnaInv'
    <3>1. UNCHANGED <<config, artifacts>>
      BY <2>3 DEF emitReportGeneratedEvent, completeAnalysis, AnaFail, failAnalysis
    <3>2. PICK pc \in {"finish", "ok", "err"} :
            AnaAt(f, pc) /\ (pc = "finish" => ana[f] = "report")
      BY <2>3 DEF emitReportGeneratedEvent, completeAnalysis, AnaFail
    <3>3. \A g \in Finalizers : ana'[g] = IF g = f THEN pc ELSE ana[g]
      BY <3>2 DEF AnaAt, TypeOK
    <3>4. state' \in {"completed", "aborted"} => state' = state \/ ana[f] = "finish"
      BY Zenon, <2>3 DEF emitReportGeneratedEvent, completeAnalysis, AnaFail, failAnalysis, MoveTo
    <3>5. QED BY <3>1, <3>2, <3>3, <3>4
  <2>4. QED BY AnaKind, <2>1, <2>2, <2>3 DEF AnaStep
<1>3. AnaInv => ReportStored
  BY DEF AnaInv
<1>4. QED BY <1>1, <1>2, <1>3, TypeCorrect, FinCorrect, PTL DEF Spec

\* A stop request, accepted or not, follows the transition table.
LEMMA StopAllowed ==
  ASSUME TypeOK, NEW mode, NEW reason, NEW actor, requestStopWithReason(mode, reason, actor)
  PROVE  [L!Next]_state
  BY DEF requestStopWithReason, MoveTo, L!Next, L!RunState

\* With the stores configured every step of a run is a transition of the table
\* (state_machine.go) or leaves the state alone.
LEMMA StepAllowed ==
  ASSUME TypeOK, FinInv, HasStores, [Next]_vars
  PROVE  [L!Next]_state
<1> USE DEF L!Next, L!RunState
<1>1. CASE UNCHANGED vars
  BY <1>1 DEF vars
<1>2. CASE RequestStop
  BY <1>2, StopAllowed DEF RequestStop
<1>3. CASE EmergencyStop \/ Shutdown
  BY <1>3 DEF EmergencyStop, MoveTo, Shutdown
<1>4. CASE HandleWorkerCapacityLost
  BY <1>4 DEF HandleWorkerCapacityLost, handleReplaceIfPossibleLocked, handleFailFastLocked,
     MoveTo, isRunningState, Running, L!CanTransition, L!allowedTransitions
<1>5. ASSUME NEW c \in Starters, StartRun(c) \/ StartStep(c) \/ RampRoutine(c)
      PROVE  [L!Next]_state
  BY Zenon, <1>5 DEF StartRun, StartStep, tryAllocateForStage, transitionToFailedFromCreated,
     StartRunCommit, StartRunDispatch, startStageProgression, MoveTo,
     RampRoutine, RampHold, RampRead, RampStep, L!CanTransition, L!allowedTransitions
<1>6. ASSUME NEW c \in Starters, ProgStep(c) PROVE [L!Next]_state
  <2>1. CASE \/ waitForStageDurationWithTimeout(c) \/ SetActiveStage(c)
             \/ AppendStageEvent(c) \/ createAndDispatchAssignmentsForStage(c)
             \/ startAutoRamp(c) \/ startStopConditionEvaluator(c)
    BY Zenon, <2>1 DEF waitForStageDurationWithTimeout, SetActiveStage, AppendStageEvent,
       createAndDispatchAssignmentsForStage, startAutoRamp, startStopConditionEvaluator
  <2>2. CASE handleStageTimeout(c) \/ ProgRefused(c) \/ ProgFinish(c)
    BY <2>2, StopAllowed DEF handleStageTimeout, ProgRefused, ProgFinish, ProgStop
  <2>3. CASE TransitionToBaseline(c)
    BY <2>3 DEF TransitionToBaseline, TransitionTo, StageState, Stages,
       L!PassesThrough, L!CanTransition, L!allowedTransitions
  <2>4. CASE TransitionToRamp(c) \/ TransitionToSoak(c)
    BY <2>4 DEF TransitionToRamp, TransitionToSoak, TransitionTo, StageState, Stages,
       L!CanTransition, L!allowedTransitions
  <2>5. QED BY <1>6, <2>1, <2>2, <2>3, <2>4 DEF ProgStep
<1>7. ASSUME NEW s \in Stages, EvaluatorRun(s) \/ TriggerStep(s) PROVE [L!Next]_state
  <2>1. CASE EvaluatorRun(s) \/ TriggerMetadata(s)
    BY <2>1 DEF EvaluatorRun, TriggerMetadata
  <2>2. CASE handleStopConditionTrigger(s)
    BY <2>2, StopAllowed DEF handleStopConditionTrigger
  <2>3. QED BY <1>7, <2>1, <2>2 DEF TriggerStep
<1>8. ASSUME NEW f \in Finalizers, AnalysisDeadline(f) \/ FinStep(f) PROVE [L!Next]_state
  <2>1. ~transitionToCompleted(f)
    BY DEF transitionToCompleted, FinInv
  <2>2. QED
    BY Zenon, <1>8, <2>1 DEF AnalysisDeadline, FinStep, FinDrain, FinWait, FinCheck,
       TransitionToAnalyzing, analyzeRunWithTimeout, FinFail, failAnalysis, MoveTo,
       L!CanTransition, L!allowedTransitions
<1>9. ASSUME NEW f \in Finalizers, AnaStep(f) PROVE [L!Next]_state
  BY <1>9 DEF AnaStep, analyzeRunWithContext, emitReportGeneratedEvent, completeAnalysis,
     AnaFail, failAnalysis, MoveTo, L!CanTransition, L!allowedTransitions
<1>10. QED
  BY <1>1, <1>2, <1>3, <1>4, <1>5, <1>6, <1>7, <1>8, <1>9 DEF Next, Environment

\* The run manager implements the run state machine when both stores are
\* configured; without them finalizeRun completes a stopping run directly, which
\* the table does not allow.
THEOREM Implements == Spec /\ []HasStores => ImplementsLifecycle
<1>1. Init => L!Init
  BY DEF Init, L!Init
<1>2. QED BY <1>1, StepAllowed, TypeCorrect, FinCorrect, PTL DEF Spec, ImplementsLifecycle, L!Spec

-----------------------------------------------------------------------------
(* The event log.                                                            *)

\* How far a state lies along the life of a run.
Level ==
  [s \in L!RunState |->
     CASE s = "created"            -> 0
       [] s = "preflight_running"  -> 1
       [] s \in {"preflight_passed", "preflight_failed"} -> 2
       [] s = "baseline_running"   -> 3
       [] s = "ramp_running"       -> 4
       [] s = "soak_running"       -> 5
       [] s = "stopping"           -> 6
       [] s = "analyzing"          -> 7
       [] s \in L!Terminal         -> 8]

\* A start that has not returned has spawned nothing.
Spawned == \A c \in Starters : start[c] # "done" => prog[c].at = "off"

\* A run never comes back to a state it has entered before.
LogInv ==
  /\ \A x \in entered : Level[x] <= Level[state]
  /\ Spawned
  /\ LogAccounts

\* The states a step may move to, and the steps that log nothing else.
Rises(to) == MoveTo(to) /\ to \in L!RunState /\ Level[state] < Level[to]
Logged == UNCHANGED <<state, log, entered>> \/ \E to \in L!RunState : Rises(to)

\* A start that has entered a stage and not yet logged it.
Owes(c) == prog[c].at \in {"active", "event"}

\* A step after which the same stages are still to be logged.
SameDebts ==
  \A c \in Starters : /\ Owes(c)' <=> Owes(c)
                      /\ Owes(c) => prog'[c].stage = prog[c].stage

\* The level of every state.
LEMMA Levels ==
  /\ Level["created"] = 0 /\ Level["preflight_running"] = 1
  /\ Level["preflight_passed"] = 2 /\ Level["preflight_failed"] = 2
  /\ Level["baseline_running"] = 3 /\ Level["ramp_running"] = 4
  /\ Level["soak_running"] = 5 /\ Level["stopping"] = 6 /\ Level["analyzing"] = 7
  /\ Level["completed"] = 8 /\ Level["failed"] = 8 /\ Level["aborted"] = 8
  BY DEF Level, L!RunState, L!Terminal

\* The levels are numbers.
LEMMA LevelNat == \A s \in L!RunState : Level[s] \in Int
  BY Levels DEF L!RunState

\* The table leads to STOPPING only from below it, or from STOPPING itself.
LEMMA StopsAbove ==
  ASSUME TypeOK, L!CanTransition(state, "stopping"), state # "stopping"
  PROVE  "stopping" \in L!RunState /\ Level[state] < Level["stopping"]
<1>1. state \in {"preflight_running", "preflight_failed", "preflight_passed",
                 "baseline_running", "ramp_running", "soak_running"}
  BY DEF L!CanTransition, L!allowedTransitions
<1>2. QED BY <1>1, Levels DEF L!RunState

\* A stop, accepted or not, logs the state it enters, which is a new one.
LEMMA StopLogged ==
  ASSUME TypeOK, NEW mode, NEW reason, NEW actor, requestStopWithReason(mode, reason, actor)
  PROVE  Logged
<1>1. CASE state # "stopping" /\ L!CanTransition(state, "stopping") /\ MoveTo("stopping")
  BY <1>1, StopsAbove DEF Logged, Rises
<1>2. CASE UNCHANGED <<state, log, entered>>
  BY <1>2 DEF Logged
<1>3. QED BY Zenon, <1>1, <1>2 DEF requestStopWithReason

\* A move of the stage progression, other than a transition and its event, leaves
\* what the transitions owe to the log.
LEMMA DebtsKept ==
  ASSUME TypeOK, NEW c \in Starters, NEW pc, ProgAt(c, pc),
         Owes(c) <=> pc \in {"active", "event"}
  PROVE  SameDebts
<1>1. \A d \in Starters : prog'[d].at = IF d = c THEN pc ELSE prog[d].at
  BY DEF ProgAt, TypeOK
<1>2. \A d \in Starters : prog'[d].stage = prog[d].stage
  BY DEF ProgAt, TypeOK
<1>3. QED BY <1>1, <1>2 DEF SameDebts, Owes

\* The steps of the environment and of the starts.
LEMMA OutsideLogged ==
  ASSUME TypeOK, LogInv,
         \/ Environment
         \/ \E c \in Starters : StartRun(c) \/ StartStep(c)
  PROVE  SameDebts /\ Logged
<1>1. CASE RequestStop
  <2>1. SameDebts
    BY <1>1 DEF RequestStop, SameDebts, Owes
  <2>2. QED BY <1>1, <2>1, StopLogged DEF RequestStop
<1>2. CASE EmergencyStop \/ HandleWorkerCapacityLost \/ Shutdown
  <2>1. SameDebts
    BY <1>2 DEF EmergencyStop, HandleWorkerCapacityLost, Shutdown, SameDebts, Owes
  <2>2. \/ UNCHANGED <<state, log, entered>>
        \/ MoveTo("stopping") /\ state # "stopping" /\ L!CanTransition(state, "stopping")
    BY <1>2 DEF EmergencyStop, HandleWorkerCapacityLost, Shutdown, handleFailFastLocked,
       handleReplaceIfPossibleLocked, isRunningState, Running, L!CanTransition,
       L!allowedTransitions
  <2>3. QED BY <2>1, <2>2, StopsAbove DEF Logged, Rises
<1>3. ASSUME NEW c \in Starters, StartRun(c) \/ StartStep(c)
      PROVE  SameDebts /\ Logged
  <2>1. SameDebts
    <3>1. CASE startStageProgression(c)
      <4>1. prog[c].at = "off"
        BY <3>1 DEF startStageProgression, LogInv, Spawned
      <4>2. \A d \in Starters :
              prog'[d] = IF d = c THEN [at |-> "wait", stage |-> "preflight"] ELSE prog[d]
        BY <3>1 DEF startStageProgression, TypeOK
      <4>3. QED BY <4>1, <4>2 DEF SameDebts, Owes
    <3>2. CASE UNCHANGED prog
      BY <3>2 DEF SameDebts, Owes
    <3>3. QED
      BY Zenon, <1>3, <3>1, <3>2 DEF StartRun, StartStep, tryAllocateForStage,
         transitionToFailedFromCreated, StartRunCommit, StartRunDispatch
  <2>2. \/ UNCHANGED <<state, log, entered>>
        \/ state = "created" /\ \E to \in {"failed", "preflight_running"} : MoveTo(to)
    BY Zenon, <1>3 DEF StartRun, StartStep, tryAllocateForStage,
         transitionToFailedFromCreated, StartRunCommit, StartRunDispatch,
         startStageProgression
  <2>3. Level["created"] < Level["failed"] /\ Level["created"] < Level["preflight_running"]
    BY Levels
  <2>4. QED BY <2>1, <2>2, <2>3 DEF Logged, Rises, L!RunState
<1>4. QED BY <1>1, <1>2, <1>3 DEF Environment

\* The other goroutines owe the log nothing.
LEMMA RoutineLogged ==
  ASSUME TypeOK,
         \/ \E c \in Starters : RampRoutine(c)
         \/ \E s \in Stages : EvaluatorRun(s) \/ TriggerStep(s)
         \/ \E f \in Finalizers : AnalysisDeadline(f) \/ FinStep(f) \/ AnaStep(f)
  PROVE  SameDebts /\ Logged
<1>1. ASSUME NEW c \in Starters, RampRoutine(c) PROVE SameDebts /\ Logged
  BY <1>1 DEF RampRoutine, RampHold, RampRead, RampStep, SameDebts, Owes, Logged
<1>2. ASSUME NEW s \in Stages, EvaluatorRun(s) \/ TriggerStep(s) PROVE SameDebts /\ Logged
  <2>1. CASE EvaluatorRun(s) \/ TriggerMetadata(s)
    BY Zenon, <2>1 DEF EvaluatorRun, TriggerMetadata, SameDebts, Owes, Logged
  <2>2. CASE handleStopConditionTrigger(s)
    <3>1. SameDebts
      BY <2>2 DEF handleStopConditionTrigger, SameDebts, Owes
    <3>2. QED BY <2>2, <3>1, StopLogged DEF handleStopConditionTrigger
  <2>3. QED BY <1>2, <2>1, <2>2 DEF TriggerStep
<1>3. ASSUME NEW f \in Finalizers, AnalysisDeadline(f) \/ FinStep(f) \/ AnaStep(f)
      PROVE  SameDebts /\ Logged
  <2>1. UNCHANGED prog
    BY Zenon, <1>3 DEF AnalysisDeadline, FinStep, AnaStep, FinDrain, FinWait, FinCheck,
       transitionToCompleted, TransitionToAnalyzing, analyzeRunWithTimeout, FinFail,
       failAnalysis, analyzeRunWithContext, emitReportGeneratedEvent, completeAnalysis,
       AnaFail
  <2>2. \/ UNCHANGED <<state, log, entered>>
        \/ state = "stopping" /\ \E to \in {"completed", "analyzing"} : MoveTo(to)
        \/ state = "analyzing" /\ \E to \in L!Terminal : MoveTo(to)
    BY Zenon, <1>3 DEF AnalysisDeadline, FinStep, AnaStep, FinDrain, FinWait, FinCheck,
       transitionToCompleted, TransitionToAnalyzing, analyzeRunWithTimeout, FinFail,
       failAnalysis, analyzeRunWithContext, emitReportGeneratedEvent, completeAnalysis,
       AnaFail, L!Terminal
  <2>3. /\ Level["stopping"] < Level["completed"] /\ Level["stopping"] < Level["analyzing"]
        /\ \A to \in L!Terminal : Level["analyzing"] < Level[to]
    BY Levels DEF L!Terminal
  <2>4. Logged
    BY <2>2, <2>3 DEF Logged, Rises, L!RunState, L!Terminal
  <2>5. QED BY <2>1, <2>4 DEF SameDebts, Owes
<1>4. QED BY <1>1, <1>2, <1>3

\* A transition to the next stage, which owes the log an event: the state rises,
\* to BASELINE by way of PREFLIGHT_PASSED.
Enters(c, to) ==
  /\ ~Owes(c)
  /\ Level[state] < Level[StageState[to]]
  /\ state' = StageState[to]
  /\ prog' = [prog EXCEPT ![c] = [at |-> "active", stage |-> to]]
  /\ \/ /\ entered' = entered \cup {StageState[to]}
        /\ log' = log
     \/ /\ Level[state] < Level["preflight_passed"]
        /\ Level["preflight_passed"] < Level[StageState[to]]
        /\ entered' = entered \cup {"preflight_passed", StageState[to]}
        /\ log' = Append(log, "preflight_passed")

\* The stage progression enters a stage, pays what it owes, or leaves both alone.
LEMMA ProgLogged ==
  ASSUME TypeOK, NEW c \in Starters, ProgStep(c)
  PROVE  \/ SameDebts /\ Logged
         \/ \E to \in Stages : Enters(c, to)
         \/ AppendStageEvent(c)
<1>1. CASE handleStageTimeout(c) \/ ProgRefused(c) \/ ProgFinish(c)
  <2>1. ~Owes(c) /\ ProgAt(c, "exit")
    BY <1>1 DEF handleStageTimeout, ProgRefused, ProgFinish, ProgStop, Owes
  <2>2. SameDebts
    BY <2>1, DebtsKept
  <2>3. Logged
    BY <1>1, StopLogged DEF handleStageTimeout, ProgRefused, ProgFinish, ProgStop
  <2>4. QED BY <2>2, <2>3
<1>2. CASE \/ waitForStageDurationWithTimeout(c) \/ SetActiveStage(c)
           \/ createAndDispatchAssignmentsForStage(c) \/ startAutoRamp(c)
           \/ startStopConditionEvaluator(c)
  <2>1. Logged
    BY Zenon, <1>2 DEF waitForStageDurationWithTimeout, SetActiveStage, startAutoRamp,
       createAndDispatchAssignmentsForStage, startStopConditionEvaluator, Logged
  <2>2. CASE SetActiveStage(c)
    BY <2>1, <2>2, DebtsKept DEF SetActiveStage, Owes
  <2>3. ~SetActiveStage(c) =>
          \E pc : ~Owes(c) /\ ProgAt(c, pc) /\ pc \notin {"active", "event"}
    <3>1. prog[c].stage \in Stages /\ config.soak \in BOOLEAN
      BY ConfigsAssumption DEF TypeOK, Config
    <3>2. QED
      BY <1>2, <3>1 DEF waitForStageDurationWithTimeout, startAutoRamp, Owes, Stages,
         createAndDispatchAssignmentsForStage, startStopConditionEvaluator
  <2>4. QED BY <2>1, <2>2, <2>3, DebtsKept
<1>3. CASE TransitionToBaseline(c) \/ TransitionToRamp(c) \/ TransitionToSoak(c)
  <2>1. CASE ProgAt(c, "refused") /\ ~Owes(c) /\ UNCHANGED <<state, log, entered>>
    BY <2>1, DebtsKept DEF Logged
  <2>2. \/ ProgAt(c, "refused") /\ ~Owes(c) /\ UNCHANGED <<state, log, entered>>
        \/ \E to \in Stages : Enters(c, to)
    <3>1. StageState["preflight"] = "preflight_running" /\ StageState["baseline"] = "baseline_running"
          /\ StageState["ramp"] = "ramp_running" /\ StageState["soak"] = "soak_running"
      BY DEF StageState, Stages
    <3>2. CASE TransitionToBaseline(c)
      BY <3>1, <3>2, Levels DEF TransitionToBaseline, TransitionTo, Enters, Owes, Stages
    <3>3. CASE TransitionToRamp(c)
      BY <3>1, <3>3, Levels DEF TransitionToRamp, TransitionTo, Enters, Owes, Stages
    <3>4. CASE TransitionToSoak(c)
      BY <3>1, <3>4, Levels DEF TransitionToSoak, TransitionTo, Enters, Owes, Stages
    <3>5. QED BY <1>3, <3>2, <3>3, <3>4
  <2>3. QED BY <2>1, <2>2
<1>4. QED BY <1>1, <1>2, <1>3 DEF ProgStep
-----------------------------------------------------------------------------
(* The log accounts for every state the run entered.                         *)

\* The events of a log, and a log without a repetition.
Events(l) == {l[i] : i \in DOMAIN l}
Distinct(l) == \A i, j \in DOMAIN l : l[i] = l[j] => i = j

\* Appending an event adds it to the log's events, and repeats none when it is new.
LEMMA Appended ==
  ASSUME NEW l \in Seq(L!RunState), NEW x \in L!RunState
  PROVE  /\ Events(Append(l, x)) = Events(l) \cup {x}
         /\ Distinct(l) /\ x \notin Events(l) => Distinct(Append(l, x))
<1>1. /\ DOMAIN Append(l, x) = 1 .. Len(l) + 1 /\ DOMAIN l = 1 .. Len(l) /\ Len(l) \in Nat
      /\ \A i \in 1 .. Len(l) : Append(l, x)[i] = l[i]
      /\ Append(l, x)[Len(l) + 1] = x
  OBVIOUS
<1>2. 1 .. Len(l) + 1 = (1 .. Len(l)) \cup {Len(l) + 1} /\ Len(l) + 1 \notin 1 .. Len(l)
  BY <1>1
<1>3. Events(Append(l, x)) = Events(l) \cup {x}
  <2>1. \A e : e \in Events(Append(l, x)) <=> \E i \in 1 .. Len(l) + 1 : e = Append(l, x)[i]
    BY <1>1 DEF Events
  <2>2. \A e : e \in Events(l) <=> \E i \in 1 .. Len(l) : e = l[i]
    BY <1>1 DEF Events
  <2>3. QED BY <1>1, <1>2, <2>1, <2>2
<1>4. ASSUME Distinct(l), x \notin Events(l) PROVE Distinct(Append(l, x))
  <2>1. \A i \in 1 .. Len(l) : l[i] # x
    BY <1>1, <1>4 DEF Events
  <2>2. QED BY <1>1, <1>2, <1>4, <2>1 DEF Distinct
<1>5. QED BY <1>3, <1>4

\* The log and the events that are owed have every state the run entered, each once.
AccountFor(l, owed, states) ==
  Distinct(l) /\ Events(l) \cap owed = {} /\ Events(l) \cup owed = states

\* What LogAccounts says, of this state and of the next.
LEMMA Accounting ==
  /\ LogAccounts <=> AccountFor(log, Owed, entered)
  /\ LogAccounts' <=> AccountFor(log', Owed', entered')
  BY DEF LogAccounts, AccountFor, Distinct, Events

\* Who owes an event, in this state and in the next.
LEMMA Owing ==
  /\ \A e : e \in Owed <=> \E c \in Starters : Owes(c) /\ e = StageState[prog[c].stage]
  /\ \A e : e \in Owed' <=> \E c \in Starters : Owes(c)' /\ e = StageState[prog'[c].stage]
  BY DEF Owed, Owes

\* A step that keeps the debts and enters at most one state, logging it.
LEMMA LoggedKeeps ==
  ASSUME TypeOK, TypeOK', LogInv, SameDebts, Logged
  PROVE  LogAccounts' /\ \A x \in entered' : Level[x] <= Level[state']
<1>1. Owed' = Owed
  BY DEF Owed, SameDebts, Owes
<1>2. CASE UNCHANGED <<state, log, entered>>
  BY <1>1, <1>2 DEF LogInv, LogAccounts
<1>3. ASSUME NEW to \in L!RunState, Rises(to)
      PROVE  LogAccounts' /\ \A x \in entered' : Level[x] <= Level[state']
  <2>1. /\ state' = to /\ entered' = entered \cup {to} /\ log' = Append(log, to)
        /\ Level[state] < Level[to] /\ entered \subseteq L!RunState /\ state \in L!RunState
        /\ log \in Seq(L!RunState)
    BY <1>3 DEF Rises, MoveTo, TypeOK
  <2>2. \A x \in entered : Level[x] <= Level[state] /\ Level[x] < Level[to]
    BY <2>1, LevelNat DEF LogInv
  <2>3. to \notin entered
    BY <2>2, LevelNat
  <2>4. \A x \in entered' : Level[x] <= Level[state']
    BY <2>1, <2>2, LevelNat
  <2>5. Distinct(log') /\ Events(log') = Events(log) \cup {to}
    <3>1. Distinct(log) /\ to \notin Events(log)
      BY <2>3, Accounting DEF LogInv, AccountFor
    <3>2. QED BY Zenon, <2>1, <3>1, Appended
  <2>6. LogAccounts'
    BY Zenon, <1>1, <2>1, <2>3, <2>5, Accounting DEF LogInv, AccountFor
  <2>7. QED BY <2>4, <2>6
<1>4. QED BY <1>2, <1>3 DEF Logged

\* Entering a stage: the new state is owed and not logged.
LEMMA EntersKeeps ==
  ASSUME TypeOK, TypeOK', LogInv, NEW c \in Starters, NEW to \in Stages, Enters(c, to)
  PROVE  LogAccounts' /\ \A x \in entered' : Level[x] <= Level[state']
<1> DEFINE new == StageState[to]
<1>1. \A d \in Starters : prog'[d] = IF d = c THEN [at |-> "active", stage |-> to] ELSE prog[d]
  BY Zenon DEF Enters, TypeOK
<1>2. Owed' = Owed \cup {new}
  BY <1>1, Owing DEF Enters, Owes
<1>3. /\ new \in L!RunState /\ "preflight_passed" \in L!RunState
      /\ entered \subseteq L!RunState /\ state \in L!RunState /\ log \in Seq(L!RunState)
  BY DEF StageState, Stages, L!RunState, TypeOK
<1>4. Level[state] < Level[new] /\ state' = new
  BY DEF Enters
<1>5. \A x \in entered : Level[x] <= Level[state] /\ Level[x] < Level[new]
  BY <1>3, <1>4, LevelNat DEF LogInv
<1>6. new \notin entered
  BY <1>3, <1>5, LevelNat
<1>7. CASE entered' = entered \cup {new} /\ log' = log
  <2>1. \A x \in entered' : Level[x] <= Level[state']
    BY <1>3, <1>4, <1>5, <1>7, LevelNat
  <2>2. LogAccounts'
    BY Zenon, <1>2, <1>6, <1>7, Accounting DEF LogInv, AccountFor
  <2>3. QED BY <2>1, <2>2
<1>8. CASE /\ Level[state] < Level["preflight_passed"]
           /\ Level["preflight_passed"] < Level[new]
           /\ entered' = entered \cup {"preflight_passed", new}
           /\ log' = Append(log, "preflight_passed")
  <2>1. \A x \in entered' : Level[x] <= Level[state']
    BY <1>3, <1>4, <1>5, <1>8, LevelNat
  <2>2. "preflight_passed" \notin entered /\ new # "preflight_passed"
    BY <1>3, <1>5, <1>8, LevelNat DEF LogInv
  <2>3. Distinct(log') /\ Events(log') = Events(log) \cup {"preflight_passed"}
    <3>1. Distinct(log) /\ "preflight_passed" \notin Events(log)
      BY <2>2, Accounting DEF LogInv, AccountFor
    <3>2. QED BY Zenon, <1>3, <1>8, <2>2, <3>1, Appended
  <2>4. LogAccounts'
    BY Zenon, <1>2, <1>6, <1>8, <2>2, <2>3, Accounting DEF LogInv, AccountFor
  <2>5. QED BY <2>1, <2>4
<1>9. QED BY <1>7, <1>8 DEF Enters

\* The event of a stage pays what its transition owes; no other start owes it.
LEMMA EventKeeps ==
  ASSUME TypeOK, TypeOK', LogInv, OneStart, NEW c \in Starters, AppendStageEvent(c)
  PROVE  LogAccounts' /\ \A x \in entered' : Level[x] <= Level[state']
<1> DEFINE paid == StageState[prog[c].stage]
<1>1. prog[c].at = "event" /\ UNCHANGED <<state, entered>> /\ log' = Append(log, paid)
  BY DEF AppendStageEvent
<1>2. \A d \in Starters : d # c => prog[d].at = "off" /\ prog'[d] = prog[d]
  BY <1>1 DEF AppendStageEvent, ProgAt, TypeOK, OneStart, StartedBy
<1>3. prog'[c].at \in {"evaluator", "autoramp", "dispatch"}
  <2>1. config.scheduler \in {"complete", "partial", "absent"} /\ prog[c].stage \in Stages
    BY ConfigsAssumption DEF Config, TypeOK
  <2>2. QED BY <2>1 DEF AppendStageEvent, ProgAt, TypeOK
<1>4. Owed = {paid}
  BY <1>1, <1>2, Owing DEF Owes
<1>5. Owed' = {}
  BY <1>2, <1>3, Owing DEF Owes
<1>6. paid \in L!RunState /\ log \in Seq(L!RunState)
  <2>1. prog[c].stage \in Stages /\ log \in Seq(L!RunState)
    BY DEF TypeOK
  <2>2. QED BY <2>1 DEF StageState, Stages, L!RunState
<1>7. Distinct(log') /\ Events(log') = Events(log) \cup {paid}
  <2>1. Distinct(log) /\ paid \notin Events(log)
    BY <1>4, Accounting DEF LogInv, AccountFor
  <2>2. QED BY Zenon, <1>1, <1>4, <1>6, <2>1, Appended
<1>8. LogAccounts'
  BY Zenon, <1>1, <1>4, <1>5, <1>7, Accounting DEF LogInv, AccountFor
<1>9. QED BY <1>1, <1>8 DEF LogInv
\* A step of the stage progression of one start: it was running, and no other is
\* touched.
LEMMA ProgAlone ==
  ASSUME TypeOK, NEW c \in Starters, ProgStep(c)
  PROVE  /\ prog[c].at # "off" /\ UNCHANGED start
         /\ \A d \in Starters : d # c => prog'[d] = prog[d]
<1>1. prog[c].at # "off" /\ UNCHANGED start
  BY Zenon DEF ProgStep, waitForStageDurationWithTimeout, handleStageTimeout, ProgRefused,
     ProgFinish, ProgStop, TransitionToBaseline, TransitionToRamp, TransitionToSoak,
     TransitionTo, SetActiveStage, AppendStageEvent,
     createAndDispatchAssignmentsForStage, startAutoRamp, startStopConditionEvaluator
<1>2. \A d \in Starters : d # c => prog'[d] = prog[d]
  BY Zenon DEF ProgStep, waitForStageDurationWithTimeout, handleStageTimeout, ProgRefused,
     ProgFinish, ProgStop, TransitionToBaseline, TransitionToRamp, TransitionToSoak,
     TransitionTo, SetActiveStage, AppendStageEvent, ProgAt, TypeOK,
     createAndDispatchAssignmentsForStage, startAutoRamp, startStopConditionEvaluator
<1>3. QED BY <1>1, <1>2

\* Only a start that returns spawns its stage progression.
LEMMA SpawnedKept ==
  ASSUME TypeOK, Spawned, [Next]_vars
  PROVE  Spawned'
<1> USE DEF Spawned
<1>1. ASSUME NEW c \in Starters, StartRun(c) \/ StartStep(c) PROVE Spawned'
  <2>1. CASE startStageProgression(c)
    BY <2>1 DEF startStageProgression, SetStart, TypeOK
  <2>2. CASE UNCHANGED prog /\ start[c] # "done" /\ \E pc : SetStart(c, pc)
    <3>1. \A d \in Starters : d # c => start'[d] = start[d]
      BY <2>2 DEF SetStart, TypeOK
    <3>2. QED BY <2>2, <3>1
  <2>3. QED
    BY Zenon, <1>1, <2>1, <2>2 DEF StartRun, StartStep, tryAllocateForStage,
       transitionToFailedFromCreated, StartRunCommit, StartRunDispatch
<1>2. ASSUME NEW c \in Starters, ProgStep(c) PROVE Spawned'
  BY <1>2, ProgAlone
<1>3. CASE UNCHANGED <<start, prog>>
  BY <1>3
<1>4. CASE \/ UNCHANGED vars
           \/ Environment
           \/ \E c \in Starters : RampRoutine(c)
           \/ \E s \in Stages : EvaluatorRun(s) \/ TriggerStep(s)
           \/ \E f \in Finalizers : AnalysisDeadline(f) \/ FinStep(f) \/ AnaStep(f)
  BY Zenon, <1>3, <1>4 DEF vars, Environment, RequestStop, EmergencyStop,
     HandleWorkerCapacityLost, Shutdown, RampRoutine, RampHold, RampRead, RampStep,
     EvaluatorRun, TriggerStep, TriggerMetadata, handleStopConditionTrigger,
     AnalysisDeadline, FinStep, AnaStep, FinDrain, FinWait, FinCheck,
     transitionToCompleted, TransitionToAnalyzing, analyzeRunWithTimeout, FinFail,
     failAnalysis, analyzeRunWithContext, emitReportGeneratedEvent, completeAnalysis,
     AnaFail
<1>5. QED BY Zenon, <1>1, <1>2, <1>4 DEF Next

\* Every step keeps the log in account.
LEMMA LogKept ==
  ASSUME TypeOK, TypeOK', OneStart, LogInv, [Next]_vars
  PROVE  LogInv'
<1>1. Spawned'
  BY SpawnedKept DEF LogInv
<1>2. SUFFICES LogAccounts' /\ \A x \in entered' : Level[x] <= Level[state']
  BY Zenon, <1>1 DEF LogInv, Level
<1>3. CASE UNCHANGED vars
  BY <1>3, LoggedKeeps DEF vars, SameDebts, Owes, Logged
<1>4. ASSUME NEW c \in Starters, ProgStep(c)
      PROVE  LogAccounts' /\ \A x \in entered' : Level[x] <= Level[state']
  BY <1>4, ProgLogged, LoggedKeeps, EntersKeeps, EventKeeps
<1>5. CASE Environment \/ \E c \in Starters : StartRun(c) \/ StartStep(c)
  BY <1>5, OutsideLogged, LoggedKeeps
<1>6. CASE \/ \E c \in Starters : RampRoutine(c)
           \/ \E s \in Stages : EvaluatorRun(s) \/ TriggerStep(s)
           \/ \E f \in Finalizers : AnalysisDeadline(f) \/ FinStep(f) \/ AnaStep(f)
  BY <1>6, RoutineLogged, LoggedKeeps
<1>7. QED BY <1>3, <1>4, <1>5, <1>6 DEF Next

\* Every state a run enters is in its event log exactly once, but for the event a
\* stage transition appends after it gave up the lock, whatever stops, starts,
\* timeouts and analyses race.
THEOREM LogAccountsForRun == Spec => []LogAccounts
<1>1. Init => LogInv
  BY DEF Init, LogInv, Spawned, LogAccounts, Owed
<1>2. TypeOK /\ TypeOK' /\ OneStart /\ LogInv /\ [Next]_vars => LogInv'
  BY LogKept
<1>3. LogInv => LogAccounts
  BY DEF LogInv
<1>4. QED BY <1>1, <1>2, <1>3, TypeCorrect, StartedOnce, PTL DEF Spec
-----------------------------------------------------------------------------
(* No running goroutine is out of reach.                                     *)

\* A ramp belongs to a stage progression that was spawned.
RoutineInv ==
  /\ \A c \in Starters : prog[c].at = "off" => ramp[c] = "off"
  /\ NoOrphanRoutine

\* A cancel function leaves the record only by being called.
Handed(old, new) == new = old \/ old = None \/ old \in cancelled'

\* A step that wakes no goroutine, takes back no cancellation, and calls every
\* cancel function it removes.
Wakeless ==
  /\ cancelled \subseteq cancelled'
  /\ \A c \in Starters :
       /\ prog[c].at \in {"off", "exit"} => prog'[c].at \in {"off", "exit"}
       /\ ramp[c] \in {"off", "exit"} => ramp'[c] \in {"off", "exit"}
       /\ prog'[c].at = "off" => prog[c].at = "off"
       /\ ramp[c] = "off" => ramp'[c] = "off"
  /\ \A s \in Stages : eval'[s] = "running" => eval[s] = "running"
  /\ Handed(progressionCancel, progressionCancel')
  /\ Handed(rampCancel, rampCancel')
  /\ Handed(stopConditionsCancel, stopConditionsCancel')

\* No context is nil.
LEMMA ContextsNotNil ==
  /\ \A c \in Starters : <<"progression", c>> # None /\ <<"ramp", c>> # None
  /\ \A s \in Stages : <<"evaluator", s>> # None
  BY NoneAssumption DEF Contexts

\* Such a step keeps the invariant of the goroutines.
LEMMA WakelessKeeps ==
  ASSUME RoutineInv, Wakeless
  PROVE  RoutineInv'
<1>1. \A c \in Starters : prog'[c].at = "off" => ramp'[c] = "off"
  BY DEF RoutineInv, Wakeless
<1>2. ASSUME NEW c \in Starters
      PROVE  prog'[c].at \notin {"off", "exit"} /\ <<"progression", c>> \notin cancelled'
               => progressionCancel' = <<"progression", c>>
  BY Zenon, <1>2, ContextsNotNil DEF RoutineInv, NoOrphanRoutine, Wakeless, Handed
<1>3. ASSUME NEW c \in Starters
      PROVE  ramp'[c] \notin {"off", "exit"} /\ <<"ramp", c>> \notin cancelled'
               => rampCancel' = <<"ramp", c>>
  BY Zenon, <1>3, ContextsNotNil DEF RoutineInv, NoOrphanRoutine, Wakeless, Handed
<1>4. ASSUME NEW s \in Stages
      PROVE  eval'[s] = "running" /\ <<"evaluator", s>> \notin cancelled'
               => stopConditionsCancel' = <<"evaluator", s>>
  BY Zenon, <1>4, ContextsNotNil DEF RoutineInv, NoOrphanRoutine, Wakeless, Handed
<1>5. QED BY Zenon, <1>1, <1>2, <1>3, <1>4 DEF RoutineInv, NoOrphanRoutine

\* A stop calls the cancel functions it removes from the record.
LEMMA StopHands ==
  ASSUME NEW mode, NEW reason, NEW actor, requestStopWithReason(mode, reason, actor)
  PROVE  /\ cancelled \subseteq cancelled'
         /\ Handed(progressionCancel, progressionCancel')
         /\ Handed(rampCancel, rampCancel')
         /\ Handed(stopConditionsCancel, stopConditionsCancel')
  BY DEF requestStopWithReason, CancelProgressionAndEvaluator, Handed

\* The environment wakes nothing.
LEMMA EnvironmentWakeless ==
  ASSUME Environment
  PROVE  Wakeless
<1>1. UNCHANGED <<prog, ramp, eval>>
  BY Zenon DEF Environment, RequestStop, EmergencyStop, HandleWorkerCapacityLost, Shutdown
<1>2. CASE RequestStop
  BY <1>1, <1>2, StopHands DEF RequestStop, Wakeless
<1>3. CASE EmergencyStop
  BY <1>1, <1>3 DEF EmergencyStop, cancelStageProgressionLocked, Wakeless, Handed
<1>4. CASE HandleWorkerCapacityLost
  BY <1>1, <1>4 DEF HandleWorkerCapacityLost, handleFailFastLocked,
     handleReplaceIfPossibleLocked, CancelProgressionAndEvaluator, Wakeless, Handed
<1>5. CASE Shutdown
  BY <1>1, <1>5 DEF Shutdown, Wakeless, Handed
<1>6. QED BY <1>2, <1>3, <1>4, <1>5 DEF Environment
\* What the progression does to the ramps and the evaluators, unless it starts one.
LEMMA ProgWakeless ==
  ASSUME TypeOK, NEW c \in Starters, ProgStep(c),
         ~startAutoRamp(c), ~startStopConditionEvaluator(c)
  PROVE  Wakeless
<1>1. UNCHANGED <<ramp, eval>>
  BY Zenon DEF ProgStep, waitForStageDurationWithTimeout, handleStageTimeout, ProgRefused,
     ProgFinish, ProgStop, TransitionToBaseline, TransitionToRamp, TransitionToSoak,
     TransitionTo, SetActiveStage, AppendStageEvent,
     createAndDispatchAssignmentsForStage
<1>2. /\ cancelled \subseteq cancelled'
      /\ Handed(progressionCancel, progressionCancel')
      /\ Handed(rampCancel, rampCancel')
      /\ Handed(stopConditionsCancel, stopConditionsCancel')
  <2>1. CASE handleStageTimeout(c) \/ ProgRefused(c) \/ ProgFinish(c)
    BY Zenon, <2>1, StopHands DEF handleStageTimeout, ProgRefused, ProgFinish, ProgStop
  <2>2. CASE UNCHANGED <<cancelled, progressionCancel, rampCancel, stopConditionsCancel>>
    BY <2>2 DEF Handed
  <2>3. QED
    BY Zenon, <2>1, <2>2 DEF ProgStep, waitForStageDurationWithTimeout,
       TransitionToBaseline, TransitionToRamp, TransitionToSoak, TransitionTo,
       SetActiveStage, AppendStageEvent, createAndDispatchAssignmentsForStage
<1>3. prog[c].at \notin {"off", "exit"} /\ \A d \in Starters : d # c => prog'[d] = prog[d]
  <2>1. prog[c].at # "exit"
    BY Zenon DEF ProgStep, waitForStageDurationWithTimeout, handleStageTimeout, ProgRefused,
       ProgFinish, ProgStop, TransitionToBaseline, TransitionToRamp, TransitionToSoak,
       TransitionTo, SetActiveStage, AppendStageEvent,
       createAndDispatchAssignmentsForStage
  <2>2. QED BY <2>1, ProgAlone
<1>4. prog'[c].at # "off"
  <2>1. \/ \E pc \in ProgPc \ {"off"} : ProgAt(c, pc)
        \/ \E s \in Stages : prog' = [prog EXCEPT ![c] = [at |-> "active", stage |-> s]]
    <3>1. prog[c].stage \in Stages /\ config.soak \in BOOLEAN
          /\ config.scheduler \in {"complete", "partial", "absent"}
      BY ConfigsAssumption DEF TypeOK, Config
    <3>2. QED
      BY <3>1 DEF ProgStep, waitForStageDurationWithTimeout, handleStageTimeout, ProgRefused,
         ProgFinish, ProgStop, TransitionToBaseline, TransitionToRamp, TransitionToSoak,
         TransitionTo, SetActiveStage, AppendStageEvent, ProgPc, Stages,
         createAndDispatchAssignmentsForStage
  <2>2. QED BY <2>1 DEF ProgAt, TypeOK
<1>5. QED BY Zenon, <1>1, <1>2, <1>3, <1>4 DEF Wakeless

\* The goroutines that were spawned go on or end.
LEMMA RoutineWakeless ==
  ASSUME TypeOK,
         \/ \E c \in Starters : RampRoutine(c)
         \/ \E s \in Stages : EvaluatorRun(s) \/ TriggerStep(s)
         \/ \E f \in Finalizers : AnalysisDeadline(f) \/ FinStep(f) \/ AnaStep(f)
  PROVE  Wakeless
<1>1. ASSUME NEW c \in Starters, RampRoutine(c) PROVE Wakeless
  <2>1. UNCHANGED <<prog, eval, cancelled, progressionCancel, rampCancel, stopConditionsCancel>>
    BY Zenon, <1>1 DEF RampRoutine, RampHold, RampRead, RampStep
  <2>2. ramp[c] \notin {"off", "exit"} /\ \A d \in Starters : d # c => ramp'[d] = ramp[d]
    BY Zenon, <1>1 DEF RampRoutine, RampHold, RampRead, RampStep, TypeOK
  <2>3. QED BY <2>1, <2>2 DEF Wakeless, Handed
<1>2. ASSUME NEW s \in Stages, EvaluatorRun(s) \/ TriggerStep(s) PROVE Wakeless
  <2>1. UNCHANGED <<prog, ramp>>
    BY Zenon, <1>2 DEF EvaluatorRun, TriggerStep, TriggerMetadata, handleStopConditionTrigger
  <2>2. /\ cancelled \subseteq cancelled'
        /\ Handed(progressionCancel, progressionCancel')
        /\ Handed(rampCancel, rampCancel')
        /\ Handed(stopConditionsCancel, stopConditionsCancel')
    <3>1. CASE handleStopConditionTrigger(s)
      BY <3>1, StopHands DEF handleStopConditionTrigger
    <3>2. CASE EvaluatorRun(s) \/ TriggerMetadata(s)
      BY <3>2 DEF EvaluatorRun, TriggerMetadata, Handed
    <3>3. QED BY <1>2, <3>1, <3>2 DEF TriggerStep
  <2>3. \E pc : EvalAt(s, pc) /\ pc # "running"
    BY <1>2 DEF EvaluatorRun, TriggerStep, TriggerMetadata, handleStopConditionTrigger
  <2>4. \A t \in Stages : eval'[t] = "running" => eval[t] = "running"
    BY <2>3 DEF EvalAt, TypeOK
  <2>5. QED BY <2>1, <2>2, <2>4 DEF Wakeless
<1>3. ASSUME NEW f \in Finalizers, AnalysisDeadline(f) \/ FinStep(f) \/ AnaStep(f)
      PROVE  Wakeless
  <2>1. UNCHANGED <<prog, ramp, eval, cancelled, progressionCancel, rampCancel,
                    stopConditionsCancel>>
    BY Zenon, <1>3 DEF AnalysisDeadline, FinStep, AnaStep, FinDrain, FinWait, FinCheck,
       transitionToCompleted, TransitionToAnalyzing, analyzeRunWithTimeout, FinFail,
       failAnalysis, analyzeRunWithContext, emitReportGeneratedEvent, completeAnalysis,
       AnaFail
  <2>2. QED BY Zenon, <2>1 DEF Wakeless, Handed
<1>4. QED BY <1>1, <1>2, <1>3

\* A start spawns the progression only after every other start gave up.
LEMMA StartReaches ==
  ASSUME TypeOK, OneStart, RoutineInv, NEW c \in Starters, StartRun(c) \/ StartStep(c)
  PROVE  RoutineInv'
<1>1. CASE startStageProgression(c)
  <2>1. /\ progressionCancel' = <<"progression", c>>
        /\ UNCHANGED <<ramp, eval, cancelled, rampCancel, stopConditionsCancel>>
    BY <1>1 DEF startStageProgression
  <2>2. \A d \in Starters : d # c => prog[d].at = "off" /\ prog'[d] = prog[d]
    BY <1>1 DEF startStageProgression, OneStart, StartedBy, TypeOK
  <2>3. prog'[c].at = "wait"
    BY <1>1 DEF startStageProgression, TypeOK
  <2>4. QED BY Zenon, <2>1, <2>2, <2>3 DEF RoutineInv, NoOrphanRoutine
<1>2. CASE ~startStageProgression(c)
  <2>1. UNCHANGED <<prog, ramp, eval, cancelled, progressionCancel, rampCancel,
                    stopConditionsCancel>>
    BY Zenon, <1>2 DEF StartRun, StartStep, tryAllocateForStage,
       transitionToFailedFromCreated, StartRunCommit, StartRunDispatch
  <2>2. QED BY Zenon, <2>1, WakelessKeeps DEF Wakeless, Handed
<1>3. QED BY <1>1, <1>2

\* The ramp and the evaluator of a stage replace the cancel function of no other
\* goroutine that still runs.
LEMMA ProgReaches ==
  ASSUME TypeOK, OneStart, RoutineInv, NEW c \in Starters, ProgStep(c)
  PROVE  RoutineInv'
<1>1. CASE startAutoRamp(c)
  <2>1. /\ rampCancel' = <<"ramp", c>> /\ prog[c].at = "autoramp"
        /\ UNCHANGED <<eval, cancelled, progressionCancel, stopConditionsCancel>>
    BY Zenon, <1>1 DEF startAutoRamp
  <2>2. \A d \in Starters : d # c => /\ prog[d].at = "off" /\ prog'[d] = prog[d]
                                     /\ ramp'[d] = ramp[d]
    BY <1>1 DEF startAutoRamp, ProgAt, OneStart, StartedBy, TypeOK
  <2>3. prog'[c].at = "evaluator"
    BY <1>1 DEF startAutoRamp, ProgAt, TypeOK
  <2>4. QED BY <2>1, <2>2, <2>3 DEF RoutineInv, NoOrphanRoutine
<1>2. CASE startStopConditionEvaluator(c)
  <2>1. /\ UNCHANGED <<ramp, progressionCancel, rampCancel>>
        /\ cancelled \subseteq cancelled' /\ prog[c].at = "evaluator"
    BY <1>2 DEF startStopConditionEvaluator
  <2>2. prog'[c].at = "wait" /\ \A d \in Starters : d # c => prog'[d] = prog[d]
    BY <1>2 DEF startStopConditionEvaluator, ProgAt, TypeOK
  <2>3. ASSUME NEW s \in Stages, eval'[s] = "running", <<"evaluator", s>> \notin cancelled'
        PROVE  stopConditionsCancel' = <<"evaluator", s>>
    <3>1. CASE UNCHANGED <<cancelled, stopConditionsCancel, eval>>
      BY <2>3, <3>1 DEF RoutineInv, NoOrphanRoutine
    <3>2. CASE /\ cancelled' = cancelled \cup ({stopConditionsCancel} \ {None})
               /\ stopConditionsCancel' = <<"evaluator", prog[c].stage>>
               /\ eval' = [eval EXCEPT ![prog[c].stage] = "running"]
      <4>1. s # prog[c].stage => eval[s] = "running"
        BY <2>3, <3>2 DEF TypeOK
      <4>2. QED BY <2>3, <3>2, <4>1, ContextsNotNil DEF RoutineInv, NoOrphanRoutine
    <3>3. QED BY <1>2, <3>1, <3>2 DEF startStopConditionEvaluator
  <2>4. QED BY <2>1, <2>2, <2>3 DEF RoutineInv, NoOrphanRoutine
<1>3. CASE ~startAutoRamp(c) /\ ~startStopConditionEvaluator(c)
  BY <1>3, ProgWakeless, WakelessKeeps
<1>4. QED BY <1>1, <1>2, <1>3

\* A stage progression, a ramp or an evaluator that runs and was not cancelled can
\* be cancelled through the record, whatever stops and starts race: no stop leaves
\* a goroutine behind that nothing can end but the end of the manager.
THEOREM RoutinesReachable == Spec => []NoOrphanRoutine
<1>1. Init => RoutineInv
  BY DEF Init, RoutineInv, NoOrphanRoutine
<1>2. TypeOK /\ OneStart /\ RoutineInv /\ [Next]_vars => RoutineInv'
  <2> SUFFICES ASSUME TypeOK, OneStart, RoutineInv, [Next]_vars PROVE RoutineInv'
    OBVIOUS
  <2>1. CASE UNCHANGED vars
    BY <2>1, WakelessKeeps DEF vars, Wakeless, Handed
  <2>2. CASE Environment
    BY <2>2, EnvironmentWakeless, WakelessKeeps
  <2>3. ASSUME NEW c \in Starters, StartRun(c) \/ StartStep(c) PROVE RoutineInv'
    BY <2>3, StartReaches
  <2>4. ASSUME NEW c \in Starters, ProgStep(c) PROVE RoutineInv'
    BY <2>4, ProgReaches
  <2>5. CASE \/ \E c \in Starters : RampRoutine(c)
             \/ \E s \in Stages : EvaluatorRun(s) \/ TriggerStep(s)
             \/ \E f \in Finalizers : AnalysisDeadline(f) \/ FinStep(f) \/ AnaStep(f)
    BY <2>5, RoutineWakeless, WakelessKeeps
  <2>6. QED BY <2>1, <2>2, <2>3, <2>4, <2>5 DEF Next
<1>3. RoutineInv => NoOrphanRoutine
  BY DEF RoutineInv
<1>4. QED BY <1>1, <1>2, <1>3, TypeCorrect, StartedOnce, PTL DEF Spec
=============================================================================
