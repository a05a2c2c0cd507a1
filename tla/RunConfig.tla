------------------------------ MODULE RunConfig ------------------------------
(***************************************************************************)
(* What becomes of a submitted run configuration: it is validated, its run *)
(* is created and goes through its stages, each stage parses the document  *)
(* again and asks for virtual users, a worker builds its session manager   *)
(* and engine from the assignment, and virtual users sample operations     *)
(* that a plugin checks before they are sent.  (runmanager/config_parse.go *)
(* and dispatch.go, worker/assignment_executor.go, vu/operation_sampler.go *)
(* and executor.go, plugin/builtin.go and example.go.)                     *)
(*                                                                         *)
(* Validation reads the document as JSON values, everything later as Go    *)
(* structs: nothing but the rules themselves ties the two readings         *)
(* together.  Placement on workers (Allocator), stops, timers and leases   *)
(* (RunManager, StageDispatch) are not part of this module: there is room  *)
(* for every user, and each stage runs to its end.                         *)
(***************************************************************************)
EXTENDS SemanticValidator, Allocator

CONSTANTS
  Base,   \* a document that is accepted
  Edits   \* a sequence of [path, to]: the changes a document may have (bound: two)

VARIABLES
  config,     \* the submitted document, the raw bytes of RunRecord.Config
  report,     \* the codes of the validation report
  phase,      \* of the run: submitted, refused, created, failed, a stage, or done
  refusals,   \* why a stage, the worker or a plugin refused what it was given
  asked,      \* virtual users the active stage asked for
  rampStep,   \* steps taken by the automatic ramp
  assignment, \* what workers were sent last; [sent |-> FALSE] if nothing was
  working,    \* a worker has an engine running for the assignment
  performed,  \* the operation executed last
  evaluator   \* the stop condition evaluator: [metrics, stallSeconds]

configVars ==
  <<config, report, phase, refusals, asked, rampStep, assignment, working, performed, evaluator>>

NoAssignment == [sent |-> FALSE]
NoEvaluator == [metrics |-> {}, stallSeconds |-> 0]

-----------------------------------------------------------------------------
(* parseRunConfig.                                                         *)

GoString == [go |-> "string"]
GoInt == [go |-> "int"]
GoStruct(fields) == [go |-> "struct", fields |-> fields]
GoList(type) == [go |-> "list", of |-> type]
GoMap(type) == [go |-> "map", of |-> type]

parsedOpMixEntry ==
  GoStruct([operation |-> GoString, weight |-> GoInt, tool_name |-> GoString,
            arguments |-> GoMap([go |-> "any"]), uri |-> GoString, prompt_name |-> GoString])

parsedStage ==
  GoStruct([stage_id |-> GoString, stage |-> GoString, enabled |-> [go |-> "bool"],
            duration_ms |-> GoInt, max_duration_ms |-> GoInt,
            load |-> GoStruct([target_vus |-> GoInt, start_vus |-> GoInt, ramp_steps |-> GoInt]),
            stop_conditions |-> GoList(GoStruct(
              [id |-> GoString, metric |-> GoString, comparator |-> GoString,
               threshold |-> [go |-> "float"], window_ms |-> GoInt, sustain_windows |-> GoInt,
               scope |-> GoMap(GoString)])),
            streaming_stop_conditions |-> GoStruct(
              [stream_stall_seconds |-> GoInt, min_events_per_second |-> [go |-> "float"]])])

parsedTarget ==
  GoStruct([url |-> GoString, headers |-> GoMap(GoString),
            auth |-> GoStruct([type |-> GoString, tokens |-> GoList(GoString)]),
            identification |-> GoStruct(
              [run_id_header |-> GoStruct([name |-> GoString, value_template |-> GoString]),
               user_agent |-> GoStruct([value |-> GoString])]),
            redirect_policy |-> GoStruct([mode |-> GoString, max_redirects |-> GoInt])])

parsedRunConfig ==
  GoStruct([target |-> parsedTarget,
            stages |-> GoList(parsedStage),
            workload |-> GoStruct([op_mix |-> GoList(parsedOpMixEntry),
                                   operation_mix |-> GoList(parsedOpMixEntry),
                                   tools |-> GoStruct([templates |-> GoList(GoStruct(
                                     [template_id |-> GoString, tool_name |-> GoString,
                                      weight |-> GoInt, arguments |-> GoMap([go |-> "any"])]))])]),
            session_policy |-> GoStruct([mode |-> GoString, pool_size |-> GoInt,
                                         ttl_ms |-> GoInt, max_idle_ms |-> GoInt]),
            safety |-> GoStruct([hard_caps |-> GoStruct([max_vus |-> GoInt, max_duration_ms |-> GoInt]),
                                 stop_policy |-> GoStruct([mode |-> GoString, drain_timeout_ms |-> GoInt]),
                                 analysis_timeout_ms |-> GoInt])])

Parses(c) == Decodes(Obj(c), parsedRunConfig)

normalizeOperationName(op) ==
  CASE op = "tools_list" -> "tools/list" [] op = "tools_call" -> "tools/call"
    [] op = "resources_list" -> "resources/list" [] op = "resources_read" -> "resources/read"
    [] op = "prompts_list" -> "prompts/list" [] op = "prompts_get" -> "prompts/get"
    [] OTHER -> op

\* An operation of the mix, arguments left out.
OpEntry(o) ==
  [operation |-> normalizeOperationName(AsStr(Get(o, "operation"))),
   weight |-> AsInt(Get(o, "weight")), toolName |-> AsStr(Get(o, "tool_name")),
   uri |-> AsStr(Get(o, "uri")), promptName |-> AsStr(Get(o, "prompt_name"))]

TemplateEntry(t) ==
  [operation |-> "tools/call", weight |-> AsInt(Get(t, "weight")),
   toolName |-> AsStr(Get(t, "tool_name")), uri |-> "", promptName |-> ""]

\* A tools/call without a tool of its own becomes one entry per template.
expandToolsTemplates(mix, templates) ==
  LET flat[i \in 0 .. Len(mix)] ==
        IF i = 0 THEN <<>>
        ELSE flat[i - 1] \o (IF mix[i].operation = "tools/call" /\ mix[i].toolName = "" /\ templates # <<>>
                             THEN [j \in DOMAIN templates |-> TemplateEntry(templates[j])]
                             ELSE <<mix[i]>>)
  IN  flat[Len(mix)]

\* The mix of parseRunConfig: op_mix, or operation_mix where that is empty.
OpMix(c) ==
  LET workload == Section(c, "workload")
      short == AsArr(Get(workload, "op_mix"))
      list == IF short = <<>> THEN AsArr(Get(workload, "operation_mix")) ELSE short
  IN  expandToolsTemplates([i \in DOMAIN list |-> OpEntry(AsObj(list[i]))], Templates(c))

\* findStageByName: the first enabled stage of the name, as a sequence.
findStageByName(c, name) ==
  LET named(s) == AsStr(Get(s, "stage")) = name
      found == SelectSeq(EnabledStages(c), named)
  IN  IF found = <<>> THEN <<>> ELSE <<Head(found)>>

LoadOf(stage) ==
  LET load == Section(stage, "load")
  IN  [targetVUs |-> AsInt(Get(load, "target_vus")), startVUs |-> AsInt(Get(load, "start_vus")),
       rampSteps |-> AsInt(Get(load, "ramp_steps"))]

MaxVUs(c) == AsInt(Get(HardCaps(c), "max_vus"))

\* Slip: the given headers are copied last.
buildTargetHeaders_GivenLast(c) ==
  LET target == Section(c, "target")
      given == Section(target, "headers")
      identification == Section(target, "identification")
      header == Section(identification, "run_id_header")
      agent == Get(identification, "user_agent")
      name == IF AsStr(Get(header, "name")) = "" THEN "X-Test-Run-Id" ELSE header["name"].str
  IN  [k \in DOMAIN given |-> FALSE]
      @@ (IF IsObj(agent) THEN "User-Agent" :> HasRunID(AsStr(Get(agent.obj, "value"))) ELSE <<>>)
      @@ (IF IsObj(Get(identification, "run_id_header"))
          THEN name :> HasRunID(AsStr(Get(header, "value_template"))) ELSE <<>>)

\* buildTargetHeaders, with the run's ID put in: the value is TRUE if it
\* holds the ID.
buildTargetHeaders(c) ==
  LET target == Section(c, "target")
      given == Section(target, "headers")
      identification == Section(target, "identification")
      header == Section(identification, "run_id_header")
      agent == Get(identification, "user_agent")
      name == IF AsStr(Get(header, "name")) = "" THEN "X-Test-Run-Id" ELSE header["name"].str
  IN  (IF IsObj(agent) THEN "User-Agent" :> HasRunID(AsStr(Get(agent.obj, "value"))) ELSE <<>>)
      @@ (IF IsObj(Get(identification, "run_id_header"))
          THEN name :> HasRunID(AsStr(Get(header, "value_template"))) ELSE <<>>)
      @@ [k \in DOMAIN given |-> FALSE]

\* setHeaders sets every header under its canonical name, in no fixed order.
Canonical(name) == IF name = "user-agent" THEN "User-Agent" ELSE name

Reason(why) == {why} \ {"none"}

\* Why a stage gets no users: tryAllocateForStage and its later counterpart
\* createAndDispatchAssignmentsForStage ask the same questions in this order.
StageRefusal(c, name) ==
  IF ~Parses(c) THEN "config_parse_error"
  ELSE IF findStageByName(c, name) = <<>> THEN "stage_not_found"
  ELSE IF LoadOf(findStageByName(c, name)[1]).targetVUs <= 0 THEN "invalid_target_vus"
  ELSE "none"

StageTarget(c, stage) == CappedTarget(LoadOf(stage).targetVUs, MaxVUs(c))

\* The part of a WorkerAssignment that the worker's configuration comes from.
Assignment(c) ==
  LET policy == Section(c, "session_policy")
  IN  [sent |-> TRUE, mix |-> OpMix(c), headers |-> buildTargetHeaders(c),
       mode |-> AsStr(Get(policy, "mode")), poolSize |-> AsInt(Get(policy, "pool_size"))]

\* startStopConditionEvaluator: nothing changes for a stage without conditions;
\* the stall limit is read from the stage's streaming_stop_conditions alone.
startStopConditionEvaluator(stage) ==
  LET streaming == Get(stage, "streaming_stop_conditions")
      conditions == StopConditionsOf(stage)
  IN  IF conditions = <<>> /\ ~IsObj(streaming) THEN evaluator
      ELSE [metrics |-> {AsStr(Get(conditions[i], "metric")) : i \in DOMAIN conditions},
            stallSeconds |-> AsInt(Get(AsObj(streaming), "stream_stall_seconds"))]

-----------------------------------------------------------------------------
(* The worker.                                                             *)

mapSessionMode(mode) == IF mode \in {"per_request", "pool", "churn"} THEN mode ELSE "reuse"

buildSessionConfig(a) ==
  LET mode == mapSessionMode(a.mode)
  IN  [mode |-> mode, poolSize |-> IF mode = "pool" /\ a.poolSize <= 0 THEN 10 ELSE a.poolSize]

\* session.NewManager's refusals; the modes are those mapSessionMode gives.
NewManagerFails(cfg) == cfg.mode = "pool" /\ cfg.poolSize <= 0

\* The sum of the first i weights of a mix.
Cumulative(mix, i) ==
  LET sum[j \in 0 .. Len(mix)] == IF j = 0 THEN 0 ELSE sum[j - 1] + mix[j].weight
  IN  sum[i]

NewEngineFails(mix) == mix = <<>> \/ Cumulative(mix, Len(mix)) <= 0

\* Sample: the first entry whose cumulative weight exceeds the random number,
\* the last entry if none does.
Sample(mix, r) ==
  LET beyond == {i \in DOMAIN mix : r < Cumulative(mix, i)}
  IN  IF beyond = {} THEN mix[Len(mix)]
      ELSE mix[CHOOSE i \in beyond : \A j \in beyond : i <= j]

\* The operations of the plugin registry, and what their Validate makes of the
\* parameters that buildOperationParams gives them.
Registered ==
  {"tools/list", "tools/call", "ping", "prompts/list", "prompts/get", "resources/list", "resources/read"}

ToolsCallOperation_Validate(op) == op.toolName # ""
PromptsGetOperation_Validate(op) == op.promptName # ""
ResourcesReadOperation_Validate(op) == op.uri # ""

OperationRefusal(op) ==
  IF op.operation \notin Registered THEN "unknown_operation"
  ELSE IF /\ op.operation = "tools/call" => ToolsCallOperation_Validate(op)
          /\ op.operation = "prompts/get" => PromptsGetOperation_Validate(op)
          /\ op.operation = "resources/read" => ResourcesReadOperation_Validate(op)
  THEN "none" ELSE "validation_error"

-----------------------------------------------------------------------------
Edited(i, j) ==
  SetAt(SetAt(Obj(Base), Edits[i].path, Edits[i].to), Edits[j].path, Edits[j].to).obj

\* Neither edit reaches into what the other replaces or removes.
Apart(p, q) == ~(Len(p) <= Len(q) /\ SubSeq(q, 1, Len(p)) = p)

ConfigInit ==
  /\ \E i, j \in DOMAIN Edits :
       /\ i <= j
       /\ i = j \/ (Apart(Edits[i].path, Edits[j].path) /\ Apart(Edits[j].path, Edits[i].path))
       /\ config = Edited(i, j)
  /\ report = {} /\ phase = "submitted" /\ refusals = {} /\ asked = 0 /\ rampStep = 0
  /\ assignment = NoAssignment /\ working = FALSE /\ performed = "none" /\ evaluator = NoEvaluator

\* CreateRun: a report with an error means no run.
CreateRun ==
  /\ phase = "submitted"
  /\ report' = ValidateRunConfig(config)
  /\ phase' = IF report' = {} THEN "created" ELSE "refused"
  /\ UNCHANGED <<config, refusals, asked, rampStep, assignment, working, performed, evaluator>>

\* A stage asks for users, and the workers get new assignments if it may.
Dispatch(name) ==
  LET why == StageRefusal(config, name)
  IN  /\ refusals' = refusals \cup Reason(why)
      /\ IF why = "none"
         THEN /\ asked' = StageTarget(config, findStageByName(config, name)[1])
              /\ assignment' = Assignment(config) /\ working' = FALSE
         ELSE UNCHANGED <<asked, assignment, working>>

\* StartRun: the allocation is tried first, and the run fails with it.
StartRun ==
  /\ phase = "created"
  /\ Dispatch("preflight")
  /\ phase' = IF StageRefusal(config, "preflight") = "none" THEN "preflight" ELSE "failed"
  /\ UNCHANGED <<config, report, rampStep, performed, evaluator>>

\* startStageProgression gives up unless the three stages are there; the run
\* would then stay in preflight.
Progresses ==
  Parses(config) /\ \A name \in {"preflight", "baseline", "ramp"} : findStageByName(config, name) # <<>>

TransitionToBaseline ==
  /\ phase = "preflight"
  /\ IF Progresses
     THEN /\ phase' = "baseline"
          /\ Dispatch("baseline")
          /\ evaluator' = startStopConditionEvaluator(findStageByName(config, "baseline")[1])
     ELSE /\ phase' = "failed" /\ refusals' = refusals \cup {"progression_disabled"}
          /\ UNCHANGED <<asked, assignment, working, evaluator>>
  /\ UNCHANGED <<config, report, rampStep, performed>>

\* TransitionToRamp and the start of startAutoRamp.
TransitionToRamp ==
  LET stage == findStageByName(config, "ramp")[1]
      load == LoadOf(stage)
  IN  /\ phase = "baseline"
      /\ phase' = "ramp"
      /\ IF load.targetVUs <= 0
         THEN /\ refusals' = refusals \cup {"invalid_target_vus"}
              /\ UNCHANGED <<asked, assignment, working>>
         ELSE /\ asked' = RampStart(load, StageTarget(config, stage))
              /\ assignment' = Assignment(config) /\ working' = FALSE
              /\ UNCHANGED refusals
      /\ evaluator' = startStopConditionEvaluator(stage)
      /\ UNCHANGED <<config, report, rampStep, performed>>

\* A step of the ramp's goroutine.
RampScale ==
  LET stage == findStageByName(config, "ramp")[1]
      load == LoadOf(stage)
      target == StageTarget(config, stage)
  IN  /\ phase = "ramp" /\ load.targetVUs > 0
      /\ rampStep < RampSteps(load) /\ asked < target
      /\ rampStep' = rampStep + 1
      /\ asked' = RampVUs(load, target, rampStep + 1)
      /\ assignment' = Assignment(config) /\ working' = FALSE
      /\ UNCHANGED <<config, report, phase, refusals, performed, evaluator>>

\* After the ramp: TransitionToSoak if there is such a stage, else the end.
AfterRamp ==
  /\ phase = "ramp"
  /\ IF findStageByName(config, "soak") = <<>>
     THEN phase' = "done" /\ UNCHANGED <<refusals, asked, assignment, working, evaluator>>
     ELSE /\ phase' = "soak"
          /\ Dispatch("soak")
          /\ evaluator' = startStopConditionEvaluator(findStageByName(config, "soak")[1])
  /\ UNCHANGED <<config, report, rampStep, performed>>

AfterSoak ==
  /\ phase = "soak"
  /\ phase' = "done"
  /\ UNCHANGED <<config, report, refusals, asked, rampStep, assignment, working, performed, evaluator>>

\* executeAssignment as far as the engine's start.
ExecuteAssignment ==
  /\ assignment.sent /\ ~working
  /\ LET why == CASE NewManagerFails(buildSessionConfig(assignment)) -> "session_manager"
                  [] NewEngineFails(assignment.mix) -> "vu_engine"
                  [] OTHER -> "none"
     IN  refusals' = refusals \cup Reason(why) /\ working' = (why = "none")
  /\ UNCHANGED <<config, report, phase, asked, rampStep, assignment, performed, evaluator>>

\* A virtual user samples an operation and its plugin checks it.
ExecuteOperation ==
  /\ working
  /\ \E r \in 0 .. Cumulative(assignment.mix, Len(assignment.mix)) - 1 :
       LET op == Sample(assignment.mix, r)
       IN  /\ performed' = op.operation
           /\ refusals' = refusals \cup Reason(OperationRefusal(op))
  /\ UNCHANGED <<config, report, phase, asked, rampStep, assignment, working, evaluator>>

ConfigFinished == phase \in {"refused", "failed", "done"} /\ UNCHANGED configVars

ConfigNext ==
  \/ CreateRun \/ StartRun \/ TransitionToBaseline \/ TransitionToRamp \/ RampScale
  \/ AfterRamp \/ AfterSoak \/ ExecuteAssignment \/ ExecuteOperation \/ ConfigFinished

-----------------------------------------------------------------------------
(* Properties.                                                             *)

Accepted == phase \notin {"submitted", "refused"}

\* Every whole number of the document is written without fraction or exponent.
RECURSIVE WrittenWhole(_)
WrittenWhole(v) ==
  /\ IsNum(v) => v.plain \/ v.num % 2 = 1
  /\ \A k \in DOMAIN AsObj(v) : WrittenWhole(v.obj[k])
  /\ \A i \in DOMAIN AsArr(v) : WrittenWhole(v.arr[i])

\* What the validators accept the rest of the system can run, within its caps:
\* no stage fails to parse it or to find itself in it, no worker fails to build
\* its session manager or its engine from it, no plugin refuses an operation
\* sampled from it; and a stage or a step of the automatic ramp asks for at least
\* one user and for no more than the configuration's cap, which is never beyond
\* the system policy's.  Two exceptions: a stage may ask for no users, and whole
\* numbers written like 10.0 pass the validators but not the parser.
AcceptedRunnable ==
  /\ Accepted /\ WrittenWhole(Obj(config)) => refusals \subseteq {"invalid_target_vus"}
  /\ assignment.sent => /\ asked \in 1 .. MaxVUs(config)
                        /\ MaxVUs(config) <= SystemPolicy.MaxVUs

\* Where identification is required, the User-Agent that a worker sends holds
\* the run's ID, whatever headers the configuration gives besides; unless it
\* spells that header in another way, when setHeaders sends one of the two.
Identified ==
  LET spelled == {k \in DOMAIN assignment.headers : Canonical(k) = "User-Agent"}
  IN  /\ assignment.sent
      /\ \/ AsBool(Get(Section(config, "safety"), "identification_required"))
         \/ SystemPolicy.RequireIdentification
      /\ spelled \subseteq {"User-Agent"}
      => spelled # {} /\ assignment.headers["User-Agent"]

\* An evaluator with a condition on stalled streams stops a run whose streams
\* stall: the configuration guide lists stream_stall_seconds as a metric of
\* stop conditions, and the validator is content with such a condition.
StallGuarded ==
  (\E m \in evaluator.metrics : NamesStall(m)) => evaluator.stallSeconds > 0
=============================================================================
