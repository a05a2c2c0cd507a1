-------------------------- MODULE SemanticValidator --------------------------
(***************************************************************************)
(* The rules on a run configuration that a schema cannot state             *)
(* (validation/semantic_validator.go), and the order in which the steps of *)
(* validation run (validation/unified_validator.go).  Each rule returns    *)
(* its error codes.  What a rule finds missing or of another type it       *)
(* passes over, which here is an empty section, list or string.  The rules *)
(* that match addresses and secrets against patterns are left out: every   *)
(* target here satisfies them.                                             *)
(***************************************************************************)
EXTENDS SchemaValidator

CONSTANT SystemPolicy   \* [MaxVUs, MaxRPS, MaxDurationMs, RequireIdentification]

CodeSystemPolicyViolation == "SYSTEM_POLICY_VIOLATION"
CodeOperationMixEmpty == "OPERATION_MIX_EMPTY"

Section(config, name) == AsObj(Get(config, name))
HardCaps(config) == AsObj(Get(Section(config, "safety"), "hard_caps"))
HasStages(config) == IsArr(Get(config, "stages"))

\* The enabled stages in order; an entry that is no object is passed over.
EnabledStages(config) ==
  LET enabled(v) == IsObj(v) /\ AsBool(Get(v.obj, "enabled"))
      kept == SelectSeq(AsArr(Get(config, "stages")), enabled)
  IN  [i \in DOMAIN kept |-> kept[i].obj]

SomeStage(config, name) ==
  \E i \in DOMAIN EnabledStages(config) : AsStr(Get(EnabledStages(config)[i], "stage")) = name

validateStagesRequired(config) == ErrorIf(EnabledStages(config) = <<>>, "STAGES_REQUIRED")

validateRequiredStagesPresent(config) ==
  IF ~HasStages(config) THEN {}
  ELSE ErrorIf(~SomeStage(config, "preflight"), "PREFLIGHT_REQUIRED")
       \cup ErrorIf(~SomeStage(config, "baseline"), "BASELINE_REQUIRED")
       \cup ErrorIf(~SomeStage(config, "ramp"), "RAMP_REQUIRED")

validatePreflightFirst(config) ==
  LET stages == EnabledStages(config)
  IN  ErrorIf(stages # <<>> /\ AsStr(Get(Head(stages), "stage")) # "preflight",
              "PREFLIGHT_NOT_FIRST")

validateDurationPositive(config) ==
  ErrorIf(\E i \in DOMAIN EnabledStages(config) :
            Below(Get(EnabledStages(config)[i], "duration_ms"), 1000), "DURATION_INVALID")

validateLoadNonnegative(config) ==
  ErrorIf(\E i \in DOMAIN EnabledStages(config), k \in {"target_vus", "target_rps"} :
            Below(Get(Section(EnabledStages(config)[i], "load"), k), 0), "LOAD_INVALID")

\* The ID patterns: hexadecimal IDs are those of WellFormedIDs.
WellFormedIDs == {"stg_001", "stg_002", "stg_003", "stg_004", "stg_005"}

validateStageIDFormats(config) ==
  LET stages == AsArr(Get(config, "stages"))
  IN  ErrorIf(\E i \in DOMAIN stages :
                AsStr(Get(AsObj(stages[i]), "stage_id")) \notin WellFormedIDs \cup {""},
              "INVALID_ID_FORMAT")

-----------------------------------------------------------------------------
(* Workload.                                                               *)

\* The list under operation_mix, else the one under op_mix.
MixKey(config) ==
  IF IsArr(Get(Section(config, "workload"), "operation_mix")) THEN "operation_mix" ELSE "op_mix"
MixList(config) == AsArr(Get(Section(config, "workload"), MixKey(config)))

\* The entries of the mix for an operation, in either spelling.
MixEntries(config, names) ==
  {i \in DOMAIN MixList(config) : AsStr(Get(AsObj(MixList(config)[i]), "operation")) \in names}

validateOperationMixNonempty(config) ==
  LET mix == MixList(config)
      total[i \in 0 .. Len(mix)] ==
        IF i = 0 THEN 0
        ELSE LET w == Get(AsObj(mix[i]), "weight")
             IN  total[i - 1] + (IF IsNum(w) THEN w.num ELSE 0)
  IN  ErrorIf(IsObj(Get(config, "workload")) /\ (mix = <<>> \/ total[Len(mix)] <= 0),
              CodeOperationMixEmpty)

Templates(config) ==
  LET list == AsArr(Get(Section(Section(config, "workload"), "tools"), "templates"))
  IN  [i \in DOMAIN list |-> AsObj(list[i])]

validateToolsCallRequiresTools(config) ==
  ErrorIf(MixEntries(config, {"tools_call", "tools/call"}) # {} /\ Templates(config) = <<>>,
          "TOOLS_CALL_REQUIRES_TEMPLATES")

\* Slip: the operation is looked for under its protocol name only.
validateResourcesReadRequiresURI_OneSpelling(config) ==
  ErrorIf(\E i \in MixEntries(config, {"resources/read"}) :
            AsStr(Get(MixList(config)[i].obj, "uri")) = "", CodeRequiredFieldMissing)

validateResourcesReadRequiresURI(config) ==
  ErrorIf(\E i \in MixEntries(config, {"resources_read", "resources/read"}) :
            AsStr(Get(MixList(config)[i].obj, "uri")) = "", CodeRequiredFieldMissing)

validatePromptsGetRequiresName(config) ==
  ErrorIf(\E i \in MixEntries(config, {"prompts_get", "prompts/get"}) :
            AsStr(Get(MixList(config)[i].obj, "prompt_name")) = "", CodeRequiredFieldMissing)

validateChurnIntervalOps(config) ==
  LET policy == Section(config, "session_policy")
  IN  ErrorIf(/\ Above(Get(policy, "churn_interval_ops"), 0)
              /\ AsStr(Get(policy, "mode")) # "churn", "CHURN_INTERVAL_OPS_INVALID")

-----------------------------------------------------------------------------
(* Safety.                                                                 *)

validateCapsRequired(config) ==
  ErrorIf(\/ ~Above(Get(HardCaps(config), "max_vus"), 0)
          \/ ~Above(Get(HardCaps(config), "max_duration_ms"), 0), "CAPS_REQUIRED")

validateCapsConsistent(config) ==
  LET inFlight == Get(Section(config, "workload"), "in_flight_per_vu")
      limit == Get(HardCaps(config), "max_in_flight_per_vu")
  IN  ErrorIf(IsNum(inFlight) /\ IsNum(limit) /\ inFlight.num > limit.num, "CAPS_INCONSISTENT")

validateCapsWithinSystemPolicy(config) ==
  ErrorIf(\/ AsInt(Get(HardCaps(config), "max_vus")) > SystemPolicy.MaxVUs
          \/ Above(Get(HardCaps(config), "max_rps"), SystemPolicy.MaxRPS)
          \/ AsInt(Get(HardCaps(config), "max_duration_ms")) > SystemPolicy.MaxDurationMs,
          CodeSystemPolicyViolation)

validateAllowlistRequired(config) ==
  ErrorIf(AsStr(Get(Section(Section(config, "environment"), "allowlist"), "mode"))
            # "deny_by_default", "ALLOWLIST_REQUIRED")

\* A text with ${run_id} in it.
HasRunID(text) == text \in {"drill/${run_id}", "${run_id}"}

validateIdentificationRequired(config) ==
  LET identification == Section(Section(config, "target"), "identification")
      header == Section(identification, "run_id_header")
      agent == Section(identification, "user_agent")
  IN  ErrorIf(/\ \/ AsBool(Get(Section(config, "safety"), "identification_required"))
                 \/ SystemPolicy.RequireIdentification
              /\ IsObj(Get(config, "safety")) /\ IsObj(Get(config, "target"))
              /\ \/ ~IsStr(Get(header, "name"))
                 \/ ~IsStr(Get(header, "value_template"))
                 \/ ~HasRunID(AsStr(Get(agent, "value"))), "IDENTIFICATION_REQUIRED")

validateWorkerFailurePolicy(config) ==
  LET policy == Get(Section(config, "safety"), "worker_failure_policy")
  IN  ErrorIf(IsStr(policy) /\ policy.str \notin {"fail_fast", "replace_if_possible", "best_effort"},
              "INVALID_WORKER_FAILURE_POLICY")

\* Both validators of the redirect policy; the schema has bounded its values.
validateRedirectPolicyRequired(config) ==
  ErrorIf(IsObj(Get(config, "target"))
            /\ ~IsStr(Get(Section(Section(config, "target"), "redirect_policy"), "mode")),
          "REDIRECT_POLICY_REQUIRED")

ValidateRedirectPolicy(config) ==
  LET policy == Section(Section(config, "target"), "redirect_policy")
  IN  validateRedirectPolicyRequired(config)
      \cup ErrorIf(/\ IsStr(Get(policy, "mode"))
                   /\ policy["mode"].str \notin {"deny", "same_origin", "allowlist_only"},
                   CodeSchemaViolation)
      \cup ErrorIf(IsStr(Get(policy, "mode")) /\ Above(Get(policy, "max_redirects"), 3),
                   "MAX_REDIRECTS_EXCEEDED")

-----------------------------------------------------------------------------
(* Stop conditions.                                                        *)

StopConditionsOf(stage) ==
  LET list == AsArr(Get(stage, "stop_conditions"))
  IN  [i \in DOMAIN list |-> AsObj(list[i])]

validateStopConditionsRequired(config) ==
  ErrorIf(\E i \in DOMAIN EnabledStages(config) :
            LET stage == EnabledStages(config)[i]
            IN  /\ AsStr(Get(stage, "stage")) \in {"baseline", "ramp"}
                /\ StopConditionsOf(stage) = <<>>, "STOP_CONDITIONS_REQUIRED")

ExpectsStreaming(config) ==
  \E i \in DOMAIN Templates(config) : AsBool(Get(Templates(config)[i], "expects_streaming"))

\* The metric names that contain "stream_stall".
NamesStall(metric) == metric \in {"stream_stall_seconds", "stream_stall_count"}

validateStreamingGuardrails(config) ==
  ErrorIf(/\ ExpectsStreaming(config) /\ HasStages(config)
          /\ ~\E i \in DOMAIN EnabledStages(config) :
                \E j \in DOMAIN StopConditionsOf(EnabledStages(config)[i]) :
                  NamesStall(AsStr(Get(StopConditionsOf(EnabledStages(config)[i])[j], "metric"))),
          "STREAMING_GUARDRAILS")

\* A warning, not an error: a stage after preflight that goes beyond half of
\* the cap at once.
validateRampByDefaultGuard(config) ==
  LET stages == EnabledStages(config)
      named(i) == AsStr(Get(stages[i], "stage"))
      users(i) == Get(Section(stages[i], "load"), "target_vus")
      cap == Get(HardCaps(config), "max_vus")
  IN  ErrorIf(/\ AsBool(Get(Section(config, "safety"), "ramp_by_default")) /\ IsNum(cap)
              /\ \E p, i \in DOMAIN stages :
                   /\ p < i /\ named(p) = "preflight" /\ named(i) # "preflight"
                   /\ IsNum(users(i)) /\ 2 * users(i).num > cap.num,
              "RAMP_BY_DEFAULT_GUARD")

-----------------------------------------------------------------------------
\* Validate: every rule runs, and the errors add up.
Validate(config) ==
  UNION {validateStagesRequired(config), validateRequiredStagesPresent(config),
         validatePreflightFirst(config), validateDurationPositive(config),
         validateLoadNonnegative(config), validateOperationMixNonempty(config),
         validateToolsCallRequiresTools(config), validateResourcesReadRequiresURI(config),
         validatePromptsGetRequiresName(config), validateCapsRequired(config),
         validateCapsConsistent(config), validateCapsWithinSystemPolicy(config),
         validateAllowlistRequired(config), validateIdentificationRequired(config),
         validateStopConditionsRequired(config), validateStreamingGuardrails(config),
         validateRedirectPolicyRequired(config), validateWorkerFailurePolicy(config),
         validateChurnIntervalOps(config), validateStageIDFormats(config)}

\* ValidateRunConfig: a document that fails the schema gets no further.
ValidateRunConfig(config) ==
  LET schema == ValidateSchema(config)
  IN  IF schema # {} THEN schema ELSE ValidateRedirectPolicy(config) \cup Validate(config)
=============================================================================
