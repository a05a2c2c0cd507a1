--------------------------- MODULE SchemaValidator ---------------------------
(***************************************************************************)
(* The schema step of validation (validation/schema_validator.go) and the  *)
(* run configuration's schema (schemas/run-config/v1.json).  A report is   *)
(* the set of its error codes.  The schema keeps the sections that any     *)
(* later code reads; the others (metadata, timeouts, tls, think time,      *)
(* payload profiles, reporting, telemetry) decide nothing after this step  *)
(* and are left out of the schema and of the documents alike.  Of the      *)
(* keywords, $ref, oneOf, allOf and if occur in no run configuration.      *)
(* Strings and lists are short: a length bound only tells the empty string *)
(* apart, and the limits on the number of items are not reached.           *)
(***************************************************************************)
EXTENDS JsonValues

CodeSchemaViolation == "SCHEMA_VIOLATION"
CodeRequiredFieldMissing == "REQUIRED_FIELD_MISSING"
CodeInvalidSchemaVersion == "INVALID_SCHEMA_VERSION"

ErrorIf(bad, code) == IF bad THEN {code} ELSE {}

(* A schema, with the keywords it does not use at their neutral values:    *)
(* types = {} when there is no type; least, most, over and items are empty *)
(* sequences or hold the one bound or schema; extra is the schema of the   *)
(* additional properties, refused when closed.                             *)
AnySchema ==
  [types |-> {}, enum |-> {}, nonempty |-> FALSE, least |-> <<>>, most |-> <<>>, over |-> <<>>,
   minItems |-> 0, items |-> <<>>, required |-> {}, properties |-> <<>>,
   closed |-> FALSE, extra |-> <<>>]

getJSONType(v) ==
  CASE IsNull(v) -> "null" [] IsBool(v) -> "boolean" [] IsNum(v) -> "number"
    [] IsStr(v) -> "string" [] IsArr(v) -> "array" [] IsObj(v) -> "object"

\* An integer is a number without fraction, however it is written.
validateType(v, types) ==
  \/ getJSONType(v) \in types
  \/ "integer" \in types /\ IsNum(v) /\ v.num % 2 = 0

\* A null is judged by isNullAllowed alone.
isNullAllowed(types) == "null" \in types

validateString(s, schema) == ErrorIf(schema.nonempty /\ s = "", CodeSchemaViolation)

validateNumber(n, schema) ==
  ErrorIf(\/ \E i \in DOMAIN schema.least : n < 2 * schema.least[i]
          \/ \E i \in DOMAIN schema.most : n > 2 * schema.most[i]
          \/ \E i \in DOMAIN schema.over : n <= 2 * schema.over[i], CodeSchemaViolation)

RECURSIVE validateValue(_, _)

validateObject(o, schema) ==
  ErrorIf(~(schema.required \subseteq DOMAIN o), CodeRequiredFieldMissing)
  \cup UNION {IF k \in DOMAIN schema.properties THEN validateValue(o[k], schema.properties[k])
              ELSE IF schema.closed THEN {CodeSchemaViolation}
              ELSE UNION {validateValue(o[k], schema.extra[i]) : i \in DOMAIN schema.extra} :
              k \in DOMAIN o}

validateArray(a, schema) ==
  ErrorIf(Len(a) < schema.minItems, CodeSchemaViolation)
  \cup UNION {validateValue(a[i], schema.items[j]) : i \in DOMAIN a, j \in DOMAIN schema.items}

\* validateValueWithContext; enum stands for const too.
validateValue(v, schema) ==
  IF IsNull(v)
  THEN ErrorIf(schema.types # {} /\ ~isNullAllowed(schema.types), CodeSchemaViolation)
  ELSE IF schema.types # {} /\ ~validateType(v, schema.types) THEN {CodeSchemaViolation}
  ELSE (CASE IsStr(v) -> validateString(v.str, schema)
          [] IsNum(v) -> validateNumber(v.num, schema)
          [] IsObj(v) -> validateObject(v.obj, schema)
          [] IsArr(v) -> validateArray(v.arr, schema)
          [] OTHER -> {})
       \cup ErrorIf(schema.enum # {} /\ AsStr(v) \notin schema.enum, CodeSchemaViolation)

-----------------------------------------------------------------------------
(* schemas/run-config/v1.json.                                             *)

OfType(t) == [AnySchema EXCEPT !.types = {t}]
OrNull(schema) == [schema EXCEPT !.types = @ \cup {"null"}]
Text == OfType("string")
Name == [Text EXCEPT !.nonempty = TRUE]
Choice(names) == [Text EXCEPT !.enum = names]
Flag == OfType("boolean")
Between(t, lo, hi) == [OfType(t) EXCEPT !.least = <<lo>>, !.most = <<hi>>]
ListOf(schema, min) == [OfType("array") EXCEPT !.items = <<schema>>, !.minItems = min]
MapOf(schema) == [OfType("object") EXCEPT !.extra = <<schema>>]
Record(required, properties) ==
  [OfType("object") EXCEPT !.required = required, !.properties = properties, !.closed = TRUE]

Weight == [OfType("integer") EXCEPT !.over = <<0>>, !.most = <<100000>>]

TargetSchema ==
  Record({"url", "headers", "auth", "identification", "redirect_policy"},
    [url |-> Name,
     headers |-> MapOf(Text),
     auth |-> Record({"type"},
       [type |-> Choice({"none", "bearer_token", "api_key_header", "plugin"}),
        tokens |-> ListOf(Text, 0)]),
     identification |-> Record({"run_id_header", "user_agent"},
       [run_id_header |-> Record({"name", "value_template"}, [name |-> Name, value_template |-> Name]),
        user_agent |-> Record({"value"}, [value |-> Name])]),
     redirect_policy |-> Record({"mode", "max_redirects"},
       [mode |-> Choice({"deny", "same_origin", "allowlist_only"}),
        max_redirects |-> Between("integer", 0, 3)])])

SessionPolicySchema ==
  Record({"mode", "pool_size", "ttl_ms", "max_idle_ms"},
    [mode |-> Choice({"reuse", "pool", "per_request", "churn"}),
     pool_size |-> OrNull(Between("integer", 0, 1000000)),
     ttl_ms |-> OrNull(Between("integer", 0, 86400000)),
     max_idle_ms |-> OrNull(Between("integer", 0, 86400000)),
     churn_interval_ops |-> OrNull(Between("integer", 1, 1000000))])

WorkloadSchema ==
  Record({"in_flight_per_vu", "operation_mix", "tools"},
    [in_flight_per_vu |-> Between("integer", 1, 1000),
     operation_mix |-> ListOf(Record({"operation", "weight"},
       [operation |-> Choice({"tools_list", "tools_call", "resources_list", "resources_read",
                              "prompts_list", "prompts_get", "ping"}),
        weight |-> Weight, uri |-> Text, prompt_name |-> Text,
        arguments |-> OfType("object")]), 1),
     tools |-> Record({"selection", "templates"},
       [selection |-> Record({"mode"}, [mode |-> Choice({"weighted", "round_robin", "single"})]),
        templates |-> ListOf(Record({"template_id", "tool_name", "weight", "arguments"},
          [template_id |-> Name, tool_name |-> Name, weight |-> Weight,
           arguments |-> OfType("object"), expects_streaming |-> Flag]), 0)])])

StageSchema ==
  Record({"stage_id", "stage", "enabled", "duration_ms", "load", "stop_conditions"},
    [stage_id |-> Name,
     stage |-> Choice({"preflight", "baseline", "ramp", "soak", "spike", "custom"}),
     enabled |-> Flag,
     duration_ms |-> Between("integer", 0, 86400000),
     max_duration_ms |-> OrNull(Between("integer", 60000, 86400000)),
     load |-> Record({"target_vus", "target_rps"},
       [target_vus |-> Between("integer", 0, 100000000),
        target_rps |-> OrNull(Between("number", 0, 100000000))]),
     stop_conditions |-> ListOf(
       Record({"id", "metric", "comparator", "threshold", "window_ms", "sustain_windows", "scope"},
         [id |-> Name, metric |-> Name, comparator |-> Choice({">", ">=", "<", "<="}),
          threshold |-> OfType("number"), window_ms |-> Between("integer", 1000, 3600000),
          sustain_windows |-> Between("integer", 1, 1000), scope |-> MapOf(Text)]), 0),
     streaming_stop_conditions |-> OrNull(Record({},
       [stream_stall_seconds |-> Between("integer", 1, 3600),
        min_events_per_second |-> [OfType("number") EXCEPT !.over = <<0>>]]))])

SafetySchema ==
  Record({"ramp_by_default", "hard_caps", "stop_policy", "identification_required",
          "worker_failure_policy"},
    [ramp_by_default |-> Flag, identification_required |-> Flag,
     worker_failure_policy |-> Choice({"fail_fast", "replace_if_possible", "best_effort"}),
     analysis_timeout_ms |-> Between("integer", 60000, 7200000),
     hard_caps |-> Record({"max_vus", "max_rps", "max_duration_ms", "max_in_flight_per_vu"},
       [max_vus |-> Between("integer", 1, 100000000),
        max_rps |-> Between("number", 0, 100000000),
        max_duration_ms |-> Between("integer", 1000, 604800000),
        max_in_flight_per_vu |-> Between("integer", 1, 10000)]),
     stop_policy |-> Record({"mode", "drain_timeout_ms"},
       [mode |-> Choice({"drain", "immediate"}),
        drain_timeout_ms |-> Between("integer", 0, 3600000)])])

EnvironmentSchema ==
  Record({"allowlist"},
    [allowlist |-> Record({"mode"}, [mode |-> Choice({"deny_by_default", "allow_all"})])])

RunConfigSchema ==
  Record({"schema_version", "target", "environment", "session_policy", "workload", "stages", "safety"},
    [schema_version |-> Choice({"run-config/v1"}), target |-> TargetSchema,
     environment |-> EnvironmentSchema, session_policy |-> SessionPolicySchema,
     workload |-> WorkloadSchema, stages |-> ListOf(StageSchema, 1), safety |-> SafetySchema])

\* ValidateRunConfig of the schema validator: the version decides first.
ValidateSchema(config) ==
  LET version == Get(config, "schema_version")
  IN  IF ~IsStr(version) THEN {CodeRequiredFieldMissing}
      ELSE IF version.str # "run-config/v1" THEN {CodeInvalidSchemaVersion}
      ELSE validateObject(config, RunConfigSchema)
=============================================================================
