----------------------------- MODULE MCRunConfig -----------------------------
(***************************************************************************)
(* Two questions in one run; part says which of them a behaviour is about. *)
(* config: a document that is accepted, with one or two edits of a list:   *)
(* each field that later code depends on is removed, nulled, given another *)
(* type, or set at and beyond a bound.  placement: every placement of      *)
(* small targets on small workers, chosen at the start and asked for in    *)
(* one step.                                                               *)
(***************************************************************************)
EXTENDS RunConfig

CONSTANTS Workers, MaxCapacity, MaxTarget, Refused

VARIABLES part, cap, target, placement

mcVars == <<part, cap, target, placement, configVars>>

Policy == [MaxVUs |-> 20, MaxRPS |-> 100, MaxDurationMs |-> 3600000, RequireIdentification |-> FALSE]

Condition(metric) ==
  Obj([id |-> Str("c"), metric |-> Str(metric), comparator |-> Str(">"), threshold |-> NumAndHalf(0),
       window_ms |-> Num(1000), sustain_windows |-> Num(1), scope |-> Obj(<<>>)])

StageOf(id, name, enabled, vus) ==
  Obj([stage_id |-> Str(id), stage |-> Str(name), enabled |-> Bool(enabled),
       duration_ms |-> Num(60000),
       load |-> Obj([target_vus |-> Num(vus), target_rps |-> Null]),
       stop_conditions |-> Arr(<<Condition("error_rate")>>)])

Entry(op) == Obj([operation |-> Str(op), weight |-> Num(1)])
Template ==
  Obj([template_id |-> Str("t"), tool_name |-> Str("echo"), weight |-> Num(2), arguments |-> Obj(<<>>)])

Document ==
  [schema_version |-> Str("run-config/v1"),
   target |-> Obj([url |-> Str("http://target"), headers |-> Obj(<<>>), auth |-> Obj([type |-> Str("none")]),
     identification |-> Obj([run_id_header |-> Obj([name |-> Str("X-Run"), value_template |-> Str("${run_id}")]),
                             user_agent |-> Obj([value |-> Str("drill/${run_id}")])]),
     redirect_policy |-> Obj([mode |-> Str("deny"), max_redirects |-> Num(0)])]),
   environment |-> Obj([allowlist |-> Obj([mode |-> Str("deny_by_default")])]),
   session_policy |-> Obj([mode |-> Str("reuse"), pool_size |-> Null, ttl_ms |-> Null, max_idle_ms |-> Null]),
   workload |-> Obj([in_flight_per_vu |-> Num(1),
     operation_mix |-> Arr(<<Entry("tools_list"), Entry("tools_call"),
       Obj([operation |-> Str("resources_read"), weight |-> Num(1), uri |-> Str("r")]),
       Obj([operation |-> Str("prompts_get"), weight |-> Num(1), prompt_name |-> Str("p")])>>),
     tools |-> Obj([selection |-> Obj([mode |-> Str("weighted")]), templates |-> Arr(<<Template>>)])]),
   stages |-> Arr(<<StageOf("stg_001", "preflight", TRUE, 1), StageOf("stg_002", "baseline", TRUE, 3),
                    StageOf("stg_003", "ramp", TRUE, 10), StageOf("stg_004", "soak", TRUE, 10)>>),
   safety |-> Obj([ramp_by_default |-> Bool(TRUE), identification_required |-> Bool(TRUE),
     worker_failure_policy |-> Str("fail_fast"),
     hard_caps |-> Obj([max_vus |-> Num(10), max_rps |-> Num(100), max_duration_ms |-> Num(3600000),
                        max_in_flight_per_vu |-> Num(1)]),
     stop_policy |-> Obj([mode |-> Str("drain"), drain_timeout_ms |-> Num(30000)])])]

To(path, v) == [path |-> path, to |-> <<v>>]
Without(path) == [path |-> path, to |-> <<>>]

Mix == <<"workload", "operation_mix">>
Caps == <<"safety", "hard_caps">>
Agent == <<"target", "identification", "user_agent">>

StageEdits ==
  <<To(<<"stages">>, Arr(<<>>)), To(<<"stages">>, Null), To(<<"stages", 1>>, Null),
    To(<<"stages", 1>>, StageOf("stg_001", "soak", TRUE, 2)), To(<<"stages", 1, "enabled">>, Bool(FALSE)),
    To(<<"stages", 2, "enabled">>, Bool(FALSE)), To(<<"stages", 3, "enabled">>, Bool(FALSE)),
    To(<<"stages", 3, "stage">>, Str("spike")), To(<<"stages", 4, "enabled">>, Bool(FALSE)),
    To(<<"stages", 4, "stage">>, Str("ramp")), Without(<<"stages", 2, "stage">>),
    To(<<"stages", 1, "load", "target_vus">>, Num(0)), To(<<"stages", 3, "load", "target_vus">>, Num(0)),
    To(<<"stages", 3, "load", "target_vus">>, Num(25)), To(<<"stages", 2, "load", "target_vus">>, Num(-1)),
    To(<<"stages", 2, "load", "target_vus">>, NumAndHalf(2)),
    To(<<"stages", 2, "load", "target_vus">>, Decimal(10)),
    To(<<"stages", 3, "load">>, Obj([target_vus |-> Num(9), target_rps |-> Null, start_vus |-> Num(99)])),
    To(<<"stages", 2, "duration_ms">>, Num(999)), To(<<"stages", 2, "stop_conditions">>, Arr(<<>>)),
    To(<<"stages", 4, "stop_conditions">>, Arr(<<>>)), To(<<"stages", 1, "stage_id">>, Str("first")),
    To(<<"stages", 2, "stop_conditions", 1>>, Condition("stream_stall_seconds")),
    To(<<"stages", 2, "streaming_stop_conditions">>, Obj([stream_stall_seconds |-> Num(5)]))>>

WorkEdits ==
  <<To(Mix, Arr(<<>>)), Without(Mix), To(<<"workload", "op_mix">>, Arr(<<Entry("initialize")>>)),
    To(Mix \o <<1, "weight">>, Num(0)), To(Mix \o <<1, "operation">>, Str("tools/list")),
    To(Mix \o <<1, "operation">>, Str("ping")), To(Mix \o <<1, "operation">>, Str("prompts_list")),
    Without(Mix \o <<3, "uri">>), To(Mix \o <<3, "uri">>, Str("")), To(Mix \o <<3, "uri">>, Null),
    Without(Mix \o <<4, "prompt_name">>), To(Mix \o <<4, "prompt_name">>, Str("")),
    To(<<"workload", "tools", "templates">>, Arr(<<>>)), Without(<<"workload", "tools">>),
    To(<<"workload", "tools", "templates", 1, "tool_name">>, Str("")),
    To(<<"workload", "tools", "templates", 1, "weight">>, Num(0)),
    To(<<"workload", "tools", "templates", 1, "expects_streaming">>, Bool(TRUE)),
    To(<<"workload", "in_flight_per_vu">>, Num(2)),
    To(<<"session_policy", "mode">>, Str("pool")), To(<<"session_policy", "mode">>, Str("churn")),
    To(<<"session_policy", "mode">>, Str("shared")), To(<<"session_policy", "pool_size">>, Num(0)),
    To(<<"session_policy", "pool_size">>, NumAndHalf(4)),
    To(<<"session_policy", "churn_interval_ops">>, Num(3))>>

SafetyEdits ==
  <<To(Caps \o <<"max_vus">>, Num(20)), To(Caps \o <<"max_vus">>, Num(21)), To(Caps \o <<"max_vus">>, Num(0)),
    Without(Caps \o <<"max_vus">>), To(Caps \o <<"max_rps">>, NumAndHalf(100)),
    To(Caps \o <<"max_duration_ms">>, Num(3600001)), Without(Caps),
    To(<<"safety", "worker_failure_policy">>, Str("retry")),
    To(<<"safety", "identification_required">>, Bool(FALSE)),
    To(Agent \o <<"value">>, Str("drill")), Without(Agent),
    To(<<"target", "headers">>, Obj("User-Agent" :> Str("mine"))),
    To(<<"target", "headers">>, Obj("user-agent" :> Str("mine"))),
    To(<<"target", "identification", "run_id_header">>,
       Obj([name |-> Str("User-Agent"), value_template |-> Str("fixed")])),
    To(<<"target", "redirect_policy", "mode">>, Str("follow")),
    To(<<"target", "redirect_policy", "max_redirects">>, Num(4)),
    To(<<"environment", "allowlist", "mode">>, Str("allow_all")),
    Without(<<"schema_version">>), To(<<"schema_version">>, Str("run-config/v2"))>>

AllEdits == StageEdits \o WorkEdits \o SafetyEdits

-----------------------------------------------------------------------------
PlacementInit ==
  /\ cap \in [Workers -> 0 .. MaxCapacity]
  /\ target \in 0 .. MaxTarget
  /\ placement = <<>>

\* An input of AllocateAssignments and what it returns.
Allocate ==
  /\ placement = <<>>
  /\ \/ placement' \in Allocations(cap, Workers, target)
     \/ Allocations(cap, Workers, target) = {} /\ placement' = Refused
  /\ UNCHANGED <<part, cap, target, configVars>>

PlacementDone == part = "placement" /\ placement # <<>> /\ UNCHANGED mcVars

NoPlacement == cap = [w \in Workers |-> 0] /\ target = 0 /\ placement = <<>>

NoConfig ==
  /\ config = Base /\ report = {} /\ phase = "submitted" /\ refusals = {} /\ asked = 0 /\ rampStep = 0
  /\ assignment = NoAssignment /\ working = FALSE /\ performed = "none" /\ evaluator = NoEvaluator

MCInit ==
  \/ part = "config" /\ ConfigInit /\ NoPlacement
  \/ part = "placement" /\ PlacementInit /\ NoConfig

MCNext ==
  \/ part = "config" /\ ConfigNext /\ UNCHANGED <<part, cap, target, placement>>
  \/ part = "placement" /\ Allocate
  \/ PlacementDone

MCSpec == MCInit /\ [][MCNext]_mcVars

\* A placement partitions the users 0 .. target - 1, and gives every worker in
\* it at least one user and no more than its capacity.
PlacementExact ==
  placement \notin {<<>>, Refused} =>
    /\ UNION {Users(placement[w]) : w \in DOMAIN placement} = 0 .. (target - 1)
    /\ \A w \in DOMAIN placement :
         /\ placement[w].hi - placement[w].lo \in 1 .. cap[w]
         /\ \A v \in DOMAIN placement \ {w} : ~Overlaps(placement[w], placement[v])
=============================================================================
