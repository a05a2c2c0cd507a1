------------------------------ MODULE RunReports ------------------------------
(***************************************************************************)
(* What the server computes from the telemetry of a run: the metrics of    *)
(* analysis/aggregator.go, the stability of the sessions and the series    *)
(* over time of controlplane/api/telemetry_store.go, and the handlers of   *)
(* metrics_handlers.go that put answers together from several reads of     *)
(* the store, between which batches arrive and entries are deleted.        *)
(*                                                                         *)
(* A rate is left as the counts it is made of.  Nothing outside the tests  *)
(* gives the aggregator a session mode or samples of health and churn.     *)
(***************************************************************************)
EXTENDS TelemetryStore

CONSTANT TickMs   \* milliseconds in one step of the clock

Outcome ==
  [operation : STRING, toolName : STRING, session : Nat,   \* 0: no session
   ok : BOOLEAN, dropped : BOOLEAN,                        \* ErrorType "connection_dropped"
   latency : Nat]

ASSUME ReportsAssumption == Outcomes \subseteq Outcome /\ TickMs \in Nat \ {0}

VARIABLE answer   \* the answer that a handler is putting together, or has given

reportVars == <<vars, answer>>

-----------------------------------------------------------------------------
(* analysis/aggregator.go, over the outcomes of the operations kept.       *)

normalizeOpName(op) ==
  LET slashed == [tools_list |-> "tools/list", tools_call |-> "tools/call",
                  resources_list |-> "resources/list", resources_read |-> "resources/read",
                  prompts_list |-> "prompts/list", prompts_get |-> "prompts/get"]
  IN  IF op \in DOMAIN slashed THEN slashed[op] ELSE op

\* The floating-point product p / 100 * n is exact enough to be cut to the same
\* integer as p * n / 100.
computePercentile(latencies, p) ==
  LET n == Len(latencies)
      index == (p * n) \div 100
  IN  IF n = 0 THEN 0
      ELSE SortSeq(latencies, <)[1 + IF index >= n THEN n - 1 ELSE index]

Latencies(ops) == [i \in DOMAIN ops |-> ops[i].latency]

OperationMetrics(ops) ==
  [total |-> Len(ops),
   success |-> Len(SelectSeq(ops, LAMBDA o : o.ok)),
   failure |-> Len(SelectSeq(ops, LAMBDA o : ~o.ok)),
   latency |-> [p \in {50, 95, 99} |-> computePercentile(Latencies(ops), p)]]

\* The number of sessions; no operation with a session is no metrics, here 0.
computeSessionMetrics(ops) == Cardinality({o.session : o \in ToSet(ops)} \ {0})

Compute(ops) ==
  LET name(o) == normalizeOpName(o.operation)
      calls == SelectSeq(ops, LAMBDA o : name(o) = "tools/call" /\ o.toolName # "")
  IN  [all |-> OperationMetrics(ops),
       byOperation |-> [n \in {name(o) : o \in ToSet(ops)} |->
                         OperationMetrics(SelectSeq(ops, LAMBDA o : name(o) = n))],
       byTool |-> [t \in {o.toolName : o \in ToSet(calls)} |->
                    OperationMetrics(SelectSeq(calls, LAMBDA o : o.toolName = t))],
       sessions |-> computeSessionMetrics(ops)]

-----------------------------------------------------------------------------
(* The series over time, from the logs.                                    *)

calculateBucketSize(logs) ==
  LET times == {l.ts : l \in ToSet(logs)}
      durationMs == TickMs * (Max(times) - Min(times))
  IN  IF Len(logs) < 2 \/ durationMs <= 0 THEN 5000
      ELSE Max({durationMs \div 25, 100})

bucketKey(log, bucketSize) == ((TickMs * log.ts) \div bucketSize) * bucketSize

calculateLatencyPercentiles(latencies) ==
  LET sorted == SortSeq(latencies, <)
  IN  [p \in {50, 95, 99} |-> sorted[1 + (Len(sorted) * p) \div 100]]

GetMetricsTimeSeries(logs) ==
  LET size == calculateBucketSize(logs)
      keys == SetToSortSeq({bucketKey(l, size) : l \in ToSet(logs)}, <)
      bucket(k) == LET inside == SelectSeq(logs, LAMBDA l : bucketKey(l, size) = k)
                   IN  [i \in DOMAIN inside |-> inside[i].outcome]
      point(k) == [timestamp |-> k,
                   successOps |-> Len(SelectSeq(bucket(k), LAMBDA o : o.ok)),
                   failedOps |-> Len(SelectSeq(bucket(k), LAMBDA o : ~o.ok)),
                   latency |-> calculateLatencyPercentiles(Latencies(bucket(k)))]
  IN  [i \in DOMAIN keys |-> point(keys[i])]

-----------------------------------------------------------------------------
(* GetStabilityMetrics: what became of the sessions that the logs name.    *)

Named(logs) == SelectSeq(logs, LAMBDA l : l.outcome.session # 0)
Sessions(logs) == {l.outcome.session : l \in ToSet(Named(logs))}
LogsOf(logs, s) == SelectSeq(logs, LAMBDA l : l.outcome.session = s)
IsDrop(log) == ~log.outcome.ok /\ log.outcome.dropped

\* rt.stopped is stopReason # "".
sessionState(rt, s) ==
  LET times == {l.ts : l \in ToSet(LogsOf(rt.logs, s))}
  IN  [firstSeen |-> Min(times), lastSeen |-> Max(times),
       state |-> IF \E l \in ToSet(LogsOf(rt.logs, s)) : IsDrop(l) THEN "dropped"
                 ELSE IF rt.stopped THEN "terminated" ELSE "active"]

Event(type, s, ts) == [type |-> type, session |-> s, ts |-> ts]

\* By time, then session, then the name of the type.
EventBefore(a, b) ==
  LET rank == [created |-> 1, dropped |-> 2, terminated |-> 3]
  IN  \/ a.ts < b.ts
      \/ a.ts = b.ts /\ a.session < b.session
      \/ a.ts = b.ts /\ a.session = b.session /\ rank[a.type] < rank[b.type]

StabilityEvents(rt) ==
  LET drops == SelectSeq(Named(rt.logs), IsDrop)
      of == [s \in Sessions(rt.logs) |-> sessionState(rt, s)]
      created == {Event("created", s, of[s].firstSeen) : s \in DOMAIN of}
      terminated == {Event("terminated", s, of[s].lastSeen) :
                       s \in {t \in DOMAIN of : of[t].state = "terminated"}}
  IN  SortSeq([i \in DOMAIN drops |-> Event("dropped", drops[i].outcome.session, drops[i].ts)]
                \o SetToSeq(created \cup terminated), EventBefore)

\* Slip: a session is new in every bucket that it appears in.
StabilitySeries_NewAgain(logs) ==
  LET size == calculateBucketSize(logs)
      named == Named(logs)
      keys == SetToSortSeq({bucketKey(l, size) : l \in ToSet(named)}, <)
      inside(k) == SelectSeq(named, LAMBDA l : bucketKey(l, size) = k)
  IN  [i \in DOMAIN keys |->
        [timestamp |-> keys[i],
         activeSessions |-> Cardinality(Sessions(inside(keys[i]))),
         newSessions |-> Cardinality(Sessions(inside(keys[i]))),
         droppedSessions |-> Cardinality(Sessions(SelectSeq(inside(keys[i]), IsDrop)))]]

StabilitySeries(logs) ==
  LET size == calculateBucketSize(logs)
      named == Named(logs)
      keys == SetToSortSeq({bucketKey(l, size) : l \in ToSet(named)}, <)
      inside(k) == SelectSeq(named, LAMBDA l : bucketKey(l, size) = k)
      new(k) == {s \in Sessions(logs) : bucketKey(LogsOf(named, s)[1], size) = k}
  IN  [i \in DOMAIN keys |->
        [timestamp |-> keys[i],
         activeSessions |-> Cardinality(Sessions(inside(keys[i]))),
         newSessions |-> Cardinality(new(keys[i])),
         droppedSessions |-> Cardinality(Sessions(SelectSeq(inside(keys[i]), IsDrop)))]]

GetStabilityMetrics(rt) ==
  LET count(state) == Cardinality({s \in Sessions(rt.logs) : sessionState(rt, s).state = state})
  IN  [totalSessions |-> Cardinality(Sessions(rt.logs)),
       activeSessions |-> count("active"),
       droppedSessions |-> count("dropped"),
       terminatedSessions |-> count("terminated"),
       events |-> StabilityEvents(rt),
       timeSeries |-> StabilitySeries(rt.logs)]

-----------------------------------------------------------------------------
(* The handlers.  data and logs are the copies that the reads return;      *)
(* kept is a history: the entry has not been deleted since the first read. *)

NoAnswer ==
  [kind |-> "none", next |-> "read", run |-> "", data |-> NewEntry, logs |-> <<>>,
   withSeries |-> FALSE, truncated |-> FALSE, kept |-> TRUE]

ReportInit == Init /\ answer = NoAnswer

\* A run without telemetry is answered for at once, with nothing in it.
handleGetRunMetrics(r) ==
  /\ answer.next = "read" /\ r \in config.asked
  /\ answer' = [NoAnswer EXCEPT !.kind = "metrics", !.run = r, !.data = Entry(r),
                                !.next = IF r \in DOMAIN runs THEN "series" ELSE "done"]

ReadSeries(withSeries) ==
  /\ answer.next = "series"
  /\ answer' = [answer EXCEPT !.next = "flags", !.withSeries = withSeries,
                              !.logs = IF withSeries THEN Entry(answer.run).logs ELSE <<>>]

handleGetRunStability(r) ==
  /\ answer.next = "read" /\ r \in config.asked
  /\ answer' = [NoAnswer EXCEPT !.kind = "stability", !.run = r, !.data = Entry(r),
                                !.next = IF r \in DOMAIN runs THEN "flags" ELSE "done"]

IsTruncated ==
  /\ answer.next = "flags"
  /\ answer' = [answer EXCEPT
       !.next = "done",
       !.truncated = \/ Entry(answer.run).opsTruncated
                     \/ answer.kind = "stability" /\ Entry(answer.run).logsTruncated]

\* Bound: what happens after the answer is not followed.
ReportNext ==
  \/ answer.next # "done" /\ Next /\ answer' = [answer EXCEPT !.kept = @ /\ answer.run \in DOMAIN runs']
  \/ /\ UNCHANGED vars
     /\ \/ \E r \in config.runs : handleGetRunMetrics(r) \/ handleGetRunStability(r)
        \/ \E withSeries \in BOOLEAN : ReadSeries(withSeries)
        \/ IsTruncated
-----------------------------------------------------------------------------
(* Properties.                                                             *)

\* What the first read of an answer misses of what the store had received, the
\* flag read last tells, unless the entry was deleted in between.
Told(got) == got = answer.data.got \/ answer.truncated \/ ~answer.kept

\* Both lists have the same limit, as the server's defaults do.
SameLimits == config.maxOperations = config.maxLogs

Sum(series, field) == FoldLeft(LAMBDA n, point : n + point[field], 0, series)

MetricsTrue ==
  LET metrics == Compute(answer.data.ops)
      series == GetMetricsTimeSeries(answer.logs)
      counted == Sum(series, "successOps") + Sum(series, "failedOps")
  IN  /\ Told(metrics.all.total)
      /\ metrics.all.total = MapThenSumSet(LAMBDA n : metrics.byOperation[n].total,
                                           DOMAIN metrics.byOperation)
      /\ answer.withSeries /\ answer.kept /\ SameLimits =>
           /\ counted >= metrics.all.total
           /\ Sum(series, "failedOps") >= metrics.all.failure
           /\ counted = metrics.all.total /\ Len(series) = 1 =>
                series[1].latency = metrics.all.latency

StabilityTrue ==
  LET stability == GetStabilityMetrics(answer.data)
      events == stability.events
      first(s) == Min({i \in DOMAIN events : events[i].session = s})
  IN  /\ Told(Len(answer.data.logs))
      /\ stability.totalSessions = Sum(stability.timeSeries, "newSessions")
      /\ stability.droppedSessions <= Sum(stability.timeSeries, "droppedSessions")
      /\ SameLimits => stability.totalSessions = computeSessionMetrics(answer.data.ops)
      /\ \A s \in Sessions(answer.data.logs) : events[first(s)].type = "created"

\* The answers of handleGetRunMetrics and handleGetRunStability add up, although
\* their parts come from two lists and from reads at different moments: counts
\* that miss operations say so; the series over time accounts for all that the
\* totals count, and its percentiles, computed by another function, are theirs;
\* every session is new once, in the series, and created before all else that
\* happens to it, in the events.
AnswersAddUp ==
  /\ answer.next = "done" /\ answer.kind = "metrics" => MetricsTrue
  /\ answer.next = "done" /\ answer.kind = "stability" => StabilityTrue
===============================================================================
