---------------------------- MODULE StopConditions ----------------------------
(***************************************************************************)
(* The stop-condition evaluator of a stage                                 *)
(* (controlplane/stopconditions/evaluator.go) over the operations and logs *)
(* that the telemetry store keeps of its run.                              *)
(*                                                                         *)
(* A poll reads the whole list again, remembers how much of it is new, and *)
(* dates the new operations by the poll that saw them.  The streaming      *)
(* conditions date an operation by its start on its worker's clock, and    *)
(* compare that with the server's.  The store may be at its limits, evict  *)
(* the run and start its entry again.  Operations are of every stage so    *)
(* far: an evaluator starts with lastSeen = 0.                             *)
(***************************************************************************)
EXTENDS Integers, Sequences, FiniteSets, SequencesExt, FiniteSetsExt

CONSTANTS
  EvalSetups   \* the stages considered

\* A threshold is a fraction; a window is in polls.
Condition ==
  [id : STRING, metric : {"error_rate", "latency_p50_ms", "latency_p99_ms", "unknown"},
   comparator : {">", ">=", "<", "<="}, threshold : Nat \X (Nat \ {0}),
   window : Nat, sustain : Nat]

EvalSetup ==
  [conditions : Seq(Condition),
   stall : Nat,              \* StreamStallSeconds, in polls; 0 is off
   minEvents : Nat,          \* MinEventsPerSecond, in events per poll; 0 is off
   maxOps : Nat,             \* limits of the store
   maxLogs : Nat,
   arriving : SUBSET [ok : BOOLEAN, latency : Nat, events : Nat],  \* bound: operations that occur
   ages : SUBSET Int,        \* bound: how long before its arrival an operation started, as
                             \* its worker's clock has it: below 0 if that clock is ahead
   arrivals : Nat,           \* bound: operations that arrive
   evictions : Nat,          \* bound: evictions of the run
   polls : Nat]              \* bound: polls

ASSUME EvalAssumption == EvalSetups \subseteq EvalSetup

VARIABLES
  stage,          \* the setup
  poll,           \* the time, in polls
  entry,          \* the store's entry of the run
  arrived, evicted,
  lastSeen, buffer, sustainCounts,   \* of the Evaluator
  trigger,        \* what the evaluator reported, and ended with
  delivered,      \* history: operations since the entry is known, each with its poll
  streak,         \* history: polls in a row in which a condition held
  masked,         \* history: a new entry was taken for the old one
  lastStart       \* history: the latest start of a streaming operation received since
                  \* the run was last evicted

evalVars == <<stage, poll, entry, arrived, evicted, lastSeen, buffer, sustainCounts,
              trigger, delivered, streak, masked, lastStart>>

NoTrigger == "none"
NoEntry == [exists |-> FALSE, new |-> TRUE, ops |-> <<>>, logs |-> 0, first |-> 0, last |-> 0, events |-> 0]

CondIndexes == 1 .. Len(stage.conditions)

\* Time begins late enough for every start to be a positive time.
EvalInit(setups) ==
  /\ stage \in setups
  /\ poll = 1 + Max({0} \cup stage.ages) /\ entry = NoEntry /\ arrived = 0 /\ evicted = 0
  /\ lastSeen = 0 /\ buffer = <<>>
  /\ sustainCounts = [i \in {c.id : c \in ToSet(stage.conditions)} |-> 0]
  /\ trigger = NoTrigger
  /\ delivered = <<>> /\ streak = [i \in CondIndexes |-> 0]
  /\ masked = FALSE /\ lastStart = 0

-----------------------------------------------------------------------------
(* The store.                                                              *)

AtLimit(limit, n) == limit > 0 /\ n >= limit

\* An operation that started at time t; the streaming metrics are those of the logs kept.
Stored(e, op, t) ==
  LET kept == IF AtLimit(stage.maxOps, Len(e.ops)) THEN e ELSE [e EXCEPT !.ops = Append(@, op)]
      logged == [kept EXCEPT !.exists = TRUE, !.logs = @ + 1]
  IN  CASE AtLimit(stage.maxLogs, e.logs) -> [kept EXCEPT !.exists = TRUE]
        [] ~AtLimit(stage.maxLogs, e.logs) /\ op.events = 0 -> logged
        [] OTHER -> [logged EXCEPT !.first = IF @ = 0 THEN t ELSE Min({@, t}),
                                   !.last = Max({@, t}), !.events = @ + op.events]

\* What happens after the trigger is of no interest here.
Arrive(op) ==
  /\ arrived < stage.arrivals /\ trigger = NoTrigger
  /\ arrived' = arrived + 1
  /\ \E age \in stage.ages :
       /\ entry' = Stored(entry, op, poll - age)
       /\ lastStart' = IF op.events > 0 THEN Max({lastStart, poll - age}) ELSE lastStart
  /\ UNCHANGED <<stage, poll, evicted, lastSeen, buffer, sustainCounts, trigger, delivered, streak, masked>>

Evict ==
  /\ evicted < stage.evictions /\ entry.exists /\ trigger = NoTrigger
  /\ evicted' = evicted + 1
  /\ entry' = NoEntry /\ lastStart' = 0
  /\ UNCHANGED <<stage, poll, arrived, lastSeen, buffer, sustainCounts, trigger, delivered, streak, masked>>

-----------------------------------------------------------------------------
(* Metrics.                                                                *)

\* The value at index ceil(p / 100 * n) of the sorted values.
percentile(values, p) ==
  LET sorted == SortSeq(values, <)
      n == Len(values)
      index == (p * n + 99) \div 100
  IN  IF n = 0 THEN 0 ELSE sorted[Max({1, Min({index, n})})]

\* A fraction; -1 for a metric the evaluator does not know.
evaluateMetric(metric, window) ==
  LET latencies == [i \in DOMAIN window |-> window[i].op.latency]
      failed == Len(SelectSeq(window, LAMBDA e : ~e.op.ok))
  IN  CASE metric = "error_rate" -> <<failed, Len(window)>>
        [] metric = "latency_p50_ms" -> <<percentile(latencies, 50), 1>>
        [] metric = "latency_p99_ms" -> <<percentile(latencies, 99), 1>>
        [] OTHER -> <<-1, 1>>

compare(observed, comparator, threshold) ==
  LET l == observed[1] * threshold[2]
      r == threshold[1] * observed[2]
  IN  /\ observed[1] >= 0
      /\ \/ comparator = ">" /\ l > r
         \/ comparator = ">=" /\ l >= r
         \/ comparator = "<" /\ l < r
         \/ comparator = "<=" /\ l <= r

windowStats(buf, window) == SelectSeq(buf, LAMBDA e : e.observed >= poll - window)

Breached(buf, cond) ==
  LET window == windowStats(buf, cond.window)
  IN  /\ cond.window > 0 /\ window # <<>>
      /\ compare(evaluateMetric(cond.metric, window), cond.comparator, cond.threshold)

-----------------------------------------------------------------------------
(* Evaluate.                                                               *)

\* Slip: the stall is counted from the first event.
evaluateStreamStall_First == stage.stall > 0 /\ entry.first # 0 /\ poll - entry.first > stage.stall
evaluateStreamStall == stage.stall > 0 /\ entry.last # 0 /\ poll - entry.last > stage.stall

evaluateMinEventsPerSecond ==
  /\ stage.minEvents > 0 /\ entry.first # 0 /\ entry.events > 0 /\ poll > entry.first
  /\ entry.events < stage.minEvents * (poll - entry.first)

evaluateStreamingConditions ==
  CASE entry.exists /\ evaluateStreamStall -> "stream_stall"
    [] entry.exists /\ ~evaluateStreamStall /\ evaluateMinEventsPerSecond -> "min_events_per_second"
    [] OTHER -> NoTrigger

Shrunk == Len(entry.ops) < lastSeen

maxWindow == Max({0} \cup {c.window : c \in ToSet(stage.conditions)})

\* What a poll finds at the end of the list.
NewOperations ==
  LET from == IF Shrunk THEN 0 ELSE lastSeen
  IN  [i \in 1 .. Len(entry.ops) - from |-> [op |-> entry.ops[from + i], observed |-> poll]]

\* Slip: operations older than the shortest window are dropped.
Pruned_Shortest(buf) ==
  SelectSeq(buf, LAMBDA e : e.observed >= poll - Min({c.window : c \in ToSet(stage.conditions)}))

Pruned(buf) == SelectSeq(buf, LAMBDA e : e.observed >= poll - maxWindow)

Buffer == IF maxWindow = 0 THEN <<>>
          ELSE Pruned((IF Shrunk THEN <<>> ELSE buffer) \o NewOperations)

\* One condition of the loop; the first that triggers ends it.  Conditions of the
\* same identifier share a count.
EvaluateCondition(st, cond) ==
  IF st.trigger # NoTrigger THEN st
  ELSE IF ~Breached(Buffer, cond) THEN [st EXCEPT !.counts[cond.id] = 0]
  ELSE LET n == st.counts[cond.id] + 1
       IN  [counts |-> [st.counts EXCEPT ![cond.id] = n],
            trigger |-> IF n >= Max({1, cond.sustain}) THEN cond.id ELSE NoTrigger]

EvaluateConditions ==
  FoldLeft(EvaluateCondition,
           [counts |-> IF Shrunk THEN [i \in DOMAIN sustainCounts |-> 0] ELSE sustainCounts,
            trigger |-> NoTrigger],
           stage.conditions)

\* What the poll would see if nothing were pruned, for the properties.
Observed == (IF Shrunk THEN <<>> ELSE delivered) \o NewOperations

Evaluate ==
  \/ /\ evaluateStreamingConditions # NoTrigger
     /\ trigger' = evaluateStreamingConditions
     /\ UNCHANGED <<entry, lastSeen, buffer, sustainCounts, delivered, streak, masked>>
  \/ /\ evaluateStreamingConditions = NoTrigger /\ ~entry.exists   \* GetOperations fails
     /\ UNCHANGED <<entry, lastSeen, buffer, sustainCounts, trigger, delivered, streak, masked>>
  \/ /\ evaluateStreamingConditions = NoTrigger /\ entry.exists
     /\ lastSeen' = Len(entry.ops)
     /\ buffer' = Buffer
     /\ sustainCounts' = EvaluateConditions.counts
     /\ trigger' = EvaluateConditions.trigger
     /\ delivered' = Observed
     /\ streak' = [i \in CondIndexes |->
                     IF ~Breached(Observed, stage.conditions[i]) THEN 0
                     ELSE 1 + IF Shrunk THEN 0 ELSE streak[i]]
     /\ masked' = (masked \/ (entry.new /\ lastSeen > 0 /\ ~Shrunk))
     /\ entry' = [entry EXCEPT !.new = FALSE]

\* Run: a tick of the poll timer; the evaluator ends with its first trigger.
EvalRun ==
  /\ trigger = NoTrigger /\ poll < stage.polls
  /\ Evaluate
  /\ poll' = poll + 1
  /\ UNCHANGED <<stage, arrived, evicted, lastStart>>

EvalNext == (\E op \in stage.arriving : Arrive(op)) \/ Evict \/ EvalRun

-----------------------------------------------------------------------------
(* Properties.                                                             *)

\* Evaluate triggers on a condition exactly when it held in sustain_windows polls in
\* a row, each over every operation its window covers, and the earliest such
\* condition is the one reported: no operation is pruned, counted twice or dated
\* wrong, and an empty window or a replaced list breaks the row.  A list that was
\* replaced by one at least as long goes unnoticed and is left out.
TriggerExact ==
  LET held == {i \in CondIndexes : streak[i] >= Max({1, stage.conditions[i].sustain})}
  IN  masked \/ trigger \in {"stream_stall", "min_events_per_second"}
      \/ trigger = IF held = {} THEN NoTrigger ELSE stage.conditions[Min(held)].id

\* A stage is stopped for a stalled stream only if every streaming operation received since
\* the run was last evicted started longer ago than StreamStallSeconds, by the clocks of the
\* workers and in whatever order they arrived, unless the store stopped keeping the run's
\* logs.  That is all the code warrants: events within an operation are not dated, so a
\* stream that is read for longer than the threshold, shipped that late, or measured by a
\* clock that is behind, ends the stage with an operation just received.
StallReal ==
  trigger = "stream_stall" => poll - 1 - lastStart > stage.stall \/ AtLimit(stage.maxLogs, entry.logs)
===============================================================================
