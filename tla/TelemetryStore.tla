---------------------------- MODULE TelemetryStore ----------------------------
(***************************************************************************)
(* The telemetry of the runs in the server's memory                        *)
(* (controlplane/api/telemetry_store.go) and the retention manager that    *)
(* deletes from it (internal/retention/manager.go).                        *)
(*                                                                         *)
(* Every method of the store is one section under ts.mu.  An operation is  *)
(* its timestamp and its outcome, the rest of its fields; filters are sets *)
(* of outcomes.                                                            *)
(***************************************************************************)
EXTENDS Integers, Sequences, FiniteSets, SequencesExt

CONSTANTS
  Runs,      \* run identifiers
  Outcomes,  \* what an operation may be, but for its timestamp
  Configs,   \* the configurations considered
  MaxTime    \* bound: the clock stops here

StoreConfig ==
  [maxOperations : Nat,         \* config.MaxOperationsPerRun
   maxLogs : Nat,               \* config.MaxLogsPerRun
   maxTotalRuns : Nat,          \* config.MaxTotalRuns; 0 is no limit, in all three
   ttl : Nat,                   \* LogsTTLHours of the retention manager, in ticks
   runs : SUBSET Runs,          \* bound: runs that write
   outcomes : SUBSET Outcomes,  \* bound: outcomes that occur
   received : Nat,              \* bound: operations received for one entry
   batchSizes : SUBSET Nat,     \* bound: operations in a batch
   asked : SUBSET Runs]         \* bound: runs whose reports are asked for

ASSUME LimitsAssumption ==
  Configs \subseteq StoreConfig /\ MaxTime \in Nat

VARIABLES
  config,
  now,       \* the time, from 1; 0 is "not set" in the code
  runs,      \* ts.runs, a function from the runs that have an entry
  runOrder,  \* ts.runOrder
  listed     \* what the retention manager found too old and has yet to delete

vars == <<config, now, runs, runOrder, listed>>

\* got is a history: operations received since the entry was made.
NewEntry ==
  [start |-> 0, end |-> 0, ops |-> <<>>, logs |-> <<>>, logsSorted |-> TRUE,
   opsTruncated |-> FALSE, logsTruncated |-> FALSE, stopped |-> FALSE, got |-> 0]

Init ==
  /\ config \in Configs
  /\ now = 1 /\ runs = <<>> /\ runOrder = <<>> /\ listed = {}

Without(seq, r) == SelectSeq(seq, LAMBDA x : x # r)
Drop(f, S) == [x \in DOMAIN f \ S |-> f[x]]
Put(f, x, v) == [y \in DOMAIN f \cup {x} |-> IF y = x THEN v ELSE f[y]]

-----------------------------------------------------------------------------
(* Entries.                                                                *)

\* How many runs are evicted to make room for one more.
Excess == Cardinality(DOMAIN runs) - config.maxTotalRuns + 1

evictIfNeeded ==
  IF config.maxTotalRuns = 0 THEN {}
  ELSE ToSet(SubSeq(runOrder, 1, IF Excess > Len(runOrder) THEN Len(runOrder) ELSE Excess))

\* getOrCreateRunTelemetry returns the entry of r, or a new one that replaces
\* evicted runs; rt is what the caller makes of it.
Entry(r) == IF r \in DOMAIN runs THEN runs[r] ELSE NewEntry

WriteEntry(r, rt) ==
  \/ /\ r \in DOMAIN runs
     /\ runs' = Put(runs, r, rt)
     /\ UNCHANGED runOrder
  \/ /\ r \notin DOMAIN runs
     /\ runs' = Put(Drop(runs, evictIfNeeded), r, rt)
     /\ runOrder' = Append(SelectSeq(runOrder, LAMBDA x : x \notin evictIfNeeded), r)

-----------------------------------------------------------------------------
(* AddTelemetryBatch.                                                      *)

Full(limit, n) == limit > 0 /\ n >= limit

Received(rt, op) ==
  [rt EXCEPT !.start = IF @ = 0 \/ op.ts < @ THEN op.ts ELSE @,
             !.end = IF op.ts > @ THEN op.ts ELSE @,
             !.got = @ + 1]

AddOperation(rt, op) ==
  IF Full(config.maxOperations, Len(rt.ops))
  THEN [rt EXCEPT !.opsTruncated = TRUE]
  ELSE [rt EXCEPT !.ops = Append(@, op.outcome)]

AddLog(rt, op) ==
  IF Full(config.maxLogs, Len(rt.logs))
  THEN [rt EXCEPT !.logsTruncated = TRUE]
  ELSE [rt EXCEPT !.logs = Append(@, op),
                  !.logsSorted = @ /\ (rt.logs = <<>> \/ Last(rt.logs).ts <= op.ts)]

AddAll(rt, batch) == FoldLeft(LAMBDA e, op : AddLog(AddOperation(Received(e, op), op), op), rt, batch)

Ascending(logs) == \A i \in 1 .. Len(logs) - 1 : logs[i].ts <= logs[i + 1].ts

\* sort.Slice is not stable: logs of the same time come in any order.
Sorted(logs) ==
  {s \in {[i \in 1 .. Len(logs) |-> logs[p[i]]] :
            p \in {q \in [1 .. Len(logs) -> 1 .. Len(logs)] : IsInjective(q)}} : Ascending(s)}

AddTelemetryBatch(r, batch) ==
  /\ Entry(r).got + Len(batch) <= config.received
  /\ LET added == AddAll(Entry(r), batch)
     IN  \E logs \in IF added.logsSorted THEN {added.logs} ELSE Sorted(added.logs) :
           WriteEntry(r, [added EXCEPT !.logs = logs, !.logsSorted = TRUE])
  /\ UNCHANGED <<config, now, listed>>

\* The run manager notes why a run stopped, also for a run without an entry.
SetRunMetadata(r) ==
  /\ ~Entry(r).stopped
  /\ WriteEntry(r, [Entry(r) EXCEPT !.stopped = TRUE])
  /\ UNCHANGED <<config, now, listed>>

-----------------------------------------------------------------------------
(* QueryLogs: a page of the logs that match.                               *)

Matching(logs, outcomes) == SelectSeq(logs, LAMBDA l : l.outcome \in outcomes)

\* Slip: the page ends one before the limit.
QueryLogs_Short(logs, outcomes, offset, limit, order) ==
  LET all == Matching(logs, outcomes)
      ordered == IF order = "asc" THEN all ELSE Reverse(all)
  IN  SubSeq(ordered, offset + 1, IF offset + limit > Len(all) THEN Len(all) ELSE offset + limit - 1)

QueryLogs(logs, outcomes, offset, limit, order) ==
  LET all == Matching(logs, outcomes)
      ordered == IF order = "asc" THEN all ELSE Reverse(all)
  IN  SubSeq(ordered, offset + 1, IF offset + limit > Len(all) THEN Len(all) ELSE offset + limit)

-----------------------------------------------------------------------------
(* Retention.                                                              *)

TooOld(rt) == rt.end # 0 /\ now - rt.end > config.ttl

\* cleanupLogs asks for the runs, their end times and the time once.
cleanupLogs ==
  LET expired == {r \in DOMAIN runs : TooOld(runs[r])}
  IN  /\ listed = {} /\ expired # {}
      /\ listed' = expired
      /\ UNCHANGED <<config, now, runs, runOrder>>

DeleteRun(r) ==
  /\ runs' = Drop(runs, {r})
  /\ runOrder' = Without(runOrder, r)

CleanupRun ==
  \E r \in listed :
    /\ listed' = listed \ {r}
    /\ DeleteRun(r)
    /\ UNCHANGED <<config, now>>

Tick == now < MaxTime /\ now' = now + 1 /\ UNCHANGED <<config, runs, runOrder, listed>>

Batches == UNION {[1 .. n -> [ts : 1 .. now, outcome : config.outcomes]] : n \in config.batchSizes}

Next ==
  \/ \E r \in config.runs : SetRunMetadata(r) \/ \E b \in Batches : AddTelemetryBatch(r, b)
  \/ cleanupLogs \/ CleanupRun \/ Tick

Spec == Init /\ [][Next]_vars

-----------------------------------------------------------------------------
(* Properties.                                                             *)

\* The pages of a query put together are the matching logs, each once and by time,
\* in either order and for every page size, also when workers ship late.
PagesComplete ==
  \A r \in DOMAIN runs, outcomes \in SUBSET config.outcomes, limit \in 1 .. config.maxLogs, order \in {"asc", "desc"} :
    LET logs == runs[r].logs
        all == Matching(logs, outcomes)
        pages == [i \in 1 .. Len(all) |-> QueryLogs(logs, outcomes, (i - 1) * limit, limit, order)]
    IN  /\ FlattenSeq(pages) = IF order = "asc" THEN all ELSE Reverse(all)
        /\ Ascending(all)
===============================================================================
