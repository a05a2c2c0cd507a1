# Verification of mcpdrill

mcpdrill drives load against MCP servers. A control plane takes a run
configuration, moves the run through stages, gives virtual users to workers by
leases, gathers their telemetry and reports on it. Workers execute the virtual
users. This directory holds TLA+ models of those parts, TLC configurations that
check them on small instances, and TLAPS proofs about ten of them.

`PROJECT.json` is the index: components, runs, the source lines behind each
definition, findings, hazards, theorems.

Contents: [the system](#the-system), [modules](#modules),
[runs](#runs-and-what-they-show), [bounds](#bounds), [fairness](#fairness),
[proofs](#proofs), [disagreements](#where-code-and-documents-disagree),
[abstractions](#abstractions), [not modelled](#not-modelled),
[how to run](#how-to-run).

## The system

| Part | State | Operations | Interacts with |
|---|---|---|---|
| Configurations (`internal/validation`, `schemas`, `config_parse.go`, `internal/plugin`) | none: a document is read again by each step | schema and semantic validation, parsing, sampling of operations, checks of the plugins | run manager, workers |
| Run manager (`controlplane/runmanager`) | the run record under `rm.mu`: state, stage, stop reason, cancel functions, `drainCancel`; goroutines for progression, ramp, evaluator, finalizer, analysis | `StartRun`, `RequestStop`, `EmergencyStop`, `HandleWorkerCapacityLost`, `Shutdown`, stage progression, `finalizeRun`, `analyzeRun` | scheduler, telemetry store, artifact store, workers through heartbeat replies |
| Stop conditions (`controlplane/stopconditions`) | per stage: sustain counts, windows, the length of the list last seen | `Evaluate` at each poll | telemetry store, run manager |
| Event log and stream (`event_log.go`, `api/handlers.go`) | events under a limit; a cursor for each reader | append, list after a cursor, stream, reconnect | UI |
| Scheduler (`controlplane/scheduler`) | registry of workers, leases, each under its own lock | register, heartbeat, issue, renew, revoke, expire, allocate, dead-worker handling | run manager, API |
| Dispatch (`dispatch.go`, `stages.go`, `worker_failure.go`) | none of its own: a chain of calls with no lock across them | stage dispatch, automatic ramp, replacement of a lost worker | scheduler, delivery queues |
| Delivery (`controlplane/api`) | pending assignments and unacknowledged deliveries per worker | enqueue, poll, acknowledge, redeliver | worker over HTTP |
| Worker (`cmd/worker`, `internal/worker`) | executions by lease, polling and heartbeat loops | execute, stop, drain | API over HTTP, engine, shipper |
| Virtual user engine (`internal/vu`) | virtual users, their operations, gauges, result channel | start, stop, scale, spawn, operate | sessions, MCP transport |
| Sessions (`internal/session`) | four modes: a pool with a condition variable, a map by virtual user (reuse, churn), none (per request); an evictor and timers | handshake, acquire, release, invalidate, evict, close | MCP transport |
| MCP transport (`internal/transport`) | one request: the response, a reader goroutine, the SSE decoder | post, redirect, read a stream, time out, name the error | MCP server over HTTP |
| Telemetry shipping (`internal/worker`) | buffer, batches, retries | ship, flush, drain, close | API over HTTP |
| Telemetry store, reports, retention (`controlplane/api`, `internal/analysis`, `internal/retention`) | entries by run, insertion order, limits | add, evict, query, delete; metrics, stability, series | evaluator, analysis, UI |
| Agents (`cmd/agent`, `agent_store.go`, `agent_handlers.go`) | agents, a ring of samples for each, the index by pair key | register, ingest, clean up, look up the samples of a run | agent processes over HTTP |
| API rate limiter (`ratelimit.go`) | one token bucket per client | allow, clean up, evict | every handler |
| Telemetry queue and collector (`internal/telemetry`) | bounded queue of three tiers | enqueue, dequeue, drain, close | a library: no command starts it |

What makes these hard is concurrency: handlers and goroutines that release a
lock and take it again, contexts and channels that end work at any point,
`select` statements that choose at random, requests and replies that get lost,
timers that race answers, and queues that overflow. `hazards` in `PROJECT.json`
lists each place with the property that watches it.

## Modules

Every section of code that holds a lock is one action, and so is every step
between two locks that others can observe. Definitions keep the names of the
functions they translate. `Name_Slip` definitions, each under a comment
`Slip:`, are deliberate mistakes: put in place of `Name` they make a property
fail, which shows that the property depends on that code. History variables,
which the code does not have, are marked `history`.

| Module | Models | State and actions |
|---|---|---|
| `RunLifecycle` | `state_machine.go` | Abstract specification: the transition table, and nothing else. |
| `RunManager` | `manager.go`, `stages.go`, `analysis.go`, `worker_failure.go` | One run. Variables are the fields of the record, what was closed or cancelled, and a position for each goroutine (`start`, `prog`, `ramp`, `eval`, `fin`, `ana`). |
| `Allocator` | `allocator.go` | Pure operators: `Allocations` is the set of results the unstable sort permits. |
| `StageDispatch` | registry, lease manager, heartbeat monitor, dispatch, ramp, replacement | One run's leases. `job` holds the dispatching goroutines between two calls, `mon` the monitor. It uses `Allocator`. |
| `JsonValues` | `encoding/json`, external | Documents as the validators see them and as Go structs hold them. |
| `SchemaValidator`, `SemanticValidator` | `internal/validation`, `schemas/run-config/v1.json` | Pure operators: the schema with the keywords it uses, the semantic rules, the order of the steps. A report is its set of codes. |
| `RunConfig` | `config_parse.go`, `dispatch.go`, `assignment_executor.go`, sampler, executor, plugins | One document from submission through every stage to the operations of a virtual user. |
| `AssignmentDelivery` | `server.go` queues, `worker_handlers.go`, `cmd/worker`, `assignment_executor.go`, `queries.go` | One worker and one run: queue, deliveries, the polling loop, the heartbeat loop, executions, and the heartbeat monitor, which may revoke the leases of the worker and remove it. |
| `VUEngine` | `engine.go`, `executor.go`, in-flight limiter | The virtual users of one assignment, counted operations by phase, `Start`, `Stop`, `UpdateLoad`, the swarm spawner. |
| `SessionStates` | `types.go`, `eviction.go`, version negotiation | What the modes share: a session's state, connection and deadlines, the handshake, the evictor, the flags of `Close`. |
| `SessionPool` | `pool.go`, pool mode | The list, the borrowed sessions, reservations, the condition variable (`waiting`, `woken`). Sections under `p.mu` that look at a session and then set its state are two steps (`Acquire`, `Borrow`; `Release`, `Park`), since the evictor changes the state under the session's own lock. |
| `SessionModes` | `modes.go`, the session timer | Reuse, churn and per-request mode. |
| `SessionManager` | `manager.go` | Composes the four modes behind one interface. |
| `ErrorMapping` | `error_mapping.go` | Pure operators: the name given to a chain of Go errors. |
| `SSEStream` | `sse_decoder.go` | The body, the reader goroutine, the channel of one line, the decoder, its stall timer and `Close`. |
| `Transport` | `streamable_http.go`, `mcp_operations.go` | One operation: post, redirects, JSON answer or stream, timeout, outcome. Extends `SSEStream` and `ErrorMapping`. |
| `TelemetryShipper` | `telemetry_shipper.go`, `retry_client.go`, shutdown of the worker, the telemetry handler | Outcomes through buffer, batches and attempts to the server's log. |
| `TelemetryStore` | `telemetry_store.go`, `retention/manager.go` | Entries, eviction, truncation, log pages, the retention pass and its list. |
| `RunReports` | `aggregator.go`, `metrics_handlers.go`, the derived data of `telemetry_store.go` | Extends `TelemetryStore`: the handlers that put an answer together from several reads, as one step per read. |
| `StopConditions` | `evaluator.go` | The evaluator over a list that grows, is cut off or replaced; operations dated by their start on the clock of their worker. |
| `EventFeed` | | Abstract specification: every reader sees the log in order, each event once, all in the end. |
| `EventStream` | `event_log.go`, `handleStreamEvents`, `useRunEvents.ts` | The log, a cursor and a wire for each reader, lost connections, readers that reconnect after what they took in. |
| `AgentStore` | `agent_store.go`, `agent_handlers.go`, `cmd/agent` | Agent processes with clocks of their own, ingestion in its two sections, cleanup, restarts. |
| `ApiRateLimiter` | `ratelimit.go` | Buckets in integer parts of tokens, cleanup, eviction. |
| `TelemetryQueue` | `queue.go`, `collector.go` | The queue with its tiers, blocking consumers, the collector's loop, `Stop`. |
| `*Proofs`, `RunManagerEnd` | | Theorems: see [proofs](#proofs). |
| `MC*` | | Instances for TLC: configurations, symmetry sets. |

Composition. `StageDispatch` composes registry, leases, monitor and dispatchers,
because their interleavings are the point. `AssignmentDelivery` composes server
and worker, `SessionManager` the modes with evictor and `Close`, `Transport` the
request with the goroutine that reads its stream, `RunReports` the readers with the
store they read. `RunManager` sees the scheduler only as calls that succeed or fail
(a failed or empty dispatch, a lost worker), and `StageDispatch` sees the run
only as a state that advances and stops: each is free to do in the other's model
whatever the code could make it do.

Parts that share no state are checked side by side: `MCControlPlane`, `MCWorkerIO`,
`MCAssignmentDelivery` and `MCRunConfig` have a variable `part`, chosen in the
initial state, which says whose behaviour follows. That is one exploration of each part,
not a product.

## Runs and what they show

Passing runs (distinct states in brackets):

| Run | What it shows |
|---|---|
| `run_stops` [506,579] | One run under one or two starts, stop requests of both modes, emergency stops, lost workers, stop conditions, stage timeouts, ramp, shutdown, a slow analysis, in every order: it is started once (`OneStart`), has at most one finalizer (`OneFinalizer`), no channel is closed twice (`DrainCancelOpen`), emergency stops abort (`EmergencyAborts`), the log has every transition once (`LogAccounts`), no goroutine of a run is left without a cancel function (`NoOrphanRoutine`), and `RunManager` implements `RunLifecycle` (`ImplementsLifecycle`). |
| `run_live` [354,582] | A started run ends, unless its analysis is cut short by its own deadline (`StartedRunEnds`). |
| `dispatch_leases` [282,192] | Leases of one stage never overlap (`DisjointRanges`), a stage whose capacity was not impaired gets its whole load (`StageCovered`), a loss is told to the run unless a lease raced the monitor (`LossHandled`), a lease that a removed worker holds runs out (`GoneLeasesEnd`). |
| `configs` [31,222] | A document with one or two of 67 edits goes through validation; one that is accepted can be parsed, dispatched, built and sampled at every stage, within its caps and the policy's (`AcceptedRunnable`), and the User-Agent holds the run's ID where identification is required (`Identified`). Every placement of up to 7 users on three workers, in every tie order of the sort, is an exact partition within the capacities (`PlacementExact`). |
| `delivery` [167,465] | No assignment is lost silently (`Accounted`), a second execution always follows a redelivery (`RepeatsExplained`), a queued assignment is delivered (`Delivered`), and the worker hears of the stop while its lease lasts (`StopReaches`), both as long as the registry knows the worker; the stop also when the run passes through ANALYZING. The other way: copies of outcomes come only from lost answers (`CopiesExplained`), and the worker exits (`ShutdownEnds`). |
| `vu` [63,647] | No send on the closed result channel (`NoSendOnClosed`), in both modes; `Stop` ends (`StopEnds`), although the swarm spawner waits while it holds a lock that ending users need. |
| `sessions` [177,188] | In the pool, sessions are exclusive (`Exclusive`), stay open in use, whatever the evictor decided in the middle of an `Acquire` or a `Release` (`UsedStaysOpen`), and no wakeup is lost (`NoLostWakeup`). In churn mode a session serves its interval, and once more for each operation of its user in flight (`ChurnBounded`). In every mode each open connection has an owner that closes it, apart from two exceptions below (`NoLeak`), and cancelled callers come to an end (`CancelledReturns`). |
| `control_plane` [246,120] | Store: pages of a query neither skip nor repeat, and are sorted (`PagesComplete`); the parts of a report, read from two lists at different moments, agree, and counts that miss operations say so (`AnswersAddUp`). Evaluator: it triggers exactly when the condition held over full windows in a row (`TriggerExact`), and for a stall only if no streaming operation started within the threshold (`StallReal`). Agents: the reply for a run has the samples taken from the start of its first operation to that of its last, and few others, as far as the margin pays for the clocks (`RunSamplesFound`). Limiter: no client gets more than its burst and what it gains, the rate or one burst per `ClientTTL` (`RateKept`). Events: `EventStream` implements `EventFeed`, its liveness included (`ImplementsFeed`). |
| `worker_io` [692,827] | Queue: an open queue sheds and refuses only records of tiers 1 and 2, and none while one of a higher tier stays; nothing else is lost or taken twice, and the capacity holds (`OnlyShedLost`). Transport: what is made of a stream is what its body says (`StreamVerdict`), an error is named for what happened (`BlameExact`), every operation returns and its reader is gone (`RequestEnds`). |

`EventFeed` and `RunLifecycle` are the abstract specifications; each is a PROPERTY of
the detailed module, under the refinement mapping at the end of `EventStream` and
`RunManager`. Modules that are checked in several configurations choose one in
their initial state (`config`, `plan`, `setup`, `stage`, `lab`, `limiter`), so
one run covers them all.

Three runs are expected to be violated. They state what a comment or a document
says and the code does not do; see [below](#where-code-and-documents-disagree).

## Bounds

Each bound is a CONSTANT with a comment `bound:`, or a set in an `MC` module.

- `RunManager`: one run, because runs share nothing but the lock. Two stop calls
  that can be made in any order and repeatedly, two finalizer identities: a
  second finalizer is what `OneFinalizer` excludes, so a third adds nothing.
  `StopConfigs` and `LiveConfigs` pick configurations that between them use every
  branch. One of `LiveConfigs` has an analysis that may outlast its deadline, which is
  where a run can stay in ANALYZING (see [below](#where-code-and-documents-disagree)).
- `StageDispatch`: two workers, loads of at most four users, one ramp step. Overlap, loss and races
  need two leases and one loss. A worker that returns has a new identity in the
  code (a new ID at registration), so identities are used once.
- `RunConfig`: one accepted document and one or two edits of it. Each edit removes,
  nulls or retypes a field that later code reads, or sets it at or beyond a bound;
  rules that relate two fields need two edits.
- `AssignmentDelivery`: two leases with a queue of one, which overflows, or of two,
  which delivers two at once, and `MaxLate` redeliveries of a lease told apart. Stops
  and the removal of the worker are explored with one lease, since they are per run and
  per worker.
- `TelemetryShipper`: four outcomes of two runs, batches and buffer of two, one retry.
- `VUEngine`: two virtual users, and up to two operations of one; each `UpdateLoad`
  target is used once, to keep the run finite.
- `SessionPool`: three clients for one place, so that a signal can reach the
  wrong waiter; a second session identity, for a session made while another is on its
  way out; and `Close` with two clients. Age and idleness, which are two ways for a
  session to become due, are taken together with `Close` and one at a time elsewhere. The
  other modes: two clients of one virtual user, because the map is by user and users do not
  meet in it.
- `TelemetryStore`: three runs in a store of two; a clock of three ticks with a
  time to live of one, so that an entry can be fresh, due, or written again after
  it was listed.
- `RunReports`: up to three outcomes of one run that differ in tool, session, success
  and latency; a behaviour is not followed after its answer is given. A tick is 60 ms, so
  that three ticks fall into different buckets of a series and some into the same.
- `StopConditions`: four operations, five polls, one eviction; windows of one and two
  polls, rows of up to three. For streams seven polls, operations that started two polls
  before they arrive, and clocks one poll ahead.
- `EventStream`: two readers, four events for a log of three, batches of two, one lost
  connection for each reader.
- `AgentStore`: clocks of agents three ticks off in both directions and those of workers
  one, a margin of two, a ring of one sample, so that a sample pushes another out.
- `ApiRateLimiter`: a table of one for two clients; cleanup of idle buckets that are full
  by then, and that are not.
- `TelemetryQueue`: capacity two, four records, two producers or two consumers.
- `Transport`: bodies of up to three lines, which is an event, a blank line and the
  start of the next; plans for each kind of fault and redirect.

`CHECK_DEADLOCK FALSE` appears where the system really stops: a run that is over
takes no step (`RunManager`), clocks, events and polls are used up (`MCControlPlane`).
Elsewhere deadlock is checked, and a `Finished` step marks the
legitimate end; a worker of `AssignmentDelivery` never ends.

## Fairness

- `RunManager`: weak fairness of each goroutine and timer. The Go scheduler runs
  every runnable goroutine and timers fire. Stops, worker losses and triggers are
  not fair: nobody promises them.
- `StageDispatch`: weak fairness of the monitor, a ticker loop, and of the end of
  leases of removed workers, which nobody renews.
- `AssignmentDelivery`: weak fairness of the loops and of the redelivery ticker;
  weak fairness of an acknowledgement being answered or lost; strong fairness of receiving a reply (`StopRun`, and `ReceiveAssignments` of each
  lease): what is repeated for ever gets through some time. Without it nothing can be
  promised over a network that loses everything. It also assumes that the
  worker's requests end: they go through `http.DefaultClient`
  (`cmd/worker/main.go:217`, `:273`, `:318`) without a timeout, so `Delivered` and
  `StopReaches` say nothing of a server that accepts a request and never answers.
- `TelemetryShipper`: weak fairness of `Close`, of the exit, and of `run()` once the
  context is cancelled. Before that a POST may hang: the worker uses
  `http.DefaultClient` (`cmd/worker/main.go:87`) and sets no timeout.
- `VUEngine`: weak fairness of the goroutines, and of the swarm spawner's way out: a tick
  that is ready too may win the `select` sometimes, not always. An operation ends, as the
  transport gives each request a timeout (`transport/streamable_http.go:306`, `:379`), which
  `RequestEnds` of `Transport` shows.
- `SessionManager`: strong fairness of clients. They wait for `p.mu`, which is free again
  and again, and a `sync.Mutex` goes to whoever waited for a millisecond. Evictor, timers
  and `Close` are not fair.
- `Transport`: weak fairness of the reader, the caller, the timeout and the HTTP client's
  report; the end of the stream follows from closing the body. The server is not
  fair: it may say nothing more.
- `EventStream`: weak fairness of each reader's step, that is, of the handler's poll,
  of delivery and of reconnection; losses are bounded by `MaxDrops`.
- `TelemetryStore`, `RunReports`, `StopConditions`, `AgentStore`, `ApiRateLimiter`,
  `TelemetryQueue`, `RunConfig`: only safety is checked.

## Proofs

| Theorem | States, for every value of the constants |
|---|---|
| `RunManagerEnd!TypeCorrect` | the type invariant |
| `RunManagerEnd!FinalizedOnce` | `OneFinalizer`: at most one finalizer, for any number of stops |
| `RunManagerEnd!DrainCancelClosedOnce` | `DrainCancelOpen`: the channel in the record is not closed |
| `RunManagerEnd!EmergencyNeverCompletes` | `EmergencyAborts`, with both stores configured |
| `RunManagerEnd!FirstReasonKept` | `ReasonKept`: an accepted stop keeps its reason, unless an emergency escalates it |
| `RunManagerProofs!StartedOnce` | `OneStart`: for any number of concurrent starts |
| `RunManagerProofs!ReportsStored` | `ReportStored`: a finished run has both report files, with both stores configured |
| `RunManagerProofs!Implements` | `RunManager` implements `RunLifecycle` when both stores are configured |
| `RunManagerProofs!LogAccountsForRun` | `LogAccounts`: every state the run entered is in its log once, or is still owed |
| `RunManagerProofs!RoutinesReachable` | `NoOrphanRoutine`: a goroutine that was not cancelled can be, through the record |
| `StageDispatchProofs!LossAlwaysHandled` | `LossHandled`, for any workers and plans |
| `AllocatorProofs!PlacementsExact` | a placement gives every user to exactly one worker, within the capacities, for any workers, capacities, target and order of the sort |
| `AllocatorProofs!RangesStayDisjoint` | `DisjointRanges`, for any workers and plans |
| `AllocatorProofs!StagesCovered` | `StageCovered`, for any workers and plans |
| `SessionManagerProofs!PoolExclusive` | `Exclusive`, for any clients, sessions and size of the pool |
| `SessionManagerProofs!PoolUsedStaysOpen` | `UsedStaysOpen`, likewise |
| `SessionManagerProofs!PoolNoLostWakeup` | `NoLostWakeup`, likewise |
| `SessionManagerProofs!SessionsNoLeak` | `NoLeak`, for every mode |
| `ServiceProofs!NothingSentOnClosed` | `NoSendOnClosed`, for any virtual users and configurations |
| `ServiceProofs!RateAlwaysKept` | `RateKept`, for any clients, rates, bursts, times to live and times |
| `ServiceProofs!OnlyShedEverLost` | `OnlyShedLost`, for any capacity, batch size, producers and consumers |
| `DeliveryProofs!AssignmentsAccounted` | `Accounted`, for any leases, queue limit and losses of polls and acknowledgements |
| `DeliveryProofs!RepeatsAlwaysExplained` | `RepeatsExplained`, likewise |
| `DeliveryProofs!StreamImplementsFeed` | the safety part of `ImplementsFeed`, for any readers and limits |
| `DeliveryProofs!CopiesAlwaysExplained` | `CopiesExplained`, for any runs, outcomes, retries and sizes of buffer and batch |

The assumptions are those named in the modules: types of the constants, `None` and
`"entry"` are no other value, finitely many workers and clients.

The arguments:

- *The end of a run.* `OneFinalizer` is not inductive: a state with no stop but a running
  finalizer would break it in one step. `FinInv` adds that before a stop is accepted
  (`Early` states) all finalizers are off, no channel exists and no reason is set;
  that a finalizer's own channel exists only after it drained; and that only a run
  without stores completes directly. Steps are sorted into four kinds once
  (`StepKind`): those that leave the stop alone (`Calm`), the accepted stop (`Stop`),
  those that cut a drain (`Cut`), and the steps of a finalizer or its analysis. Each
  kind is then shown to keep `FinInv`.
- *The rest of the run manager.* `StartInv` adds to `OneStart` that no start has
  committed while the run is CREATED. `AnaInv` says which report files exist at each
  point of the analysis. For `Implements`, `StepAllowed` shows that every step of the
  state is in the transition table or a stutter. The condition on the stores is
  needed: without them the code takes STOPPING to COMPLETED, which is not in the table.
  `LogAccounts` says that no event is there twice, which rests on the run never coming
  back to a state: `LogInv` gives every state a level, and no state entered so far lies
  above the current one. Stage transitions log after they gave up the lock, so that the
  event is owed for a while; `OneStart` is needed for there to be one debtor. For
  `NoOrphanRoutine` nearly all steps are of one kind (`Wakeless`): they wake no goroutine
  and call every cancel function that they take from the record. What remains are the
  three places where a goroutine is started.
- *The loss of a worker.* `LossHandled` speaks of losses that are over. `LossInv` adds what
  happens in between: when the monitor is about to revoke leases of a worker, it found the
  run affected or the lease raced with it; from the revocation to the callback, its flag
  carries the news. All steps but the monitor's are one lemma (`Beside`).
- *The placement.* `Starts` and `Capacities` are recursive functions, over the workers in
  order and over sets of workers. That they are defined, that `vuStart` never falls, and that after
  `k` workers it has reached what those have room for, or the target, is shown by
  induction. The induction is a lemma about sets of numbers (`Climb`: a set that has 0 and
  is closed under successor is `Nat`), which follows from the well-foundedness of `<`.
- *The cover of a stage.* `StageCovered` speaks of dispatches that are over, and
  `DisjointRanges` holds only because no dispatcher ever offers a range that overlaps with
  another's. `CoverInv` says what each of them has in hand. From the allocation to the last lease
  the users of the current stage are split between those with a lease and those in the
  placement (`Splits`); a stage that is yet to allocate has no leases left; the ramp adds
  its users behind those it has; no lease is of a later stage than the current one; and all
  ranges fit the capped target. A replacement worker gets the range of a lease that
  was revoked, and from then on the run is `impaired` and only the fit and the disjointness
  are claimed. The steps are shown to keep `CoverInv` from the hypothesis that the allocator is
  exact (`AllocatesExactly`), which `PlacementsExact` discharges.
- *The sessions.* `NoLostWakeup` has to be strengthened to a count: while somebody waits, as many clients
  are on their way to look as there are sessions in the list, and as there is room (`Awake`). It
  speaks of the moments when nobody has `p.mu`. `Exclusive` and
  `UsedStaysOpen` need to know where every session is: in the list, in the map of those in use, or
  new and known to nobody else (`Apart`), with a connection as long as the pool is open
  (`OpenPool`). For `NoLeak`, what has a connection is where `Close` looks, or in the hands
  of a client (`PoolKept`), or in the other modes in the map or carried by the client that
  made it (`MapsKept`). In the modes with two maps these agree as far as each mode lets them
  (`Maps`). The lemmas about the pool take what they use of finite sets as a hypothesis
  (`SetFacts`), which `SetFactsHold` discharges.
- *Engine.* `EngineInv` adds that only a user in its loop or waiting for its operations has
  any, that nobody runs before `Start`, and that `Stop` cancelled the context before it
  closed the channel. Users spawned late may still be on their way then, but have no
  operation and get none.
- *Event stream.* `StreamInv`: the log numbers its events from 1 on, a reader has seen a
  prefix, what is on the wire continues it, and the handler's cursor is the sum. Each step
  is then a step of the feed or a stutter. A new connection, the first one, one after a loss
  or one that the page makes after an event, is one case (`Serve`): the cursor goes back to
  what was seen.
- *Rate limiter.* `RateKept` is about pairs of requests in the past. `LimiterInv` adds
  that what a bucket holds is paid for: the requests since any one of them, and the tokens
  left, are no more than the burst and what was gained up to the last refill. A client
  without a bucket counts as one with a full bucket. A bucket that the cleanup drops was idle
  for the time to live, in which the gain is a burst at least (`PaidDropped`).
- *Telemetry queue.* `OnlyShedLost` relates the queue to what was accepted, so a step of
  `Enqueue` keeps it only if the record in a producer's hands is new. `InHand` says so: it is
  numbered, not accepted yet, and no other producer's. Taking a batch leaves
  `taken \o records` as it is (`CutJoins`); a record that is shed leaves the other records
  in their order (`WithoutOne`), and the new one takes its place within the capacity
  (`ExchangeFits`). That the record shed or refused is one of the highest tier there is
  `LossIsJust`.
- *Assignments.* `DeliveryInv` adds to `Accounted` that an assignment waits in one place, in the
  queue or for its acknowledgement, and there once (`OnePlace`); that what was started was
  queued and counted (`Executed`); and that executions and the copies that can still lead
  to one are covered by the first delivery and the redeliveries (`Due`), which is what
  makes `RepeatsExplained` inductive. The loops that build `remaining` and requeue what
  expired are recursive functions over the deliveries; what they return is shown by
  induction on the turns (`Climb`, `Loop`, `RemainingExact`, `RequeuedOnce`).
- *Outcomes.* `ShipInv` adds to `CopiesExplained` that an outcome is in the buffer or in the
  batch of its run, once (`HeldOnce`), and that one that may still be posted has no copy
  beyond the lost answers (`CopiesDue`); the last copy needs no excuse only because the
  batch is dropped with it.

The inductive invariants of the cover, the sessions, the log, the assignments, the outcomes
and the queue were checked with TLC on the instances of the runs before they were proved.

Only model-checked: everything else. Liveness, fairness and ENABLED are outside the
prover's reach, and so is what `SelectSeq`, a fold or a RECURSIVE operator computes for every
input. That rules out `PagesComplete`, `AnswersAddUp`, `TriggerExact`, `RunSamplesFound` and `StreamVerdict`
(filters and sums over lists), and the validators, which recurse over documents.
`ChurnBounded`, `StallReal` and `BlameExact` have no proof yet.

## Where code and documents disagree

Three disagreements are runs that TLC must find violated; `findings` quotes both sides.

| Run | The code |
|---|---|
| `run_server_emergency` | without an artifact store, as the server runs, an emergency-stopped run ends COMPLETED |
| `dispatch_failfast` | a lease issued while the monitor handles its worker's death is revoked without the run being told |
| `configs_stall` | a stop condition on `stream_stall_seconds` is accepted, and is asked for in streaming configurations, and never triggers |

The code has further behaviours that a reader of the comments and documents may not
expect. They were read in the source while modelling. No run states the expectation, and
the properties are worded to leave room for them.

| Where | What the code does |
|---|---|
| `validation/semantic_validator.go:263`, `runmanager/dispatch.go:33` | a stage with `target_vus` 0 is accepted, and refused when it is dispatched |
| `validation/schema_validator.go:405` | a whole number written like `10.0` or `1e2` is accepted, and fails to parse when the run starts |
| `docs/configuration.md:210`, `:211` | `max_duration_ms` is checked against the policy and `max_errors` is parsed; neither stops a run |
| `transport/streamable_http.go:448` | a configured header `user-agent` and the run's own `User-Agent` overwrite each other in the random order of the map |
| `runmanager/stages.go:330` | the evaluator of a stage counts the operations of earlier stages as new; a stage without conditions leaves the one before running |
| `stopconditions/evaluator.go:163`, `:245` | a list that was evicted and grew beyond its old length is not noticed; conditions with one ID share their count |
| `stopconditions/evaluator.go:363` | an operation is dated by its start: one that streams for longer than the threshold, or comes from a clock that is behind, counts as stalled; and at the limit of the logs the last event stays where it is, and a stall is seen that is none |
| `runmanager/manager.go:657` | an escalation before the finalizer's first step does not shorten the drain |
| `runmanager/analysis.go:23` | an analysis that reports its own expired deadline leaves the run in ANALYZING (the exception of `StartedRunEnds`) |
| `scheduler/heartbeat_monitor.go:141`, `cmd/worker/main.go:223` | a worker that was removed goes on and never registers again; what is queued for it stays there (the exception of `Delivered` and of `StopReaches`) |
| `runmanager/manager.go:583` | an emergency stop of a run not yet stopping reaches the worker as a drain |
| `scheduler/heartbeat_monitor.go:136` | a dispatcher that listed a worker before its removal may lease to it afterwards, until the lease expires |
| `runmanager/worker_failure.go:265` | a partial replacement is logged as a success |
| `runmanager/dispatch.go:258` | a ramp step counts neither the load nor the leases workers already have |
| `runmanager/stages.go:683` | rounding can leave a ramp below its target; with one step, as in the instances here, it does not happen |
| `vu/executor.go:68`, `:97` | a user without a session is not replaced; one scaled down while it starts runs on |
| `vu/engine.go:232` | the swarm cap counts running users only, not those that are starting |
| `vu/user_journey.go:129` | the count of retries belongs to the user, is shared by its operations, and once used up stays so until a session is acquired |
| `worker/assignment_executor.go:325` | a graceful stop cancels requests in flight |
| `session/modes.go:549` | in churn mode two operations of one user can each make a session; the second puts the first out of the map, and nobody closes it (first exception of `NoLeak`) |
| `session/modes.go:145`, `session/pool.go:179` | a session made while `Close` runs stays connected, if its maker looked at `closed` before (second exception) |
| `session/modes.go:162` | reuse may hand out a session that was closed since it was looked at |
| `transport/sse_decoder.go:129` | a body that ends within a comment line drops the event before it; one that ends within another line dispatches it |
| `transport/error_mapping.go:62` | the test for a TLS record error matches a pointer, and the client reports a value, found by its text; a server that answers https in plain HTTP is named "unknown" |
| `transport/error_mapping.go:32` | a dial that times out is reported as a request timeout, not as a connect timeout |
| `transport/error_mapping.go:454` | the error for an unexpected EOF is made by nobody: an EOF, and a body cut within a chunk, are named "unknown" |
| `api/telemetry_store.go:173`, `:186` | eviction is by first write; an evicted run that goes on starts over with clean flags |
| `api/metrics_handlers.go:66` | the answer tells of truncated operations, not of truncated logs, from which the series comes; `AnswersAddUp` assumes equal limits there, as the defaults are |
| `analysis/aggregator.go:451` | a report's percentile is one rank above the evaluator's when p percent of n is whole |
| `retention/manager.go:180` | retention deletes what it listed as too old, also when newer data has come in since |
| `api/agent_handlers.go:343` | the margin of ten seconds has to pay for the clocks of the workers, for half the agent's registration and for a last operation that runs on |
| `api/ratelimit.go:160` | a bucket may be dropped before it is full again, and comes back full, if the burst takes longer than `ClientTTL` to fill |
| `useRunEvents.ts:98` | the hook closes its connection and opens another after an event, because `connect` depends on the last event; what was on its way is sent again. No page uses the hook |
| `api/agent_store.go:80` | the cleanup of agents is started by no command; an agent that was removed is refused for ever, since it registers once |
| `cmd/worker/main.go:107` | shutdown cancels the shipper before it flushes |
| `telemetry/collector.go:92`, `queue.go:243` | a lifecycle record enqueued during `Stop` may stay behind; a consumer between its check and `Wait` misses the broadcast of `Close` |

## Abstractions

- In `RunManager` and `StageDispatch` a run's configuration is what control depends on,
  and configurations that validation refuses are not considered. `RunConfig` shows
  what an accepted document does at each stage, and where it may still fail.
- Time is order: timers may fire at any time after they start. Where the code compares
  times (`TelemetryStore`, `RunReports`, `StopConditions`, `AgentStore`, `ApiRateLimiter`)
  there is a clock in ticks.
- Rates are the counts they are made of, thresholds are fractions, tokens are counted in
  parts, and JSON numbers in halves; there is no floating point.
- Events carry their type, not their payload. Errors are "failed", except in the
  transport, where an error is the chain of its layers.
- A line of a stream is its field and the name of what it holds; a message is its kind.
- Identifiers are fresh model values; those of virtual users and sessions are used again
  when the old holder is gone.
- The closed flags of session manager, mode and pool, set one right after the other, are one.
- `AssignmentDelivery` does not bound the number of heartbeats or polls.
- The evaluator in `RunManager` may trigger whenever it runs; when it does is the subject
  of `StopConditions`.
- A JSON answer is read in the step that receives it. A stream is read line by line.
- A reader of events goes on until it has them all: the page that closes its stream at the
  end of the run, and the button that starts over, are left out.
- The reply for a run in `AgentStore` is that to a query without an agent and without bounds
  of its own.
- The HTTP client, the resolver and `encoding/json` are external: what they can
  report or produce is a set of outcomes.

## Not modelled

`components` in `PROJECT.json` gives the reason for every part. In short:

- *Stateless decisions and presentation*: authentication, routing, decoding of requests,
  read-only queries, the structured logger, report files, the web UI but for its readers of
  events. They hold no state that a later step depends on.
- *External*: OpenTelemetry, the Prometheus text, files of the artifact store (saves
  that succeed or fail in `RunManager`), sockets.
- *Floating point, randomness and wall clock*: the tokens of a virtual user's rate
  limiter, think time, jitter and the delays of the user journey, phase timings.
- *Patterns*: the validation rules that match addresses, hosts and secret references.
- *Without a caller outside tests*: attribution, comparison and knee detection of the
  analysis, the connection tracker, the merge of policies, the correlation of
  operation logs, the argument validator of the transport, lease operations on a single
  lease, `Remove` of a pooled session.
- *The mock MCP server*, which is a target for tests, and the wiring in `cmd/server`.

Within modelled parts these are left out: closing the registry and the lease manager,
registration of the worker process, the artifact part of retention.

## How to run

In this directory:

```
tlc -workers 2 -config RunManager_stops.cfg MCRunManager
tlapm RunManagerProofs.tla
```

A configuration `X.cfg` or `X_y.cfg` belongs to the module `MCX`. The modules with
proofs are `RunManagerEnd` and `RunManagerProofs`, which uses it; `StageDispatchProofs` and
`AllocatorProofs`, which uses it; `SessionPoolProofs` and `SessionManagerProofs`, which uses
it; `ServiceProofs`, and `DeliveryProofs`. All runs finish within three minutes on two cores; the
proofs of a module take from three to ten minutes.
