--------------------------- MODULE StageDispatch ---------------------------
(***************************************************************************)
(* How one run gets its virtual users: the worker registry, the leases,    *)
(* the heartbeat monitor (internal/controlplane/scheduler), the dispatch   *)
(* of each stage, the automatic ramp and the replacement of lost workers   *)
(* (runmanager/dispatch.go, stages.go, worker_failure.go).                 *)
(*                                                                         *)
(* The registry and the lease manager each have a lock of their own and    *)
(* no caller holds one across two calls: every call is a step.             *)
(* HandleWorkerCapacityLost alone holds the run manager's lock throughout. *)
(*                                                                         *)
(* A lease that is no longer active is never read again, so `leases' holds *)
(* the active ones.  Time is abstract: a worker may fall silent for longer *)
(* than the heartbeat timeout, and a lease that nobody renews runs out.    *)
(***************************************************************************)
EXTENDS Allocator

CONSTANTS
  Workers,    \* worker identities; a worker that comes back gets a new one
  Plans,      \* the configurations considered
  None

Stages == {"preflight", "baseline", "ramp", "soak"}
Following == [preflight |-> "baseline", baseline |-> "ramp", ramp |-> "soak"]

\* The dispatching goroutines: the stage progression (the caller of StartRun
\* before it) and the automatic ramp.
Routines == {"progression", "ramp"}

Plan ==
  [maxVUs : [Workers -> Nat],      \* what each worker registers with
   load : [Stages -> [targetVUs : Nat, startVUs : Nat, rampSteps : Nat]],
   hardCap : Nat,
   policy : {"fail_fast", "replace_if_possible", "best_effort"},
   silent : SUBSET Workers,        \* the workers that may fall silent
   busy : SUBSET Workers,          \* the workers that may report saturation
   stops : BOOLEAN]                \* may the run be stopped from outside?

ASSUME PlansAssumption == Plans \subseteq Plan
ASSUME WorkersAssumption == IsFiniteSet(Workers) /\ None \notin Workers \cup Stages

VARIABLES
  plan,
  state,        \* record.State: a stage's running state, or "stopping"
  activeStage,  \* record.ActiveStage.StageID
  registry,     \* of each worker: "new", "fresh", "late" or "gone"
  saturated,    \* the workers whose effective capacity is 0
  renewing,     \* heartbeat handlers between Heartbeat and RenewWorkerLeases
  leases,       \* the active leases
  job,          \* the dispatching goroutines
  ramp,         \* startAutoRamp's loop: where it is, step, currentVUs
  mon,          \* the heartbeat monitor
  impaired,     \* history: capacity was lost or refused since the last stage dispatch
  lost, told,   \* history: workers whose leases the monitor revoked; that the run heard of
  raced         \* history: workers leased to while, or after, the monitor removed them

runVars == <<state, activeStage>>
workerVars == <<registry, saturated, renewing>>
historyVars == <<impaired, lost, told, raced>>
vars == <<plan, runVars, workerVars, leases, job, ramp, mon, historyVars>>

Registered == {w \in Workers : registry[w] \in {"fresh", "late"}}

\* updateEffectiveCapacity: nothing for a saturated worker.
EffectiveCapacity == [w \in Workers |-> IF w \in saturated THEN 0 ELSE plan.maxVUs[w]]

Target(s) == CappedTarget(plan.load[s].targetVUs, plan.hardCap)

NoRanges == [w \in {} |-> VUIDRange(0, 0)]
Idle == [at |-> "idle", stage |-> None, num |-> 0, offset |-> 0,
         seen |-> {}, todo |-> NoRanges]
Watching == [at |-> "idle", dead |-> {}, worker |-> None, affected |-> FALSE,
             todo |-> NoRanges]

\* handleReplaceIfPossibleLocked holds rm.mu while it issues its leases.
LockFree == mon.at # "replace"

-----------------------------------------------------------------------------
(* The lease manager.                                                      *)

Lease(w, s, r) == [worker |-> w, stage |-> s, lo |-> r.lo, hi |-> r.hi, overdue |-> FALSE]

LeaseRange(l) == VUIDRange(l.lo, l.hi)

\* Refused if an active lease of the same run and stage overlaps.
IssueLease(w, s, r) ==
  leases' = IF \E l \in leases : l.stage = s /\ Overlaps(LeaseRange(l), r)
            THEN leases
            ELSE leases \cup {Lease(w, s, r)}

RevokeWorkerLeases(w) == leases' = {l \in leases : l.worker # w}

RenewWorkerLeases(w) ==
  leases' = {[l EXCEPT !.overdue = @ /\ l.worker # w] : l \in leases}

\* Slip: nothing is ever found to have expired.
ExpireLeases_Never == UNCHANGED leases

ExpireLeases == leases' = {l \in leases : ~l.overdue}

-----------------------------------------------------------------------------
(* The registry and the worker's side of it.                               *)

RegisterWorker(w) ==
  /\ registry[w] = "new"
  /\ registry' = [registry EXCEPT ![w] = "fresh"]
  /\ UNCHANGED <<plan, runVars, saturated, renewing, leases, job, ramp, mon, historyVars>>

\* updateEffectiveCapacity.  "busy": CPU above the saturation threshold or all
\* virtual users active; "idle": CPU below the lower threshold and some virtual
\* user free; "normal": neither.
SaturatedAfter(w, health) ==
  IF w \in saturated THEN health # "idle" ELSE health = "busy"

\* handleWorkerHeartbeat up to Registry.Heartbeat; an unknown worker is refused.
Heartbeat(w) ==
  /\ w \in Registered
  /\ w \notin renewing
  /\ \E health \in IF w \in plan.busy THEN {"busy", "normal", "idle"} ELSE {"idle"} :
       saturated' = IF SaturatedAfter(w, health) THEN saturated \cup {w} ELSE saturated \ {w}
  /\ registry' = [registry EXCEPT ![w] = "fresh"]
  /\ renewing' = renewing \cup {w}
  /\ UNCHANGED <<plan, runVars, leases, job, ramp, mon, historyVars>>

\* ... and the rest of it, in a lock section of its own.
HeartbeatRenew(w) ==
  /\ w \in renewing
  /\ renewing' = renewing \ {w}
  /\ RenewWorkerLeases(w)
  /\ UNCHANGED <<plan, runVars, registry, saturated, job, ramp, mon, historyVars>>

\* More than the heartbeat timeout passes without a heartbeat of w.
FallSilent(w) ==
  /\ w \in plan.silent
  /\ registry[w] = "fresh"
  /\ registry' = [registry EXCEPT ![w] = "late"]
  /\ UNCHANGED <<plan, runVars, saturated, renewing, leases, job, ramp, mon, historyVars>>

\* The lease outlives its term.  The term is twice the heartbeat timeout, so
\* its worker has been silent, or is gone.
RunOut(w) ==
  /\ registry[w] \in {"late", "gone"}
  /\ \E l \in leases :
       /\ l.worker = w
       /\ ~l.overdue
       /\ leases' = (leases \ {l}) \cup {[l EXCEPT !.overdue = TRUE]}
  /\ UNCHANGED <<plan, runVars, workerVars, job, ramp, mon, historyVars>>

-----------------------------------------------------------------------------
(* A dispatch: revoke, list the workers, allocate, issue lease by lease.   *)
(* IssueLease is followed by AddAssignment, which queues the assignment    *)
(* for the worker (module AssignmentDelivery).                             *)

\* The dispatch of r is over, completed or given up: the progression goes on,
\* and the ramp loop counts the users as added either way.
Finish(r) ==
  LET total == job[r].offset + job[r].num
  IN  /\ job' = [job EXCEPT ![r] =
                   IF @.stage = "preflight" THEN [Idle EXCEPT !.at = "progress"] ELSE Idle]
      /\ ramp' = CASE r = "progression" /\ job[r].stage = "ramp" ->
                        [at |-> "hold", step |-> 1, currentVUs |-> total]
                   [] r = "ramp" ->
                        [at |-> IF \/ total >= Target("ramp")
                                   \/ ramp.step = RampSteps(plan.load["ramp"])
                                THEN "exit" ELSE "hold",
                         step |-> ramp.step + 1, currentVUs |-> total]
                   [] OTHER -> ramp

RevokeLeasesByRun(r) ==
  /\ job[r].at = "revoke"
  /\ leases' = {}
  /\ job' = [job EXCEPT ![r].at = "list"]
  /\ UNCHANGED <<plan, runVars, workerVars, ramp, mon, historyVars>>

ListWorkers(r) ==
  /\ job[r].at = "list"
  /\ \/ /\ Registered = {}
        /\ Finish(r)
        /\ impaired' = TRUE
     \/ /\ Registered # {}
        /\ job' = [job EXCEPT ![r].at = "allocate", ![r].seen = Registered]
        /\ UNCHANGED <<ramp, impaired>>
  /\ UNCHANGED <<plan, runVars, workerVars, leases, mon, lost, told, raced>>

\* Slip: a ramp step allocates from user 0 again.
Offset_Forgotten(ranges, n) == ranges

\* Shift every range by the users that are already there.
Offset(ranges, n) == [w \in DOMAIN ranges |-> VUIDRange(ranges[w].lo + n, ranges[w].hi + n)]

\* Fails if a listed worker has been removed since, or capacity is short.
AllocateAssignments(r) ==
  LET placements == IF job[r].seen \subseteq Registered
                    THEN Allocations(EffectiveCapacity, job[r].seen, job[r].num)
                    ELSE {}
  IN  /\ job[r].at = "allocate"
      /\ \/ /\ placements = {}
            /\ Finish(r)
            /\ impaired' = TRUE
         \/ /\ \E p \in placements :
                 job' = [job EXCEPT ![r].at = "issue", ![r].seen = {},
                                    ![r].todo = Offset(p, job[r].offset)]
            /\ UNCHANGED <<ramp, impaired>>
      /\ UNCHANGED <<plan, runVars, workerVars, leases, mon, lost, told, raced>>

\* The ranges left once w's has been dealt with.
Without(ranges, w) == [v \in DOMAIN ranges \ {w} |-> ranges[v]]

\* One turn of the loop over the placement, a map: the order is arbitrary.
IssueNext(r) ==
  /\ job[r].at = "issue"
  /\ \E w \in DOMAIN job[r].todo :
       /\ IssueLease(w, job[r].stage, job[r].todo[w])
       /\ raced' = IF registry[w] = "gone" \/ mon.worker = w THEN raced \cup {w} ELSE raced
       /\ IF DOMAIN job[r].todo = {w}
          THEN Finish(r)
          ELSE /\ job' = [job EXCEPT ![r].todo = Without(@, w)]
               /\ UNCHANGED ramp
  /\ UNCHANGED <<plan, runVars, workerVars, mon, impaired, lost, told>>

-----------------------------------------------------------------------------
(* The stages of the run.                                                  *)

\* StartRun has dispatched the preflight; only now is its stage the active one.
startStageProgression ==
  /\ LockFree
  /\ job["progression"].at = "progress"
  /\ activeStage' = "preflight"
  /\ job' = [job EXCEPT !["progression"] = Idle]
  /\ UNCHANGED <<plan, state, workerVars, leases, ramp, mon, historyVars>>

\* TransitionToBaseline, -Ramp, -Soak: the state, under rm.mu ...
EnterStage ==
  /\ LockFree
  /\ job["progression"].at = "idle"
  /\ state \in DOMAIN Following
  /\ state' = Following[state]
  /\ job' = [job EXCEPT !["progression"].at = "active", !["progression"].stage = Following[state]]
  /\ UNCHANGED <<plan, activeStage, workerVars, leases, ramp, mon, historyVars>>

\* ... then the active stage, then the dispatch.  A ramp starts with its first
\* users and keeps the leases of the stage before.
SetActiveStage ==
  LET s == job["progression"].stage
  IN  /\ LockFree
      /\ job["progression"].at = "active"
      /\ activeStage' = s
      /\ job' = [job EXCEPT !["progression"] =
                   [Idle EXCEPT !.at = IF s = "ramp" THEN "list" ELSE "revoke",
                                !.stage = s,
                                !.num = IF s = "ramp" THEN RampStart(plan.load[s], Target(s))
                                        ELSE Target(s)]]
      /\ impaired' = FALSE
      /\ UNCHANGED <<plan, state, workerVars, leases, ramp, mon, lost, told, raced>>

StillRamping == state = "ramp"

\* startAutoRamp's goroutine: the hold is over, or its context is cancelled.
RampHold ==
  LET load == plan.load["ramp"]
      next == RampVUs(load, Target("ramp"), ramp.step)
  IN  /\ LockFree
      /\ ramp.at = "hold"
      /\ \/ /\ StillRamping
            /\ next > ramp.currentVUs
            /\ ramp' = [ramp EXCEPT !.at = "dispatch"]
            /\ job' = [job EXCEPT !["ramp"] =
                         [Idle EXCEPT !.at = "list", !.stage = "ramp",
                                      !.num = next - ramp.currentVUs,
                                      !.offset = ramp.currentVUs]]
         \/ /\ ~StillRamping \/ next <= ramp.currentVUs
            /\ ramp' = [ramp EXCEPT !.at = "exit"]
            /\ UNCHANGED job
      /\ UNCHANGED <<plan, runVars, workerVars, leases, mon, historyVars>>

\* A stop asked for by a user, a stop condition or a timeout (module RunManager).
StopRun ==
  /\ LockFree
  /\ plan.stops
  /\ state # "stopping"
  /\ state' = "stopping"
  /\ UNCHANGED <<plan, activeStage, workerVars, leases, job, ramp, mon, historyVars>>

-----------------------------------------------------------------------------
(* The heartbeat monitor: checkWorkers, again and again.                   *)

DetectLostWorkers ==
  /\ mon.at = "idle"
  /\ mon' = [mon EXCEPT !.at = "next", !.dead = {w \in Workers : registry[w] = "late"}]
  /\ UNCHANGED <<plan, runVars, workerVars, leases, job, ramp, historyVars>>

\* Slip: only the runs whose active stage the worker serves are affected.
ListWorkerRunIDs_ActiveStage ==
  /\ mon.at = "next"
  /\ \E w \in mon.dead :
       mon' = [mon EXCEPT !.at = "revoke", !.dead = @ \ {w}, !.worker = w,
                          !.affected = \E l \in leases : l.worker = w /\ l.stage = activeStage]
  /\ UNCHANGED <<plan, runVars, workerVars, leases, job, ramp, historyVars>>

\* handleDeadWorker, from here to onWorkerLost; the heartbeat is not looked at
\* again.  First: which runs does the worker have active leases of?
ListWorkerRunIDs ==
  /\ mon.at = "next"
  /\ \E w \in mon.dead :
       mon' = [mon EXCEPT !.at = "revoke", !.dead = @ \ {w}, !.worker = w,
                          !.affected = \E l \in leases : l.worker = w]
  /\ UNCHANGED <<plan, runVars, workerVars, leases, job, ramp, historyVars>>

RevokeDead ==
  /\ mon.at = "revoke"
  /\ RevokeWorkerLeases(mon.worker)
  /\ mon' = [mon EXCEPT !.at = "remove"]
  /\ lost' = IF \E l \in leases : l.worker = mon.worker THEN lost \cup {mon.worker} ELSE lost
  /\ impaired' = TRUE
  /\ UNCHANGED <<plan, runVars, workerVars, job, ramp, told, raced>>

RemoveWorker ==
  /\ mon.at = "remove"
  /\ registry' = [registry EXCEPT ![mon.worker] = "gone"]
  /\ saturated' = saturated \ {mon.worker}
  /\ mon' = [mon EXCEPT !.at = "callback"]
  /\ impaired' = TRUE
  /\ UNCHANGED <<plan, runVars, renewing, leases, job, ramp, lost, told, raced>>

\* The next dead worker, if any.
Handled == [mon EXCEPT !.at = "next", !.worker = None, !.affected = FALSE, !.todo = NoRanges]

handleFailFastLocked ==
  /\ state' = "stopping"
  /\ mon' = Handled

\* What the survivors may be given: the whole stage, from user 0 on.
ReallocateAssignments ==
  IF activeStage = None THEN {}
  ELSE Allocations(EffectiveCapacity, Registered \ {mon.worker}, Target(activeStage))

\* Up to the loop that issues the leases, or all of it if there is none.
handleReplaceIfPossibleLocked ==
  \/ /\ ReallocateAssignments = {}
     /\ handleFailFastLocked
  \/ /\ \E p \in ReallocateAssignments : mon' = [mon EXCEPT !.at = "replace", !.todo = p]
     /\ UNCHANGED state

HandleWorkerCapacityLost ==
  \/ /\ state = "stopping" \/ (state # "preflight" /\ plan.policy = "best_effort")
     /\ mon' = Handled
     /\ UNCHANGED state
  \/ /\ state # "stopping"
     /\ state = "preflight" \/ plan.policy = "fail_fast"
     /\ handleFailFastLocked
  \/ /\ state \notin {"stopping", "preflight"}
     /\ plan.policy = "replace_if_possible"
     /\ handleReplaceIfPossibleLocked

onWorkerLost ==
  /\ mon.at = "callback"
  /\ \/ /\ mon.affected
        /\ told' = told \cup {mon.worker}
        /\ HandleWorkerCapacityLost
     \/ /\ ~mon.affected
        /\ mon' = Handled
        /\ UNCHANGED <<told, state>>
  /\ impaired' = TRUE
  /\ UNCHANGED <<plan, activeStage, workerVars, leases, job, ramp, lost, raced>>

\* One turn of handleReplaceIfPossibleLocked's loop.
ReplaceNext ==
  /\ mon.at = "replace"
  /\ \E w \in DOMAIN mon.todo :
       /\ IssueLease(w, activeStage, mon.todo[w])
       /\ mon' = IF DOMAIN mon.todo = {w} THEN Handled
                 ELSE [mon EXCEPT !.todo = Without(@, w)]
  /\ UNCHANGED <<plan, runVars, workerVars, job, ramp, historyVars>>

MonitorExpires ==
  /\ mon.at = "next"
  /\ mon.dead = {}
  /\ ExpireLeases
  /\ impaired' = (impaired \/ \E l \in leases : l.overdue)
  /\ mon' = Watching
  /\ UNCHANGED <<plan, runVars, workerVars, job, ramp, lost, told, raced>>

-----------------------------------------------------------------------------
\* StartRun has just entered preflight, after checking that it can be placed.
Init ==
  /\ plan \in Plans
  /\ state = "preflight"
  /\ activeStage = None
  /\ registry \in [Workers -> {"new", "fresh"}]
  /\ saturated = {}
  /\ Allocations(plan.maxVUs, Registered, Target("preflight")) # {}
  /\ renewing = {}
  /\ leases = {}
  /\ job = [r \in Routines |->
              IF r = "ramp" THEN Idle
              ELSE [Idle EXCEPT !.at = "revoke", !.stage = "preflight",
                                !.num = Target("preflight")]]
  /\ ramp = [at |-> "off", step |-> 0, currentVUs |-> 0]
  /\ mon = Watching
  /\ impaired = FALSE
  /\ lost = {} /\ told = {} /\ raced = {}

Worker(w) ==
  RegisterWorker(w) \/ Heartbeat(w) \/ HeartbeatRenew(w) \/ FallSilent(w) \/ RunOut(w)

Dispatch(r) ==
  RevokeLeasesByRun(r) \/ ListWorkers(r) \/ AllocateAssignments(r) \/ IssueNext(r)

Monitor ==
  \/ DetectLostWorkers \/ ListWorkerRunIDs \/ RevokeDead \/ RemoveWorker
  \/ onWorkerLost \/ ReplaceNext \/ MonitorExpires

Next ==
  \/ \E w \in Workers : Worker(w)
  \/ \E r \in Routines : Dispatch(r)
  \/ startStageProgression \/ EnterStage \/ SetActiveStage \/ RampHold \/ StopRun
  \/ Monitor

\* The monitor's ticker keeps firing and its loop ends; a lease that is not
\* renewed does run out.
Fairness == WF_vars(Monitor) /\ \A w \in Workers : WF_vars(RunOut(w) /\ registry[w] = "gone")

Spec == Init /\ [][Next]_vars /\ Fairness

-----------------------------------------------------------------------------
\* No virtual user of a stage is leased twice: the leases of a stage that are
\* active together have disjoint ranges, whichever of the three dispatchers
\* (stage, ramp, replacement) issued them, and none exceeds the capped target.
DisjointRanges ==
  /\ \A l, m \in leases :
       l # m /\ l.stage = m.stage => Users(LeaseRange(l)) \cap Users(LeaseRange(m)) = {}
  /\ \A l \in leases : l.hi <= Target(l.stage)

CoveredUsers(s) == UNION {Users(LeaseRange(l)) : l \in {k \in leases : k.stage = s}}

\* A stage gets the load it asks for: once its dispatch is over, and unless the
\* allocator refused or a worker was lost since it began, the active leases of
\* the stage cover exactly its target; a ramp, the users added so far.  No lease
\* is refused for an overlap with an older one.
StageCovered ==
  (~impaired /\ \A r \in Routines : job[r].at = "idle") =>
     CoveredUsers(activeStage) =
       0 .. ((IF activeStage = "ramp" THEN ramp.currentVUs ELSE Target(activeStage)) - 1)

\* When the monitor takes leases of the run away, it tells the run, and a run
\* whose policy is fail_fast is then stopping (unless the lease was issued
\* while the monitor was at work on its worker).
LossHandled ==
  \A w \in lost \ raced :
     \/ mon.worker = w
     \/ w \in told /\ (plan.policy = "fail_fast" => state = "stopping")

\* A lease that a removed worker holds does not last: it runs out, and the
\* monitor expires it.
GoneLeasesEnd ==
  \A w \in Workers :
     (\E l \in leases : l.worker = w /\ registry[w] = "gone")
       ~> (\A l \in leases : l.worker # w)

-----------------------------------------------------------------------------
(* What the documents say, and the code does not do.                       *)

\* docs/multi-node-deployment.md: "`fail_fast` (default): Stop run immediately
\* if worker fails": no worker of the run is lost and done with while it runs.
FailFastStops ==
  plan.policy = "fail_fast" =>
     \A w \in lost : mon.worker = w \/ state = "stopping"
=============================================================================
