------------------------ MODULE StageDispatchProofs -------------------------
(***************************************************************************)
(* For any set of workers and plans and any interleaving of the heartbeat  *)
(* monitor with the dispatches, the heartbeats and the stops: a lost       *)
(* worker is never passed over in silence; and, as far as the allocator    *)
(* does its part, the leases of a stage share its users out.               *)
(***************************************************************************)
EXTENDS StageDispatch, TLAPS

-----------------------------------------------------------------------------
(* The loss of a worker.  The monitor looks at the leases of a dead     *)
(* worker twice, when it lists the affected runs and when it revokes; a    *)
(* lease found only the second time was issued in between.  From the       *)
(* revocation to the callback the flag of the first look carries the news. *)

\* Records, so that a change of one field leaves the others.
Shapes ==
  /\ mon = [at |-> mon.at, dead |-> mon.dead, worker |-> mon.worker,
            affected |-> mon.affected, todo |-> mon.todo]
  /\ \A l \in leases :
       l = [worker |-> l.worker, stage |-> l.stage, lo |-> l.lo, hi |-> l.hi,
            overdue |-> l.overdue]

\* Worker w has a lease.
HasLease(w) == \E l \in leases : l.worker = w

\* The run has heard of w, and has stopped if that is its policy.
Heard(w) == w \in told /\ (plan.policy = "fail_fast" => state = "stopping")

\* The news of w is on its way.
OnItsWay(w) == mon.worker = w /\ mon.at \in {"remove", "callback"} /\ mon.affected

\* The inductive invariant.
LossInv ==
  /\ Shapes
  /\ mon.at = "revoke" /\ HasLease(mon.worker) => mon.affected \/ mon.worker \in raced
  /\ mon.at = "replace" => plan.policy # "fail_fast"
  /\ \A w \in lost \ raced : Heard(w) \/ OnItsWay(w)

-----------------------------------------------------------------------------
\* The monitor has just been started.
LEMMA LossInvInit == Init => LossInv
BY DEF Init, LossInv, Shapes, Watching

\* A step beside the monitor keeps the invariant if it gives the worker that the
\* monitor is at no lease, or is known to have raced with it, and a run that is
\* stopping remains so.
LEMMA Beside ==
  ASSUME LossInv, UNCHANGED <<plan, mon, lost, told>>, raced \subseteq raced',
         state = "stopping" => state' = "stopping",
         Shapes',
         HasLease(mon.worker)' => HasLease(mon.worker) \/ mon.worker \in raced'
  PROVE  LossInv'
BY DEF LossInv, Heard, OnItsWay, HasLease

\* IssueLease: at most one lease more, of that worker.
LEMMA IssueFacts ==
  ASSUME Shapes, NEW w, NEW s, NEW r, IssueLease(w, s, r), mon' = mon
  PROVE  Shapes' /\ \A v : HasLease(v)' => HasLease(v) \/ v = w
<1>1. leases' = leases \/ leases' = leases \cup {Lease(w, s, r)}
  BY DEF IssueLease
<1>2. CASE leases' = leases
  BY <1>2 DEF Shapes, HasLease
<1>3. CASE leases' = leases \cup {Lease(w, s, r)}
  BY <1>3 DEF Shapes, HasLease, Lease
<1> QED BY <1>1, <1>2, <1>3

\* Renewing and running out leave the leases with their workers.
LEMMA RenewFacts ==
  ASSUME Shapes, NEW w, RenewWorkerLeases(w) \/ RunOut(w), mon' = mon
  PROVE  Shapes' /\ \A v : HasLease(v)' => HasLease(v)
<1>1. ASSUME NEW l \in leases, NEW o
      PROVE  [l EXCEPT !.overdue = o] =
             [worker |-> l.worker, stage |-> l.stage, lo |-> l.lo, hi |-> l.hi, overdue |-> o]
  BY DEF Shapes
<1>2. \A k \in leases' : \E l \in leases : \E o :
        k = [worker |-> l.worker, stage |-> l.stage, lo |-> l.lo, hi |-> l.hi, overdue |-> o]
  <2>1. CASE RenewWorkerLeases(w)
    <3> SUFFICES ASSUME NEW k \in leases'
                 PROVE  \E l \in leases : \E o :
                          k = [worker |-> l.worker, stage |-> l.stage, lo |-> l.lo,
                               hi |-> l.hi, overdue |-> o]
      OBVIOUS
    <3>1. PICK l \in leases : k = [l EXCEPT !.overdue = @ /\ l.worker # w]
      BY <2>1 DEF RenewWorkerLeases
    <3>2. k = [worker |-> l.worker, stage |-> l.stage, lo |-> l.lo, hi |-> l.hi,
               overdue |-> l.overdue /\ l.worker # w]
      BY <1>1, <3>1
    <3> QED BY <3>2
  <2>2. CASE RunOut(w)
    BY <1>1, <2>2 DEF RunOut, Shapes
  <2> QED BY <2>1, <2>2
<1> QED BY <1>2 DEF Shapes, HasLease

\* Taking leases away leaves the others as they are.
LEMMA FewerFacts ==
  ASSUME Shapes, leases' \subseteq leases, mon' = mon
  PROVE  Shapes' /\ \A v : HasLease(v)' => HasLease(v)
BY DEF Shapes, HasLease

-----------------------------------------------------------------------------
\* The workers' heartbeats, and their silence.
LEMMA WorkerKeeps ==
  ASSUME LossInv, NEW w \in Workers, Worker(w)
  PROVE  LossInv'
<1>1. /\ UNCHANGED <<plan, mon, lost, told, raced, state>>
  BY DEF Worker, RegisterWorker, Heartbeat, HeartbeatRenew, FallSilent, RunOut,
         runVars, historyVars
<1>2. Shapes' /\ \A v : HasLease(v)' => HasLease(v)
  <2>1. CASE leases' = leases
    BY <1>1, <2>1, FewerFacts DEF LossInv
  <2>2. CASE RenewWorkerLeases(w) \/ RunOut(w)
    BY <1>1, <2>2, RenewFacts DEF LossInv
  <2> QED BY <2>1, <2>2 DEF Worker, RegisterWorker, Heartbeat, HeartbeatRenew, FallSilent
<1> QED BY <1>1, <1>2, Beside

\* The dispatch of a stage or of a ramp step: a lease for the worker that the monitor
\* is at makes that worker one that raced.
LEMMA DispatchKeeps ==
  ASSUME LossInv, NEW r \in Routines, Dispatch(r)
  PROVE  LossInv'
<1>1. UNCHANGED <<plan, mon, lost, told, state>>
  BY DEF Dispatch, RevokeLeasesByRun, ListWorkers, AllocateAssignments, IssueNext, runVars, historyVars
<1>2. CASE leases' \subseteq leases /\ raced' = raced
  BY <1>1, <1>2, FewerFacts, Beside DEF LossInv
<1>3. CASE IssueNext(r)
  <2>1. PICK w \in DOMAIN job[r].todo :
          /\ IssueLease(w, job[r].stage, job[r].todo[w])
          /\ raced' = IF registry[w] = "gone" \/ mon.worker = w THEN raced \cup {w} ELSE raced
    BY Zenon, <1>3 DEF IssueNext
  <2>2. Shapes' /\ \A v : HasLease(v)' => HasLease(v) \/ v = w
    BY <1>1, <2>1, IssueFacts DEF LossInv
  <2>3. raced \subseteq raced' /\ (mon.worker = w => mon.worker \in raced')
    BY <2>1
  <2> QED BY <1>1, <2>2, <2>3, Beside
<1>4. RevokeLeasesByRun(r) \/ ListWorkers(r) \/ AllocateAssignments(r)
      => leases' \subseteq leases /\ raced' = raced
  BY DEF RevokeLeasesByRun, ListWorkers, AllocateAssignments, historyVars
<1> QED BY <1>2, <1>3, <1>4 DEF Dispatch

\* The stages and the stop: a run that is stopping enters no stage.
LEMMA StageKeeps ==
  ASSUME LossInv,
         startStageProgression \/ EnterStage \/ SetActiveStage \/ RampHold \/ StopRun
  PROVE  LossInv'
<1>1. UNCHANGED <<plan, mon, lost, told, raced, leases>>
  BY DEF startStageProgression, EnterStage, SetActiveStage, RampHold, StopRun, historyVars
<1>2. state = "stopping" => state' = "stopping"
  BY DEF startStageProgression, EnterStage, SetActiveStage, RampHold, StopRun, Following, runVars
<1> QED BY <1>1, <1>2, FewerFacts, Beside DEF LossInv

\* The callback, on which the run hears of the worker or had not been affected.
LEMMA CallbackKeeps ==
  ASSUME LossInv, onWorkerLost
  PROVE  LossInv'
<1>1. /\ mon.at = "callback" /\ UNCHANGED <<plan, leases, lost, raced>>
      /\ told \subseteq told' /\ (mon.affected => mon.worker \in told')
  BY DEF onWorkerLost
<1>2. /\ state = "stopping" => state' = "stopping"
      /\ mon.affected /\ plan.policy = "fail_fast" => state' = "stopping"
  BY Zenon DEF onWorkerLost, HandleWorkerCapacityLost, handleFailFastLocked, handleReplaceIfPossibleLocked
<1>3. /\ Shapes'
      /\ mon'.at = "next" \/ (mon'.at = "replace" /\ plan.policy = "replace_if_possible")
  <2>1. mon' = Handled \/ (plan.policy = "replace_if_possible"
                           /\ \E p : mon' = [mon EXCEPT !.at = "replace", !.todo = p])
    BY Zenon DEF onWorkerLost, HandleWorkerCapacityLost, handleFailFastLocked,
           handleReplaceIfPossibleLocked
  <2> QED BY Zenon, <1>1, <2>1 DEF Handled, LossInv, Shapes
<1>4. \A w \in lost \ raced : Heard(w)'
  BY <1>1, <1>2 DEF LossInv, Heard, OnItsWay
<1> QED BY <1>1, <1>3, <1>4 DEF LossInv

\* The other steps of the heartbeat monitor.
LEMMA MonitorKeeps ==
  ASSUME LossInv, Monitor
  PROVE  LossInv'
<1>1. CASE DetectLostWorkers
  BY Zenon, <1>1 DEF DetectLostWorkers, LossInv, Shapes, Heard, OnItsWay, HasLease, historyVars, runVars
<1>2. CASE ListWorkerRunIDs
  <2>1. PICK w \in mon.dead :
          mon' = [at |-> "revoke", dead |-> mon.dead \ {w}, worker |-> w,
                  affected |-> \E l \in leases : l.worker = w, todo |-> mon.todo]
    BY <1>2 DEF ListWorkerRunIDs, LossInv, Shapes
  <2>2. UNCHANGED <<plan, state, leases, lost, told, raced>> /\ mon.at = "next"
    BY <1>2 DEF ListWorkerRunIDs, runVars, historyVars
  <2>3. \A v \in lost \ raced : Heard(v)
    BY <2>2 DEF LossInv, OnItsWay
  <2> QED BY <2>1, <2>2, <2>3 DEF LossInv, Shapes, Heard, HasLease
<1>3. CASE RevokeDead
  <2>1. /\ mon' = [at |-> "remove", dead |-> mon.dead, worker |-> mon.worker,
                   affected |-> mon.affected, todo |-> mon.todo]
        /\ leases' \subseteq leases
        /\ lost' = IF HasLease(mon.worker) THEN lost \cup {mon.worker} ELSE lost
        /\ mon.at = "revoke" /\ UNCHANGED <<plan, state, told, raced>>
    BY <1>3 DEF RevokeDead, RevokeWorkerLeases, LossInv, Shapes, HasLease, runVars
  <2>2. Shapes'
    BY <2>1 DEF LossInv, Shapes
  <2>3. \A v \in lost \ raced : Heard(v)'
    BY <2>1 DEF LossInv, OnItsWay, Heard
  <2>4. HasLease(mon.worker) /\ mon.worker \notin raced => OnItsWay(mon.worker)'
    BY <2>1 DEF LossInv, OnItsWay
  <2> QED BY <2>1, <2>2, <2>3, <2>4 DEF LossInv
<1>4. CASE RemoveWorker
  BY <1>4 DEF RemoveWorker, LossInv, Shapes, Heard, OnItsWay, runVars
<1>5. CASE onWorkerLost
  BY <1>5, CallbackKeeps
<1>6. CASE ReplaceNext
  <2>1. PICK w \in DOMAIN mon.todo : IssueLease(w, activeStage, mon.todo[w])
    BY <1>6 DEF ReplaceNext
  <2>2. UNCHANGED <<plan, state, lost, told, raced>> /\ mon.at = "replace"
    BY <1>6 DEF ReplaceNext, runVars, historyVars
  <2>3. mon' = Handled \/ \E t : mon' = [mon EXCEPT !.todo = t]
    BY Zenon, <1>6 DEF ReplaceNext
  <2>4. mon'.at \in {"next", "replace"} /\ Shapes'
    <3>1. \A l \in leases' : l \in leases \/ l = Lease(w, activeStage, mon.todo[w])
      BY <2>1 DEF IssueLease
    <3>2. \A l \in leases' :
            l = [worker |-> l.worker, stage |-> l.stage, lo |-> l.lo, hi |-> l.hi,
                 overdue |-> l.overdue]
      BY <3>1 DEF LossInv, Shapes, Lease
    <3>3. mon = [at |-> "replace", dead |-> mon.dead, worker |-> mon.worker,
                 affected |-> mon.affected, todo |-> mon.todo]
      BY <2>2 DEF LossInv, Shapes
    <3>4. CASE mon' = Handled
      BY Zenon, <3>2, <3>3, <3>4 DEF Handled, Shapes
    <3>5. ASSUME NEW t, mon' = [mon EXCEPT !.todo = t]
          PROVE  mon'.at \in {"next", "replace"} /\ Shapes'
      BY <3>2, <3>3, <3>5 DEF Shapes
    <3> QED BY <2>3, <3>4, <3>5
  <2>5. \A v \in lost \ raced : Heard(v)'
    BY <2>2 DEF LossInv, OnItsWay, Heard
  <2> QED BY <2>2, <2>4, <2>5 DEF LossInv
<1>7. CASE MonitorExpires
  <2>1. /\ mon' = Watching /\ leases' \subseteq leases /\ mon.at = "next"
        /\ UNCHANGED <<plan, state, lost, told, raced>>
    BY <1>7 DEF MonitorExpires, ExpireLeases, runVars
  <2>2. Shapes' /\ mon'.at = "idle"
    BY <2>1 DEF LossInv, Shapes, Watching
  <2>3. \A v \in lost \ raced : Heard(v)'
    BY <2>1 DEF LossInv, OnItsWay, Heard
  <2> QED BY <2>1, <2>2, <2>3 DEF LossInv
<1> QED BY <1>1, <1>2, <1>3, <1>4, <1>5, <1>6, <1>7 DEF Monitor

\* Every step keeps the invariant.
LEMMA LossInvNext == LossInv /\ [Next]_vars => LossInv'
<1> SUFFICES ASSUME LossInv, [Next]_vars PROVE LossInv'
  OBVIOUS
<1>1. CASE UNCHANGED vars
  BY <1>1, FewerFacts, Beside DEF vars, runVars, historyVars, LossInv
<1> QED BY <1>1, WorkerKeeps, DispatchKeeps, StageKeeps, MonitorKeeps DEF Next

-----------------------------------------------------------------------------
\* When handleDeadWorker takes leases of the run away, the run hears of it before the
\* monitor goes on, and a run whose policy is fail_fast is then stopping, unless the
\* lease was issued while the monitor was at work on that worker.
THEOREM LossAlwaysHandled == Spec => []LossHandled
<1>1. LossInv => LossHandled
  BY DEF LossInv, LossHandled, Heard, OnItsWay
<1> QED BY <1>1, LossInvInit, LossInvNext, PTL DEF Spec

-----------------------------------------------------------------------------
(* The cover of a stage.  Two goroutines issue leases beside the monitor:  *)
(* one for the stages in turn, one for what the ramp adds.  From the       *)
(* allocation to the last lease the users of a stage are split between     *)
(* those with a lease and those in the placement in hand, and that a lease *)
(* is never refused for an overlap follows from the split.                 *)

\* The order of the stages.
Rank == [preflight |-> 1, baseline |-> 2, ramp |-> 3, soak |-> 4]

\* The stage that leases are being issued for; before its stage is the active one,
\* the preflight.
Current == IF activeStage = None THEN "preflight" ELSE activeStage

\* The goroutine of the stages and the one of the ramp.
Prog == job["progression"]
Ramping == job["ramp"]

\* Where a goroutine is while it dispatches.
Busy == {"revoke", "list", "allocate", "issue"}

\* Ranges for some of the workers.
IsPlacement(f) ==
  DOMAIN f \subseteq Workers /\ \A w \in DOMAIN f : f[w].lo \in Nat /\ f[w].hi \in Nat

IsJob(j) ==
  /\ j = [at |-> j.at, stage |-> j.stage, num |-> j.num, offset |-> j.offset,
          seen |-> j.seen, todo |-> j.todo]
  /\ j.at \in Busy \cup {"idle", "progress", "active"}
  /\ j.at \in Busy \cup {"active"} => j.stage \in Stages
  /\ j.num \in Nat /\ j.offset \in Nat /\ j.seen \subseteq Workers /\ IsPlacement(j.todo)

IsRamp(x) ==
  /\ x = [at |-> x.at, step |-> x.step, currentVUs |-> x.currentVUs]
  /\ x.at \in {"off", "hold", "dispatch", "exit"}
  /\ x.step \in Nat /\ x.currentVUs \in Nat

\* What the variables hold; the leases and the ranges are numbers of users.
Types ==
  /\ plan \in Plans
  /\ state \in Stages \cup {"stopping"}
  /\ activeStage \in Stages \cup {None}
  /\ \A l \in leases : l.stage \in Stages /\ l.lo \in Nat /\ l.hi \in Nat
  /\ job = [r \in Routines |-> job[r]]
  /\ \A r \in Routines : IsJob(job[r])
  /\ IsRamp(ramp)
  /\ IsPlacement(mon.todo)

\* The preflight has not been made the active stage.
Starting == Prog.at = "progress" \/ (Prog.at \in Busy /\ Prog.stage = "preflight")

\* The stages go in order: no lease is of a later stage than the current one, and the
\* ramp adds users only after its first ones have their leases.
Order ==
  /\ \A l \in leases : Rank[l.stage] <= Rank[Current]
  /\ activeStage = None <=> Starting
  /\ Prog.at \in Busy => Prog.stage = Current /\ Prog.offset = 0
  /\ Prog.at = "active" => Rank[Prog.stage] > Rank[Current]
  /\ state # "stopping" => state = IF Prog.at = "active" THEN Prog.stage ELSE Current
  /\ Ramping.at \in {"idle", "list", "allocate", "issue"}
  /\ Ramping.at # "idle" =>
       Ramping.stage = "ramp" /\ Ramping.offset = ramp.currentVUs /\ ramp.at = "dispatch"
  /\ ramp.at # "off" => Rank[Current] >= 3 /\ ~(Prog.at \in Busy /\ Prog.stage = "ramp")
  /\ mon.at = "replace" => impaired /\ activeStage # None

\* No range of f exceeds the capped target of s.
Within(f, s) == \A w \in DOMAIN f : f[w].hi <= Target(s)

\* What is asked of the allocator, what is still to be issued, and the leases fit the
\* capped target of their stage.
Fits ==
  /\ \A r \in Routines :
       /\ job[r].at \in Busy => job[r].offset + job[r].num <= Target(job[r].stage)
       /\ job[r].at = "issue" => Within(job[r].todo, job[r].stage)
  /\ Prog.at \in Busy /\ Prog.stage # "ramp" => Prog.num = Target(Prog.stage)
  /\ mon.at = "replace" => Within(mon.todo, activeStage)
  /\ DisjointRanges

\* The users of a placement, and a placement that gives nobody twice.
Ranges(f) == UNION {Users(f[w]) : w \in DOMAIN f}

Apart(f) == \A v, w \in DOMAIN f : v # w => Users(f[v]) \cap Users(f[w]) = {}

\* Of the users 0 .. n - 1 of stage s, those that have a lease and those that the
\* dispatch has still to issue one for.
Splits(s, f, n) ==
  /\ Apart(f)
  /\ CoveredUsers(s) \cap Ranges(f) = {}
  /\ CoveredUsers(s) \cup Ranges(f) = 0 .. (n - 1)

\* How many users a dispatch that is over has placed.
Reached(s) == IF s = "ramp" THEN ramp.currentVUs ELSE Target(s)

\* Unless the run is impaired, the leases of the current stage and the ranges that its
\* dispatch has in hand share its users out; before it allocates, the stage has none.
Shares ==
  ~impaired =>
    /\ Prog.at \in {"list", "allocate"} => CoveredUsers(Prog.stage) = {}
    /\ \A r \in Routines :
         job[r].at = "issue" /\ job[r].stage = Current =>
           Splits(job[r].stage, job[r].todo, job[r].offset + job[r].num)
    /\ Prog.at \notin Busy /\ (Current = "ramp" => Ramping.at # "issue") =>
         CoveredUsers(Current) = 0 .. (Reached(Current) - 1)

\* The inductive invariant.
CoverInv == Shapes /\ Types /\ Order /\ Fits /\ Shares

-----------------------------------------------------------------------------
(* Numbers and ranges.                                                     *)

\* A stage's target is a number of users.
LEMMA Targets ==
  ASSUME plan \in Plans
  PROVE  \A s \in Stages : /\ Target(s) \in Nat
                           /\ plan.load[s] \in [targetVUs : Nat, startVUs : Nat, rampSteps : Nat]
<1>1. plan \in Plan
  BY PlansAssumption
<1>2. /\ plan.hardCap \in Nat
      /\ \A s \in Stages : plan.load[s] \in [targetVUs : Nat, startVUs : Nat, rampSteps : Nat]
  BY <1>1 DEF Plan
<1>3. QED BY <1>2 DEF Target, CappedTarget, Least

\* startAutoRamp asks for no more users than the target, at its start or later.
LEMMA RampNumbers ==
  ASSUME NEW load \in [targetVUs : Nat, startVUs : Nat, rampSteps : Nat],
         NEW target \in Nat, NEW step \in Nat
  PROVE  /\ RampStart(load, target) \in 0 .. target
         /\ RampVUs(load, target, step) \in Int
         /\ RampVUs(load, target, step) <= target
<1>1. load.startVUs \in Nat /\ load.rampSteps \in Nat
  OBVIOUS
<1>2. target \div 10 \in Nat
  OBVIOUS
<1>3. RampStart(load, target) \in 0 .. target
  BY <1>1, <1>2 DEF RampStart, Least, Greatest
<1>4. RampSteps(load) \in Nat \ {0}
  BY <1>1 DEF RampSteps
<1>5. (target - RampStart(load, target)) \div RampSteps(load) \in Int
  BY <1>3, <1>4
<1>6. RampIncrement(load, target) \in Int
  BY <1>5 DEF RampIncrement, Greatest
<1>7. RampIncrement(load, target) * step \in Int
  BY <1>6
<1>8. QED BY <1>3, <1>7 DEF RampVUs, Least

\* The placement p gives every user 0 .. target - 1 to exactly one of the workers W,
\* and every worker it uses at least one user and no more than its capacity.
Exact(p, cap, W, target) ==
  /\ DOMAIN p \subseteq W
  /\ \A w \in DOMAIN p : /\ p[w].lo \in Nat /\ p[w].hi \in Nat /\ p[w].hi <= target
                         /\ p[w].hi - p[w].lo \in 1 .. cap[w]
  /\ \A v, w \in DOMAIN p : v # w => Users(p[v]) \cap Users(p[w]) = {}
  /\ UNION {Users(p[w]) : w \in DOMAIN p} = 0 .. (target - 1)

\* What the dispatches rely on the allocator for, whichever order of the workers its sort
\* left. AllocatorProofs proves it.
AllocatesExactly ==
  \A W \in SUBSET Workers, cap \in [Workers -> Nat], n \in Nat :
    \A p \in Allocations(cap, W, n) : Exact(p, cap, W, n)

\* What the allocator returns for some of the registered workers.
LEMMA Placed ==
  ASSUME AllocatesExactly, plan \in Plans, NEW W \in SUBSET Workers, NEW n \in Nat,
         NEW p \in Allocations(EffectiveCapacity, W, n)
  PROVE  /\ IsPlacement(p) /\ Apart(p) /\ Ranges(p) = 0 .. (n - 1)
         /\ \A w \in DOMAIN p : p[w].hi <= n
<1> DEFINE cap == EffectiveCapacity
<1>1. cap \in [Workers -> Nat]
  <2>1. plan \in Plan
    BY PlansAssumption
  <2>2. plan.maxVUs \in [Workers -> Nat]
    BY <2>1 DEF Plan
  <2>3. QED BY <2>2 DEF EffectiveCapacity
<1>2. p \in Allocations(cap, W, n)
  OBVIOUS
<1> HIDE DEF cap
<1>3. Exact(p, cap, W, n)
  BY Zenon, <1>1, <1>2 DEF AllocatesExactly
<1>4. DOMAIN p \subseteq Workers
  BY Zenon, <1>3 DEF Exact
<1>5. QED BY Zenon, <1>3, <1>4 DEF Exact, IsPlacement, Apart, Ranges

\* A ramp step places its users after those that are already there.
LEMMA Shifted ==
  ASSUME NEW f, IsPlacement(f), Apart(f), NEW n \in Nat, Ranges(f) = 0 .. (n - 1),
         \A w \in DOMAIN f : f[w].hi <= n, NEW k \in Nat
  PROVE  LET g == Offset(f, k)
         IN  /\ IsPlacement(g) /\ Apart(g) /\ Ranges(g) = k .. ((k + n) - 1)
             /\ \A w \in DOMAIN g : g[w].hi <= k + n
<1> DEFINE g == Offset(f, k)
<1>1. DOMAIN g = DOMAIN f /\ \A w \in DOMAIN f : g[w] = VUIDRange(f[w].lo + k, f[w].hi + k)
  BY DEF Offset
<1> HIDE DEF g
<1>2. \A w \in DOMAIN f : f[w].lo \in Nat /\ f[w].hi \in Nat
  BY DEF IsPlacement
<1>3. \A w \in DOMAIN f : /\ g[w].lo = f[w].lo + k /\ g[w].hi = f[w].hi + k
  BY <1>1 DEF VUIDRange
<1>4. IsPlacement(g) /\ \A w \in DOMAIN g : g[w].hi <= k + n
  BY <1>1, <1>2, <1>3 DEF IsPlacement
<1>5. \A w \in DOMAIN f : \A x \in Int : x \in Users(g[w]) <=> x - k \in Users(f[w])
  <2> TAKE w \in DOMAIN f
  <2>1. /\ f[w].lo \in Nat /\ f[w].hi \in Nat
        /\ g[w].lo = f[w].lo + k /\ g[w].hi = f[w].hi + k
    BY <1>2, <1>3
  <2>2. /\ Users(f[w]) = f[w].lo .. (f[w].hi - 1)
        /\ Users(g[w]) = (f[w].lo + k) .. ((f[w].hi + k) - 1)
    BY <2>1 DEF Users
  <2> TAKE x \in Int
  <2> DEFINE a == f[w].lo
             b == f[w].hi
  <2>3. a \in Nat /\ b \in Nat /\ Users(f[w]) = a .. (b - 1)
        /\ Users(g[w]) = (a + k) .. ((b + k) - 1)
    BY Zenon, <2>1, <2>2
  <2> HIDE DEF a, b
  <2>4. QED BY <2>3
<1>6. \A w \in DOMAIN f : Users(g[w]) \subseteq Int /\ Users(f[w]) \subseteq Int
  BY DEF Users
<1>7. Apart(g)
  <2> SUFFICES ASSUME NEW v \in DOMAIN g, NEW w \in DOMAIN g, v # w,
                      NEW x, x \in Users(g[v]), x \in Users(g[w])
               PROVE  FALSE
    BY Zenon DEF Apart
  <2>1. x \in Int /\ x - k \in Users(f[v]) /\ x - k \in Users(f[w])
    BY Zenon, <1>1, <1>5, <1>6
  <2>2. QED BY <1>1, <2>1 DEF Apart
<1>8. Ranges(g) = k .. ((k + n) - 1)
  <2>1. ASSUME NEW x \in Ranges(g) PROVE x \in k .. ((k + n) - 1)
    <3>1. PICK w \in DOMAIN f : x \in Users(g[w])
      BY <1>1 DEF Ranges
    <3>2. x \in Int /\ x - k \in Users(f[w])
      BY <1>5, <1>6, <3>1
    <3>3. x - k \in 0 .. (n - 1)
      BY Zenon, <3>2 DEF Ranges
    <3>4. QED BY <3>2, <3>3
  <2>2. ASSUME NEW x \in k .. ((k + n) - 1) PROVE x \in Ranges(g)
    <3>1. x \in Int /\ x - k \in 0 .. (n - 1)
      OBVIOUS
    <3>2. PICK w \in DOMAIN f : x - k \in Users(f[w])
      BY Zenon, <3>1 DEF Ranges
    <3>3. x \in Users(g[w])
      BY <1>5, <3>1, <3>2
    <3>4. QED BY <1>1, <3>3 DEF Ranges
  <2>3. QED BY Zenon, <2>1, <2>2
<1>9. QED BY Zenon, <1>4, <1>7, <1>8 DEF g

\* The ranges f, but for that of w.
Lacks(g, f, w) ==
  /\ IsPlacement(g) /\ DOMAIN g = DOMAIN f \ {w}
  /\ \A v \in DOMAIN g : g[v] = f[v]
  /\ Apart(f) => Apart(g) /\ Users(f[w]) \cap Ranges(g) = {}
  /\ Ranges(f) = Users(f[w]) \cup Ranges(g)

\* The ranges left once one has been dealt with.
LEMMA Fewer ==
  ASSUME NEW f, IsPlacement(f), NEW w \in DOMAIN f
  PROVE  Lacks(Without(f, w), f, w)
<1> DEFINE g == Without(f, w)
<1>1. DOMAIN g = DOMAIN f \ {w} /\ \A v \in DOMAIN g : g[v] = f[v]
  BY DEF Without
<1> HIDE DEF g
<1>2. IsPlacement(g)
  BY <1>1 DEF IsPlacement
<1>3. Apart(f) => Apart(g) /\ Users(f[w]) \cap Ranges(g) = {}
  BY <1>1 DEF Apart, Ranges
<1>4. Ranges(f) = Users(f[w]) \cup Ranges(g)
  BY <1>1 DEF Ranges
<1>5. Lacks(g, f, w)
  BY Zenon, <1>1, <1>2, <1>3, <1>4 DEF Lacks
<1>6. QED BY Zenon, <1>5 DEF g

-----------------------------------------------------------------------------
(* What the lease manager's calls do to the users covered.                 *)

\* Lease l is for user x of stage s.
Covers(l, s, x) == l.stage = s /\ x \in Users(LeaseRange(l))

\* The users of a stage that have a lease, before a step and after it.
LEMMA Covered ==
  /\ \A s, x : x \in CoveredUsers(s) <=> \E l \in leases : Covers(l, s, x)
  /\ \A s, x : x \in CoveredUsers(s)' <=> \E l \in leases' : Covers(l, s, x)
BY Zenon DEF CoveredUsers, Covers

\* The leases are those of before, but for the mark that they have run out.
Relabelled ==
  /\ \A k \in leases' : \E l \in leases : k.stage = l.stage /\ k.lo = l.lo /\ k.hi = l.hi
  /\ \A l \in leases : \E k \in leases' : k.stage = l.stage /\ k.lo = l.lo /\ k.hi = l.hi

\* Then they cover the same users.
LEMMA RelabelledCovers ==
  ASSUME Relabelled
  PROVE  \A s : CoveredUsers(s)' = CoveredUsers(s)
<1> TAKE s
<1>1. \A l, k, x : k.stage = l.stage /\ k.lo = l.lo /\ k.hi = l.hi
                   => (Covers(k, s, x) <=> Covers(l, s, x))
  BY Zenon DEF Covers, LeaseRange
<1>2. \A x : (\E l \in leases' : Covers(l, s, x)) <=> (\E l \in leases : Covers(l, s, x))
  BY Zenon, <1>1 DEF Relabelled
<1>3. \A x : x \in CoveredUsers(s)' <=> x \in CoveredUsers(s)
  BY Zenon, <1>2, Covered
<1> QED BY Zenon, <1>3

\* Renewing a worker's leases, and a lease running out.
LEMMA RelabelFacts ==
  ASSUME Shapes, DisjointRanges, plan' = plan, NEW v, RenewWorkerLeases(v) \/ RunOut(v)
  PROVE  Relabelled /\ DisjointRanges'
<1> DEFINE Same(k, l) == k.stage = l.stage /\ k.lo = l.lo /\ k.hi = l.hi
<1>1. \A l \in leases : \A o : Same([l EXCEPT !.overdue = o], l)
  BY DEF Shapes
<1>2. /\ Relabelled
      /\ \A k, m \in leases' : k # m =>
           \E l, n \in leases : l # n /\ Same(k, l) /\ Same(m, n)
  <2>1. CASE RenewWorkerLeases(v)
    <3> DEFINE F(l) == [l EXCEPT !.overdue = @ /\ l.worker # v]
    <3>1. leases' = {F(l) : l \in leases}
      BY <2>1 DEF RenewWorkerLeases
    <3>2. \A l \in leases : Same(F(l), l)
      BY <1>1
    <3> HIDE DEF F
    <3>3. Relabelled
      BY <3>1, <3>2 DEF Relabelled
    <3>4. ASSUME NEW k \in leases', NEW m \in leases', k # m
          PROVE  \E l, n \in leases : l # n /\ Same(k, l) /\ Same(m, n)
      <4>1. PICK l \in leases : k = F(l)
        BY <3>1
      <4>2. PICK n \in leases : m = F(n)
        BY <3>1
      <4> HIDE DEF Same
      <4>3. QED BY <3>2, <3>4, <4>1, <4>2
    <3>5. QED BY <3>3, <3>4
  <2>2. CASE RunOut(v)
    <3>1. PICK l \in leases : leases' = (leases \ {l}) \cup {[l EXCEPT !.overdue = TRUE]}
      BY <2>2 DEF RunOut
    <3> DEFINE q == [l EXCEPT !.overdue = TRUE]
    <3>2. Same(q, l) /\ leases' = (leases \ {l}) \cup {q}
      BY <1>1, <3>1
    <3> HIDE DEF q
    <3>3. Relabelled
      BY <3>2 DEF Relabelled
    <3>4. ASSUME NEW k \in leases', NEW m \in leases', k # m
          PROVE  \E a, n \in leases : a # n /\ Same(k, a) /\ Same(m, n)
      BY <3>2, <3>4
    <3>5. QED BY <3>3, <3>4
  <2>3. QED BY <2>1, <2>2
<1>3. ASSUME NEW k \in leases', NEW m \in leases', k # m, k.stage = m.stage
      PROVE  Users(LeaseRange(k)) \cap Users(LeaseRange(m)) = {}
  <2>1. PICK l \in leases, n \in leases : l # n /\ Same(k, l) /\ Same(m, n)
    BY <1>2, <1>3
  <2>2. Users(LeaseRange(l)) \cap Users(LeaseRange(n)) = {}
    BY Zenon, <1>3, <2>1 DEF DisjointRanges
  <2>3. LeaseRange(k) = LeaseRange(l) /\ LeaseRange(m) = LeaseRange(n)
    BY <2>1 DEF LeaseRange
  <2>4. QED BY <2>2, <2>3
<1>4. \A k \in leases' : k.hi <= Target(k.stage)'
  <2>1. \A s : Target(s)' = Target(s)
    BY DEF Target
  <2>2. QED BY Zenon, <1>2, <2>1 DEF Relabelled, DisjointRanges
<1>5. QED BY Zenon, <1>2, <1>3, <1>4 DEF DisjointRanges

\* Two ranges have a user in common exactly if the lease manager finds them to overlap.
LEMMA OverlapUsers ==
  ASSUME NEW r, NEW q, r.lo \in Nat, r.hi \in Nat, q.lo \in Nat, q.hi \in Nat
  PROVE  Overlaps(r, q) <=> \E x : x \in Users(r) /\ x \in Users(q)
<1> DEFINE a == r.lo
           b == r.hi
           c == q.lo
           d == q.hi
<1>1. /\ Users(r) = a .. (b - 1) /\ Users(q) = c .. (d - 1)
      /\ Overlaps(r, q) <=> a < b /\ c < d /\ a < d /\ c < b
      /\ a \in Nat /\ b \in Nat /\ c \in Nat /\ d \in Nat
  BY DEF Users, Overlaps
<1> HIDE DEF a, b, c, d
<1>2. ASSUME Overlaps(r, q) PROVE \E x : x \in Users(r) /\ x \in Users(q)
  <2>1. CASE a <= c
    <3>1. c \in Users(r) /\ c \in Users(q)
      BY <1>1, <1>2, <2>1
    <3>2. QED BY <3>1
  <2>2. CASE c < a
    <3>1. a \in Users(r) /\ a \in Users(q)
      BY <1>1, <1>2, <2>2
    <3>2. QED BY <3>1
  <2>3. QED BY <1>1, <2>1, <2>2
<1>3. ASSUME NEW x, x \in Users(r), x \in Users(q) PROVE Overlaps(r, q)
  BY <1>1, <1>3
<1>4. QED BY Zenon, <1>2, <1>3

\* IssueLease keeps the leases of a stage apart, and covers the users of the range if
\* none of them has a lease of the stage.
LEMMA Issued ==
  ASSUME plan \in Plans, \A l \in leases : l.stage \in Stages /\ l.lo \in Nat /\ l.hi \in Nat,
         DisjointRanges, plan' = plan, NEW w, NEW s \in Stages,
         NEW r, r.lo \in Nat, r.hi \in Nat, r.hi <= Target(s), IssueLease(w, s, r)
  PROVE  /\ \A l \in leases' : \/ l \in leases
                               \/ l.stage = s /\ l.lo \in Nat /\ l.hi \in Nat
         /\ DisjointRanges'
         /\ \A q : q # s => CoveredUsers(q)' = CoveredUsers(q)
         /\ CoveredUsers(s) \cap Users(r) = {}
            => CoveredUsers(s)' = CoveredUsers(s) \cup Users(r)
<1> DEFINE n == Lease(w, s, r)
           met == \E l \in leases : l.stage = s /\ Overlaps(LeaseRange(l), r)
<1>1. n.stage = s /\ n.lo = r.lo /\ n.hi = r.hi /\ Users(LeaseRange(n)) = Users(r)
  BY DEF Lease, LeaseRange, Users, VUIDRange
<1>2. leases' = IF met THEN leases ELSE leases \cup {n}
  BY DEF IssueLease
<1> HIDE DEF n
<1>3. \A l \in leases : Overlaps(LeaseRange(l), r)
                        <=> \E x : x \in Users(LeaseRange(l)) /\ x \in Users(r)
  <2> TAKE l \in leases
  <2>1. LeaseRange(l).lo \in Nat /\ LeaseRange(l).hi \in Nat
    BY DEF LeaseRange, VUIDRange
  <2>2. QED BY Zenon, <2>1, OverlapUsers
<1>4. met <=> \E x : x \in CoveredUsers(s) /\ x \in Users(r)
  BY Zenon, <1>3, Covered DEF Covers
<1> HIDE DEF met
<1>5. \A l \in leases' : \/ l \in leases
                         \/ l.stage = s /\ l.lo \in Nat /\ l.hi \in Nat
  BY <1>1, <1>2
<1>6. \A t : Target(t)' = Target(t)
  BY DEF Target
<1>7. DisjointRanges'
  <2>1. CASE met
    <3>1. leases' = leases
      BY <1>2, <2>1
    <3>2. QED BY Zenon, <1>6, <3>1 DEF DisjointRanges
  <2>2. CASE ~met
    <3>1. leases' = leases \cup {n}
      BY <1>2, <2>2
    <3>2. \A l \in leases : l.stage = s => Users(LeaseRange(l)) \cap Users(r) = {}
      BY Zenon, <1>3, <2>2 DEF met
    <3>3. ASSUME NEW l \in leases', NEW m \in leases', l # m, l.stage = m.stage
          PROVE  Users(LeaseRange(l)) \cap Users(LeaseRange(m)) = {}
      <4>1. CASE l \in leases /\ m \in leases
        BY Zenon, <3>3, <4>1 DEF DisjointRanges
      <4>2. CASE l \in leases /\ m = n
        BY <1>1, <3>2, <3>3, <4>2
      <4>3. CASE l = n /\ m \in leases
        BY <1>1, <3>2, <3>3, <4>3
      <4>4. QED BY <3>1, <3>3, <4>1, <4>2, <4>3
    <3>4. \A l \in leases' : l.hi <= Target(l.stage)
      BY <1>1, <3>1 DEF DisjointRanges
    <3>5. QED BY Zenon, <1>6, <3>3, <3>4 DEF DisjointRanges
  <2>3. QED BY <2>1, <2>2
<1>8. ASSUME NEW q, q # s PROVE CoveredUsers(q)' = CoveredUsers(q)
  <2>1. \A x : ~Covers(n, q, x)
    BY Zenon, <1>1, <1>8 DEF Covers
  <2>2. \A x : (\E l \in leases' : Covers(l, q, x)) <=> (\E l \in leases : Covers(l, q, x))
    BY <1>2, <2>1
  <2>3. \A x : x \in CoveredUsers(q)' <=> x \in CoveredUsers(q)
    BY Zenon, <2>2, Covered
  <2>4. QED BY Zenon, <2>3
<1>9. ASSUME CoveredUsers(s) \cap Users(r) = {}
      PROVE  CoveredUsers(s)' = CoveredUsers(s) \cup Users(r)
  <2>1. leases' = leases \cup {n}
    BY <1>2, <1>4, <1>9
  <2>2. \A x : Covers(n, s, x) <=> x \in Users(r)
    BY Zenon, <1>1 DEF Covers
  <2>3. \A x : (\E l \in leases' : Covers(l, s, x))
               <=> (\E l \in leases : Covers(l, s, x)) \/ x \in Users(r)
    BY <2>1, <2>2
  <2>4. \A x : x \in CoveredUsers(s)' <=> x \in CoveredUsers(s) \/ x \in Users(r)
    BY Zenon, <2>3, Covered
  <2>5. QED BY Zenon, <2>4
<1>10. QED BY Zenon, <1>5, <1>7, <1>8, <1>9

\* Revoking and expiring leave fewer leases.
LEMMA Revoked ==
  ASSUME DisjointRanges, plan' = plan, leases' \subseteq leases
  PROVE  DisjointRanges'
<1>1. \A t : Target(t)' = Target(t)
  BY DEF Target
<1>2. QED BY <1>1 DEF DisjointRanges

-----------------------------------------------------------------------------
(* The inductive invariant.                                                *)

\* A run has just entered its preflight.
LEMMA CoverInit == Init => CoverInv
<1> SUFFICES ASSUME Init PROVE CoverInv
  OBVIOUS
<1>1. plan \in Plans /\ state = "preflight" /\ activeStage = None /\ leases = {}
  BY DEF Init
<1>2. Target("preflight") \in Nat
  BY <1>1, Targets DEF Stages
<1>3. /\ Prog = [at |-> "revoke", stage |-> "preflight", num |-> Target("preflight"), offset |-> 0,
                 seen |-> {}, todo |-> NoRanges]
      /\ Ramping = Idle
      /\ job = [r \in Routines |-> job[r]]
  BY Zenon DEF Init, Prog, Ramping, Routines, Idle
<1>4. mon = Watching /\ ramp = [at |-> "off", step |-> 0, currentVUs |-> 0]
  BY DEF Init
<1>5. IsPlacement(NoRanges)
  BY DEF IsPlacement, NoRanges
<1>6. Shapes
  BY <1>1, <1>4 DEF Shapes, Watching
<1>7. IsJob(Prog) /\ IsJob(Ramping)
  BY <1>2, <1>3, <1>5 DEF IsJob, Idle, Busy, Stages
<1>8. Types
  BY <1>1, <1>3, <1>4, <1>5, <1>7 DEF Types, Prog, Ramping, Routines, Watching, IsRamp, Stages
<1>9. Order
  BY <1>1, <1>3, <1>4 DEF Order, Starting, Current, Busy, Idle, Watching
<1>10. Fits
  BY <1>1, <1>2, <1>3, <1>4
     DEF Fits, Prog, Ramping, Routines, Busy, Idle, Watching, DisjointRanges
<1>11. Shares
  BY <1>3 DEF Shares, Prog, Ramping, Routines, Idle, Busy
<1>12. QED BY <1>6, <1>8, <1>9, <1>10, <1>11 DEF CoverInv

\* A step beside the dispatches: what it must leave alone, and what it may do to the
\* leases and to the monitor.
LEMMA Aside ==
  ASSUME CoverInv, plan' = plan, activeStage' = activeStage, job' = job, ramp' = ramp,
         state' = state \/ state' = "stopping", Shapes',
         \A l \in leases' : /\ l.stage \in Stages /\ l.lo \in Nat /\ l.hi \in Nat
                            /\ Rank[l.stage] <= Rank[Current],
         DisjointRanges', IsPlacement(mon'.todo),
         mon'.at = "replace" => impaired' /\ activeStage # None /\ Within(mon'.todo, activeStage),
         impaired' \/ (~impaired /\ \A s : CoveredUsers(s)' = CoveredUsers(s))
  PROVE  CoverInv'
<1>1. \A s : Target(s)' = Target(s) /\ Reached(s)' = Reached(s)
  BY DEF Target, Reached
<1>2. Current' = Current /\ Prog' = Prog /\ Ramping' = Ramping
  BY DEF Current, Prog, Ramping
<1>3. Starting' <=> Starting
  BY <1>2 DEF Starting
<1>4. Types'
  BY DEF CoverInv, Types
<1>5. Order'
  BY <1>2, <1>3 DEF CoverInv, Order
<1>6. \A f, s : Within(f, s)' <=> Within(f, s)
  BY <1>1 DEF Within
<1>7. Fits'
  BY Zenon, <1>1, <1>2, <1>6 DEF CoverInv, Fits
<1>8. Shares'
  <2> SUFFICES ASSUME ~impaired' PROVE Shares'
    BY DEF Shares
  <2>1. ~impaired /\ \A s : CoveredUsers(s)' = CoveredUsers(s)
    OBVIOUS
  <2>2. \A s, f, n : Splits(s, f, n)' <=> Splits(s, f, n)
    BY <2>1 DEF Splits
  <2>3. QED BY <1>1, <1>2, <2>1, <2>2 DEF CoverInv, Shares
<1>9. QED BY <1>4, <1>5, <1>7, <1>8 DEF CoverInv

\* The workers' heartbeats, and their silence.
LEMMA WorkerCovers ==
  ASSUME CoverInv, NEW w \in Workers, Worker(w)
  PROVE  CoverInv'
<1>1. UNCHANGED <<plan, activeStage, state, job, ramp, mon, impaired>>
  BY DEF Worker, RegisterWorker, Heartbeat, HeartbeatRenew, FallSilent, RunOut,
         runVars, historyVars
<1>2. CASE leases' = leases
  <2>1. Shapes' /\ DisjointRanges' /\ \A s : CoveredUsers(s)' = CoveredUsers(s)
    BY <1>1, <1>2 DEF CoverInv, Shapes, Fits, DisjointRanges, CoveredUsers, Target
  <2>2. QED BY Zenon, <1>1, <1>2, <2>1, Aside DEF CoverInv, Types, Order, Fits
<1>3. CASE RenewWorkerLeases(w) \/ RunOut(w)
  <2>1. Shapes'
    BY <1>1, <1>3, RenewFacts DEF CoverInv
  <2>2. Relabelled /\ DisjointRanges'
    BY <1>1, <1>3, RelabelFacts DEF CoverInv, Fits
  <2>3. \A s : CoveredUsers(s)' = CoveredUsers(s)
    BY Zenon, <2>2, RelabelledCovers
  <2>4. \A l \in leases' : /\ l.stage \in Stages /\ l.lo \in Nat /\ l.hi \in Nat
                           /\ Rank[l.stage] <= Rank[Current]
    BY <2>2 DEF Relabelled, CoverInv, Types, Order
  <2>5. QED BY Zenon, <1>1, <2>1, <2>2, <2>3, <2>4, Aside DEF CoverInv, Types, Order, Fits
<1>4. QED BY <1>2, <1>3 DEF Worker, RegisterWorker, Heartbeat, HeartbeatRenew, FallSilent

\* The heartbeat monitor: it takes leases away and issues others, and the run is
\* impaired from then on.
LEMMA MonitorCovers ==
  ASSUME AllocatesExactly, CoverInv, Shapes', Monitor
  PROVE  CoverInv'
<1> USE DEF CoverInv
<1>1. /\ UNCHANGED <<plan, activeStage, job, ramp>>
      /\ state' = state \/ state' = "stopping"
  BY Zenon DEF Monitor, DetectLostWorkers, ListWorkerRunIDs, RevokeDead, RemoveWorker, onWorkerLost,
         HandleWorkerCapacityLost, handleFailFastLocked, handleReplaceIfPossibleLocked,
         ReplaceNext, MonitorExpires, runVars
<1>2. IsPlacement(NoRanges)
  BY DEF IsPlacement, NoRanges
<1>3. Handled.at = "next" /\ Handled.todo = NoRanges
  BY DEF Handled, Shapes
<1>same. leases' = leases => /\ DisjointRanges'
                             /\ \A s : CoveredUsers(s)' = CoveredUsers(s)
  BY <1>1 DEF Fits, DisjointRanges, CoveredUsers, Target
<1>typed. \A l \in leases : /\ l.stage \in Stages /\ l.lo \in Nat /\ l.hi \in Nat
                            /\ Rank[l.stage] <= Rank[Current]
  BY Zenon DEF Types, Order
<1>4. CASE DetectLostWorkers \/ ListWorkerRunIDs
  <2>1. leases' = leases /\ impaired' = impaired
    BY Zenon, <1>4 DEF DetectLostWorkers, ListWorkerRunIDs, historyVars
  <2>2. mon'.at # "replace" /\ mon'.todo = mon.todo
    BY Zenon, <1>4 DEF DetectLostWorkers, ListWorkerRunIDs, Shapes
  <2>3. IsPlacement(mon'.todo)
    BY <2>2 DEF Types
  <2>4. /\ DisjointRanges' /\ (impaired' \/ (~impaired /\ \A s : CoveredUsers(s)' = CoveredUsers(s)))
        /\ \A l \in leases' : /\ l.stage \in Stages /\ l.lo \in Nat /\ l.hi \in Nat
                              /\ Rank[l.stage] <= Rank[Current]
    BY Zenon, <1>same, <1>typed, <2>1
  <2>5. QED BY Zenon, <1>1, <2>2, <2>3, <2>4, Aside
<1>5. CASE RevokeDead \/ RemoveWorker
  <2>1. leases' \subseteq leases /\ impaired'
    BY <1>5 DEF RevokeDead, RemoveWorker, RevokeWorkerLeases
  <2>2. mon'.at # "replace" /\ mon'.todo = mon.todo
    BY <1>5 DEF RevokeDead, RemoveWorker, Shapes
  <2>3. IsPlacement(mon'.todo)
    BY <2>2 DEF Types
  <2>4. DisjointRanges'
    BY <1>1, <2>1, Revoked DEF Fits
  <2>5. QED BY Zenon, <1>1, <1>typed, <2>1, <2>2, <2>3, <2>4, Aside
<1>6. CASE onWorkerLost
  <2>1. leases' = leases /\ impaired'
    BY <1>6 DEF onWorkerLost
  <2>2. mon' = Handled \/ \E p \in ReallocateAssignments :
                            mon' = [mon EXCEPT !.at = "replace", !.todo = p]
    BY Zenon, <1>6 DEF onWorkerLost, HandleWorkerCapacityLost, handleFailFastLocked,
                handleReplaceIfPossibleLocked
  <2>3. IsPlacement(mon'.todo) /\ (mon'.at = "replace" =>
          activeStage # None /\ Within(mon'.todo, activeStage))
    <3>1. CASE mon' = Handled
      BY <1>2, <1>3, <3>1
    <3>2. ASSUME NEW p \in ReallocateAssignments,
                 mon' = [mon EXCEPT !.at = "replace", !.todo = p]
          PROVE  IsPlacement(mon'.todo) /\ activeStage # None /\ Within(mon'.todo, activeStage)
      <4>1. mon'.todo = p
        BY <3>2 DEF Shapes
      <4>2. /\ activeStage # None
            /\ p \in Allocations(EffectiveCapacity, Registered \ {mon.worker}, Target(activeStage))
        BY DEF ReallocateAssignments
      <4>3. activeStage \in Stages /\ plan \in Plans
        BY <4>2 DEF Types
      <4>4. Target(activeStage) \in Nat /\ Registered \ {mon.worker} \in SUBSET Workers
        BY <4>3, Targets DEF Registered
      <4>5. IsPlacement(p) /\ \A w \in DOMAIN p : p[w].hi <= Target(activeStage)
        BY Zenon, <4>2, <4>3, <4>4, Placed
      <4>6. QED BY Zenon, <4>1, <4>2, <4>5 DEF Within
    <3>3. QED BY Zenon, <2>2, <3>1, <3>2
  <2>4. QED BY Zenon, <1>1, <1>same, <1>typed, <2>1, <2>3, Aside
<1>7. CASE ReplaceNext
  <2>1. PICK w \in DOMAIN mon.todo :
          /\ IssueLease(w, activeStage, mon.todo[w])
          /\ mon' = IF DOMAIN mon.todo = {w} THEN Handled
                    ELSE [mon EXCEPT !.todo = Without(@, w)]
    BY <1>7 DEF ReplaceNext
  <2>2. mon.at = "replace" /\ impaired' = impaired
    BY <1>7 DEF ReplaceNext, historyVars
  <2>3. /\ impaired /\ activeStage # None /\ Within(mon.todo, activeStage)
        /\ activeStage \in Stages /\ plan \in Plans /\ Current = activeStage
    BY <2>2 DEF Order, Fits, Types, Current
  <2>4. /\ mon.todo[w].lo \in Nat /\ mon.todo[w].hi \in Nat
        /\ mon.todo[w].hi <= Target(activeStage)
        /\ IsPlacement(mon.todo)
    BY <2>3 DEF Types, IsPlacement, Within
  <2>5. /\ \A l \in leases' : \/ l \in leases
                              \/ l.stage = activeStage /\ l.lo \in Nat /\ l.hi \in Nat
        /\ DisjointRanges'
    <3>1. /\ \A l \in leases : l.stage \in Stages /\ l.lo \in Nat /\ l.hi \in Nat
          /\ DisjointRanges
      BY DEF Types, Fits
    <3>2. QED BY Zenon, <1>1, <2>1, <2>3, <2>4, <3>1, Issued
  <2>6. \A l \in leases' : /\ l.stage \in Stages /\ l.lo \in Nat /\ l.hi \in Nat
                           /\ Rank[l.stage] <= Rank[Current]
    <3>1. Rank[activeStage] <= Rank[activeStage]
      BY <2>3 DEF Rank, Stages
    <3>2. QED BY Zenon, <1>typed, <2>3, <2>5, <3>1
  <2>7. IsPlacement(mon'.todo) /\ (mon'.at = "replace" => Within(mon'.todo, activeStage))
    <3>1. CASE mon' = Handled
      BY <1>2, <1>3, <3>1
    <3>2. CASE mon' = [mon EXCEPT !.todo = Without(@, w)]
      <4>1. mon'.todo = Without(mon.todo, w)
        BY <3>2 DEF Shapes
      <4>2. Lacks(mon'.todo, mon.todo, w)
        BY Zenon, <2>4, <4>1, Fewer
      <4>3. QED BY Zenon, <2>3, <4>2 DEF Within, Lacks
    <3>3. QED BY <2>1, <3>1, <3>2
  <2>8. QED BY Zenon, <1>1, <2>2, <2>3, <2>5, <2>6, <2>7, Aside
<1>8. CASE MonitorExpires
  <2>1. /\ leases' = {l \in leases : ~l.overdue} /\ mon' = Watching
        /\ impaired' = (impaired \/ \E l \in leases : l.overdue)
    BY <1>8 DEF MonitorExpires, ExpireLeases
  <2>2. mon'.at # "replace" /\ mon'.todo = NoRanges
    BY <2>1 DEF Watching
  <2>3. DisjointRanges' /\ leases' \subseteq leases
    BY <1>1, <2>1, Revoked DEF Fits
  <2>4. ASSUME ~impaired' PROVE ~impaired /\ leases' = leases
    BY Zenon, <2>1, <2>4
  <2>5. /\ (impaired' \/ (~impaired /\ \A s : CoveredUsers(s)' = CoveredUsers(s)))
        /\ \A l \in leases' : /\ l.stage \in Stages /\ l.lo \in Nat /\ l.hi \in Nat
                              /\ Rank[l.stage] <= Rank[Current]
    BY Zenon, <1>same, <1>typed, <2>3, <2>4
  <2>6. QED BY Zenon, <1>1, <1>2, <2>2, <2>3, <2>5, Aside
<1>9. QED BY Zenon, <1>4, <1>5, <1>6, <1>7, <1>8 DEF Monitor

-----------------------------------------------------------------------------
(* The stages.                                                             *)

\* What a step that leaves the leases alone leaves alone.
Kept ==
  /\ Shapes' /\ DisjointRanges' /\ plan' \in Plans /\ IsPlacement(mon.todo)'
  /\ \A l \in leases' : l.stage \in Stages /\ l.lo \in Nat /\ l.hi \in Nat
  /\ \A s : CoveredUsers(s)' = CoveredUsers(s) /\ Target(s)' = Target(s)
  /\ \A s, f, n : Splits(s, f, n)' <=> Splits(s, f, n)
  /\ \A f, s : Within(f, s)' <=> Within(f, s)

\* A step that leaves leases and monitor alone leaves the users covered.
LEMMA LeasesKept ==
  ASSUME CoverInv, plan' = plan, leases' = leases, mon' = mon
  PROVE  Kept
<1>1. \A s : CoveredUsers(s)' = CoveredUsers(s) /\ Target(s)' = Target(s)
  BY DEF CoveredUsers, Target
<1>2. Shapes' /\ DisjointRanges'
  BY Zenon, <1>1 DEF CoverInv, Shapes, Fits, DisjointRanges
<1>3. plan' \in Plans /\ \A l \in leases' : l.stage \in Stages /\ l.lo \in Nat /\ l.hi \in Nat
  BY Zenon DEF CoverInv, Types
<1>4. IsPlacement(mon.todo)'
  BY Zenon DEF CoverInv, Types, IsPlacement
<1>5. /\ \A s, f, n : Splits(s, f, n)' <=> Splits(s, f, n)
      /\ \A f, s : Within(f, s)' <=> Within(f, s)
  BY Zenon, <1>1 DEF Splits, Within
<1>6. QED BY Zenon, <1>1, <1>2, <1>3, <1>4, <1>5 DEF Kept

\* A step of the progression's goroutine leaves the ramp's where it is.
LEMMA ProgressionOnly ==
  ASSUME Types, NEW j, job' = [job EXCEPT !["progression"] = j]
  PROVE  Prog' = j /\ Ramping' = Ramping /\ job' = [r \in Routines |-> job'[r]]
BY Zenon DEF Types, Prog, Ramping, Routines

\* A goroutine at a, for the first n users of s, or for n users from the k-th on.
FromStart(a, s, n) == [Idle EXCEPT !.at = a, !.stage = s, !.num = n]
FromUser(a, s, n, k) == [Idle EXCEPT !.at = a, !.stage = s, !.num = n, !.offset = k]

\* What a goroutine starts its dispatch with.
LEMMA Opened ==
  ASSUME NEW a, NEW s, NEW n, NEW k
  PROVE  /\ FromStart(a, s, n) =
              [at |-> a, stage |-> s, num |-> n, offset |-> 0, seen |-> {}, todo |-> NoRanges]
         /\ FromUser(a, s, n, k) =
              [at |-> a, stage |-> s, num |-> n, offset |-> k, seen |-> {}, todo |-> NoRanges]
<1> DEFINE i == [Idle EXCEPT !.at = a]
           j == [i EXCEPT !.stage = s]
           m == [j EXCEPT !.num = n]
           o == [m EXCEPT !.offset = k]
<1>1. i = [at |-> a, stage |-> None, num |-> 0, offset |-> 0, seen |-> {}, todo |-> NoRanges]
  BY DEF Idle
<1> HIDE DEF i
<1>2. j = [at |-> a, stage |-> s, num |-> 0, offset |-> 0, seen |-> {}, todo |-> NoRanges]
  BY <1>1
<1> HIDE DEF j
<1>3. m = [at |-> a, stage |-> s, num |-> n, offset |-> 0, seen |-> {}, todo |-> NoRanges]
  BY <1>2
<1> HIDE DEF m
<1>4. o = [at |-> a, stage |-> s, num |-> n, offset |-> k, seen |-> {}, todo |-> NoRanges]
  BY <1>3
<1>5. QED BY Zenon, <1>3, <1>4 DEF i, j, m, FromStart, FromUser

\* The invariant's statements about both goroutines, one at a time.
LEMMA Both ==
  /\ (\A r \in Routines : IsJob(job[r])) <=> IsJob(Prog) /\ IsJob(Ramping)
  /\ (\A r \in Routines : IsJob(job[r]))' <=> IsJob(Prog') /\ IsJob(Ramping')
BY DEF Routines, Prog, Ramping

\* The preflight's stage becomes the active one, after its dispatch.
LEMMA StartCovers ==
  ASSUME CoverInv, startStageProgression
  PROVE  CoverInv'
<1>1. /\ plan' = plan /\ state' = state /\ leases' = leases /\ ramp' = ramp /\ mon' = mon
      /\ impaired' = impaired /\ activeStage' = "preflight"
      /\ Prog.at = "progress" /\ mon.at # "replace"
      /\ job' = [job EXCEPT !["progression"] = Idle]
  BY DEF startStageProgression, LockFree, historyVars, Prog
<1>2. Prog' = Idle /\ Ramping' = Ramping /\ job' = [r \in Routines |-> job'[r]]
  BY Zenon, <1>1, ProgressionOnly DEF CoverInv
<1>3. activeStage = None /\ Current = "preflight" /\ Current' = "preflight" /\ activeStage' # None
  BY <1>1, WorkersAssumption DEF CoverInv, Order, Starting, Current, Stages
<1>4. Idle.at = "idle" /\ IsJob(Idle)
  BY Zenon DEF Idle, IsJob, IsPlacement, NoRanges, Busy
<1>kept. Kept
  BY Zenon, <1>1, LeasesKept
<1>5. Types'
  <2>1. IsJob(Prog') /\ IsJob(Ramping')
    BY <1>2, <1>4, Both DEF CoverInv, Types
  <2>2. state' \in Stages \cup {"stopping"} /\ activeStage' \in Stages \cup {None} /\ IsRamp(ramp')
    BY <1>1 DEF CoverInv, Types, Stages
  <2>3. QED BY Zenon, <1>2, <1>kept, <2>1, <2>2, Both DEF Types, Kept
<1>6. Order'
  <2>1. ~Starting'
    BY <1>2, <1>4 DEF Starting, Busy
  <2>2. QED BY <1>1, <1>2, <1>3, <1>4, <2>1 DEF CoverInv, Order, Busy
<1>7. Fits'
  BY <1>1, <1>2, <1>4, <1>kept DEF Kept, CoverInv, Fits, Routines, Prog, Ramping, Busy
<1>8. Shares'
  <2>1. Reached(Current)' = Reached(Current)
    BY <1>1, <1>3, <1>kept DEF Kept, Reached
  <2>2. QED BY <1>1, <1>2, <1>3, <1>4, <1>kept, <2>1
            DEF Kept, CoverInv, Shares, Routines, Prog, Ramping, Busy
<1>9. QED BY <1>5, <1>6, <1>7, <1>8, <1>kept DEF Kept, CoverInv

\* The next stage's state is entered ...
LEMMA EnterCovers ==
  ASSUME CoverInv, EnterStage
  PROVE  CoverInv'
<1>1. /\ plan' = plan /\ leases' = leases /\ ramp' = ramp /\ mon' = mon
      /\ impaired' = impaired /\ activeStage' = activeStage
      /\ Prog.at = "idle" /\ mon.at # "replace"
      /\ state \in DOMAIN Following /\ state' = Following[state]
      /\ job' = [job EXCEPT !["progression"].at = "active",
                            !["progression"].stage = Following[state]]
  BY DEF EnterStage, LockFree, historyVars, Prog
<1>job. IsJob(Prog) /\ IsJob(Ramping)
  BY Both DEF CoverInv, Types
<1>2. /\ Prog' = [at |-> "active", stage |-> state', num |-> Prog.num, offset |-> Prog.offset,
                  seen |-> Prog.seen, todo |-> Prog.todo]
      /\ Ramping' = Ramping /\ job' = [r \in Routines |-> job'[r]]
  BY Zenon, <1>1, <1>job DEF CoverInv, Types, Prog, Ramping, Routines, IsJob
<1>3. activeStage # None /\ state = Current /\ Current' = Current
  BY <1>1 DEF CoverInv, Order, Starting, Busy, Following, Current
<1>4. state' \in Stages /\ Rank[state'] > Rank[Current]
  BY <1>1, <1>3 DEF Following, Rank, Stages
<1>kept. Kept
  BY Zenon, <1>1, LeasesKept
<1>5. Types'
  <2>1. IsJob(Prog') /\ IsJob(Ramping')
    BY <1>2, <1>4, <1>job DEF IsJob
  <2>2. state' \in Stages \cup {"stopping"} /\ activeStage' \in Stages \cup {None} /\ IsRamp(ramp')
    BY <1>1, <1>4 DEF CoverInv, Types
  <2>3. QED BY Zenon, <1>2, <1>kept, <2>1, <2>2, Both DEF Types, Kept
<1>6. Order'
  <2>1. ~Starting'
    BY <1>2 DEF Starting, Busy
  <2>2. QED BY <1>1, <1>2, <1>3, <1>4, <2>1 DEF CoverInv, Order, Busy
<1>7. Fits'
  BY <1>1, <1>2, <1>kept DEF Kept, CoverInv, Fits, Routines, Prog, Ramping, Busy
<1>8. Shares'
  <2>1. Reached(Current)' = Reached(Current)
    BY <1>1, <1>3, <1>kept DEF Kept, Reached
  <2>2. QED BY <1>1, <1>2, <1>3, <1>kept, <2>1
            DEF Kept, CoverInv, Shares, Routines, Prog, Ramping, Busy
<1>9. QED BY <1>5, <1>6, <1>7, <1>8, <1>kept DEF Kept, CoverInv

\* ... then it becomes the active one, and its dispatch begins: no lease is of it yet.
LEMMA SetCovers ==
  ASSUME CoverInv, SetActiveStage
  PROVE  CoverInv'
<1> DEFINE s == Prog.stage
           n == IF s = "ramp" THEN RampStart(plan.load[s], Target(s)) ELSE Target(s)
<1>1. /\ plan' = plan /\ state' = state /\ leases' = leases /\ ramp' = ramp /\ mon' = mon
      /\ activeStage' = s /\ Prog.at = "active" /\ mon.at # "replace"
      /\ job' = [job EXCEPT !["progression"] =
                   [Idle EXCEPT !.at = IF s = "ramp" THEN "list" ELSE "revoke",
                                !.stage = s, !.num = n]]
  BY DEF SetActiveStage, LockFree, Prog
<1>job. IsJob(Prog) /\ IsJob(Ramping)
  BY Both DEF CoverInv, Types
<1>2. /\ Prog' = [at |-> IF s = "ramp" THEN "list" ELSE "revoke", stage |-> s, num |-> n,
                  offset |-> 0, seen |-> {}, todo |-> NoRanges]
      /\ Ramping' = Ramping /\ job' = [r \in Routines |-> job'[r]]
  <2> DEFINE a == IF s = "ramp" THEN "list" ELSE "revoke"
             j == FromStart(a, s, n)
  <2>1. Prog' = j /\ Ramping' = Ramping /\ job' = [r \in Routines |-> job'[r]]
    <3>1. job' = [job EXCEPT !["progression"] = j] /\ Types
      BY Zenon, <1>1 DEF CoverInv, FromStart
    <3> HIDE DEF j
    <3>2. QED BY Zenon, <3>1, ProgressionOnly
  <2> HIDE DEF n, a
  <2>2. j = [at |-> a, stage |-> s, num |-> n, offset |-> 0, seen |-> {}, todo |-> NoRanges]
    BY Zenon, Opened
  <2> HIDE DEF j
  <2>3. QED BY Zenon, <2>1, <2>2 DEF a
<1>3. s \in Stages /\ Rank[s] > Rank[Current] /\ activeStage # None /\ Current' = s /\ s # None
  BY <1>1, <1>job, WorkersAssumption DEF CoverInv, Order, IsJob, Starting, Busy, Current
<1>4. n \in Nat /\ n <= Target(s) /\ (s # "ramp" => n = Target(s))
  <2>1. /\ Target(s) \in Nat
        /\ plan.load[s] \in [targetVUs : Nat, startVUs : Nat, rampSteps : Nat]
    BY <1>3, Targets DEF CoverInv, Types
  <2>2. RampStart(plan.load[s], Target(s)) \in 0 .. Target(s)
    BY Zenon, <2>1, RampNumbers
  <2>3. QED BY <2>1, <2>2
<1>5. s # "preflight" /\ Current \in Stages
  BY <1>3 DEF CoverInv, Types, Current, Rank, Stages
<1> HIDE DEF n
<1>kept. Kept
  BY Zenon, <1>1, LeasesKept
<1>6. Types'
  <2>1. IsPlacement(NoRanges)
    BY DEF IsPlacement, NoRanges
  <2>2. IsJob(Prog') /\ IsJob(Ramping')
    BY <1>2, <1>3, <1>4, <1>job, <2>1 DEF IsJob, Busy
  <2>3. state' \in Stages \cup {"stopping"} /\ activeStage' \in Stages \cup {None} /\ IsRamp(ramp')
    BY <1>1, <1>3 DEF CoverInv, Types
  <2>4. QED BY Zenon, <1>2, <1>kept, <2>2, <2>3, Both DEF Types, Kept
<1>7. Order'
  <2>1. ~Starting' /\ Prog'.at \in Busy
    BY <1>2, <1>5 DEF Starting, Busy
  <2>2. \A l \in leases' : Rank[l.stage] <= Rank[Current']
    BY <1>1, <1>3, <1>5 DEF CoverInv, Order, Types, Rank, Stages
  <2>3. ramp.at # "off" => Rank[Current'] >= 3 /\ s # "ramp"
    BY <1>3, <1>5 DEF CoverInv, Order, Rank, Stages
  <2>4. state # "stopping" => state = s
    BY <1>1 DEF CoverInv, Order
  <2>5. QED BY <1>1, <1>2, <1>3, <2>1, <2>2, <2>3, <2>4 DEF CoverInv, Order
<1>8. Fits'
  <2>1. Prog'.at # "issue" /\ Prog'.offset + Prog'.num <= Target(s)
    BY <1>2, <1>3, <1>4, Targets DEF CoverInv, Types
  <2>2. QED BY <1>1, <1>2, <1>4, <1>kept, <2>1 DEF Kept, CoverInv, Fits, Routines, Prog, Ramping
<1>9. Shares'
  <2>1. s = "ramp" => CoveredUsers(s) = {}
    <3>1. \A l \in leases : l.stage # s
      BY <1>3, <1>5 DEF CoverInv, Order, Types, Rank, Stages
    <3>2. QED BY Zenon, <3>1, Covered DEF Covers
  <2>2. Ramping.at = "issue" => Ramping.stage # s
    BY <1>3, <1>5 DEF CoverInv, Order, Rank, Stages
  <2>3. QED BY <1>2, <1>3, <1>kept, <2>1, <2>2 DEF Kept, Shares, Routines, Prog, Ramping, Busy
<1>10. QED BY <1>6, <1>7, <1>8, <1>9, <1>kept DEF Kept, CoverInv

\* The ramp's hold is over: it dispatches the users of its next step, or ends.
LEMMA HoldCovers ==
  ASSUME CoverInv, RampHold
  PROVE  CoverInv'
<1> DEFINE next == RampVUs(plan.load["ramp"], Target("ramp"), ramp.step)
           k == ramp.currentVUs
<1>1. /\ plan' = plan /\ state' = state /\ activeStage' = activeStage /\ leases' = leases
      /\ mon' = mon /\ impaired' = impaired /\ ramp.at = "hold"
      /\ \/ /\ next > k
            /\ ramp' = [ramp EXCEPT !.at = "dispatch"]
            /\ job' = [job EXCEPT !["ramp"] = FromUser("list", "ramp", next - k, k)]
         \/ /\ ramp' = [ramp EXCEPT !.at = "exit"]
            /\ job' = job
  BY Zenon DEF RampHold, runVars, historyVars, FromUser
<1>job. IsJob(Prog) /\ IsJob(Ramping) /\ IsRamp(ramp)
  BY Both DEF CoverInv, Types
<1>2. Current' = Current /\ Ramping.at = "idle" /\ ramp'.currentVUs = k /\ ramp'.at # "off"
  BY <1>1, <1>job DEF CoverInv, Order, Current, IsRamp
<1>3. IsRamp(ramp')
  BY <1>1, <1>job DEF IsRamp
<1>kept. Kept
  BY Zenon, <1>1, LeasesKept
<1>4. k \in Nat /\ (next > k => next - k \in Nat /\ k + (next - k) <= Target("ramp"))
  <2>1. /\ Target("ramp") \in Nat
        /\ plan.load["ramp"] \in [targetVUs : Nat, startVUs : Nat, rampSteps : Nat]
    BY Targets DEF CoverInv, Types, Stages
  <2>2. k \in Nat /\ ramp.step \in Nat
    BY <1>job DEF IsRamp
  <2>3. next \in Int /\ next <= Target("ramp")
    BY Zenon, <2>1, <2>2, RampNumbers
  <2> HIDE DEF next, k
  <2>4. QED BY <2>1, <2>2, <2>3
<1> HIDE DEF next
<1>5. /\ Prog' = Prog /\ job' = [r \in Routines |-> job'[r]]
      /\ \/ Ramping' = Ramping
         \/ /\ next > k /\ ramp'.at = "dispatch"
            /\ Ramping' = [at |-> "list", stage |-> "ramp", num |-> next - k, offset |-> k,
                           seen |-> {}, todo |-> NoRanges]
  <2>1. CASE job' = job
    BY <2>1 DEF CoverInv, Types, Prog, Ramping
  <2>2. CASE /\ next > k
             /\ ramp' = [ramp EXCEPT !.at = "dispatch"]
             /\ job' = [job EXCEPT !["ramp"] = FromUser("list", "ramp", next - k, k)]
    <3>1. ramp'.at = "dispatch"
      BY <1>job, <2>2 DEF IsRamp
    <3>2. /\ Ramping' = FromUser("list", "ramp", next - k, k) /\ Prog' = Prog
          /\ job' = [r \in Routines |-> job'[r]]
      BY Zenon, <2>2 DEF CoverInv, Types, Prog, Ramping, Routines
    <3>3. FromUser("list", "ramp", next - k, k) =
            [at |-> "list", stage |-> "ramp", num |-> next - k, offset |-> k,
             seen |-> {}, todo |-> NoRanges]
      BY Zenon, Opened
    <3>4. QED BY Zenon, <2>2, <3>1, <3>2, <3>3
  <2>3. QED BY Zenon, <1>1, <2>1, <2>2
<1>6. Types'
  <2>1. IsPlacement(NoRanges)
    BY DEF IsPlacement, NoRanges
  <2>2. IsJob(Prog') /\ IsJob(Ramping')
    BY <1>4, <1>5, <1>job, <2>1 DEF IsJob, Busy, Stages
  <2>3. state' \in Stages \cup {"stopping"} /\ activeStage' \in Stages \cup {None}
    BY <1>1 DEF CoverInv, Types
  <2>4. QED BY Zenon, <1>3, <1>5, <1>kept, <2>2, <2>3, Both DEF Types, Kept
<1>7. Order'
  <2>1. Starting' <=> Starting
    BY <1>5 DEF Starting
  <2>2. QED BY <1>1, <1>2, <1>5, <2>1 DEF CoverInv, Order
<1>8. Fits'
  <2>1. Ramping'.at # "issue" /\ (Ramping'.at \in Busy =>
          Ramping'.stage = "ramp" /\ Ramping'.offset + Ramping'.num <= Target("ramp"))
    BY <1>2, <1>4, <1>5 DEF Busy
  <2>2. QED BY <1>1, <1>5, <1>kept, <2>1 DEF Kept, CoverInv, Fits, Routines, Prog, Ramping
<1>9. Shares'
  <2>1. Ramping'.at # "issue" /\ \A s : Reached(s)' = Reached(s)
    BY <1>2, <1>5, <1>kept DEF Kept, Reached
  <2>2. QED BY <1>1, <1>2, <1>5, <1>kept, <2>1 DEF Kept, CoverInv, Shares, Routines, Prog, Ramping
<1>10. QED BY <1>6, <1>7, <1>8, <1>9, <1>kept DEF Kept, CoverInv

\* A stop leaves the dispatches where they are.
LEMMA StopCovers ==
  ASSUME CoverInv, StopRun
  PROVE  CoverInv'
<1>1. /\ plan' = plan /\ activeStage' = activeStage /\ job' = job /\ ramp' = ramp
      /\ leases' = leases /\ mon' = mon /\ impaired' = impaired /\ state' = "stopping"
      /\ mon.at # "replace"
  BY DEF StopRun, LockFree, historyVars
<1>2. Kept
  BY Zenon, <1>1, LeasesKept
<1>3. QED BY Zenon, <1>1, <1>2, Aside DEF Kept, CoverInv, Types, Order

-----------------------------------------------------------------------------
(* The dispatches.                                                         *)

\* The leases after a step are of stages up to the current one.
LeasesInOrder ==
  \A l \in leases' : /\ l.stage \in Stages /\ l.lo \in Nat /\ l.hi \in Nat
                     /\ Rank[l.stage] <= Rank[Current]

\* The goroutine that dispatches the ramp's first users and the one that adds to them
\* are never both at it.
LEMMA OneRamp ==
  ASSUME CoverInv
  PROVE  /\ Ramping.at # "idle" /\ Prog.at \in Busy => Prog.stage # "ramp"
         /\ Prog.at \in Busy => Prog.stage = Current /\ Prog.offset = 0
         /\ Ramping.at # "idle" =>
              Ramping.stage = "ramp" /\ Ramping.offset = ramp.currentVUs /\ Rank[Current] >= 3
BY DEF CoverInv, Order

\* What the end of a dispatch does to the goroutines.
LEMMA Finished ==
  ASSUME CoverInv, NEW r \in Routines, job[r].at \in Busy, Finish(r), plan' = plan
  PROVE  /\ job' = [q \in Routines |-> job'[q]] /\ IsJob(Prog') /\ IsJob(Ramping') /\ IsRamp(ramp')
         /\ r = "progression" =>
              /\ Ramping' = Ramping
              /\ Prog'.at = IF Prog.stage = "preflight" THEN "progress" ELSE "idle"
              /\ IF Prog.stage = "ramp"
                 THEN ramp'.at = "hold" /\ ramp'.currentVUs = Prog.offset + Prog.num
                 ELSE ramp' = ramp
         /\ r = "ramp" =>
              /\ Prog' = Prog /\ Ramping'.at = "idle"
              /\ ramp'.at # "off" /\ ramp'.currentVUs = Ramping.offset + Ramping.num
<1> DEFINE j == IF job[r].stage = "preflight" THEN [Idle EXCEPT !.at = "progress"] ELSE Idle
<1>1. IsJob(Prog) /\ IsJob(Ramping) /\ IsRamp(ramp)
  BY Both DEF CoverInv, Types
<1>2. IsPlacement(NoRanges)
  BY DEF IsPlacement, NoRanges
<1>3. IsJob(j) /\ j.at = IF job[r].stage = "preflight" THEN "progress" ELSE "idle"
  BY <1>2 DEF Idle, IsJob, Busy
<1>4. job' = [job EXCEPT ![r] = j]
  BY DEF Finish
<1> HIDE DEF j
<1>5. /\ job' = [q \in Routines |-> job'[q]]
      /\ r = "progression" => Prog' = j /\ Ramping' = Ramping
      /\ r = "ramp" => Prog' = Prog /\ Ramping' = j
  BY Zenon, <1>4 DEF CoverInv, Types, Prog, Ramping, Routines
<1>6. job[r].offset + job[r].num \in Nat /\ ramp.step + 1 \in Nat
  BY <1>1 DEF IsJob, IsRamp, Routines, Prog, Ramping
<1>7. CASE r = "progression"
  <2>1. ramp' = IF Prog.stage = "ramp"
                THEN [at |-> "hold", step |-> 1, currentVUs |-> Prog.offset + Prog.num]
                ELSE ramp
    BY <1>7 DEF Finish, Prog
  <2>2. IsRamp(ramp')
    BY <1>1, <1>6, <1>7, <2>1 DEF IsRamp, Prog
  <2>3. IF Prog.stage = "ramp"
        THEN ramp'.at = "hold" /\ ramp'.currentVUs = Prog.offset + Prog.num
        ELSE ramp' = ramp
    BY <2>1
  <2>4. Prog'.at = IF Prog.stage = "preflight" THEN "progress" ELSE "idle"
    BY <1>3, <1>5, <1>7 DEF Prog
  <2>5. QED BY Zenon, <1>1, <1>3, <1>5, <1>7, <2>2, <2>3, <2>4
<1>8. CASE r = "ramp"
  <2>1. \E a \in {"exit", "hold"} :
          ramp' = [at |-> a, step |-> ramp.step + 1, currentVUs |-> Ramping.offset + Ramping.num]
    BY <1>8 DEF Finish, Ramping
  <2>2. IsRamp(ramp') /\ ramp'.at # "off" /\ ramp'.currentVUs = Ramping.offset + Ramping.num
    BY <1>6, <1>8, <2>1 DEF IsRamp, Ramping
  <2>3. Ramping.stage = "ramp"
    BY <1>8, OneRamp DEF Ramping, Busy
  <2>4. Ramping'.at = "idle"
    BY <1>3, <1>5, <1>8, <2>3 DEF Ramping
  <2>5. QED BY Zenon, <1>1, <1>3, <1>5, <1>8, <2>2, <2>4
<1>9. QED BY <1>7, <1>8 DEF Routines

\* A dispatch that ends keeps the invariant: it has covered its users, or the run is
\* impaired.
LEMMA FinishCovers ==
  ASSUME CoverInv, NEW r \in Routines, job[r].at \in Busy, Finish(r),
         plan' = plan, activeStage' = activeStage, state' = state, mon' = mon,
         impaired => impaired', Shapes', LeasesInOrder, DisjointRanges',
         \/ impaired'
         \/ /\ \A s : s # job[r].stage => CoveredUsers(s)' = CoveredUsers(s)
            /\ job[r].stage = Current =>
                 CoveredUsers(Current)' = 0 .. ((job[r].offset + job[r].num) - 1)
  PROVE  CoverInv'
<1>1. /\ job' = [q \in Routines |-> job'[q]] /\ IsJob(Prog') /\ IsJob(Ramping') /\ IsRamp(ramp')
      /\ r = "progression" =>
           /\ Ramping' = Ramping
           /\ Prog'.at = IF Prog.stage = "preflight" THEN "progress" ELSE "idle"
           /\ IF Prog.stage = "ramp"
              THEN ramp'.at = "hold" /\ ramp'.currentVUs = Prog.offset + Prog.num
              ELSE ramp' = ramp
      /\ r = "ramp" =>
           /\ Prog' = Prog /\ Ramping'.at = "idle"
           /\ ramp'.at # "off" /\ ramp'.currentVUs = Ramping.offset + Ramping.num
  BY Zenon, Finished
<1>2. Current' = Current /\ \A s : Target(s)' = Target(s)
  BY DEF Current, Target
<1>3. /\ Ramping.at # "idle" /\ Prog.at \in Busy => Prog.stage # "ramp"
      /\ Prog.at \in Busy => Prog.stage = Current /\ Prog.offset = 0
      /\ Ramping.at # "idle" =>
           Ramping.stage = "ramp" /\ Ramping.offset = ramp.currentVUs /\ Rank[Current] >= 3
  BY Zenon, OneRamp
<1>4. (r = "progression" => Prog.at \in Busy) /\ (r = "ramp" => Ramping.at \in Busy /\ Ramping.at # "idle")
  BY DEF Prog, Ramping, Busy
<1>5. r = "progression" \/ r = "ramp"
  BY DEF Routines
<1>6. Types'
  <2>1. /\ plan' \in Plans /\ state' \in Stages \cup {"stopping"}
        /\ activeStage' \in Stages \cup {None} /\ IsPlacement(mon'.todo)
    BY DEF CoverInv, Types
  <2>2. QED BY Zenon, <1>1, <2>1, Both DEF Types, LeasesInOrder
<1>7. Order'
  <2>1. \A l \in leases' : Rank[l.stage] <= Rank[Current']
    BY <1>2 DEF LeasesInOrder
  <2>2. mon'.at = "replace" => impaired' /\ activeStage' # None
    BY DEF CoverInv, Order
  <2>3. CASE r = "progression"
    <3>1. Starting' <=> Starting
      BY <1>1, <1>4, <2>3 DEF Starting, Busy
    <3>2. Prog.stage = "ramp" => Rank[Current'] >= 3 /\ Ramping.at = "idle"
      BY <1>2, <1>3, <1>4, <2>3 DEF Rank
    <3>3. Prog'.at \in {"idle", "progress"} /\ Prog.at # "active"
      BY <1>1, <1>4, <2>3 DEF Busy
    <3>4. QED BY <1>1, <1>2, <2>1, <2>2, <2>3, <3>1, <3>2, <3>3 DEF CoverInv, Order, Busy
  <2>4. CASE r = "ramp"
    <3>1. Starting' <=> Starting
      BY <1>1, <2>4 DEF Starting
    <3>2. QED BY <1>1, <1>2, <1>3, <1>4, <2>1, <2>2, <2>4, <3>1 DEF CoverInv, Order
  <2>5. QED BY <1>5, <2>3, <2>4
<1>8. Fits'
  <2>1. mon'.at = "replace" => Within(mon.todo, activeStage)'
    BY <1>2 DEF CoverInv, Fits, Within
  <2>2. CASE r = "progression"
    <3>1. Prog'.at \notin Busy
      BY <1>1, <2>2 DEF Busy
    <3>2. QED BY Zenon, <1>1, <1>2, <2>1, <2>2, <3>1 DEF CoverInv, Fits, Within, Routines, Prog, Ramping, Busy
  <2>3. CASE r = "ramp"
    <3>1. Ramping'.at \notin Busy
      BY <1>1, <2>3 DEF Busy
    <3>2. QED BY Zenon, <1>1, <1>2, <2>1, <2>3, <3>1 DEF CoverInv, Fits, Within, Routines, Prog, Ramping, Busy
  <2>4. QED BY <1>5, <2>2, <2>3
<1>9. Shares'
  <2> SUFFICES ASSUME ~impaired' PROVE Shares'
    BY Zenon DEF Shares
  <2>1. /\ ~impaired
        /\ \A s : s # job[r].stage => CoveredUsers(s)' = CoveredUsers(s)
        /\ job[r].stage = Current =>
             CoveredUsers(Current)' = 0 .. ((job[r].offset + job[r].num) - 1)
    BY Zenon
  <2>2. CASE r = "progression"
    <3>1. Prog'.at \notin Busy
      BY <1>1, <2>2 DEF Busy
    <3>2. Ramping'.at = "issue" => Ramping'.stage # Current
      BY <1>1, <1>3, <1>4, <2>2
    <3>3. CoveredUsers(Current)' = 0 .. ((Prog.offset + Prog.num) - 1)
      BY <1>3, <1>4, <2>1, <2>2 DEF Prog
    <3>4. Reached(Current)' = Prog.offset + Prog.num
      <4>1. CASE Current = "ramp"
        BY <1>1, <1>2, <1>3, <1>4, <2>2, <4>1 DEF Reached
      <4>2. CASE Current # "ramp"
        <5>1. Prog.num = Target(Current) /\ Prog.offset = 0 /\ Prog.num \in Nat
          BY Zenon, <1>3, <1>4, <2>2, <4>2, Both DEF CoverInv, Fits, Types, IsJob
        <5>2. QED BY <1>2, <4>2, <5>1 DEF Reached
      <4>3. QED BY <4>1, <4>2
    <3>5. QED BY Zenon, <1>2, <3>1, <3>2, <3>3, <3>4 DEF Shares, Routines, Prog, Ramping, Busy
  <2>3. CASE r = "ramp"
    <3>1. Ramping.stage = "ramp" /\ (Prog.at \in Busy => Prog.stage # "ramp")
      BY <1>3, <1>4, <2>3
    <3>2. Prog.at \in {"list", "allocate"} => CoveredUsers(Prog.stage)' = {}
      BY <1>1, <2>1, <2>3, <3>1 DEF CoverInv, Shares, Ramping, Busy
    <3>3. Prog.at = "issue" /\ Prog.stage = Current
          => Splits(Prog.stage, Prog.todo, Prog.offset + Prog.num)'
      <4>1. Prog.at = "issue" /\ Prog.stage = Current
            => Splits(Prog.stage, Prog.todo, Prog.offset + Prog.num)
        BY <2>1 DEF CoverInv, Shares, Routines, Prog
      <4>2. Prog.at = "issue" => CoveredUsers(Prog.stage)' = CoveredUsers(Prog.stage)
        BY <1>1, <2>1, <2>3, <3>1 DEF Ramping, Busy
      <4>3. QED BY <1>1, <2>3, <4>1, <4>2 DEF Splits
    <3>4. Prog.at \notin Busy => CoveredUsers(Current)' = 0 .. (Reached(Current)' - 1)
      <4>1. CASE Current = "ramp"
        BY <1>1, <1>2, <2>1, <2>3, <3>1, <4>1 DEF Reached, Ramping
      <4>2. CASE Current # "ramp"
        BY <1>2, <2>1, <2>3, <3>1, <4>2 DEF CoverInv, Shares, Reached, Ramping
      <4>3. QED BY <4>1, <4>2
    <3>5. QED BY <1>1, <1>2, <2>3, <3>2, <3>3, <3>4 DEF Shares, Routines, Prog, Ramping
  <2>4. QED BY <1>5, <2>2, <2>3
<1>10. QED BY <1>6, <1>7, <1>8, <1>9 DEF CoverInv

\* What a step within a dispatch does to the goroutines.
Stays(r, at, seen, todo) ==
  /\ job' = [q \in Routines |-> job'[q]]
  /\ \A q \in Routines \ {r} : job'[q] = job[q]
  /\ job'[r] = [at |-> at, stage |-> job[r].stage, num |-> job[r].num,
                offset |-> job[r].offset, seen |-> seen, todo |-> todo]
  /\ ramp' = ramp

\* A step within a dispatch keeps the invariant if the users it has still to place and
\* those that are covered make up what the dispatch is for: the progression's ...
LEMMA ProgressionStays ==
  ASSUME CoverInv, Prog.at \in Busy,
         NEW at \in Busy, NEW seen \in SUBSET Workers, NEW todo, IsPlacement(todo),
         NEW n, n = Prog.num, Stays("progression", at, seen, todo),
         at = "issue" => Within(todo, Prog.stage),
         plan' = plan, activeStage' = activeStage, state' = state, mon' = mon,
         impaired' = impaired, Shapes', LeasesInOrder, DisjointRanges',
         \/ impaired
         \/ /\ at \in {"list", "allocate"} => CoveredUsers(Current)' = {}
            /\ at = "issue" => Splits(Current, todo, n)'
  PROVE  CoverInv'
<1>1. IsJob(Prog) /\ IsJob(Ramping)
  BY Both DEF CoverInv, Types
<1>2. /\ Prog' = [at |-> at, stage |-> Prog.stage, num |-> Prog.num, offset |-> Prog.offset,
                  seen |-> seen, todo |-> todo]
      /\ Ramping' = Ramping /\ ramp' = ramp /\ job' = [r \in Routines |-> job'[r]]
  BY DEF Prog, Ramping, Routines, Stays
<1>3. Current' = Current /\ \A s : Target(s)' = Target(s)
  BY DEF Current, Target
<1>4. /\ Ramping.at # "idle" => Prog.stage # "ramp"
      /\ Prog.stage = Current /\ Prog.offset = 0 /\ Prog.num \in Nat
      /\ Ramping.at # "idle" => Ramping.stage = "ramp"
  BY <1>1, OneRamp DEF IsJob
<1>5. Types'
  <2>1. /\ plan' \in Plans /\ state' \in Stages \cup {"stopping"}
        /\ activeStage' \in Stages \cup {None} /\ IsPlacement(mon'.todo) /\ IsRamp(ramp')
    BY <1>2 DEF CoverInv, Types
  <2>2. IsJob(Prog') /\ IsJob(Ramping')
    BY <1>1, <1>2 DEF IsJob
  <2>3. QED BY Zenon, <1>2, <2>1, <2>2, Both DEF Types, LeasesInOrder
<1>6. Order'
  <2>1. \A l \in leases' : Rank[l.stage] <= Rank[Current']
    BY Zenon, <1>3 DEF LeasesInOrder
  <2>2. (Starting' <=> Starting) /\ Prog'.at # "active" /\ Prog.at # "active"
    BY <1>2 DEF Starting, Busy
  <2>3. QED BY <1>2, <1>3, <2>1, <2>2 DEF CoverInv, Order
<1>7. Fits'
  <2>1. \A f, s : Within(f, s)' <=> Within(f, s)
    BY Zenon, <1>3 DEF Within
  <2>2. QED BY <1>2, <1>3, <2>1 DEF CoverInv, Fits, Routines, Prog, Ramping
<1>8. Shares'
  <2> SUFFICES ASSUME ~impaired' PROVE Shares'
    BY Zenon DEF Shares
  <2>1. /\ at \in {"list", "allocate"} => CoveredUsers(Current)' = {}
        /\ at = "issue" => Splits(Current, todo, n)'
    BY Zenon
  <2>2. Ramping'.at = "issue" => Ramping'.stage # Current
    BY <1>2, <1>4
  <2>3. Prog'.stage = Current /\ Prog'.offset + Prog'.num = Prog.num
    BY <1>2, <1>4
  <2>4. at = "issue" => Splits(Prog.stage, Prog.todo, Prog.offset + Prog.num)'
    BY <1>2, <1>3, <2>1, <2>3 DEF Splits
  <2>5. Prog'.at = at /\ at \in Busy
    BY <1>2
  <2>6. at \in {"list", "allocate"} => CoveredUsers(Prog.stage)' = {}
    BY <1>3, <2>1, <2>3
  <2>7. QED BY Zenon, <1>3, <2>2, <2>4, <2>5, <2>6 DEF Shares, Routines, Prog, Ramping
<1>9. QED BY <1>5, <1>6, <1>7, <1>8 DEF CoverInv

\* ... and the ramp's.
LEMMA RampStays ==
  ASSUME CoverInv, Ramping.at \in Busy,
         NEW at \in {"list", "allocate", "issue"}, NEW seen \in SUBSET Workers,
         NEW todo, IsPlacement(todo), NEW n, n = Ramping.offset + Ramping.num,
         Stays("ramp", at, seen, todo),
         at = "issue" => Within(todo, "ramp"),
         plan' = plan, activeStage' = activeStage, state' = state, mon' = mon,
         impaired' = impaired, Shapes', LeasesInOrder, DisjointRanges',
         \/ impaired
         \/ /\ \A s : s # "ramp" => CoveredUsers(s)' = CoveredUsers(s)
            /\ at = "issue" /\ Current = "ramp" => Splits("ramp", todo, n)'
            /\ at # "issue" => /\ Ramping.at # "issue"
                               /\ CoveredUsers("ramp")' = CoveredUsers("ramp")
  PROVE  CoverInv'
<1>1. IsJob(Prog) /\ IsJob(Ramping)
  BY Both DEF CoverInv, Types
<1>2. /\ Ramping' = [at |-> at, stage |-> Ramping.stage, num |-> Ramping.num,
                     offset |-> Ramping.offset, seen |-> seen, todo |-> todo]
      /\ Prog' = Prog /\ ramp' = ramp /\ job' = [r \in Routines |-> job'[r]]
  BY DEF Prog, Ramping, Routines, Stays
<1>3. Current' = Current /\ \A s : Target(s)' = Target(s)
  BY DEF Current, Target
<1>4. /\ Prog.at \in Busy => Prog.stage # "ramp"
      /\ Ramping.stage = "ramp" /\ Ramping.offset \in Nat /\ Ramping.num \in Nat
      /\ Ramping.at # "idle"
  <2>1. Ramping.at # "idle"
    BY DEF Busy
  <2>2. QED BY <1>1, <2>1, OneRamp DEF IsJob
<1>5. Types'
  <2>1. /\ plan' \in Plans /\ state' \in Stages \cup {"stopping"}
        /\ activeStage' \in Stages \cup {None} /\ IsPlacement(mon'.todo) /\ IsRamp(ramp')
    BY <1>2 DEF CoverInv, Types
  <2>2. IsJob(Prog') /\ IsJob(Ramping')
    BY <1>1, <1>2, <1>4 DEF IsJob, Busy, Stages
  <2>3. QED BY Zenon, <1>2, <2>1, <2>2, Both DEF Types, LeasesInOrder
<1>6. Order'
  <2>1. \A l \in leases' : Rank[l.stage] <= Rank[Current']
    BY <1>3 DEF LeasesInOrder
  <2>2. Starting' <=> Starting
    BY <1>2 DEF Starting
  <2>3. QED BY Zenon, <1>2, <1>3, <1>4, <2>1, <2>2 DEF CoverInv, Order
<1>7. Fits'
  <2>1. \A f, s : Within(f, s)' <=> Within(f, s)
    BY Zenon, <1>3 DEF Within
  <2>2. Ramping.offset + Ramping.num <= Target("ramp")
    BY Zenon, <1>4 DEF CoverInv, Fits, Routines, Ramping
  <2>3. \A q \in Routines :
          /\ (job[q].at \in Busy => job[q].offset + job[q].num <= Target(job[q].stage))'
          /\ (job[q].at = "issue" => Within(job[q].todo, job[q].stage))'
    BY <1>2, <1>3, <1>4, <2>1, <2>2 DEF CoverInv, Fits, Routines, Prog, Ramping
  <2>4. /\ (Prog.at \in Busy /\ Prog.stage # "ramp" => Prog.num = Target(Prog.stage))'
        /\ (mon.at = "replace" => Within(mon.todo, activeStage))'
    BY <1>2, <1>3, <2>1 DEF CoverInv, Fits
  <2>5. DisjointRanges'
    OBVIOUS
  <2>6. QED BY Zenon, <2>3, <2>4, <2>5 DEF Fits
<1>8. Shares'
  <2> SUFFICES ASSUME ~impaired' PROVE Shares'
    BY DEF Shares
  <2>1. /\ \A s : s # "ramp" => CoveredUsers(s)' = CoveredUsers(s)
        /\ at = "issue" /\ Current = "ramp" => Splits("ramp", todo, n)'
        /\ at # "issue" => /\ Ramping.at # "issue"
                           /\ CoveredUsers("ramp")' = CoveredUsers("ramp")
    BY Zenon
  <2>2. Prog.at \in {"list", "allocate"} => CoveredUsers(Prog.stage)' = {}
    BY <1>2, <1>4, <2>1 DEF CoverInv, Shares, Busy
  <2>3. Prog.at = "issue" /\ Prog.stage = Current
        => Splits(Prog.stage, Prog.todo, Prog.offset + Prog.num)'
    <3>1. Prog.at = "issue" /\ Prog.stage = Current
          => Splits(Prog.stage, Prog.todo, Prog.offset + Prog.num)
      BY Zenon DEF CoverInv, Shares, Routines, Prog
    <3>2. Prog.at = "issue" => CoveredUsers(Prog.stage)' = CoveredUsers(Prog.stage)
      BY <1>2, <1>4, <2>1 DEF Busy
    <3>3. QED BY <1>2, <3>1, <3>2 DEF Splits
  <2>4. at = "issue" /\ Current = "ramp" =>
          Splits(Ramping.stage, Ramping.todo, Ramping.offset + Ramping.num)'
    BY <1>2, <1>3, <1>4, <2>1 DEF Splits
  <2>5. Prog.at \notin Busy /\ (Current = "ramp" => at # "issue")
        => CoveredUsers(Current)' = 0 .. (Reached(Current)' - 1)
    <3>1. \A s : Reached(s)' = Reached(s)
      BY <1>2, <1>3 DEF Reached
    <3>2. QED BY Zenon, <1>3, <2>1, <3>1 DEF CoverInv, Shares
  <2>6. \A q \in Routines : (job[q].at = "issue" /\ job[q].stage = Current =>
          Splits(job[q].stage, job[q].todo, job[q].offset + job[q].num))'
    BY <1>2, <1>3, <1>4, <2>3, <2>4 DEF Routines, Prog, Ramping
  <2>7. (Prog.at \in {"list", "allocate"} => CoveredUsers(Prog.stage) = {})'
    BY <1>2, <2>2
  <2>8. (Prog.at \notin Busy /\ (Current = "ramp" => Ramping.at # "issue") =>
          CoveredUsers(Current) = 0 .. (Reached(Current) - 1))'
    BY <1>2, <1>3, <1>4, <2>5
  <2>9. QED BY Zenon, <2>6, <2>7, <2>8 DEF Shares
<1>9. QED BY <1>5, <1>6, <1>7, <1>8 DEF CoverInv

\* A step of a dispatch that issues and revokes nothing.
LEMMA OrderKept ==
  ASSUME CoverInv, plan' = plan, leases' = leases, mon' = mon
  PROVE  /\ Shapes' /\ DisjointRanges' /\ LeasesInOrder
         /\ \A s : CoveredUsers(s)' = CoveredUsers(s)
<1>1. Kept
  BY Zenon, LeasesKept
<1>2. \A l \in leases' : Rank[l.stage] <= Rank[Current]
  BY Zenon DEF CoverInv, Order
<1>3. QED BY Zenon, <1>1, <1>2 DEF Kept, LeasesInOrder

\* The step of goroutine r, in terms of its record.
LEMMA StayForms ==
  ASSUME CoverInv, NEW r \in Routines, ramp' = ramp, NEW a, NEW S, NEW f,
         \/ job' = [job EXCEPT ![r].at = a] /\ S = job[r].seen /\ f = job[r].todo
         \/ job' = [job EXCEPT ![r].at = a, ![r].seen = S] /\ f = job[r].todo
         \/ job' = [job EXCEPT ![r].at = a, ![r].seen = S, ![r].todo = f]
         \/ job' = [job EXCEPT ![r].todo = f] /\ a = job[r].at /\ S = job[r].seen
  PROVE  Stays(r, a, S, f)
<1>1. IsJob(job[r]) /\ job = [q \in Routines |-> job[q]]
  BY DEF CoverInv, Types
<1> DEFINE J(at, seen, todo) ==
             [at |-> at, stage |-> job[r].stage, num |-> job[r].num,
              offset |-> job[r].offset, seen |-> seen, todo |-> todo]
<1>2. job[r] = J(job[r].at, job[r].seen, job[r].todo)
  BY Zenon, <1>1 DEF IsJob
<1> DEFINE h == [job EXCEPT ![r].at = a]
           i == [h EXCEPT ![r].seen = S]
           k == [i EXCEPT ![r].todo = f]
           m == [job EXCEPT ![r].todo = f]
           G(j) == [q \in Routines |-> IF q = r THEN j ELSE job[q]]
<1>3. h = G(J(a, job[r].seen, job[r].todo)) /\ m = G(J(job[r].at, job[r].seen, f))
  <2> DEFINE b == [job[r] EXCEPT !.at = a]
             d == [job[r] EXCEPT !.todo = f]
  <2>1. b = J(a, job[r].seen, job[r].todo)
    BY <1>2
  <2>2. d = J(job[r].at, job[r].seen, f)
    BY <1>2
  <2>3. h = G(b) /\ m = G(d)
    <3>1. h = [job EXCEPT ![r] = b] /\ m = [job EXCEPT ![r] = d]
      OBVIOUS
    <3> HIDE DEF b, d
    <3>2. QED BY Zenon, <1>1, <3>1
  <2> HIDE DEF b, d, h, m
  <2>4. QED BY Zenon, <2>1, <2>2, <2>3
<1>4. \/ job' = h /\ S = job[r].seen /\ f = job[r].todo
      \/ job' = i /\ f = job[r].todo
      \/ job' = k
      \/ job' = m /\ a = job[r].at /\ S = job[r].seen
  OBVIOUS
<1> HIDE DEF h, m
<1>5. i = G(J(a, S, job[r].todo))
  BY <1>3
<1> HIDE DEF i
<1>6. k = G(J(a, S, f))
  BY <1>5
<1> HIDE DEF k
<1>7. job' = G(J(a, S, f))
  <2> HIDE DEF G, J
  <2>1. QED BY Zenon, <1>3, <1>4, <1>5, <1>6
<1>8. QED BY <1>7 DEF Stays

\* RevokeLeasesByRun: the stage's dispatch starts from nothing.
LEMMA RevokeCovers ==
  ASSUME CoverInv, NEW r \in Routines, RevokeLeasesByRun(r)
  PROVE  CoverInv'
<1>1. /\ job[r].at = "revoke" /\ leases' = {} /\ job' = [job EXCEPT ![r].at = "list"]
      /\ plan' = plan /\ activeStage' = activeStage /\ state' = state /\ mon' = mon
      /\ ramp' = ramp /\ impaired' = impaired
  BY DEF RevokeLeasesByRun, runVars, historyVars
<1>2. r = "progression"
  BY <1>1 DEF Routines, CoverInv, Order, Ramping
<1>3. Stays(r, "list", job[r].seen, job[r].todo)
  BY Zenon, <1>1, StayForms
<1>4. Shapes' /\ LeasesInOrder /\ DisjointRanges' /\ CoveredUsers(Current)' = {}
  BY <1>1 DEF CoverInv, Shapes, LeasesInOrder, DisjointRanges, CoveredUsers
<1>5. IsJob(job[r])
  BY DEF CoverInv, Types
<1>6. /\ Prog.at \in Busy /\ Prog.seen \in SUBSET Workers /\ IsPlacement(Prog.todo)
      /\ Stays("progression", "list", Prog.seen, Prog.todo) /\ "list" \in Busy
  BY <1>1, <1>2, <1>3, <1>5 DEF Prog, IsJob, Busy
<1>7. QED BY <1>1, <1>4, <1>6, ProgressionStays

\* Listing the workers: none registered, and the dispatch is given up.
LEMMA ListCovers ==
  ASSUME CoverInv, NEW r \in Routines, ListWorkers(r)
  PROVE  CoverInv'
<1>1. /\ job[r].at = "list" /\ leases' = leases
      /\ plan' = plan /\ activeStage' = activeStage /\ state' = state /\ mon' = mon
  BY DEF ListWorkers, runVars
<1>2. /\ Shapes' /\ DisjointRanges' /\ LeasesInOrder
      /\ \A s : CoveredUsers(s)' = CoveredUsers(s)
  BY Zenon, <1>1, OrderKept
<1>3. job[r].at \in Busy /\ Registered \in SUBSET Workers
  BY <1>1 DEF Busy, Registered
<1>4. CASE Finish(r) /\ impaired' = TRUE
  BY Zenon, <1>1, <1>2, <1>3, <1>4, FinishCovers
<1>5. CASE /\ job' = [job EXCEPT ![r].at = "allocate", ![r].seen = Registered]
           /\ ramp' = ramp /\ impaired' = impaired
  <2>1. Stays(r, "allocate", Registered, job[r].todo)
    BY Zenon, <1>5, StayForms
  <2>2. IsJob(job[r])
    BY DEF CoverInv, Types
  <2>3. IsPlacement(job[r].todo) /\ "allocate" \in Busy
    BY Zenon, <2>2 DEF IsJob, Busy
  <2>4. CASE r = "progression"
    <3>1. ~impaired => CoveredUsers(Current) = {}
      BY Zenon, <1>1, <1>3, <2>4, OneRamp DEF CoverInv, Shares, Prog
    <3>2. ~impaired => CoveredUsers(Current)' = {}
      <4>1. Current' = Current
        BY <1>1 DEF Current
      <4>2. QED BY <1>2, <3>1, <4>1
    <3>3. QED BY <1>1, <1>2, <1>3, <1>5, <2>1, <2>3, <2>4, <3>2, ProgressionStays DEF Prog
  <2>5. CASE r = "ramp"
    BY <1>1, <1>2, <1>3, <1>5, <2>1, <2>3, <2>5, RampStays DEF Ramping
  <2>6. QED BY <2>4, <2>5 DEF Routines
<1>6. QED BY Zenon, <1>4, <1>5 DEF ListWorkers

\* AllocateAssignments: the placement makes up the users of the dispatch, none of which
\* is covered yet.
LEMMA AllocateCovers ==
  ASSUME AllocatesExactly, CoverInv, NEW r \in Routines, AllocateAssignments(r)
  PROVE  CoverInv'
<1>1. /\ job[r].at = "allocate" /\ leases' = leases
      /\ plan' = plan /\ activeStage' = activeStage /\ state' = state /\ mon' = mon
  BY DEF AllocateAssignments, runVars
<1>2. /\ Shapes' /\ DisjointRanges' /\ LeasesInOrder
      /\ \A s : CoveredUsers(s)' = CoveredUsers(s)
  BY Zenon, <1>1, OrderKept
<1>3. job[r].at \in Busy /\ "issue" \in Busy
  BY <1>1 DEF Busy
<1>4. CASE Finish(r) /\ impaired' = TRUE
  BY Zenon, <1>1, <1>2, <1>3, <1>4, FinishCovers
<1>5. ASSUME NEW p \in Allocations(EffectiveCapacity, job[r].seen, job[r].num),
             job' = [job EXCEPT ![r].at = "issue", ![r].seen = {},
                                ![r].todo = Offset(p, job[r].offset)],
             ramp' = ramp, impaired' = impaired
      PROVE  CoverInv'
  <2>f. PICK f : f = Offset(p, job[r].offset)
    OBVIOUS
  <2>n. PICK n : n = job[r].offset + job[r].num
    OBVIOUS
  <2>1. Stays(r, "issue", {}, f)
    BY Zenon, <1>5, <2>f, StayForms
  <2>2. /\ job[r].seen \in SUBSET Workers /\ job[r].num \in Nat /\ job[r].offset \in Nat
        /\ plan \in Plans /\ job[r].stage \in Stages
    BY <1>3 DEF CoverInv, Types, IsJob
  <2>3. /\ IsPlacement(p) /\ Apart(p) /\ Ranges(p) = 0 .. (job[r].num - 1)
        /\ \A w \in DOMAIN p : p[w].hi <= job[r].num
    BY Zenon, <2>2, Placed
  <2>4. /\ IsPlacement(f) /\ Apart(f) /\ Ranges(f) = job[r].offset .. (n - 1)
        /\ \A w \in DOMAIN f : f[w].hi <= n
    BY Zenon, <2>2, <2>3, <2>f, <2>n, Shifted
  <2>5. Within(f, job[r].stage)
    <3>1. n <= Target(job[r].stage) /\ Target(job[r].stage) \in Nat
      BY Zenon, <1>3, <2>2, <2>n, Targets DEF CoverInv, Fits
    <3>2. \A w \in DOMAIN f : f[w].hi \in Nat
      BY <2>4 DEF IsPlacement
    <3>3. QED BY <2>2, <2>4, <2>n, <3>1, <3>2 DEF Within
  <2>6. Current' = Current
    BY <1>1 DEF Current
  <2>7. CASE r = "progression"
    <3>1. job[r].stage = Current /\ job[r].offset = 0 /\ n = job[r].num
      BY <1>3, <2>2, <2>7, <2>n, OneRamp DEF Prog
    <3>2. ~impaired => CoveredUsers(Current)' = {}
      BY Zenon, <1>1, <1>2, <2>6, <2>7, <3>1 DEF CoverInv, Shares, Prog
    <3>3. ~impaired => Splits(Current, f, n)'
      BY Zenon, <2>4, <2>6, <3>1, <3>2 DEF Splits
    <3>4. QED BY <1>1, <1>2, <1>3, <1>5, <2>1, <2>4, <2>5, <2>7, <3>1, <3>3, ProgressionStays DEF Prog
  <2>8. CASE r = "ramp"
    <3>1. job[r].stage = "ramp" /\ job[r].offset = ramp.currentVUs
      BY Zenon, <1>1, <2>8, OneRamp DEF Ramping
    <3>2. ASSUME ~impaired, Current = "ramp" PROVE Splits("ramp", f, n)'
      <4>1. Prog.at \notin Busy /\ Ramping.at # "issue"
        BY <1>1, <2>8, <3>2, OneRamp DEF Ramping
      <4>2. CoveredUsers("ramp")' = 0 .. (job[r].offset - 1)
        BY Zenon, <1>2, <3>1, <3>2, <4>1 DEF CoverInv, Shares, Reached
      <4>3. (0 .. (job[r].offset - 1)) \cap (job[r].offset .. (n - 1)) = {}
        BY <2>2, <2>n
      <4>4. (0 .. (job[r].offset - 1)) \cup (job[r].offset .. (n - 1)) = 0 .. (n - 1)
        BY <2>2, <2>n
      <4>5. QED BY Zenon, <2>4, <4>2, <4>3, <4>4 DEF Splits
    <3>3. QED BY <1>1, <1>2, <1>3, <1>5, <2>1, <2>4, <2>5, <2>8, <2>n, <3>1, <3>2, RampStays DEF Ramping
  <2>9. QED BY <2>7, <2>8 DEF Routines
<1>6. QED BY Zenon, <1>4, <1>5 DEF AllocateAssignments

\* One turn of the loop over the placement: a range moves from what is left to what is
\* covered.
LEMMA Moves ==
  ASSUME NEW s, NEW f, NEW n, NEW w \in DOMAIN f, Splits(s, f, n),
         CoveredUsers(s) \cap Users(f[w]) = {}
           => CoveredUsers(s)' = CoveredUsers(s) \cup Users(f[w])
  PROVE  /\ DOMAIN f = {w} => CoveredUsers(s)' = 0 .. (n - 1)
         /\ \A g : Lacks(g, f, w) => Splits(s, g, n)'
<1>1. /\ Apart(f) /\ CoveredUsers(s) \cap Ranges(f) = {}
      /\ CoveredUsers(s) \cup Ranges(f) = 0 .. (n - 1)
  BY Zenon DEF Splits
<1>2. Users(f[w]) \subseteq Ranges(f)
  BY Zenon DEF Ranges
<1>3. CoveredUsers(s)' = CoveredUsers(s) \cup Users(f[w])
  BY Zenon, <1>1, <1>2
<1>4. ASSUME DOMAIN f = {w} PROVE CoveredUsers(s)' = 0 .. (n - 1)
  <2>1. Ranges(f) = Users(f[w])
    BY Zenon, <1>4 DEF Ranges
  <2>2. QED BY Zenon, <1>1, <1>3, <2>1
<1>5. ASSUME NEW g, Lacks(g, f, w) PROVE Splits(s, g, n)'
  <2>1. /\ Apart(g) /\ Users(f[w]) \cap Ranges(g) = {}
        /\ Ranges(f) = Users(f[w]) \cup Ranges(g)
    BY Zenon, <1>1, <1>5 DEF Lacks
  <2>2. CoveredUsers(s)' \cap Ranges(g) = {}
    BY Zenon, <1>1, <1>3, <2>1
  <2>3. CoveredUsers(s)' \cup Ranges(g) = CoveredUsers(s) \cup Ranges(f)
    BY Zenon, <1>3, <2>1
  <2>4. CoveredUsers(s)' \cup Ranges(g) = 0 .. (n - 1)
    BY Zenon, <1>1, <2>3
  <2>5. QED BY Zenon, <2>1, <2>2, <2>4 DEF Splits
<1>6. QED BY Zenon, <1>4, <1>5

\* Issuing the placement, lease by lease.
LEMMA IssueCovers ==
  ASSUME CoverInv, NEW r \in Routines, IssueNext(r)
  PROVE  CoverInv'
<1>f. PICK f : f = job[r].todo
  OBVIOUS
<1>s. PICK s : s = job[r].stage
  OBVIOUS
<1>n. PICK n : n = job[r].offset + job[r].num
  OBVIOUS
<1>1. /\ job[r].at = "issue" /\ plan' = plan /\ activeStage' = activeStage /\ state' = state
      /\ mon' = mon /\ impaired' = impaired
  BY DEF IssueNext, runVars
<1>2. PICK w \in DOMAIN f :
        /\ IssueLease(w, s, f[w])
        /\ IF DOMAIN f = {w} THEN Finish(r)
           ELSE job' = [job EXCEPT ![r].todo = Without(@, w)] /\ ramp' = ramp
  BY <1>f, <1>s DEF IssueNext
<1>3. /\ job[r].at \in Busy /\ "issue" \in Busy
      /\ s \in Stages /\ IsPlacement(f) /\ Within(f, s) /\ plan \in Plans
      /\ job[r].seen \in SUBSET Workers
  BY Zenon, <1>1, <1>f, <1>s DEF CoverInv, Types, IsJob, Fits, Busy
<1>4. f[w].lo \in Nat /\ f[w].hi \in Nat /\ f[w].hi <= Target(s)
  BY <1>3 DEF IsPlacement, Within
<1>5. /\ \A l \in leases' : \/ l \in leases
                            \/ l.stage = s /\ l.lo \in Nat /\ l.hi \in Nat
      /\ DisjointRanges'
      /\ \A q : q # s => CoveredUsers(q)' = CoveredUsers(q)
      /\ CoveredUsers(s) \cap Users(f[w]) = {}
           => CoveredUsers(s)' = CoveredUsers(s) \cup Users(f[w])
  <2>1. /\ \A l \in leases : l.stage \in Stages /\ l.lo \in Nat /\ l.hi \in Nat
        /\ DisjointRanges
    BY Zenon DEF CoverInv, Types, Fits
  <2>2. QED BY Zenon, <1>1, <1>2, <1>3, <1>4, <2>1, Issued
<1>6. Shapes'
  BY Zenon, <1>1, <1>2, IssueFacts DEF CoverInv
<1>7. /\ r = "progression" => s = Current /\ n = Prog.num
      /\ r = "ramp" => s = "ramp" /\ Rank[Current] >= 3
  <2>1. CASE r = "progression"
    <3>1. Prog.offset = 0 /\ Prog.stage = Current
      BY Zenon, <1>3, <2>1, OneRamp DEF Prog
    <3>2. Prog.num \in Nat
      BY Zenon, <1>3, <2>1, Both DEF CoverInv, Types, IsJob, Prog
    <3>3. QED BY <1>s, <1>n, <2>1, <3>1, <3>2 DEF Prog
  <2>2. CASE r = "ramp"
    BY <1>1, <1>s, <2>2, OneRamp DEF Ramping
  <2>3. QED BY <2>1, <2>2
<1>8. LeasesInOrder
  <2>1. Rank[s] <= Rank[Current]
    BY <1>3, <1>7 DEF Rank, Routines, Stages
  <2>2. \A l \in leases : /\ l.stage \in Stages /\ l.lo \in Nat /\ l.hi \in Nat
                          /\ Rank[l.stage] <= Rank[Current]
    BY Zenon DEF CoverInv, Types, Order
  <2>3. QED BY Zenon, <1>3, <1>5, <2>1, <2>2 DEF LeasesInOrder
<1>9. Current' = Current
  BY <1>1 DEF Current
<1>10. ASSUME ~impaired, s = Current
       PROVE  /\ DOMAIN f = {w} => CoveredUsers(s)' = 0 .. (n - 1)
              /\ \A g : Lacks(g, f, w) => Splits(s, g, n)'
  <2>1. Splits(s, f, n)
    BY Zenon, <1>1, <1>10, <1>f, <1>s, <1>n DEF CoverInv, Shares
  <2>2. QED BY Zenon, <1>2, <1>5, <2>1, Moves
<1>11. CASE DOMAIN f = {w}
  <2>1. ~impaired /\ s = Current => CoveredUsers(Current)' = 0 .. (n - 1)
    BY <1>9, <1>10, <1>11
  <2>2. Finish(r) /\ (impaired => impaired')
    BY <1>1, <1>2, <1>11
  <2>3. \/ impaired'
        \/ /\ \A q : q # job[r].stage => CoveredUsers(q)' = CoveredUsers(q)
           /\ job[r].stage = Current =>
                CoveredUsers(Current)' = 0 .. ((job[r].offset + job[r].num) - 1)
    BY Zenon, <1>1, <1>5, <1>s, <1>n, <2>1
  <2>4. QED BY Zenon, <1>1, <1>3, <1>5, <1>6, <1>8, <2>2, <2>3, FinishCovers
<1>12. CASE DOMAIN f # {w}
  <2>g. PICK g : g = Without(f, w)
    OBVIOUS
  <2>1. Stays(r, "issue", job[r].seen, g)
    <3>1. job' = [job EXCEPT ![r].todo = g] /\ ramp' = ramp
      BY <1>2, <1>12, <1>f, <2>g DEF CoverInv, Types
    <3>2. QED BY Zenon, <1>1, <3>1, StayForms
  <2>2. Lacks(g, f, w)
    BY Zenon, <1>2, <1>3, <2>g, Fewer
  <2>3. IsPlacement(g) /\ Within(g, s)
    BY Zenon, <1>3, <2>2 DEF Lacks, Within
  <2>4. ~impaired /\ s = Current => Splits(s, g, n)'
    BY Zenon, <1>10, <2>2
  <2>5. CASE r = "progression"
    <3>1. ~impaired => Splits(Current, g, n)'
      BY <1>7, <1>9, <2>4, <2>5 DEF Splits
    <3>2. Prog.at \in Busy /\ Prog.seen \in SUBSET Workers /\ Within(g, Prog.stage)
          /\ Stays("progression", "issue", Prog.seen, g)
      BY <1>3, <1>s, <2>1, <2>3, <2>5 DEF Prog
    <3>3. QED BY Zenon, <1>1, <1>3, <1>5, <1>6, <1>7, <1>8, <2>3, <2>5, <3>1, <3>2, ProgressionStays
  <2>6. CASE r = "ramp"
    <3>1. Ramping.at \in Busy /\ Ramping.seen \in SUBSET Workers /\ Within(g, "ramp")
          /\ Stays("ramp", "issue", Ramping.seen, g) /\ n = Ramping.offset + Ramping.num
      BY <1>3, <1>7, <1>n, <2>1, <2>3, <2>6 DEF Ramping
    <3>2. ~impaired /\ Current = "ramp" => Splits("ramp", g, n)'
      BY <1>7, <2>4, <2>6
    <3>3. \A q : q # "ramp" => CoveredUsers(q)' = CoveredUsers(q)
      BY Zenon, <1>5, <1>7, <2>6
    <3>4. QED BY Zenon, <1>1, <1>5, <1>6, <1>8, <2>3, <3>1, <3>2, <3>3, RampStays
  <2>7. QED BY <2>5, <2>6 DEF Routines
<1>13. QED BY <1>11, <1>12

-----------------------------------------------------------------------------
\* Every step keeps the invariants of the loss of workers and of the cover.
LEMMA CoverNext ==
  ASSUME AllocatesExactly
  PROVE  LossInv /\ CoverInv /\ [Next]_vars => CoverInv'
<1> SUFFICES ASSUME LossInv, CoverInv, [Next]_vars PROVE CoverInv'
  OBVIOUS
<1>1. CASE UNCHANGED vars
  <2>1. /\ plan' = plan /\ activeStage' = activeStage /\ job' = job /\ ramp' = ramp
        /\ leases' = leases /\ mon' = mon /\ impaired' = impaired /\ state' = state
    BY <1>1 DEF vars, runVars, historyVars
  <2>2. Kept
    BY Zenon, <2>1, LeasesKept
  <2>3. QED BY Zenon, <2>1, <2>2, Aside DEF Kept, CoverInv, Types, Order, Fits
<1>2. ASSUME NEW w \in Workers, Worker(w) PROVE CoverInv'
  BY Zenon, <1>2, WorkerCovers
<1>3. ASSUME NEW r \in Routines, Dispatch(r) PROVE CoverInv'
  BY Zenon, <1>3, RevokeCovers, ListCovers, AllocateCovers, IssueCovers DEF Dispatch
<1>4. CASE Monitor
  <2>1. LossInv'
    BY Zenon, <1>4, MonitorKeeps
  <2>2. Shapes'
    BY Zenon, <2>1 DEF LossInv
  <2>3. QED BY Zenon, <1>4, <2>2, MonitorCovers
<1>5. QED BY Zenon, <1>1, <1>2, <1>3, <1>4, StartCovers, EnterCovers, SetCovers, HoldCovers, StopCovers
          DEF Next

\* What the invariant says of the leases.
LEMMA CoverGives == CoverInv => DisjointRanges /\ StageCovered
<1>1. CoverInv => DisjointRanges
  BY DEF CoverInv, Fits
<1>2. CoverInv => StageCovered
  <2> SUFFICES ASSUME CoverInv, ~impaired, \A r \in Routines : job[r].at = "idle"
               PROVE  CoveredUsers(activeStage) = 0 .. ((IF activeStage = "ramp"
                        THEN ramp.currentVUs ELSE Target(activeStage)) - 1)
    BY DEF StageCovered
  <2>1. Prog.at = "idle" /\ Ramping.at = "idle"
    BY DEF Prog, Ramping, Routines
  <2>2. activeStage # None
    BY <2>1 DEF CoverInv, Order, Starting, Busy
  <2>3. Current = activeStage /\ Prog.at \notin Busy
    BY <2>1, <2>2 DEF Current, Busy
  <2>4. CoveredUsers(Current) = 0 .. (Reached(Current) - 1)
    BY <2>1, <2>3 DEF CoverInv, Shares
  <2>5. QED BY <2>3, <2>4 DEF Reached
<1>3. QED BY <1>1, <1>2
=============================================================================
