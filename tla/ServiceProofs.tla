--------------------------- MODULE ServiceProofs ----------------------------
(***************************************************************************)
(* Three parts that have no state in common. In a worker, the engine sends *)
(* no result after Stop has closed the channel, for any virtual users, any *)
(* configuration and any interleaving of Stop with UpdateLoad, the swarm   *)
(* spawner and the operations; and the bounded queue of telemetry loses no *)
(* record but those it sheds and those it refuses, for any capacity, batch *)
(* size and number of producers. In the control plane, the rate limiter    *)
(* keeps its promise for any set of clients, any rate and burst, and any   *)
(* times at which buckets are made, cleaned up and evicted.                *)
(***************************************************************************)
EXTENDS VUEngine, TelemetryQueue, ApiRateLimiter, TLAPS

-----------------------------------------------------------------------------
(* The engine.                                                             *)

\* Where a VU's goroutine may be while operations of its own are running.
Working == {"loop", "expired", "slot", "exit"}

Places == {"none", "start", "acquire", "startup", "reacquire", "ended"} \cup Working

Quiet(v) == \A p \in Phases : ops[v][p] = 0

EngineTypes ==
  /\ ops \in [VUs -> [Phases -> Nat]]
  /\ pc \in [VUs -> Places]
  /\ cancelled \in BOOLEAN

\* The inductive invariant: only a VU in its loop or waiting in exit has operations,
\* nobody runs before Start, Stop has cancelled the context, and once the channel is
\* closed nobody has an operation, though VUs spawned late may still be on their way.
EngineInv ==
  /\ EngineTypes
  /\ \A v \in VUs : Quiet(v) \/ pc[v] \in Working
  /\ started \/ (spawner = "off" /\ \A v \in VUs : pc[v] = "none")
  /\ stopper = "no" \/ cancelled
  /\ stopper = "closed" => \A v \in VUs : Quiet(v)

-----------------------------------------------------------------------------
\* The count of operations that Exit and InvalidateSession wait for is zero only
\* when there are none in any phase.
LEMMA RunningZero ==
  ASSUME EngineTypes, NEW v \in VUs, Running(v) = 0
  PROVE  Quiet(v)
<1>1. ops[v]["acquire"] \in Nat /\ ops[v]["execute"] \in Nat /\ ops[v]["release"] \in Nat
  BY DEF EngineTypes, Phases
<1>2. ops[v]["acquire"] = 0 /\ ops[v]["execute"] = 0 /\ ops[v]["release"] = 0
  <2>1. ASSUME NEW a \in Nat, NEW b \in Nat, NEW c \in Nat, a + b + c = 0
        PROVE  a = 0 /\ b = 0 /\ c = 0
    BY <2>1
  <2>2. ops[v]["acquire"] + ops[v]["execute"] + ops[v]["release"] = 0
    BY DEF Running
  <2> QED BY Zenon, <1>1, <2>1, <2>2
<1> QED BY <1>2 DEF Quiet, Phases

\* NewEngine leaves no goroutine behind.
LEMMA EngineInvInit == Init => EngineInv
<1> SUFFICES ASSUME Init PROVE EngineInv
  OBVIOUS
<1>1. \A v \in VUs : pc[v] = "none" /\ ops[v] = NoOps
  BY DEF Init
<1>2. NoOps \in [Phases -> Nat] /\ \A p \in Phases : NoOps[p] = 0
  BY DEF NoOps
<1>3. \A v \in VUs : Quiet(v)
  BY <1>1, <1>2 DEF Quiet
<1>4. EngineTypes
  BY Zenon, <1>2 DEF Init, EngineTypes, Places
<1> QED BY <1>1, <1>3, <1>4 DEF Init, EngineInv

\* A step of the engine alone, which moves no VU's goroutine, keeps the invariant as
\* long as it respects the order of Stop: the context first, the channel last.
LEMMA EngineOnly ==
  ASSUME EngineInv, UNCHANGED <<ops, pc>>, cancelled' \in BOOLEAN,
         started' \/ (~started /\ spawner' = spawner),
         stopper' = "no" \/ cancelled',
         stopper' = "closed" => \A v \in VUs : Quiet(v)
  PROVE  EngineInv'
<1>1. \A v \in VUs : Quiet(v)' <=> Quiet(v)
  BY DEF Quiet
<1>2. EngineTypes'
  BY DEF EngineInv, EngineTypes
<1> QED BY <1>1, <1>2 DEF EngineInv

\* Goroutines of VUs that move keep it if none leaves its loop with operations of
\* its own: VUs that are spawned, and every step of VUExecutor.Run that starts none.
LEMMA MoveVUs ==
  ASSUME EngineInv, started', UNCHANGED <<ops, stopper, cancelled>>,
         pc' \in [VUs -> Places],
         \A v \in VUs : pc'[v] = pc[v] \/ Quiet(v) \/ pc'[v] \in Working
  PROVE  EngineInv'
<1>1. \A v \in VUs : Quiet(v)' <=> Quiet(v)
  BY DEF Quiet
<1>2. EngineTypes'
  BY DEF EngineInv, EngineTypes
<1>3. \A v \in VUs : Quiet(v)' \/ pc'[v] \in Working
  BY <1>1 DEF EngineInv
<1> QED BY <1>1, <1>2, <1>3 DEF EngineInv

\* The operations of a VU in its loop may change as they like while the channel is
\* open: StartOperation and the steps of an operation.
LEMMA MoveOps ==
  ASSUME EngineInv, NEW v \in VUs, pc'[v] \in Working, started',
         UNCHANGED <<stopper, cancelled>>, stopper # "closed",
         ops' \in [VUs -> [Phases -> Nat]], pc' \in [VUs -> Places],
         \A w \in VUs \ {v} : ops'[w] = ops[w] /\ pc'[w] = pc[w]
  PROVE  EngineInv'
<1>1. \A w \in VUs \ {v} : Quiet(w)' <=> Quiet(w)
  BY DEF Quiet
<1>2. EngineTypes'
  BY DEF EngineInv, EngineTypes
<1>3. \A w \in VUs : Quiet(w)' \/ pc'[w] \in Working
  BY <1>1 DEF EngineInv
<1> QED BY <1>2, <1>3 DEF EngineInv

\* spawnVULocked, for VUs that have no goroutine, keeps it.
LEMMA SpawnKeeps ==
  ASSUME EngineInv, NEW S \in SUBSET VUs, Spawn(S), \A v \in S : pc[v] = "none",
         started', UNCHANGED <<stopper, cancelled>>
  PROVE  EngineInv'
<1>1. \A v \in S : Quiet(v)
  BY DEF EngineInv, Working
<1>2. pc' \in [VUs -> Places]
  BY DEF Spawn, EngineInv, EngineTypes, Places
<1>3. \A v \in VUs : pc'[v] = pc[v] \/ Quiet(v)
  BY <1>1 DEF Spawn
<1> QED BY <1>2, <1>3, MoveVUs DEF Spawn

-----------------------------------------------------------------------------
\* The steps of the engine: Start, UpdateLoad, Stop and the spawner.
LEMMA EngineSteps ==
  ASSUME EngineInv,
         Start \/ Stop \/ StopRun \/ EngineStep \/ \E n \in updates : UpdateLoad(n)
  PROVE  EngineInv'
<1>0. cancelled \in BOOLEAN /\ (stopper = "no" \/ cancelled)
      /\ (stopper = "closed" => \A v \in VUs : Quiet(v))
  BY DEF EngineInv, EngineTypes
<1>1. CASE Start
  <2>1. started' /\ UNCHANGED <<stopper, cancelled>> /\ \A v \in VUs : pc[v] = "none"
    BY <1>1 DEF Start, EngineInv
  <2>2. CASE UNCHANGED vuVars
    BY <1>0, <2>1, <2>2, EngineOnly DEF vuVars
  <2>3. CASE \E S \in SUBSET VUs : Spawn(S)
    BY <2>1, <2>3, SpawnKeeps
  <2> QED BY <1>1, <2>2, <2>3 DEF Start
<1>2. CASE Stop
  BY <1>0, <1>2, EngineOnly DEF Stop, vuVars
<1>3. CASE StopRun
  BY <1>0, <1>3, EngineOnly DEF StopRun, vuVars
<1>4. CASE StopExecutors
  BY <1>0, <1>4, EngineOnly DEF StopExecutors, MarkDraining
<1>5. CASE CloseResults
  <2>1. \A v \in VUs : Quiet(v)
    BY <1>5 DEF CloseResults, Alive, EngineInv, Working
  <2> QED BY <1>0, <1>5, <2>1, EngineOnly DEF CloseResults, vuVars
<1>6. CASE SpawnTick
  <2>1. started' /\ UNCHANGED <<stopper, cancelled>>
    BY <1>6 DEF SpawnTick, engineVars, EngineInv
  <2>2. PICK v \in VUs : pc[v] = "none" /\ Spawn({v})
    BY <1>6 DEF SpawnTick
  <2> QED BY <2>1, <2>2, SpawnKeeps
<1>7. CASE SpawnerDone
  BY <1>0, <1>7, EngineOnly DEF SpawnerDone, MarkDraining, EngineInv
<1>8. CASE AwaitOperations
  BY <1>0, <1>8, EngineOnly DEF AwaitOperations, vuVars, EngineInv
<1>9. CASE drainAllVUs
  BY <1>0, <1>9, EngineOnly DEF drainAllVUs, vuVars, EngineInv
<1>10. ASSUME NEW n \in updates, UpdateLoad(n) PROVE EngineInv'
  <2>1. UNCHANGED <<started, stopper, cancelled, spawner>>
    BY <1>10 DEF UpdateLoad
  <2>2. \/ UNCHANGED <<ops, pc>>
        \/ started /\ \E S \in SUBSET {v \in VUs : pc[v] = "none"} : Spawn(S)
    BY <1>10 DEF UpdateLoad, vuVars
  <2>3. CASE UNCHANGED <<ops, pc>>
    BY <1>0, <2>1, <2>3, EngineOnly
  <2>4. CASE started /\ \E S \in SUBSET {v \in VUs : pc[v] = "none"} : Spawn(S)
    BY <2>1, <2>4, SpawnKeeps
  <2> QED BY <2>2, <2>3, <2>4
<1> QED BY <1>1, <1>2, <1>3, <1>4, <1>5, <1>6, <1>7, <1>8, <1>9, <1>10 DEF EngineStep

\* The steps of a virtual user: an operation starts only while the context is open,
\* and the VU is left only when its operations are done.
LEMMA VUSteps ==
  ASSUME EngineInv, NEW v \in VUs, VUStep(v)
  PROVE  EngineInv'
<1>1. pc \in [VUs -> Places] /\ ops \in [VUs -> [Phases -> Nat]] /\ EngineTypes
  BY DEF EngineInv, EngineTypes
<1>2. pc[v] # "none" /\ UNCHANGED engineVars
  BY DEF VUStep, Begin, AcquireSession, StartupSequence, LoopTop, InvalidateSession,
         ReacquireSession, StartOperation, Exit, GoroutineEnds
<1>3. started' /\ UNCHANGED <<stopper, cancelled>>
  BY <1>2 DEF EngineInv, engineVars
<1>4. ASSUME NEW to \in Places, Goto(v, to), ops' = ops, Quiet(v) \/ to \in Working
      PROVE  EngineInv'
  <2>1. pc' \in [VUs -> Places] /\ pc'[v] = to /\ \A w \in VUs \ {v} : pc'[w] = pc[w]
    BY <1>1, <1>4 DEF Goto
  <2> QED BY <1>3, <1>4, <2>1, MoveVUs
<1>5. pc[v] \notin Working => Quiet(v)
  BY DEF EngineInv
<1>6. CASE Begin(v)
  BY <1>4, <1>5, <1>6 DEF Begin, Places, Working
<1>7. CASE AcquireSession(v)
  BY <1>4, <1>5, <1>7 DEF AcquireSession, Places, Working
<1>8. CASE StartupSequence(v)
  BY <1>4, <1>8 DEF StartupSequence, Places, Working
<1>9. CASE LoopTop(v)
  BY <1>4, <1>9 DEF LoopTop, Places, Working
<1>10. CASE InvalidateSession(v)
  BY <1>1, <1>4, <1>10, RunningZero DEF InvalidateSession, Places
<1>11. CASE ReacquireSession(v)
  BY <1>4, <1>5, <1>11 DEF ReacquireSession, Places, Working
<1>12. CASE StartOperation(v)
  <2>1. Goto(v, "loop")
    BY <1>12 DEF StartOperation
  <2>2. CASE ops' = ops
    BY <1>4, <2>1, <2>2 DEF Places, Working
  <2>3. CASE ~Done(v) /\ \E p \in Phases : ops' = [ops EXCEPT ![v][p] = @ + 1]
    <3>1. stopper # "closed"
      BY <2>3 DEF Done, EngineInv
    <3>2. /\ ops' \in [VUs -> [Phases -> Nat]] /\ \A w \in VUs \ {v} : ops'[w] = ops[w]
      BY <1>1, <2>3
    <3>3. /\ pc' \in [VUs -> Places] /\ pc'[v] \in Working
          /\ \A w \in VUs \ {v} : pc'[w] = pc[w]
      BY <1>1, <2>1 DEF Goto, Places, Working
    <3> QED BY <1>3, <3>1, <3>2, <3>3, MoveOps
  <2>4. ops' = ops \/ (~Done(v) /\ \E p \in Phases : ops' = [ops EXCEPT ![v][p] = @ + 1])
    BY <1>12 DEF StartOperation, Phases
  <2> QED BY <2>2, <2>3, <2>4
<1>13. CASE Exit(v)
  BY <1>1, <1>4, <1>13, RunningZero DEF Exit, Places
<1>14. CASE GoroutineEnds(v)
  BY <1>4, <1>5, <1>14 DEF GoroutineEnds, Places, Working
<1> QED
  BY <1>6, <1>7, <1>8, <1>9, <1>10, <1>11, <1>12, <1>13, <1>14 DEF VUStep

\* The steps of an operation, which only a VU in its loop has.
LEMMA OperationSteps ==
  ASSUME EngineInv, NEW v \in VUs, OperationStep(v)
  PROVE  EngineInv'
<1>1. pc \in [VUs -> Places] /\ ops \in [VUs -> [Phases -> Nat]]
  BY DEF EngineInv, EngineTypes
<1>2. UNCHANGED engineVars /\ pc' = pc /\ \E p \in Phases : ops[v][p] > 0
  BY DEF OperationStep, OperationSession, executeOperation, OperationEnds, Move, Phases
<1>3. ~Quiet(v)
  BY <1>1, <1>2 DEF Quiet
<1>4. pc[v] \in Working /\ stopper # "closed"
  BY <1>3 DEF EngineInv
<1>5. started' /\ UNCHANGED <<stopper, cancelled>>
  BY <1>2, <1>4 DEF EngineInv, engineVars, Working
<1> DEFINE OnlyOps == ops' \in [VUs -> [Phases -> Nat]] /\ \A w \in VUs \ {v} : ops'[w] = ops[w]
<1>6. OnlyOps
  <2>1. ASSUME NEW from \in Phases, NEW to \in Phases, from # to, Move(v, from, to)
        PROVE  OnlyOps
    BY <1>1, <2>1 DEF Move
  <2>2. CASE OperationEnds(v)
    BY <1>1, <2>2 DEF OperationEnds, Phases
  <2> HIDE DEF OnlyOps
  <2>3. CASE OperationSession(v)
    BY <2>1, <2>3 DEF OperationSession, Phases
  <2>4. CASE executeOperation(v)
    BY <2>1, <2>4 DEF executeOperation, Phases
  <2> QED BY <2>2, <2>3, <2>4 DEF OperationStep
<1> QED BY <1>1, <1>2, <1>4, <1>5, <1>6, MoveOps

\* Every step of the engine keeps the invariant.
LEMMA EngineInvNext == EngineInv /\ [Next]_vars => EngineInv'
<1> SUFFICES ASSUME EngineInv, [Next]_vars PROVE EngineInv'
  OBVIOUS
<1>0. cancelled \in BOOLEAN /\ (stopper = "no" \/ cancelled)
      /\ (stopper = "closed" => \A v \in VUs : Quiet(v))
  BY DEF EngineInv, EngineTypes
<1>1. CASE UNCHANGED vars
  BY <1>0, <1>1, EngineOnly DEF vars, engineVars, vuVars
<1>2. ASSUME NEW v \in VUs, LifetimeEnds(v) PROVE EngineInv'
  BY <1>0, <1>2, EngineOnly DEF LifetimeEnds, engineVars
<1> QED
  BY <1>1, <1>2, EngineSteps, VUSteps, OperationSteps DEF Next, Finished

-----------------------------------------------------------------------------
\* No operation is left that could send on the result channel once Engine.Stop has
\* closed it: the VUs wait for their operations, the closing goroutine for the VUs,
\* and a VU that UpdateLoad spawns late finds the context cancelled.
THEOREM NothingSentOnClosed == Spec => []NoSendOnClosed
<1>1. EngineInv => NoSendOnClosed
  BY DEF EngineInv, NoSendOnClosed, Quiet, Phases
<1> QED BY <1>1, EngineInvInit, EngineInvNext, PTL DEF Spec

-----------------------------------------------------------------------------
(* The rate limiter.                                                       *)


LimiterSpec == LimiterInit(LimiterSetups) /\ [][LimiterNext]_limiterVars

-----------------------------------------------------------------------------
(* The inductive invariant.  What a bucket holds is paid for: the requests *)
(* allowed since any of them, and the tokens left, are no more than the    *)
(* burst and what was gained up to the last refill.  A client without a    *)
(* bucket, which will be given a full one, has gained it by now.  All      *)
(* amounts are multiplied by ClientTTL, in which the gain is counted.      *)

Full(s) == s.burst * TokenParts
Unit(s) == TokenParts * s.ttl
Burst(s) == s.burst * Unit(s)

\* k requests since the one allowed at time a, with these tokens left at time t.
Paid(s, k, a, tokens, t) == k * Unit(s) + tokens * s.ttl <= Burst(s) + Gained(s) * (t - a)

\* The same since every request that was allowed.
AllPaid(s, times, tokens, t) ==
  \A i \in 1 .. Len(times) : Paid(s, Len(times) - i + 1, times[i], tokens, t)

\* The promise, for the requests of one client.
Kept(s, times) ==
  \A i, j \in 1 .. Len(times) :
    i <= j => (j - i + 1) * Unit(s) <= Burst(s) + Gained(s) * (times[j] - times[i])

BucketOK(b, t) ==
  /\ b.tokens \in Nat /\ b.lastRefill \in Nat /\ b.lastRefill <= t
  /\ b.lastSeen = b.lastRefill

ClientPaid(c) ==
  AllPaid(limiter, allowed[c],
          IF c \in DOMAIN buckets THEN buckets[c].tokens ELSE Full(limiter),
          IF c \in DOMAIN buckets THEN buckets[c].lastRefill ELSE tick)

LimiterInv ==
  /\ limiter \in LimiterSetups /\ tick \in Nat
  /\ \A c \in DOMAIN buckets : BucketOK(buckets[c], tick)
  /\ allowed \in [ApiClients -> Seq(Nat)]
  /\ \A c \in ApiClients \ forgotten : ClientPaid(c) /\ Kept(limiter, allowed[c])

-----------------------------------------------------------------------------
(* Arithmetic.                                                             *)

\* What the rate adds in two stretches of time is what it adds in both together.
LEMMA Stretches ==
  ASSUME NEW r \in Int, NEW x \in Int, NEW y \in Int, NEW z \in Int
  PROVE  r * (x - y) + r * (y - z) = r * (x - z)
OBVIOUS

\* A longer time adds no less.
LEMMA LongerAddsMore ==
  ASSUME NEW r \in Nat, NEW x \in Int, NEW y \in Int, x <= y
  PROVE  r * x <= r * y
<1>1. y - x \in Nat
  OBVIOUS
<1>2. r * (y - x) \in Nat
  BY <1>1
<1>3. r * y - r * x = r * (y - x)
  OBVIOUS
<1> QED BY <1>2, <1>3

\* One more request takes a token from what is left.
LEMMA OneMore ==
  ASSUME NEW k \in Nat, NEW part \in Nat, NEW left \in Nat, NEW bound \in Int,
         k * part + left <= bound
  PROVE  (k + 1) * part + (left - part) <= bound
<1>1. k * part \in Int /\ (k + 1) * part = k * part + part
  OBVIOUS
<1> QED BY <1>1

\* What has tokens left over fits without them.
LEMMA LeftOver ==
  ASSUME NEW k \in Int, NEW part \in Nat, NEW left \in Nat, part <= left, NEW bound \in Int,
         k * part + (left - part) <= bound
  PROVE  k * part <= bound
<1>1. k * part \in Int
  OBVIOUS
<1> QED BY <1>1

\* What the rate adds is a number.
LEMMA AddedType ==
  ASSUME NEW x \in Nat, NEW r \in Nat, NEW y \in Int, NEW z \in Int
  PROVE  x + r * (y - z) \in Int
OBVIOUS

\* The order of multiplications does not matter.
LEMMA Products ==
  ASSUME NEW x \in Nat, NEW y \in Nat, NEW z \in Nat
  PROVE  x * (y * z) \in Nat /\ (x * y) * z = x * (y * z)
OBVIOUS

\* What is taken from a product's factor is taken from the product.
LEMMA TakenFrom ==
  ASSUME NEW x \in Nat, NEW y \in Nat, NEW z \in Nat
  PROVE  x * z \in Nat /\ (x - y) * z = x * z - y * z
OBVIOUS

\* The setups have natural numbers for their limits.  The gain is no less than what the
\* rate adds in ClientTTL, and no less than a full bucket.
LEMMA SetupFacts ==
  ASSUME NEW s \in LimiterSetups
  PROVE  /\ s.rate \in Nat /\ s.ttl \in Nat /\ TokenParts \in Nat
         /\ Full(s) \in Nat /\ Unit(s) \in Nat /\ Burst(s) \in Nat /\ Gained(s) \in Nat
         /\ s.rate * s.ttl \in Nat /\ s.rate * s.ttl <= Gained(s) /\ Full(s) <= Gained(s)
         /\ Full(s) * s.ttl = Burst(s)
<1>1. s \in LimiterSetup /\ TokenParts \in Nat
  BY LimiterAssumption
<1>2. s.rate \in Nat /\ s.burst \in Nat /\ s.ttl \in Nat
  BY <1>1 DEF LimiterSetup
<1>3. s.burst * TokenParts \in Nat /\ s.rate * s.ttl \in Nat /\ TokenParts * s.ttl \in Nat
  BY <1>1, <1>2
<1>4. s.burst * (TokenParts * s.ttl) \in Nat
      /\ (s.burst * TokenParts) * s.ttl = s.burst * (TokenParts * s.ttl)
  BY Zenon, <1>1, <1>2, Products
<1>5. Gained(s) \in Nat /\ s.rate * s.ttl <= Gained(s) /\ s.burst * TokenParts <= Gained(s)
  BY <1>3 DEF Gained
<1> QED BY <1>1, <1>2, <1>3, <1>4, <1>5 DEF Full, Unit, Burst

\* More tokens at a later time are paid for, if they are no more than was gained.
LEMMA PaidMore ==
  ASSUME NEW s \in LimiterSetups, NEW k \in Nat, NEW a \in Nat, NEW tokens \in Nat,
         NEW at \in Nat, NEW t \in Nat, NEW more \in Nat,
         more * s.ttl <= tokens * s.ttl + Gained(s) * (t - at), Paid(s, k, a, tokens, at)
  PROVE  Paid(s, k, a, more, t)
<1>1. Gained(s) \in Nat /\ Burst(s) \in Nat /\ Unit(s) \in Nat /\ s.ttl \in Nat
  BY SetupFacts
<1>2. Gained(s) * (t - at) + Gained(s) * (at - a) = Gained(s) * (t - a)
  BY <1>1, Stretches
<1>3. k * Unit(s) \in Nat /\ Gained(s) * (t - at) \in Int /\ Gained(s) * (at - a) \in Int
  BY <1>1
<1>4. more * s.ttl \in Int /\ tokens * s.ttl \in Int
  BY <1>1
<1> QED BY <1>1, <1>2, <1>3, <1>4 DEF Paid

\* A product is no less when a factor is.
LEMMA Scaled ==
  ASSUME NEW x \in Int, NEW y \in Int, NEW n \in Nat, x <= y
  PROVE  x * n <= y * n
<1>1. n * x <= n * y
  BY LongerAddsMore
<1> QED BY <1>1

\* The refill of take: tokens for the time since the last refill, or fewer.
LEMMA PaidRefill ==
  ASSUME NEW s \in LimiterSetups, NEW k \in Nat, NEW a \in Nat, NEW tokens \in Nat,
         NEW at \in Nat, NEW t \in Nat, NEW more \in Nat, at <= t,
         more <= tokens + (t - at) * s.rate, Paid(s, k, a, tokens, at)
  PROVE  Paid(s, k, a, more, t)
<1>1. s.rate \in Nat /\ s.ttl \in Nat /\ Gained(s) \in Nat
      /\ s.rate * s.ttl \in Nat /\ s.rate * s.ttl <= Gained(s)
  BY SetupFacts
<1>2. t - at \in Nat /\ tokens + (t - at) * s.rate \in Int
  BY <1>1
<1>3. more * s.ttl <= (tokens + (t - at) * s.rate) * s.ttl
  BY <1>1, <1>2, Scaled
<1>4. (tokens + (t - at) * s.rate) * s.ttl = tokens * s.ttl + (s.rate * s.ttl) * (t - at)
  BY <1>1, <1>2
<1>5. (s.rate * s.ttl) * (t - at) <= Gained(s) * (t - at)
  BY <1>1, <1>2, Scaled
<1>6. more * s.ttl \in Int /\ tokens * s.ttl \in Int /\ (s.rate * s.ttl) * (t - at) \in Int
      /\ Gained(s) * (t - at) \in Int
  BY <1>1, <1>2
<1>7. more * s.ttl <= tokens * s.ttl + Gained(s) * (t - at)
  BY <1>3, <1>4, <1>5, <1>6
<1> QED BY Zenon, <1>7, PaidMore

\* The bucket that cleanupLocked drops was idle long enough to gain a full one.
LEMMA PaidDropped ==
  ASSUME NEW s \in LimiterSetups, NEW k \in Nat, NEW a \in Nat, NEW tokens \in Nat,
         NEW at \in Nat, NEW t \in Nat, at < t - s.ttl, Paid(s, k, a, tokens, at)
  PROVE  Paid(s, k, a, Full(s), t)
<1>1. s.ttl \in Nat /\ Gained(s) \in Nat /\ Full(s) \in Nat /\ Full(s) <= Gained(s)
  BY SetupFacts
<1>2. t - at \in Nat /\ s.ttl <= t - at
  BY <1>1
<1>3. Full(s) * s.ttl <= Gained(s) * s.ttl
  BY <1>1, Scaled
<1>4. Gained(s) * s.ttl <= Gained(s) * (t - at)
  BY <1>1, <1>2, LongerAddsMore
<1>5. Full(s) * s.ttl \in Int /\ Gained(s) * s.ttl \in Int /\ Gained(s) * (t - at) \in Int
      /\ tokens * s.ttl \in Nat
  BY <1>1, <1>2
<1>6. Full(s) * s.ttl <= tokens * s.ttl + Gained(s) * (t - at)
  BY <1>3, <1>4, <1>5
<1> QED BY Zenon, <1>1, <1>6, PaidMore

\* A client without a bucket stays paid as time passes.
LEMMA PaidLater ==
  ASSUME NEW s \in LimiterSetups, NEW k \in Nat, NEW a \in Nat, NEW tokens \in Nat,
         NEW at \in Nat, NEW t \in Nat, at <= t, Paid(s, k, a, tokens, at)
  PROVE  Paid(s, k, a, tokens, t)
<1>1. s.rate \in Nat
  BY SetupFacts
<1>2. (t - at) * s.rate \in Nat
  BY <1>1
<1>3. tokens <= tokens + (t - at) * s.rate
  BY <1>2
<1> QED BY <1>3, PaidRefill

-----------------------------------------------------------------------------
(* The same for all the requests of a client.                              *)

\* The number of requests since one of them, and its time, are numbers.
LEMMA TimesTypes ==
  ASSUME NEW times \in Seq(Nat), NEW i \in 1 .. Len(times)
  PROVE  Len(times) \in Nat /\ Len(times) - i + 1 \in Nat /\ times[i] \in Nat
<1>1. Len(times) \in Nat /\ times[i] \in Nat
  OBVIOUS
<1> QED BY <1>1

\* PaidRefill since every request.
LEMMA AllRefill ==
  ASSUME NEW s \in LimiterSetups, NEW times \in Seq(Nat), NEW tokens \in Nat,
         NEW at \in Nat, NEW t \in Nat, NEW more \in Nat, at <= t,
         more <= tokens + (t - at) * s.rate, AllPaid(s, times, tokens, at)
  PROVE  AllPaid(s, times, more, t)
BY Zenon, TimesTypes, PaidRefill DEF AllPaid

\* PaidDropped since every request.
LEMMA AllDropped ==
  ASSUME NEW s \in LimiterSetups, NEW times \in Seq(Nat), NEW tokens \in Nat,
         NEW at \in Nat, NEW t \in Nat, at < t - s.ttl, AllPaid(s, times, tokens, at)
  PROVE  AllPaid(s, times, Full(s), t)
BY Zenon, TimesTypes, PaidDropped DEF AllPaid

\* PaidLater since every request.
LEMMA AllLater ==
  ASSUME NEW s \in LimiterSetups, NEW times \in Seq(Nat), NEW tokens \in Nat,
         NEW at \in Nat, NEW t \in Nat, at <= t, AllPaid(s, times, tokens, at)
  PROVE  AllPaid(s, times, tokens, t)
BY Zenon, TimesTypes, PaidLater DEF AllPaid

\* A token is moved from the bucket to the requests: the new request is within the
\* promise since every earlier one, and what is left is paid for.
LEMMA Spend ==
  ASSUME NEW s \in LimiterSetups, NEW times \in Seq(Nat), NEW t \in Nat, NEW more \in Nat,
         TokenParts <= more, more <= Full(s),
         AllPaid(s, times, more, t), Kept(s, times)
  PROVE  AllPaid(s, Append(times, t), more - TokenParts, t) /\ Kept(s, Append(times, t))
<1> DEFINE n == Len(times)
           ts == Append(times, t)
           left == more * s.ttl
<1>0. /\ s.ttl \in Nat /\ TokenParts \in Nat /\ Full(s) \in Nat /\ Full(s) * s.ttl = Burst(s)
      /\ Gained(s) \in Nat /\ Burst(s) \in Nat /\ Unit(s) \in Nat /\ n \in Nat
  BY SetupFacts
<1>1. /\ Gained(s) \in Nat /\ Burst(s) \in Nat /\ Unit(s) \in Nat /\ n \in Nat
      /\ left \in Nat /\ Unit(s) <= left /\ left <= Burst(s)
      /\ (more - TokenParts) * s.ttl = left - Unit(s)
  <2>1. TokenParts * s.ttl <= more * s.ttl /\ more * s.ttl <= Full(s) * s.ttl
    BY <1>0, Scaled
  <2>2. more * s.ttl \in Nat /\ (more - TokenParts) * s.ttl = more * s.ttl - TokenParts * s.ttl
    <3>1. more \in Nat /\ TokenParts \in Nat /\ s.ttl \in Nat
      BY Zenon, <1>0
    <3> QED BY ONLY <3>1, TakenFrom
  <2> QED BY <1>0, <2>1, <2>2 DEF Unit
<1>2. /\ ts \in Seq(Nat) /\ Len(ts) = n + 1 /\ ts[n + 1] = t
      /\ \A i \in 1 .. n : ts[i] = times[i] /\ times[i] \in Nat
  OBVIOUS
<1> HIDE DEF n, ts, left
<1>3. ASSUME NEW i \in 1 .. n + 1
      PROVE  /\ ts[i] \in Int
             /\ (n + 1 - i + 1) * Unit(s) + (left - Unit(s)) <= Burst(s) + Gained(s) * (t - ts[i])
  <2>1. CASE i \in 1 .. n
    <3>1. ts[i] \in Int /\ n - i + 1 \in Nat /\ n + 1 - i + 1 = (n - i + 1) + 1
      BY <1>1, <1>2, <2>1
    <3>2. (n - i + 1) * Unit(s) + left <= Burst(s) + Gained(s) * (t - ts[i])
      <4>1. Paid(s, n - i + 1, times[i], more, t)
        BY Zenon, <2>1 DEF AllPaid, n
      <4> QED BY Zenon, <1>2, <2>1, <4>1 DEF Paid, left
    <3>3. Burst(s) + Gained(s) * (t - ts[i]) \in Int
      <4>1. t \in Int
        OBVIOUS
      <4> QED BY Zenon, <1>1, <3>1, <4>1, AddedType
    <3>4. ((n - i + 1) + 1) * Unit(s) + (left - Unit(s)) <= Burst(s) + Gained(s) * (t - ts[i])
      BY Zenon, <1>1, <3>1, <3>2, <3>3, OneMore
    <3> QED BY Zenon, <3>1, <3>4
  <2>2. CASE i = n + 1
    <3>1. ts[i] = t /\ n + 1 - i + 1 = 1 /\ t - ts[i] = 0
      BY <1>1, <1>2, <2>2
    <3>2. 1 * Unit(s) + (left - Unit(s)) <= Burst(s) + Gained(s) * 0
      BY <1>1
    <3>3. ts[i] \in Int
      BY <3>1
    <3> QED BY Zenon, <3>1, <3>2, <3>3
  <2> QED BY <1>1, <2>1, <2>2
<1>4. AllPaid(s, ts, more - TokenParts, t)
  <2>1. \A i \in 1 .. n + 1 : Paid(s, n + 1 - i + 1, ts[i], more - TokenParts, t)
    BY Zenon, <1>1, <1>3 DEF Paid
  <2>2. ASSUME NEW i \in 1 .. Len(ts)
        PROVE  Paid(s, Len(ts) - i + 1, ts[i], more - TokenParts, t)
    <3>1. i \in 1 .. n + 1 /\ Len(ts) - i + 1 = n + 1 - i + 1
      BY <1>1, <1>2
    <3> QED BY Zenon, <2>1, <3>1
  <2> QED BY Zenon, <2>2 DEF AllPaid
<1>5. ASSUME NEW i \in 1 .. n + 1, NEW j \in 1 .. n + 1, i <= j
      PROVE  (j - i + 1) * Unit(s) <= Burst(s) + Gained(s) * (ts[j] - ts[i])
  <2>1. CASE j = n + 1
    <3>1. /\ (n + 1 - i + 1) * Unit(s) + (left - Unit(s)) <= Burst(s) + Gained(s) * (t - ts[i])
          /\ ts[i] \in Int
      BY Zenon, <1>3
    <3>2. n + 1 - i + 1 \in Int /\ ts[j] = t
      BY <1>1, <1>2, <2>1
    <3>3. Burst(s) + Gained(s) * (t - ts[i]) \in Int
      <4>1. t \in Int
        OBVIOUS
      <4> QED BY Zenon, <1>1, <3>1, <4>1, AddedType
    <3>4. (n + 1 - i + 1) * Unit(s) <= Burst(s) + Gained(s) * (t - ts[i])
      BY Zenon, <1>1, <3>1, <3>2, <3>3, LeftOver
    <3>5. j - i + 1 = n + 1 - i + 1
      BY <1>1, <2>1
    <3> QED BY Zenon, <3>2, <3>4, <3>5
  <2>2. CASE j # n + 1
    <3>1. i \in 1 .. n /\ j \in 1 .. n
      BY <1>1, <1>5, <2>2
    <3>2. ts[i] = times[i] /\ ts[j] = times[j]
      BY <1>2, <3>1
    <3> QED BY Zenon, <1>5, <3>1, <3>2 DEF Kept, n
  <2> QED BY <2>1, <2>2
<1>6. Kept(s, ts)
  BY Zenon, <1>2, <1>5 DEF Kept
<1> QED BY <1>4, <1>6 DEF ts

-----------------------------------------------------------------------------
(* The steps.                                                              *)

\* The refill adds tokens up to the burst, and none for nothing.
LEMMA RefillFacts ==
  ASSUME LimiterInv, NEW b, BucketOK(b, tick)
  PROVE  /\ Refilled(b) \in Nat /\ Refilled(b) <= Full(limiter)
         /\ Refilled(b) <= b.tokens + (tick - b.lastRefill) * limiter.rate
<1> DEFINE x == Full(limiter)
           y == b.tokens + (tick - b.lastRefill) * limiter.rate
<1>1. x \in Nat /\ limiter.rate \in Nat /\ tick \in Nat
  BY SetupFacts DEF LimiterInv
<1>2. y \in Nat
  <2>1. tick - b.lastRefill \in Nat
    BY <1>1 DEF BucketOK
  <2>2. (tick - b.lastRefill) * limiter.rate \in Nat
    BY <1>1, <2>1
  <2> QED BY <2>2 DEF BucketOK
<1>3. Refilled(b) = IF y > x THEN x ELSE y
  BY Zenon DEF Refilled, Full
<1> HIDE DEF x, y
<1>4. Refilled(b) \in Nat /\ Refilled(b) <= x /\ Refilled(b) <= y
  BY <1>1, <1>2, <1>3
<1> QED BY <1>4 DEF x, y

\* After the cleanup the buckets are those of before, and a client without one is
\* paid as if its bucket were full.
LEMMA CleanedFacts ==
  ASSUME LimiterInv
  PROVE  /\ \A c \in DOMAIN Cleaned : c \in DOMAIN buckets /\ Cleaned[c] = buckets[c]
         /\ \A c \in (ApiClients \ forgotten) \ DOMAIN Cleaned :
              AllPaid(limiter, allowed[c], Full(limiter), tick)
<1>1. \A c \in DOMAIN Cleaned : c \in DOMAIN buckets /\ Cleaned[c] = buckets[c]
  BY DEF Cleaned
<1>2. ASSUME NEW c \in ApiClients \ forgotten, c \notin DOMAIN Cleaned
      PROVE  AllPaid(limiter, allowed[c], Full(limiter), tick)
  <2>1. CASE c \notin DOMAIN buckets
    BY <1>2, <2>1 DEF LimiterInv, ClientPaid
  <2>2. CASE c \in DOMAIN buckets
    <3>1. buckets[c].lastRefill < tick - limiter.ttl
      <4>1. ~(buckets[c].lastSeen >= tick - limiter.ttl)
        BY <1>2, <2>2 DEF Cleaned
      <4>2. buckets[c].lastSeen = buckets[c].lastRefill /\ buckets[c].lastRefill \in Nat
            /\ tick \in Nat /\ limiter.ttl \in Nat
        BY <2>2, SetupFacts DEF LimiterInv, BucketOK
      <4> QED BY <4>1, <4>2
    <3>2. AllPaid(limiter, allowed[c], buckets[c].tokens, buckets[c].lastRefill)
      BY <1>2, <2>2 DEF LimiterInv, ClientPaid
    <3>3. /\ buckets[c].tokens \in Nat /\ buckets[c].lastRefill \in Nat /\ tick \in Nat
          /\ limiter \in LimiterSetups /\ allowed[c] \in Seq(Nat)
      BY <1>2, <2>2 DEF LimiterInv, BucketOK
    <3> QED BY <3>1, <3>2, <3>3, AllDropped
  <2> QED BY <2>1, <2>2
<1> QED BY Zenon, <1>1, <1>2

\* One request through allowKey: the buckets of the others are kept, dropped when
\* they would be full, or evicted, which the promise excepts; the bucket of the client
\* is refilled and gives a token or none.
LEMMA AllowKeeps ==
  ASSUME LimiterInv, NEW c \in ApiClients, allowKey(c)
  PROVE  LimiterInv'
<1> DEFINE b == IF c \in DOMAIN Cleaned THEN Cleaned[c] ELSE newTokenBucket
<1>1. PICK evicted \in SUBSET Victims(Cleaned) :
        /\ buckets' = [x \in DOMAIN [y \in DOMAIN Cleaned \ evicted |-> Cleaned[y]] \cup {c} |->
                        IF x = c THEN take(b) ELSE [y \in DOMAIN Cleaned \ evicted |-> Cleaned[y]][x]]
        /\ allowed' = IF Refilled(b) >= TokenParts
                      THEN [allowed EXCEPT ![c] = Append(@, tick)] ELSE allowed
        /\ forgotten' = forgotten \cup evicted
        /\ UNCHANGED <<limiter, tick>>
  BY Zenon DEF allowKey
<1>2. /\ DOMAIN buckets' = (DOMAIN Cleaned \ evicted) \cup {c}
      /\ buckets'[c] = take(b)
      /\ \A x \in DOMAIN buckets' \ {c} : x \in DOMAIN Cleaned /\ buckets'[x] = Cleaned[x]
  BY <1>1
<1>3. /\ limiter \in LimiterSetups /\ tick \in Nat /\ Full(limiter) \in Nat /\ TokenParts \in Nat
      /\ allowed \in [ApiClients -> Seq(Nat)] /\ allowed[c] \in Seq(Nat)
  BY SetupFacts DEF LimiterInv
<1>4. BucketOK(b, tick)
  <2>1. CASE c \in DOMAIN Cleaned
    BY Zenon, <2>1, CleanedFacts DEF LimiterInv
  <2>2. CASE c \notin DOMAIN Cleaned
    BY <1>3, <2>2 DEF BucketOK, newTokenBucket, Full
  <2> QED BY <2>1, <2>2
<1>5. c \notin forgotten => AllPaid(limiter, allowed[c], b.tokens, b.lastRefill)
  <2>1. CASE c \in DOMAIN Cleaned
    BY Zenon, <2>1, CleanedFacts DEF LimiterInv, ClientPaid
  <2>2. CASE c \notin DOMAIN Cleaned
    BY <2>2, CleanedFacts DEF newTokenBucket, Full
  <2> QED BY <2>1, <2>2
<1> HIDE DEF b
<1> DEFINE more == Refilled(b)
<1>6. /\ more \in Nat /\ more <= Full(limiter)
      /\ more <= b.tokens + (tick - b.lastRefill) * limiter.rate
  BY <1>4, RefillFacts
<1>7. c \notin forgotten => AllPaid(limiter, allowed[c], more, tick)
  BY <1>3, <1>4, <1>5, <1>6, AllRefill DEF BucketOK
<1>8. /\ take(b).tokens = IF more >= TokenParts THEN more - TokenParts ELSE more
      /\ take(b).lastRefill = tick /\ take(b).lastSeen = tick
  BY <1>6 DEF take
<1> HIDE DEF more
<1>9. BucketOK(take(b), tick)
  BY <1>3, <1>6, <1>8 DEF BucketOK
<1>10. \A x \in DOMAIN buckets' : BucketOK(buckets'[x], tick')
  BY Zenon, <1>1, <1>2, <1>9, CleanedFacts DEF LimiterInv
<1>11. /\ allowed' \in [ApiClients -> Seq(Nat)]
       /\ allowed'[c] = IF more >= TokenParts THEN Append(allowed[c], tick) ELSE allowed[c]
       /\ \A x \in ApiClients \ {c} : allowed'[x] = allowed[x]
  <2>1. Append(allowed[c], tick) \in Seq(Nat)
    BY <1>3
  <2> QED BY <1>1, <1>3, <2>1 DEF more
<1>12. ASSUME NEW x \in ApiClients \ forgotten'
       PROVE  ClientPaid(x)' /\ Kept(limiter, allowed[x])'
  <2>1. x \notin forgotten /\ x \notin evicted
    BY <1>1, <1>12
  <2>2. CASE x = c
    <3>1. /\ AllPaid(limiter, allowed'[c], take(b).tokens, tick)
          /\ Kept(limiter, allowed'[c])
      <4>1. Kept(limiter, allowed[c])
        BY <2>1, <2>2 DEF LimiterInv
      <4>2. CASE more >= TokenParts
        BY <1>3, <1>6, <1>7, <1>8, <1>11, <2>1, <2>2, <4>1, <4>2, Spend
      <4>3. CASE ~(more >= TokenParts)
        BY Zenon, <1>7, <1>8, <1>11, <2>1, <2>2, <4>1, <4>3
      <4> QED BY <4>2, <4>3
    <3> QED BY Zenon, <1>1, <1>2, <1>8, <2>2, <3>1 DEF ClientPaid
  <2>3. CASE x # c
    <3>1. Kept(limiter, allowed'[x])
      BY <1>11, <2>1, <2>3 DEF LimiterInv
    <3>2. CASE x \in DOMAIN Cleaned
      <4>1. x \in DOMAIN buckets' /\ buckets'[x] = buckets[x] /\ x \in DOMAIN buckets
        BY Zenon, <1>2, <2>1, <3>2, CleanedFacts, <2>3
      <4>2. AllPaid(limiter, allowed[x], buckets[x].tokens, buckets[x].lastRefill)
        BY Zenon, <2>1, <4>1 DEF LimiterInv, ClientPaid
      <4> QED BY Zenon, <1>1, <1>11, <2>3, <3>1, <4>1, <4>2 DEF ClientPaid
    <3>3. CASE x \notin DOMAIN Cleaned
      <4>1. x \notin DOMAIN buckets'
        BY Zenon, <1>2, <2>3, <3>3
      <4>2. AllPaid(limiter, allowed[x], Full(limiter), tick)
        BY <2>1, <3>3, CleanedFacts
      <4> QED BY <1>1, <1>11, <2>3, <3>1, <4>1, <4>2 DEF ClientPaid
    <3> QED BY <3>2, <3>3
  <2> QED BY <2>2, <2>3
<1> QED BY Zenon, <1>1, <1>3, <1>10, <1>11, <1>12 DEF LimiterInv

\* Time passes.
LEMMA TickKeeps ==
  ASSUME LimiterInv, LimiterTick
  PROVE  LimiterInv'
<1>1. /\ limiter \in LimiterSetups /\ tick \in Nat /\ tick' = tick + 1
      /\ UNCHANGED <<limiter, buckets, allowed, forgotten>> /\ Full(limiter) \in Nat
      /\ \A c \in ApiClients : allowed[c] \in Seq(Nat)
  BY SetupFacts DEF LimiterInv, LimiterTick
<1>2. \A c \in DOMAIN buckets : BucketOK(buckets[c], tick')
  <2>1. \A b : BucketOK(b, tick) => BucketOK(b, tick')
    BY <1>1 DEF BucketOK
  <2> QED BY Zenon, <2>1 DEF LimiterInv
<1>3. ASSUME NEW c \in ApiClients \ forgotten PROVE ClientPaid(c)'
  <2>1. CASE c \in DOMAIN buckets
    BY Zenon, <1>1, <1>3, <2>1 DEF LimiterInv, ClientPaid
  <2>2. CASE c \notin DOMAIN buckets
    <3>1. AllPaid(limiter, allowed[c], Full(limiter), tick)
      BY Zenon, <1>3, <2>2 DEF LimiterInv, ClientPaid
    <3>2. AllPaid(limiter, allowed[c], Full(limiter), tick')
      BY <1>1, <3>1, AllLater
    <3> QED BY <1>1, <2>2, <3>2 DEF ClientPaid
  <2> QED BY <2>1, <2>2
<1> QED BY <1>1, <1>2, <1>3 DEF LimiterInv

\* A limiter that was just made has no buckets and has allowed nothing.
LEMMA LimiterInvInit == LimiterInit(LimiterSetups) => LimiterInv
<1> SUFFICES ASSUME LimiterInit(LimiterSetups) PROVE LimiterInv
  OBVIOUS
<1>1. \A c \in ApiClients : allowed[c] = <<>>
  BY DEF LimiterInit
<1>2. allowed \in [ApiClients -> Seq(Nat)]
  BY DEF LimiterInit
<1>3. DOMAIN buckets = {}
  BY DEF LimiterInit
<1> QED BY <1>1, <1>2, <1>3 DEF LimiterInit, LimiterInv, ClientPaid, AllPaid, Kept

-----------------------------------------------------------------------------
\* In no stretch of time does allowKey let a client do more than the burst and what the
\* client gains in it: at most the configured rate, or one burst in every ClientTTL if that
\* is more.  This is for every rate, burst and ClientTTL, also where cleanupLocked drops
\* buckets that are not full yet; only a bucket that evictOldestLocked dropped for want of
\* room starts over.
THEOREM RateAlwaysKept == LimiterSpec => []RateKept
<1>1. LimiterInv => RateKept
  <2> SUFFICES ASSUME LimiterInv, NEW c \in ApiClients \ forgotten
               PROVE  \A i, j \in DOMAIN allowed[c] :
                        i <= j => (j - i + 1) * (TokenParts * limiter.ttl)
                          <= limiter.burst * (TokenParts * limiter.ttl)
                             + Gained(limiter) * (allowed[c][j] - allowed[c][i])
    BY DEF RateKept
  <2>1. allowed[c] \in Seq(Nat) /\ Kept(limiter, allowed[c])
    BY DEF LimiterInv
  <2>2. DOMAIN allowed[c] = 1 .. Len(allowed[c])
    BY <2>1
  <2> QED BY Zenon, <2>1, <2>2 DEF Kept, Burst, Unit
<1>2. LimiterInv /\ [LimiterNext]_limiterVars => LimiterInv'
  <2> SUFFICES ASSUME LimiterInv, [LimiterNext]_limiterVars PROVE LimiterInv'
    OBVIOUS
  <2>1. CASE UNCHANGED limiterVars
    BY Zenon, <2>1 DEF limiterVars, LimiterInv, ClientPaid
  <2> QED BY <2>1, AllowKeeps, TickKeeps DEF LimiterNext
<1> QED BY <1>1, <1>2, LimiterInvInit, PTL DEF LimiterSpec

-----------------------------------------------------------------------------
(* The telemetry queue.                                                    *)

INSTANCE FiniteSetTheorems

QueueTypes ==
  /\ setup \in Setups
  /\ records \in Seq(Record) /\ taken \in Seq(Record) /\ made \in Nat
  /\ recording \in [Producers -> Record]

\* What Enqueue has not decided on yet is new, and no two producers have the same.
InHand ==
  /\ \A r \in accepted : r.n \in 1 .. made
  /\ \A p \in Producers : /\ recording[p] = NoRecord \/ recording[p].n \in 1 .. made
                          /\ recording[p] \notin accepted
  /\ \A p, q \in Producers :
       recording[p] # NoRecord /\ recording[p] = recording[q] => p = q

\* The inductive invariant.
QueueInv == QueueTypes /\ InHand /\ OnlyShedLost

-----------------------------------------------------------------------------
(* Lists of records.                                                       *)

\* The list u is s and then t.
Joins(u, s, t) ==
  /\ Range(u) = Range(s) \cup Range(t)
  /\ IsInjective(u) <=> IsInjective(s) /\ IsInjective(t) /\ Range(s) \cap Range(t) = {}

\* Where the elements of two lists are, once one list is behind the other.
Spliced(S, s, m, t, n, u) ==
  /\ u \in Seq(S) /\ DOMAIN u = 1 .. m + n
  /\ \A i \in 1 .. m + n : u[i] = IF i <= m THEN s[i] ELSE t[i - m]

\* Two lists, one behind the other.
LEMMA ConcatAt ==
  ASSUME NEW S, NEW s \in Seq(S), NEW t \in Seq(S)
  PROVE  Spliced(S, s, Len(s), t, Len(t), s \o t)
BY DEF Spliced

\* What two lists hold together.
LEMMA ConcatJoins ==
  ASSUME NEW S, NEW s \in Seq(S), NEW t \in Seq(S)
  PROVE  Joins(s \o t, s, t)
<1>1. PICK u : u = s \o t
  BY Zenon
<1>2. PICK m \in Nat : m = Len(s)
  OBVIOUS
<1>3. PICK n \in Nat : n = Len(t)
  OBVIOUS
<1>4. /\ DOMAIN u = 1 .. m + n /\ DOMAIN s = 1 .. m /\ DOMAIN t = 1 .. n
      /\ \A i \in 1 .. m + n : u[i] = IF i <= m THEN s[i] ELSE t[i - m]
  <2>1. Spliced(S, s, m, t, n, u)
    BY Zenon, <1>1, <1>2, <1>3, ConcatAt
  <2>2. DOMAIN s = 1 .. m /\ DOMAIN t = 1 .. n
    BY <1>2, <1>3
  <2>3. QED BY Zenon, <2>1, <2>2 DEF Spliced
<1>5. \A i \in DOMAIN s : i \in DOMAIN u /\ u[i] = s[i]
  BY <1>4
<1>6. \A i \in DOMAIN t : m + i \in DOMAIN u /\ u[m + i] = t[i]
  <2>1. \A i \in 1 .. n : m + i \in 1 .. m + n /\ ~(m + i <= m) /\ m + i - m = i
    OBVIOUS
  <2>2. ASSUME NEW i \in DOMAIN t PROVE m + i \in DOMAIN u /\ u[m + i] = t[i]
    <3>1. m + i \in 1 .. m + n /\ ~(m + i <= m) /\ m + i - m = i
      BY Zenon, <1>4, <2>1, <2>2
    <3>2. PICK j : j = m + i
      BY Zenon
    <3>3. j \in 1 .. m + n /\ ~(j <= m) /\ j - m = i
      BY ONLY <3>1, <3>2
    <3>4. u[j] = t[j - m]
      BY Zenon, <1>4, <3>3
    <3>5. QED BY Zenon, <1>4, <3>2, <3>3, <3>4
  <2>3. QED BY Zenon, <2>2
<1>7. \A i \in DOMAIN u : i \in DOMAIN s \/ \E k \in DOMAIN t : i = m + k
  <2>1. \A i \in 1 .. m + n : i \in 1 .. m \/ (i - m \in 1 .. n /\ i = m + (i - m))
    OBVIOUS
  <2>2. QED BY Zenon, <1>4, <2>1
<1>8. \A i \in DOMAIN s : \A k \in DOMAIN t : i # m + k
  BY <1>4
<1>9. \A i, k \in DOMAIN t : (m + i = m + k) <=> (i = k)
  BY <1>4
<1>10. Range(u) = Range(s) \cup Range(t)
  <2>1. ASSUME NEW x \in Range(u) PROVE x \in Range(s) \/ x \in Range(t)
    <3>1. PICK i \in DOMAIN u : x = u[i]
      BY Zenon DEF Range
    <3>2. CASE i \in DOMAIN s
      BY Zenon, <1>5, <3>1, <3>2 DEF Range
    <3>3. CASE \E k \in DOMAIN t : i = m + k
      BY Zenon, <1>6, <3>1, <3>3 DEF Range
    <3>4. QED BY Zenon, <1>7, <3>2, <3>3
  <2>2. Range(s) \subseteq Range(u) /\ Range(t) \subseteq Range(u)
    BY Zenon, <1>5, <1>6 DEF Range
  <2>3. QED BY Zenon, <2>1, <2>2
<1>11. ASSUME IsInjective(u) PROVE IsInjective(s) /\ IsInjective(t) /\ Range(s) \cap Range(t) = {}
  <2>1. IsInjective(s)
    BY Zenon, <1>5, <1>11 DEF IsInjective
  <2>2. IsInjective(t)
    BY Zenon, <1>6, <1>9, <1>11 DEF IsInjective
  <2>3. ASSUME NEW x \in Range(s), x \in Range(t) PROVE FALSE
    <3>1. PICK i \in DOMAIN s : x = s[i]
      BY Zenon DEF Range
    <3>2. PICK k \in DOMAIN t : x = t[k]
      BY Zenon, <2>3 DEF Range
    <3>3. QED BY Zenon, <1>5, <1>6, <1>8, <1>11, <3>1, <3>2 DEF IsInjective
  <2>4. QED BY Zenon, <2>1, <2>2, <2>3
<1>12. ASSUME IsInjective(s), IsInjective(t), Range(s) \cap Range(t) = {} PROVE IsInjective(u)
  <2>1. \A i \in DOMAIN s : \A k \in DOMAIN t : s[i] # t[k]
    BY Zenon, <1>12 DEF Range
  <2>2. ASSUME NEW i \in DOMAIN u, NEW j \in DOMAIN u, u[i] = u[j] PROVE i = j
    <3>1. CASE i \in DOMAIN s /\ j \in DOMAIN s
      BY Zenon, <1>5, <1>12, <2>2, <3>1 DEF IsInjective
    <3>2. ASSUME i \in DOMAIN s, NEW k \in DOMAIN t, j = m + k PROVE FALSE
      BY Zenon, <1>5, <1>6, <2>1, <2>2, <3>2
    <3>3. ASSUME j \in DOMAIN s, NEW k \in DOMAIN t, i = m + k PROVE FALSE
      BY Zenon, <1>5, <1>6, <2>1, <2>2, <3>3
    <3>4. ASSUME NEW k \in DOMAIN t, NEW l \in DOMAIN t, i = m + k, j = m + l PROVE i = j
      BY Zenon, <1>6, <1>12, <2>2, <3>4 DEF IsInjective
    <3>5. QED BY Zenon, <1>7, <3>1, <3>2, <3>3, <3>4
  <2>3. QED BY Zenon, <2>2 DEF IsInjective
<1>13. QED BY Zenon, <1>1, <1>10, <1>11, <1>12 DEF Joins

\* A list of one.
LEMMA Single ==
  ASSUME NEW x
  PROVE  Range(<<x>>) = {x} /\ IsInjective(<<x>>)
<1>1. DOMAIN <<x>> = {1} /\ <<x>>[1] = x
  OBVIOUS
<1>2. Range(<<x>>) = {x}
  BY Zenon, <1>1 DEF Range
<1>3. IsInjective(<<x>>)
  BY Zenon, <1>1 DEF IsInjective
<1>4. QED BY Zenon, <1>2, <1>3

\* A list cut in two: what DequeueBatch takes, and what it leaves.
LEMMA CutJoins ==
  ASSUME NEW S, NEW s \in Seq(S), NEW k \in 0 .. Len(s)
  PROVE  /\ SubSeq(s, 1, k) \in Seq(S) /\ SubSeq(s, k + 1, Len(s)) \in Seq(S)
         /\ SubSeq(s, 1, k) \o SubSeq(s, k + 1, Len(s)) = s
<1>1. PICK a : a = SubSeq(s, 1, k)
  BY Zenon
<1>2. PICK b : b = SubSeq(s, k + 1, Len(s))
  BY Zenon
<1>3. PICK n \in Nat : n = Len(s) /\ k \in Nat /\ k <= n
  OBVIOUS
<1>4. a \in Seq(S) /\ Len(a) = k /\ \A i \in 1 .. k : a[i] = s[i]
  BY <1>1, <1>3
<1>5. b \in Seq(S) /\ Len(b) = n - k /\ \A i \in 1 .. n - k : b[i] = s[k + i]
  BY <1>2, <1>3
<1>6. PICK u : u = a \o b
  BY Zenon
<1>7. Spliced(S, a, k, b, n - k, u)
  BY Zenon, <1>4, <1>5, <1>6, ConcatAt
<1>8. u \in Seq(S) /\ DOMAIN u = 1 .. n /\ \A i \in 1 .. n : u[i] = s[i]
  <2>1. \A i \in 1 .. n : IF i <= k THEN i \in 1 .. k ELSE i - k \in 1 .. n - k /\ k + (i - k) = i
    BY <1>3
  <2>2. k + (n - k) = n
    BY <1>3
  <2>3. QED BY Zenon, <1>4, <1>5, <1>7, <2>1, <2>2 DEF Spliced
<1>9. u = s
  <2>1. u = [i \in 1 .. n |-> u[i]] /\ s = [i \in 1 .. n |-> s[i]]
    BY <1>3, <1>8
  <2>2. QED BY Zenon, <1>8, <2>1
<1>10. QED BY Zenon, <1>1, <1>2, <1>4, <1>5, <1>6, <1>9

\* shedTier2Locked and shedTier1Locked: one record less, the others as before.
LEMMA WithoutOne ==
  ASSUME NEW S, records \in Seq(S), IsInjective(records), NEW v \in DOMAIN records
  PROVE  /\ Without(v) \in Seq(S) /\ IsInjective(Without(v))
         /\ Range(Without(v)) = Range(records) \ {records[v]}
<1>1. PICK n \in Nat : n = Len(records) /\ DOMAIN records = 1 .. n /\ v \in 1 .. n
  OBVIOUS
<1>2. PICK w : w = Without(v)
  OBVIOUS
<1>3. /\ w \in Seq(S) /\ DOMAIN w = 1 .. n - 1
      /\ \A i \in 1 .. n - 1 : w[i] = records[IF i < v THEN i ELSE i + 1]
  <2>1. PICK a : a = SubSeq(records, 1, v - 1)
    BY Zenon
  <2>2. PICK b : b = SubSeq(records, v + 1, n)
    BY Zenon
  <2>3. a \in Seq(S) /\ Len(a) = v - 1 /\ \A i \in 1 .. v - 1 : a[i] = records[i]
    BY <1>1, <2>1
  <2>4. b \in Seq(S) /\ Len(b) = n - v /\ \A i \in 1 .. n - v : b[i] = records[v + i]
    BY <1>1, <2>2
  <2>5. w = a \o b
    BY Zenon, <1>1, <1>2, <2>1, <2>2 DEF Without
  <2>6. Spliced(S, a, v - 1, b, n - v, w)
    BY Zenon, <2>3, <2>4, <2>5, ConcatAt
  <2>7. (v - 1) + (n - v) = n - 1
    BY <1>1
  <2>8. \A i \in 1 .. n - 1 :
          IF i < v THEN i <= v - 1 /\ i \in 1 .. v - 1
          ELSE ~(i <= v - 1) /\ i - (v - 1) \in 1 .. n - v /\ v + (i - (v - 1)) = i + 1
    BY <1>1
  <2>9. QED BY <2>3, <2>4, <2>6, <2>7, <2>8 DEF Spliced
<1>4. \A i \in 1 .. n - 1 : (IF i < v THEN i ELSE i + 1) \in (1 .. n) \ {v}
  BY <1>1
<1>5. \A i \in DOMAIN w : w[i] \in Range(records) /\ w[i] # records[v]
  <2>1. \A k \in (1 .. n) \ {v} : records[k] \in Range(records) /\ records[k] # records[v]
    BY Zenon, <1>1 DEF Range, IsInjective
  <2>2. QED BY <1>3, <1>4, <2>1
<1>6. ASSUME NEW i \in DOMAIN records, i # v PROVE records[i] \in Range(w)
  <2>1. CASE i < v
    <3>1. i \in 1 .. n - 1 /\ w[i] = records[i]
      BY <1>1, <1>3, <2>1
    <3>2. QED BY Zenon, <1>3, <3>1 DEF Range
  <2>2. CASE ~(i < v)
    <3>1. i - 1 \in 1 .. n - 1 /\ w[i - 1] = records[i]
      BY <1>1, <1>3, <1>6, <2>2
    <3>2. QED BY Zenon, <1>3, <3>1 DEF Range
  <2>3. QED BY Zenon, <2>1, <2>2
<1>7. Range(w) = Range(records) \ {records[v]}
  BY Zenon, <1>5, <1>6 DEF Range
<1>8. IsInjective(w)
  <2>1. \A i, j \in 1 .. n - 1 :
          (IF i < v THEN i ELSE i + 1) = (IF j < v THEN j ELSE j + 1) => i = j
    BY <1>1
  <2>2. QED BY Zenon, <1>1, <1>3, <1>4, <2>1 DEF IsInjective
<1>9. QED BY Zenon, <1>2, <1>3, <1>7, <1>8

\* A list holds no more records than it is long.
LEMMA RangeBound ==
  ASSUME NEW S, NEW q \in Seq(S)
  PROVE  IsFiniteSet(Range(q)) /\ Cardinality(Range(q)) \in Nat /\ Cardinality(Range(q)) <= Len(q)
<1>1. DOMAIN q = 1 .. Len(q) /\ Len(q) \in Nat
  OBVIOUS
<1>2. IsFiniteSet(1 .. Len(q)) /\ Cardinality(1 .. Len(q)) = Len(q)
  BY <1>1, FS_Interval
<1>3. q \in Surjection(1 .. Len(q), Range(q))
  <2>1. q \in [1 .. Len(q) -> Range(q)]
    BY <1>1 DEF Range
  <2>2. \A x \in Range(q) : \E i \in 1 .. Len(q) : q[i] = x
    BY Zenon, <1>1 DEF Range
  <2>3. QED BY Zenon, <2>1, <2>2 DEF Surjection
<1>4. IsFiniteSet(Range(q)) /\ Cardinality(Range(q)) <= Cardinality(1 .. Len(q))
  BY Zenon, <1>2, <1>3, FS_Surjection
<1>5. Cardinality(Range(q)) \in Nat
  BY Zenon, <1>4, FS_CardinalityType
<1>6. QED BY Zenon, <1>2, <1>4, <1>5

\* The records that count against the capacity: those of tiers 1 and 2.
Counted(S) == {r \in S : r.tier # 0}
Within(S) == IsFiniteSet(S) /\ Cardinality(Counted(S)) <= Capacity

\* Taking records away stays within the capacity.
LEMMA Smaller ==
  ASSUME NEW S, NEW T, Within(S), T \subseteq S
  PROVE  Within(T)
<1>1. IsFiniteSet(S) /\ Cardinality(Counted(S)) <= Capacity
  BY Zenon DEF Within
<1>2. Counted(T) \in SUBSET Counted(S) /\ Counted(S) \in SUBSET S /\ T \in SUBSET S
  BY Zenon DEF Counted
<1>3. IsFiniteSet(T) /\ IsFiniteSet(Counted(S))
  BY Zenon, <1>1, <1>2, FS_Subset
<1>4. IsFiniteSet(Counted(T)) /\ Cardinality(Counted(T)) <= Cardinality(Counted(S))
  BY Zenon, <1>2, <1>3, FS_Subset
<1>5. Cardinality(Counted(T)) \in Nat /\ Cardinality(Counted(S)) \in Nat
  BY Zenon, <1>3, <1>4, FS_CardinalityType
<1>6. QED BY <1>1, <1>3, <1>4, <1>5, QueueAssumption DEF Within

\* One record more, of tier 0 or where there is room.
LEMMA OneMoreFits ==
  ASSUME NEW S, NEW r, IsFiniteSet(S),
         \/ r.tier = 0 /\ Within(S)
         \/ Cardinality(S) < Capacity
  PROVE  Within(S \cup {r})
<1>1. IsFiniteSet(S \cup {r})
  BY Zenon, FS_AddElement
<1>2. CASE r.tier = 0 /\ Within(S)
  <2>1. Counted(S \cup {r}) = Counted(S)
    BY Zenon, <1>2 DEF Counted
  <2>2. QED BY Zenon, <1>1, <1>2, <2>1 DEF Within
<1>3. CASE Cardinality(S) < Capacity
  <2>1. Cardinality(S \cup {r}) = IF r \in S THEN Cardinality(S) ELSE Cardinality(S) + 1
    BY Zenon, FS_AddElement
  <2>2. Counted(S \cup {r}) \in SUBSET (S \cup {r})
    BY Zenon DEF Counted
  <2>3. IsFiniteSet(Counted(S \cup {r})) /\ Cardinality(Counted(S \cup {r})) <= Cardinality(S \cup {r})
    BY Zenon, <1>1, <2>2, FS_Subset
  <2>4. Cardinality(Counted(S \cup {r})) \in Nat /\ Cardinality(S) \in Nat
    BY Zenon, <2>3, FS_CardinalityType
  <2>5. QED BY <1>1, <1>3, <2>1, <2>3, <2>4, QueueAssumption DEF Within
<1>4. QED BY Zenon, <1>2, <1>3

\* A record shed for another.
LEMMA ExchangeFits ==
  ASSUME NEW S, NEW r, NEW x \in S, Within(S), x.tier # 0
  PROVE  Within((S \ {x}) \cup {r})
<1>1. IsFiniteSet(S) /\ Cardinality(Counted(S)) <= Capacity /\ x \in Counted(S)
  BY Zenon DEF Within, Counted
<1>2. IsFiniteSet(S \ {x}) /\ IsFiniteSet((S \ {x}) \cup {r})
  <2>1. IsFiniteSet(S \ {x})
    BY Zenon, <1>1, FS_RemoveElement
  <2>2. QED BY Zenon, <2>1, FS_AddElement
<1>3. Counted((S \ {x}) \cup {r}) \in SUBSET ((Counted(S) \ {x}) \cup {r})
  BY Zenon DEF Counted
<1>4. Counted(S) \in SUBSET S
  BY Zenon DEF Counted
<1>5. IsFiniteSet(Counted(S))
  BY Zenon, <1>1, <1>4, FS_Subset
<1>6. IsFiniteSet(Counted(S) \ {x}) /\ Cardinality(Counted(S) \ {x}) = Cardinality(Counted(S)) - 1
  BY Zenon, <1>1, <1>5, FS_RemoveElement
<1>7. PICK C : C = Counted(S) \ {x}
  BY Zenon
<1>8. IsFiniteSet(C \cup {r}) /\ Cardinality(C \cup {r}) = IF r \in C THEN Cardinality(C) ELSE Cardinality(C) + 1
  BY Zenon, <1>6, <1>7, FS_AddElement
<1>9. PICK D : D = Counted((S \ {x}) \cup {r})
  OBVIOUS
<1>10. IsFiniteSet(D) /\ Cardinality(D) <= Cardinality(C \cup {r})
  BY Zenon, <1>3, <1>7, <1>8, <1>9, FS_Subset
<1>11. /\ Cardinality(D) \in Nat /\ Cardinality(C) \in Nat /\ Cardinality(Counted(S)) \in Nat
       /\ Cardinality(C \cup {r}) \in Nat
  BY Zenon, <1>5, <1>6, <1>7, <1>8, <1>10, FS_CardinalityType
<1>12. Cardinality(C) = Cardinality(Counted(S)) - 1
  BY Zenon, <1>6, <1>7
<1>13. Cardinality(D) <= Capacity
  BY <1>1, <1>8, <1>10, <1>11, <1>12, QueueAssumption
<1>14. QED BY Zenon, <1>2, <1>9, <1>13 DEF Within

-----------------------------------------------------------------------------
(* Enqueue.                                                                *)

\* The first of some places in a list is one of them.
LEMMA FirstIn ==
  ASSUME NEW S \in SUBSET Nat, S # {}
  PROVE  First(S) \in S
<1>1. PICK x \in S : \A y \in S : ~ (<<y, x>> \in OpToRel(<, Nat))
  BY NatLessThanWellFounded, WFMin
<1>2. \A y \in S : ~(y < x)
  BY Zenon, <1>1 DEF OpToRel
<1>3. \A y \in S : x <= y
  BY <1>2
<1>4. QED BY Zenon, <1>3 DEF First

\* What is shed for r is a record of tier 1 or 2, for one of tier 1 or 2.
LEMMA VictimFacts ==
  ASSUME records \in Seq(Record), NEW r \in Record, Victim(r) # 0
  PROVE  Victim(r) \in DOMAIN records /\ records[Victim(r)].tier # 0
<1>1. DOMAIN records \subseteq Nat
  OBVIOUS
<1>2. ASSUME NEW t \in {1, 2}, OfTier(t) # {}
      PROVE  First(OfTier(t)) \in DOMAIN records /\ records[First(OfTier(t))].tier # 0
  <2>1. OfTier(t) \in SUBSET Nat
    BY Zenon, <1>1 DEF OfTier
  <2>2. First(OfTier(t)) \in OfTier(t)
    BY Zenon, <1>2, <2>1, FirstIn
  <2>3. t # 0
    BY <1>2
  <2>4. QED BY Zenon, <2>2, <2>3 DEF OfTier
<1>3. \/ OfTier(2) # {} /\ Victim(r) = First(OfTier(2))
      \/ OfTier(1) # {} /\ Victim(r) = First(OfTier(1))
  BY DEF Victim
<1>4. QED BY Zenon, <1>2, <1>3

\* A tier is that of no record.
LEMMA NoneOfTier ==
  ASSUME NEW t, OfTier(t) = {}, NEW y \in Range(records)
  PROVE  y.tier # t
BY Zenon DEF OfTier, Range

\* What Enqueue refuses or sheds is no lifecycle record, and no record of a higher tier
\* stays for it.
LEMMA LossIsJust ==
  ASSUME records \in Seq(Record), NEW r \in Record
  PROVE  /\ ~Fits(r) => Unjust({r}, records) = {}
         /\ \A q : Victim(r) # 0 /\ Range(q) \subseteq Range(records) \cup {r}
                  => Unjust({records[Victim(r)]}, q) = {}
<1>1. DOMAIN records \subseteq Nat \ {0}
  OBVIOUS
<1>2. \A y \in Range(records) \cup {r} : y.tier \in {0, 1, 2}
  <2>1. Range(records) \subseteq Record
    BY DEF Range
  <2>2. \A y \in Record : y.tier \in {0, 1, 2}
    BY DEF Record, Tiers
  <2>3. QED BY Zenon, <2>1, <2>2
<1>3. ASSUME NEW t, OfTier(t) # {}
      PROVE  First(OfTier(t)) # 0 /\ records[First(OfTier(t))].tier = t
  <2>1. OfTier(t) \in SUBSET Nat /\ 0 \notin OfTier(t)
    BY Zenon, <1>1 DEF OfTier
  <2>2. First(OfTier(t)) \in OfTier(t)
    BY Zenon, <1>3, <2>1, FirstIn
  <2>3. QED BY Zenon, <2>1, <2>2 DEF OfTier
<1>4. ASSUME ~Fits(r)
      PROVE  Unjust({r}, records) = {}
  <2>1. r.tier # 0 /\ Victim(r) = 0 /\ ~(Len(records) < Capacity)
    BY Zenon, <1>4 DEF Fits
  <2>2. OfTier(2) = {}
    BY Zenon, <1>3, <2>1 DEF Victim
  <2>3. ASSUME NEW y \in Range(records) PROVE ~(y.tier > r.tier)
    <3>1. y.tier # 2
      BY Zenon, <2>2, NoneOfTier
    <3>2. y.tier \in {0, 1, 2} /\ r.tier \in {0, 1, 2}
      BY Zenon, <1>2
    <3>3. QED BY ONLY <2>1, <3>1, <3>2
  <2>4. QED BY Zenon, <2>1, <2>3 DEF Unjust
<1>5. ASSUME NEW q, Victim(r) # 0, Range(q) \subseteq Range(records) \cup {r}
      PROVE  Unjust({records[Victim(r)]}, q) = {}
  <2>1. \/ records[Victim(r)].tier = 2
        \/ records[Victim(r)].tier = 1 /\ OfTier(2) = {} /\ r.tier = 1
    <3>1. \/ OfTier(2) # {} /\ Victim(r) = First(OfTier(2))
          \/ OfTier(1) # {} /\ Victim(r) = First(OfTier(1)) /\ OfTier(2) = {} /\ r.tier = 1
      BY <1>5 DEF Victim
    <3>2. QED BY Zenon, <1>3, <3>1
  <2>2. ASSUME NEW y \in Range(q) PROVE ~(y.tier > records[Victim(r)].tier)
    <3>1. y.tier \in {0, 1, 2}
      BY Zenon, <1>2, <1>5
    <3>2. OfTier(2) = {} /\ r.tier = 1 => y.tier # 2
      <4>1. r.tier = 1 => r.tier # 2
        OBVIOUS
      <4>2. QED BY Zenon, <1>5, <4>1, NoneOfTier
    <3>3. QED BY ONLY <2>1, <3>1, <3>2
  <2>3. records[Victim(r)].tier # 0
    BY ONLY <2>1
  <2>4. QED BY Zenon, <2>2, <2>3 DEF Unjust
<1>6. QED BY Zenon, <1>4, <1>5

\* The queue after Enqueue put r behind w, which is what shedding left.
Accepts(q, w, r, dropped) ==
  /\ q \in Seq(Record) /\ Range(q) = Range(w) \cup {r}
  /\ IsInjective(taken \o q) /\ Range(taken \o q) = (Range(taken \o records) \ dropped) \cup {r}

\* Enqueue puts r behind what it left of the queue.
LEMMA AppendAccepts ==
  ASSUME taken \in Seq(Record), records \in Seq(Record), IsInjective(taken \o records),
         NEW w \in Seq(Record), NEW dropped \in SUBSET Range(records), IsInjective(w),
         Range(w) = Range(records) \ dropped, NEW r \in Record, r \notin Range(taken \o records)
  PROVE  Accepts(Append(w, r), w, r, dropped)
<1>1. PICK q : q = Append(w, r)
  BY Zenon
<1>2. <<r>> \in Seq(Record) /\ Range(<<r>>) = {r} /\ IsInjective(<<r>>)
  <2>1. <<r>> \in Seq(Record)
    OBVIOUS
  <2>2. QED BY Zenon, <2>1, Single
<1>3. q = w \o <<r>> /\ q \in Seq(Record)
  BY <1>1
<1>4. Joins(q, w, <<r>>)
  BY Zenon, <1>2, <1>3, ConcatJoins
<1>5. Joins(taken \o records, taken, records) /\ Joins(taken \o q, taken, q)
  BY Zenon, <1>3, ConcatJoins
<1>6. /\ Range(taken \o records) = Range(taken) \cup Range(records)
      /\ Range(taken) \cap Range(records) = {} /\ IsInjective(taken)
      /\ Range(taken \o q) = Range(taken) \cup Range(q)
  BY Zenon, <1>5 DEF Joins
<1>7. Range(q) = Range(w) \cup {r} /\ r \notin Range(w) /\ r \notin Range(taken)
  BY Zenon, <1>2, <1>4, <1>6 DEF Joins
<1>8. IsInjective(q)
  <2>1. Range(w) \cap Range(<<r>>) = {}
    BY Zenon, <1>2, <1>7
  <2>2. QED BY Zenon, <1>2, <1>4, <2>1 DEF Joins
<1>9. Range(taken) \cap Range(q) = {}
  BY Zenon, <1>6, <1>7
<1>10. IsInjective(taken \o q)
  BY Zenon, <1>5, <1>6, <1>8, <1>9 DEF Joins
<1>11. Range(taken \o q) = (Range(taken \o records) \ dropped) \cup {r}
  BY Zenon, <1>6, <1>7
<1>12. QED BY Zenon, <1>1, <1>3, <1>7, <1>10, <1>11 DEF Accepts

\* RecordOperation numbers a record that nobody has yet.
LEMMA RecordKeeps ==
  ASSUME QueueInv, NEW p \in Producers, RecordOperation(p)
  PROVE  QueueInv'
<1>1. QueueTypes /\ InHand /\ OnlyShedLost
  BY Zenon DEF QueueInv
<1>2. /\ setup' = setup /\ records' = records /\ taken' = taken /\ accepted' = accepted
      /\ shed' = shed /\ unjust' = unjust /\ made' = made + 1
  BY DEF RecordOperation
<1>3. PICK t \in Tiers : recording' = [recording EXCEPT ![p] = [n |-> made + 1, tier |-> t]]
  BY Zenon DEF RecordOperation
<1>4. PICK x : x = [n |-> made + 1, tier |-> t]
  BY Zenon
<1>5. made \in Nat /\ recording \in [Producers -> Record] /\ x \in Record /\ x.n = made + 1
  BY <1>1, <1>4 DEF QueueTypes, Record
<1>6. /\ recording' \in [Producers -> Record] /\ recording'[p] = x
      /\ \A q \in Producers : q # p => recording'[q] = recording[q]
  BY Zenon, <1>3, <1>4, <1>5
<1>7. QueueTypes'
  BY <1>1, <1>2, <1>5, <1>6 DEF QueueTypes
<1>8. x \notin accepted /\ \A q \in Producers : recording[q] # x
  <2>1. x.n \notin 1 .. made /\ x # NoRecord
    BY <1>5 DEF NoRecord
  <2>2. QED BY Zenon, <1>1, <2>1 DEF InHand
<1>9. InHand'
  <2>1. \A r \in accepted' : r.n \in 1 .. made'
    BY <1>1, <1>2, <1>5 DEF InHand
  <2>2. ASSUME NEW q \in Producers
        PROVE  /\ recording'[q] = NoRecord \/ recording'[q].n \in 1 .. made'
               /\ recording'[q] \notin accepted'
    BY <1>1, <1>2, <1>5, <1>6, <1>8 DEF InHand
  <2>3. ASSUME NEW q \in Producers, NEW s \in Producers,
               recording'[q] # NoRecord, recording'[q] = recording'[s]
        PROVE  q = s
    BY Zenon, <1>1, <1>6, <1>8, <2>3 DEF InHand
  <2>4. QED BY Zenon, <2>1, <2>2, <2>3 DEF InHand
<1>10. OnlyShedLost'
  BY Zenon, <1>1, <1>2 DEF OnlyShedLost
<1>11. QED BY Zenon, <1>7, <1>9, <1>10 DEF QueueInv

\* What OnlyShedLost says, with the records that count against the capacity named.
LEMMA LostDef ==
  /\ OnlyShedLost <=>
       /\ Cardinality(Counted(Range(records))) <= Capacity
       /\ unjust = {}
       /\ \A r \in shed : r.tier # 0
       /\ IsInjective(taken \o records)
       /\ accepted = Range(taken \o records) \cup shed
       /\ shed \cap Range(taken \o records) = {}
  /\ OnlyShedLost' <=>
       /\ Cardinality(Counted(Range(records'))) <= Capacity
       /\ unjust' = {}
       /\ \A r \in shed' : r.tier # 0
       /\ IsInjective(taken' \o records')
       /\ accepted' = Range(taken' \o records') \cup shed'
       /\ shed' \cap Range(taken' \o records') = {}
BY DEF OnlyShedLost, Counted

\* The queue is within its capacity.
LEMMA QueueWithin ==
  ASSUME QueueInv
  PROVE  Within(Range(records))
<1>1. IsFiniteSet(Range(records))
  BY Zenon, RangeBound DEF QueueInv, QueueTypes
<1>2. QED BY Zenon, <1>1, LostDef DEF Within, QueueInv

\* A batch moves from the queue to what was taken, and the two together stay what
\* they are.
LEMMA TakeKeeps ==
  ASSUME QueueInv, TakeBatch, UNCHANGED <<setup, made, recording, accepted, shed, unjust>>
  PROVE  QueueInv'
<1>1. QueueTypes /\ InHand /\ OnlyShedLost
  BY Zenon DEF QueueInv
<1>2. records \in Seq(Record) /\ taken \in Seq(Record) /\ setup \in Setups
  BY Zenon, <1>1 DEF QueueTypes
<1>3. Count \in 0 .. Len(records)
  <2>1. setup.batchSize \in Nat /\ Len(records) \in Nat
    BY <1>2, QueueAssumption DEF Setup
  <2>2. QED BY <2>1 DEF Count
<1>4. PICK a : a = SubSeq(records, 1, Count)
  BY Zenon
<1>5. PICK b : b = SubSeq(records, Count + 1, Len(records))
  BY Zenon
<1>6. a \in Seq(Record) /\ b \in Seq(Record) /\ a \o b = records
  BY Zenon, <1>2, <1>3, <1>4, <1>5, CutJoins
<1>7. taken' = taken \o a /\ records' = b
  BY Zenon, <1>4, <1>5 DEF TakeBatch
<1>8. taken' \o records' = taken \o records /\ taken' \in Seq(Record)
  <2>1. (taken \o a) \o b = taken \o (a \o b)
    <3>1. \A S : \A s, t, u \in Seq(S) : (s \o t) \o u = s \o (t \o u)
      OBVIOUS
    <3>2. \A s, t, u \in Seq(Record) : (s \o t) \o u = s \o (t \o u)
      BY <3>1
    <3>3. taken \in Seq(Record) /\ a \in Seq(Record) /\ b \in Seq(Record)
      BY Zenon, <1>2, <1>6
    <3>4. QED BY ONLY <3>2, <3>3
  <2>2. taken \o a \in Seq(Record)
    BY <1>2, <1>6
  <2>3. QED BY Zenon, <1>6, <1>7, <2>1, <2>2
<1>9. QueueTypes'
  BY <1>1, <1>6, <1>7, <1>8 DEF QueueTypes
<1>10. InHand'
  BY <1>1 DEF InHand
<1>11. Within(Range(records'))
  <2>1. Joins(records, a, b)
    BY Zenon, <1>6, ConcatJoins
  <2>2. Range(records') \subseteq Range(records)
    BY Zenon, <1>7, <2>1 DEF Joins
  <2>3. QED BY Zenon, <2>2, QueueWithin, Smaller
<1>12. OnlyShedLost'
  <2>1. shed' = shed /\ accepted' = accepted /\ unjust' = unjust
    OBVIOUS
  <2>2. QED BY Zenon, <1>1, <1>8, <1>11, <2>1, LostDef DEF Within
<1>13. QED BY Zenon, <1>9, <1>10, <1>12 DEF QueueInv

\* The record a producer had in hand is put into the queue, or dropped.
LEMMA HandEmptied ==
  ASSUME QueueInv, NEW p \in Producers, recording[p] # NoRecord,
         recording' = [recording EXCEPT ![p] = NoRecord], made' = made,
         accepted' \subseteq accepted \cup {recording[p]}
  PROVE  InHand' /\ recording' \in [Producers -> Record]
<1>1. InHand /\ recording \in [Producers -> Record] /\ made \in Nat
  BY Zenon DEF QueueInv, QueueTypes
<1>2. NoRecord \in Record /\ NoRecord.n = 0
  BY DEF NoRecord, Record, Tiers
<1>3. /\ recording' \in [Producers -> Record] /\ recording'[p] = NoRecord
      /\ \A q \in Producers : q # p => recording'[q] = recording[q]
  BY Zenon, <1>1, <1>2
<1>4. recording[p].n \in 1 .. made
  BY Zenon, <1>1 DEF InHand
<1>5. \A r \in accepted' : r.n \in 1 .. made
  BY Zenon, <1>1, <1>4 DEF InHand
<1>6. NoRecord \notin accepted'
  <2>1. NoRecord.n \notin 1 .. made
    BY <1>2
  <2>2. QED BY Zenon, <1>5, <2>1
<1>7. ASSUME NEW q \in Producers
      PROVE  /\ recording'[q] = NoRecord \/ recording'[q].n \in 1 .. made
             /\ recording'[q] \notin accepted'
  <2>1. CASE q = p
    BY Zenon, <1>3, <1>6, <2>1
  <2>2. CASE q # p
    BY Zenon, <1>1, <1>3, <1>6, <2>2 DEF InHand
  <2>3. QED BY Zenon, <2>1, <2>2
<1>8. ASSUME NEW q \in Producers, NEW s \in Producers,
             recording'[q] # NoRecord, recording'[q] = recording'[s]
      PROVE  q = s
  BY Zenon, <1>1, <1>3, <1>8 DEF InHand
<1>9. QED BY Zenon, <1>3, <1>5, <1>7, <1>8 DEF InHand

\* Enqueue: the record is dropped, or it is put behind what is left of the queue.
LEMMA EnqueueKeeps ==
  ASSUME QueueInv, NEW p \in Producers, Enqueue(p)
  PROVE  QueueInv'
<1>1. QueueTypes /\ InHand /\ OnlyShedLost
  BY Zenon DEF QueueInv
<1>2. PICK r : r = recording[p]
  OBVIOUS
<1>3. PICK v : v = Victim(r)
  OBVIOUS
<1>4. records \in Seq(Record) /\ taken \in Seq(Record) /\ setup \in Setups /\ r \in Record
  BY Zenon, <1>1, <1>2 DEF QueueTypes
<1>5. /\ r # NoRecord /\ recording' = [recording EXCEPT ![p] = NoRecord]
      /\ made' = made /\ taken' = taken /\ setup' = setup
  BY Zenon, <1>2 DEF Enqueue
<1>6. CASE ~(queueOpen /\ Fits(r))
  <2>1. records' = records /\ shed' = shed /\ accepted' = accepted
    BY Zenon, <1>2, <1>6 DEF Enqueue
  <2>2. InHand' /\ recording' \in [Producers -> Record]
    BY Zenon, <1>2, <1>5, <2>1, HandEmptied
  <2>3. QueueTypes'
    BY Zenon, <1>1, <1>5, <2>1, <2>2 DEF QueueTypes
  <2>4. unjust' = {}
    <3>1. unjust = {}
      BY Zenon, <1>1, LostDef
    <3>2. unjust' = IF queueOpen THEN unjust \cup Unjust({r}, records) ELSE unjust
      BY Zenon, <1>2, <1>6 DEF Enqueue
    <3>3. queueOpen => Unjust({r}, records) = {}
      BY Zenon, <1>4, <1>6, LossIsJust
    <3>4. QED BY Zenon, <3>1, <3>2, <3>3
  <2>5. OnlyShedLost'
    BY Zenon, <1>1, <1>5, <2>1, <2>4, LostDef
  <2>6. QED BY Zenon, <2>2, <2>3, <2>5 DEF QueueInv
<1>7. CASE queueOpen /\ Fits(r)
  <2>1. PICK w : w = IF v = 0 THEN records ELSE Without(v)
    OBVIOUS
  <2>2. PICK dropped : dropped = IF v = 0 THEN {} ELSE {records[v]}
    BY Zenon
  <2>3. records' = Append(w, r) /\ shed' = shed \cup dropped /\ accepted' = accepted \cup {r}
    <3>1. /\ records' = Append(IF v = 0 THEN records ELSE Without(v), r)
          /\ shed' = (IF v = 0 THEN shed ELSE shed \cup {records[v]})
          /\ accepted' = accepted \cup {r}
      BY Zenon, <1>2, <1>3, <1>7 DEF Enqueue
    <3>2. QED BY Zenon, <2>1, <2>2, <3>1
  <2>4. InHand' /\ recording' \in [Producers -> Record]
    BY Zenon, <1>2, <1>5, <2>3, HandEmptied
  <2>5. IsInjective(records)
    <3>1. Joins(taken \o records, taken, records)
      BY Zenon, <1>4, ConcatJoins
    <3>2. QED BY Zenon, <1>1, <3>1, LostDef DEF Joins
  <2>6. v # 0 => v \in DOMAIN records /\ records[v].tier # 0
    BY Zenon, <1>3, <1>4, VictimFacts
  <2>7. /\ w \in Seq(Record) /\ IsInjective(w) /\ Range(w) = Range(records) \ dropped
        /\ dropped \in SUBSET Range(records) /\ \A x \in dropped : x.tier # 0
    <3>1. CASE v = 0
      BY Zenon, <1>4, <2>1, <2>2, <2>5, <3>1
    <3>2. CASE v # 0
      <4>1. w = Without(v) /\ dropped = {records[v]} /\ v \in DOMAIN records /\ records[v].tier # 0
        BY Zenon, <2>1, <2>2, <2>6, <3>2
      <4>2. records[v] \in Range(records)
        BY Zenon, <4>1 DEF Range
      <4>3. QED BY Zenon, <1>4, <2>5, <4>1, <4>2, WithoutOne
    <3>3. QED BY Zenon, <3>1, <3>2
  <2>8. r \notin accepted
    BY Zenon, <1>1, <1>2 DEF InHand
  <2>9. PICK held : held = Range(taken \o records)
    OBVIOUS
  <2>10. /\ IsInjective(taken \o records) /\ accepted = held \cup shed /\ shed \cap held = {}
         /\ \A x \in shed : x.tier # 0
    BY Zenon, <1>1, <2>9, LostDef
  <2>11. Accepts(records', w, r, dropped)
    BY Zenon, <1>4, <2>3, <2>7, <2>8, <2>9, <2>10, AppendAccepts
  <2>12. /\ records' \in Seq(Record) /\ Range(records') = Range(w) \cup {r}
         /\ IsInjective(taken \o records') /\ Range(taken \o records') = (held \ dropped) \cup {r}
    BY Zenon, <2>9, <2>11 DEF Accepts
  <2>13. QueueTypes'
    BY Zenon, <1>1, <1>5, <2>4, <2>12 DEF QueueTypes
  <2>14. dropped \in SUBSET held
    <3>1. Joins(taken \o records, taken, records)
      BY Zenon, <1>4, ConcatJoins
    <3>2. QED BY Zenon, <2>7, <2>9, <3>1 DEF Joins
  <2>15. Within(Range(records'))
    <3>1. CASE v = 0
      <4>1. Range(records') = Range(records) \cup {r}
        BY Zenon, <2>1, <2>12, <3>1
      <4>2. /\ IsFiniteSet(Range(records)) /\ Cardinality(Range(records)) \in Nat
            /\ Cardinality(Range(records)) <= Len(records) /\ Len(records) \in Nat
        BY <1>4, RangeBound
      <4>3. r.tier = 0 \/ Len(records) < Capacity
        BY Zenon, <1>3, <1>7, <3>1 DEF Fits
      <4>4. r.tier = 0 \/ Cardinality(Range(records)) < Capacity
        BY <4>2, <4>3, QueueAssumption
      <4>5. QED BY Zenon, <4>1, <4>2, <4>4, QueueWithin, OneMoreFits
    <3>2. CASE v # 0
      <4>1. Range(records') = (Range(records) \ {records[v]}) \cup {r}
        BY Zenon, <2>2, <2>7, <2>12, <3>2
      <4>2. records[v] \in Range(records) /\ records[v].tier # 0
        BY Zenon, <2>6, <3>2 DEF Range
      <4>3. Within(Range(records))
        BY Zenon, QueueWithin
      <4>4. Within((Range(records) \ {records[v]}) \cup {r})
        BY Zenon, <4>2, <4>3, ExchangeFits
      <4>5. QED BY Zenon, <4>1, <4>4
    <3>3. QED BY Zenon, <3>1, <3>2
  <2>16. /\ \A x \in shed' : x.tier # 0
         /\ accepted' = ((held \ dropped) \cup {r}) \cup shed'
         /\ shed' \cap ((held \ dropped) \cup {r}) = {}
    <3>1. r \notin shed /\ r \notin dropped
      BY Zenon, <2>8, <2>10, <2>14
    <3>2. QED BY Zenon, <2>3, <2>7, <2>10, <2>14, <3>1
  <2>17. unjust' = {}
    <3>1. unjust = {}
      BY Zenon, <1>1, LostDef
    <3>2. unjust' = IF v = 0 THEN unjust ELSE unjust \cup Unjust({records[v]}, records')
      BY Zenon, <1>2, <1>3, <1>7 DEF Enqueue
    <3>3. Range(records') \subseteq Range(records) \cup {r}
      BY Zenon, <2>7, <2>12
    <3>4. v # 0 => Unjust({records[v]}, records') = {}
      BY Zenon, <1>3, <1>4, <3>3, LossIsJust
    <3>5. QED BY Zenon, <3>1, <3>2, <3>4
  <2>18. OnlyShedLost'
    BY Zenon, <1>5, <2>12, <2>15, <2>16, <2>17, LostDef DEF Within
  <2>19. QED BY Zenon, <2>4, <2>13, <2>18 DEF QueueInv
<1>8. QED BY Zenon, <1>6, <1>7

-----------------------------------------------------------------------------
(* All steps.                                                              *)

\* Nothing has been recorded yet.
LEMMA QueueStart == QueueInit => QueueInv
<1> SUFFICES ASSUME QueueInit PROVE QueueInv
  OBVIOUS
<1>1. /\ setup \in Setups /\ records = <<>> /\ taken = <<>> /\ made = 0 /\ accepted = {} /\ shed = {}
      /\ unjust = {}
      /\ recording = [p \in Producers |-> NoRecord]
  BY DEF QueueInit
<1>2. NoRecord \in Record
  BY DEF NoRecord, Record, Tiers
<1>3. <<>> \in Seq(Record) /\ taken \o records = <<>> /\ DOMAIN <<>> = {}
  BY <1>1
<1>4. QueueTypes
  BY <1>1, <1>2, <1>3 DEF QueueTypes
<1>5. InHand
  BY Zenon, <1>1 DEF InHand
<1>6. Range(<<>>) = {} /\ IsInjective(<<>>)
  BY Zenon, <1>3 DEF Range, IsInjective
<1>7. Counted({}) = {} /\ Cardinality({}) = 0
  BY Zenon, FS_EmptySet DEF Counted
<1>8. 0 <= Capacity
  BY QueueAssumption
<1>9. OnlyShedLost
  BY Zenon, <1>1, <1>3, <1>6, <1>7, <1>8, LostDef
<1>10. QED BY Zenon, <1>4, <1>5, <1>9 DEF QueueInv

\* The consumers' waits and the steps of Stop touch no record.
LEMMA QueueAside ==
  ASSUME QueueInv, UNCHANGED <<setup, records, made, recording, taken, accepted, shed, unjust>>
  PROVE  QueueInv'
BY DEF QueueInv, QueueTypes, InHand, OnlyShedLost

\* Every step keeps the invariant.
LEMMA QueueStep == QueueInv /\ [QueueNext]_queueVars => QueueInv'
<1> SUFFICES ASSUME QueueInv, [QueueNext]_queueVars PROVE QueueInv'
  OBVIOUS
<1>1. setup.producers \subseteq Producers
  BY QueueAssumption DEF QueueInv, QueueTypes, Setup
<1>2. ASSUME NEW p \in setup.producers, RecordOperation(p) PROVE QueueInv'
  BY Zenon, <1>1, <1>2, RecordKeeps
<1>3. ASSUME NEW p \in setup.producers, Enqueue(p) PROVE QueueInv'
  BY Zenon, <1>1, <1>3, EnqueueKeeps
<1>4. ASSUME NEW c \in setup.consumers, DequeueBatch(c) PROVE QueueInv'
  <2>1. UNCHANGED <<setup, made, recording, accepted, shed, unjust>>
    BY <1>4 DEF DequeueBatch
  <2>2. TakeBatch \/ UNCHANGED <<records, taken>>
    BY <1>4 DEF DequeueBatch
  <2>3. QED BY <2>1, <2>2, TakeKeeps, QueueAside
<1>5. ASSUME NEW c \in setup.consumers, Wait(c) PROVE QueueInv'
  BY <1>5, QueueAside DEF Wait
<1>6. CASE processBatch
  <2>1. TakeBatch /\ UNCHANGED <<setup, made, recording, accepted, shed, unjust>>
    BY <1>6 DEF processBatch
  <2>2. QED BY Zenon, <2>1, TakeKeeps
<1>7. CASE drainQueue
  <2>1. UNCHANGED <<setup, made, recording, accepted, shed, unjust>>
    BY <1>7 DEF drainQueue
  <2>2. TakeBatch \/ UNCHANGED <<records, taken>>
    BY <1>7 DEF drainQueue
  <2>3. QED BY <2>1, <2>2, TakeKeeps, QueueAside
<1>8. CASE ContextDone \/ StopCollector \/ StopStep \/ QueueFinished \/ UNCHANGED queueVars
  <2>1. UNCHANGED <<setup, records, made, recording, taken, accepted, shed, unjust>>
    BY <1>8 DEF ContextDone, StopCollector, StopStep, CancelLoop, CloseQueue, Stopped, QueueFinished, queueVars
  <2>2. QED BY Zenon, <2>1, QueueAside
<1>9. QED BY Zenon, <1>2, <1>3, <1>4, <1>5, <1>6, <1>7, <1>8 DEF QueueNext, CollectorStep

\* Enqueue's promise, for any producers, consumers, capacity and size of batch, and
\* for a collector that is stopped at any point: what was accepted is in the queue,
\* was taken once, or was shed; no lifecycle record is shed, or refused by an open queue,
\* and no record is while one of a higher tier stays; and only lifecycle records go beyond
\* the capacity.
THEOREM OnlyShedEverLost == QueueSpec => []OnlyShedLost
<1>1. QueueInv => OnlyShedLost
  BY DEF QueueInv
<1>2. QED BY <1>1, QueueStart, QueueStep, PTL DEF QueueSpec

=============================================================================
