----------------------------- MODULE Allocator -----------------------------
(***************************************************************************)
(* Placing virtual users on workers (scheduler/allocator.go), and the      *)
(* arithmetic of the automatic ramp (runmanager/stages.go).  Nothing here  *)
(* has state: the allocator reads the registry and issues no lease.        *)
(***************************************************************************)
EXTENDS Integers, FiniteSets

Least(a, b) == IF a <= b THEN a ELSE b
Greatest(a, b) == IF a <= b THEN b ELSE a

\* VUIDRange: the virtual users lo, ..., hi - 1.
VUIDRange(lo, hi) == [lo |-> lo, hi |-> hi]
Users(r) == r.lo .. (r.hi - 1)

\* Slip: ranges that share only their last user are taken to be apart.
Overlaps_OffByOne(r, q) ==
  /\ r.lo < r.hi /\ q.lo < q.hi
  /\ r.lo < q.hi - 1 /\ q.lo < r.hi

Overlaps(r, q) ==
  /\ r.lo < r.hi /\ q.lo < q.hi
  /\ r.lo < q.hi /\ q.lo < r.hi

\* The orders that sort.Slice may leave the workers in: by capacity, largest
\* first; the sort is not stable, so equal capacities come in any order.
Orders(cap, W) ==
  {o \in [1 .. Cardinality(W) -> W] :
     \A i, j \in DOMAIN o : i < j => /\ o[i] # o[j]
                                     /\ cap[o[i]] >= cap[o[j]]}

\* vuStart when the i-th worker's turn in the placement loop comes.
Starts(cap, order, target) ==
  LET n == Cardinality(DOMAIN order)
      start[i \in 1 .. n + 1] ==
        IF i = 1 THEN 0
        ELSE Least(target, start[i - 1] + cap[order[i - 1]])
  IN  start

\* Slip: the last worker is given its full capacity, not what remains.
Pack_NoRemainder(cap, order, target) ==
  LET start == Starts(cap, order, target)
      used == {i \in DOMAIN order : start[i] < target}
  IN  [w \in {order[i] : i \in used} |->
         LET i == CHOOSE j \in used : order[j] = w
         IN  VUIDRange(start[i], start[i] + cap[w])]

\* The placement loop, which ends when all virtual users are placed.
Pack(cap, order, target) ==
  LET start == Starts(cap, order, target)
      used == {i \in DOMAIN order : start[i] < target}
  IN  [w \in {order[i] : i \in used} |->
         LET i == CHOOSE j \in used : order[j] = w
         IN  VUIDRange(start[i], start[i + 1])]

\* The capacity of every set of workers.
Capacities(cap, W) ==
  LET total[S \in SUBSET W] ==
        IF S = {} THEN 0
        ELSE LET w == CHOOSE v \in S : TRUE IN cap[w] + total[S \ {w}]
  IN  total

TotalCapacity(cap, W) == Capacities(cap, W)[W]

\* AllocateAssignments and ReallocateAssignments: the placements they may
\* return, none if they fail.  Each is a function from workers to ranges.
Allocations(cap, W, target) ==
  IF target <= 0 \/ W = {} \/ TotalCapacity(cap, W) < target
  THEN {}
  ELSE {Pack(cap, o, target) : o \in Orders(cap, W)}

-----------------------------------------------------------------------------
(* startAutoRamp's numbers.  A load is [targetVUs, startVUs, rampSteps].   *)

\* The hard cap on virtual users; 0 means that there is none.
CappedTarget(targetVUs, maxVUs) ==
  IF maxVUs > 0 THEN Least(targetVUs, maxVUs) ELSE targetVUs

RampStart(load, target) ==
  Least(target, IF load.startVUs <= 0 THEN Greatest(1, target \div 10) ELSE load.startVUs)

RampSteps(load) == IF load.rampSteps <= 0 THEN 5 ELSE load.rampSteps

RampIncrement(load, target) ==
  Greatest(1, (target - RampStart(load, target)) \div RampSteps(load))

\* The virtual users the ramp wants after a step (step 0 is the start).
RampVUs(load, target, step) ==
  Least(target, RampStart(load, target) + RampIncrement(load, target) * step)
=============================================================================
