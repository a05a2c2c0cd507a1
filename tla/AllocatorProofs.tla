-------------------------- MODULE AllocatorProofs ---------------------------
(***************************************************************************)
(* The allocator places every user on exactly one worker, within the       *)
(* capacities and in any order that its sort may leave; and with that, what *)
(* the leases of a stage cover.                                            *)
(***************************************************************************)
EXTENDS StageDispatchProofs, FiniteSetTheorems

\* Counting up from 0 reaches every natural number.
LEMMA Climb ==
  ASSUME NEW I \in SUBSET Nat, 0 \in I, \A k \in I : k + 1 \in I
  PROVE  I = Nat
<1>1. SUFFICES ASSUME Nat \ I # {} PROVE FALSE
  OBVIOUS
<1>2. PICK x \in Nat \ I : \A y \in Nat \ I : ~ (<<y, x>> \in OpToRel(<, Nat))
  BY <1>1, NatLessThanWellFounded, WFMin
<1>3. \A y \in Nat \ I : ~(y < x)
  BY Zenon, <1>2 DEF OpToRel
<1>4. x # 0 /\ x - 1 \in Nat /\ x - 1 < x
  OBVIOUS
<1>5. x - 1 \in I
  BY <1>3, <1>4
<1>6. QED BY <1>4, <1>5

\* The recursion of Starts, as an equation.
StartsOf(st, cap, order, n, target) ==
  st = [i \in 1 .. n + 1 |-> IF i = 1 THEN 0
                             ELSE Least(target, st[i - 1] + cap[order[i - 1]])]

\* The placement loop has a value of vuStart for every worker.
LEMMA StartsDefined ==
  ASSUME NEW n \in Nat, NEW order, DOMAIN order = 1 .. n, NEW cap, NEW target
  PROVE  StartsOf(Starts(cap, order, target), cap, order, n, target)
<1> DEFINE I == {k \in Nat : \E st : StartsOf(st, cap, order, k, target)}
<1>1. 0 \in I
  <2>1. StartsOf([i \in 1 .. 1 |-> 0], cap, order, 0, target)
    BY DEF StartsOf
  <2>2. QED BY <2>1
<1>2. ASSUME NEW k \in I PROVE k + 1 \in I
  <2>1. PICK f : StartsOf(f, cap, order, k, target)
    OBVIOUS
  <2> DEFINE last == Least(target, f[k + 1] + cap[order[k + 1]])
             g == [i \in 1 .. k + 2 |-> IF i = k + 2 THEN last ELSE f[i]]
             h == [i \in 1 .. k + 2 |-> IF i = 1 THEN 0
                                        ELSE Least(target, g[i - 1] + cap[order[i - 1]])]
  <2>2. k \in Nat
    OBVIOUS
  <2>3. \A i \in 1 .. k + 1 :
          f[i] = IF i = 1 THEN 0 ELSE Least(target, f[i - 1] + cap[order[i - 1]])
    BY <2>1, Zenon DEF StartsOf
  <2>4. ASSUME NEW i \in 1 .. k + 2 PROVE g[i] = h[i]
    <3>1. CASE i = k + 2
      <4>1. /\ i - 1 = k + 1 /\ i # 1 /\ k + 1 \in 1 .. k + 2 /\ k + 1 # k + 2
        BY <2>2, <3>1
      <4>2. g[i] = last /\ g[k + 1] = f[k + 1]
        BY <3>1, <4>1
      <4>3. h[i] = Least(target, g[k + 1] + cap[order[k + 1]])
        BY <4>1
      <4>4. QED BY <4>2, <4>3
    <3>2. CASE i # k + 2
      <4>1. i \in 1 .. k + 1 /\ i # k + 2
        BY <2>2, <3>2
      <4>2. g[i] = f[i]
        BY <4>1
      <4>3. i # 1 => i - 1 \in 1 .. k + 2 /\ i - 1 # k + 2
        BY <2>2
      <4>4. i # 1 => g[i - 1] = f[i - 1]
        BY <4>3
      <4>5. h[i] = IF i = 1 THEN 0 ELSE Least(target, g[i - 1] + cap[order[i - 1]])
        OBVIOUS
      <4> HIDE DEF g, h
      <4>6. QED BY <2>3, <4>1, <4>2, <4>4, <4>5
    <3>3. QED BY <3>1, <3>2
  <2>5. g = h
    BY Zenon, <2>4
  <2>6. (k + 1) + 1 = k + 2
    BY <2>2
  <2>7. StartsOf(g, cap, order, k + 1, target)
    BY <2>5, <2>6 DEF StartsOf
  <2> HIDE DEF g
  <2>8. QED BY <2>2, <2>7
<1>3. n \in I
  <2> HIDE DEF I
  <2>1. I \subseteq Nat
    BY DEF I
  <2>2. QED BY Zenon, <1>1, <1>2, <2>1, Climb
<1>4. \E st : StartsOf(st, cap, order, n, target)
  BY <1>3
<1>5. Cardinality(DOMAIN order) = n
  BY FS_Interval
<1>6. QED BY Zenon, <1>4, <1>5 DEF Starts, StartsOf

\* The recursion of Capacities, as an equation over the sets D of workers.
CapacitiesOf(total, cap, D) ==
  total = [S \in D |-> IF S = {} THEN 0
                       ELSE LET w == CHOOSE v \in S : TRUE IN cap[w] + total[S \ {w}]]

\* A total capacity is the sum over the workers, taken in any order.
Additive(total, cap, W) ==
  /\ total[{}] = 0
  /\ \A S \in SUBSET W : total[S] \in Nat
  /\ \A S \in SUBSET W : \A w \in S : total[S] = cap[w] + total[S \ {w}]

\* Every set of workers has a total capacity.
LEMMA CapacitiesDefined ==
  ASSUME NEW W, IsFiniteSet(W), NEW cap
  PROVE  CapacitiesOf(Capacities(cap, W), cap, SUBSET W)
<1> DEFINE D(k) == {S \in SUBSET W : Cardinality(S) <= k}
           I == {k \in Nat : \E total : CapacitiesOf(total, cap, D(k))}
<1>1. \A S \in SUBSET W : /\ Cardinality(S) \in Nat
                          /\ Cardinality(S) = 0 => S = {}
                          /\ \A w \in S : Cardinality(S \ {w}) = Cardinality(S) - 1
  <2> TAKE S \in SUBSET W
  <2>1. IsFiniteSet(S)
    BY FS_Subset
  <2>2. Cardinality(S) \in Nat
    BY <2>1, FS_CardinalityType
  <2>3. Cardinality(S) = 0 => S = {}
    BY <2>1, FS_EmptySet
  <2>4. \A w \in S : Cardinality(S \ {w}) = Cardinality(S) - 1
    BY <2>1, FS_RemoveElement
  <2>5. QED BY <2>2, <2>3, <2>4
<1>2. 0 \in I
  <2>1. \A S \in D(0) : S = {}
    BY <1>1
  <2>2. CapacitiesOf([S \in D(0) |-> 0], cap, D(0))
    <3> HIDE DEF D
    <3>1. QED BY <2>1 DEF CapacitiesOf
  <2>3. QED BY Zenon, <2>2
<1>3. ASSUME NEW k \in I PROVE k + 1 \in I
  <2>1. k \in Nat
    OBVIOUS
  <2>2. PICK f : CapacitiesOf(f, cap, D(k))
    OBVIOUS
  <2> DEFINE Some(S) == CHOOSE v \in S : TRUE
             g == [S \in D(k + 1) |-> IF S = {} THEN 0
                                      ELSE cap[Some(S)] + f[S \ {Some(S)}]]
  <2>3. \A S \in D(k) : f[S] = IF S = {} THEN 0 ELSE cap[Some(S)] + f[S \ {Some(S)}]
    <3> HIDE DEF D
    <3>1. QED BY <2>2, Zenon DEF CapacitiesOf
  <2>4. \A S \in D(k + 1) : S # {} => S \ {Some(S)} \in D(k)
    <3> TAKE S \in D(k + 1)
    <3> HAVE S # {}
    <3>1. Some(S) \in S
      OBVIOUS
    <3>2. Cardinality(S \ {Some(S)}) = Cardinality(S) - 1 /\ Cardinality(S) \in Nat
      BY Zenon, <1>1, <3>1
    <3> HIDE DEF Some
    <3>3. QED BY <2>1, <3>2
  <2>5. D(k) \subseteq D(k + 1)
    BY <1>1, <2>1
  <2>6. \A S \in D(k) : g[S] = f[S]
    <3> HIDE DEF D, Some
    <3>1. QED BY Zenon, <2>3, <2>5
  <2>7. g = [S \in D(k + 1) |-> IF S = {} THEN 0 ELSE cap[Some(S)] + g[S \ {Some(S)}]]
    <3>1. ASSUME NEW S \in D(k + 1)
          PROVE  g[S] = IF S = {} THEN 0 ELSE cap[Some(S)] + g[S \ {Some(S)}]
      <4>1. S # {} => g[S \ {Some(S)}] = f[S \ {Some(S)}]
        <5> HIDE DEF g
        <5>1. QED BY Zenon, <2>4, <2>6
      <4>2. g[S] = IF S = {} THEN 0 ELSE cap[Some(S)] + f[S \ {Some(S)}]
        <5> HIDE DEF D, Some
        <5>1. QED OBVIOUS
      <4>3. QED
        <5> HIDE DEF g, Some
        <5>1. QED BY <4>1, <4>2
    <3> HIDE DEF Some
    <3>2. g = [S \in D(k + 1) |-> g[S]]
      <4> HIDE DEF D
      <4>1. QED OBVIOUS
    <3> HIDE DEF g, D
    <3>3. QED BY Zenon, <3>1, <3>2
  <2>8. CapacitiesOf(g, cap, D(k + 1))
    <3> HIDE DEF g, D
    <3>1. QED BY Zenon, <2>7 DEF CapacitiesOf
  <2> HIDE DEF g, D
  <2>9. QED BY <2>1, <2>8
<1>4. Cardinality(W) \in Nat /\ D(Cardinality(W)) = SUBSET W
  BY FS_Subset, FS_CardinalityType
<1>5. Cardinality(W) \in I
  <2> HIDE DEF I, D
  <2>1. I \subseteq Nat
    BY DEF I
  <2>2. QED BY <1>2, <1>3, <1>4, <2>1, Climb
<1>6. \E total : CapacitiesOf(total, cap, SUBSET W)
  BY Zenon, <1>4, <1>5
<1>7. QED BY Zenon, <1>6 DEF Capacities, CapacitiesOf
\* A total does not depend on the order in which the workers are added up.
LEMMA TotalWithout ==
  ASSUME NEW W, IsFiniteSet(W), NEW cap, \A w \in W : cap[w] \in Nat
  PROVE  Additive(Capacities(cap, W), cap, W)
<1> DEFINE total == Capacities(cap, W)
           Some(S) == CHOOSE v \in S : TRUE
           I == {k \in Nat : \A S \in SUBSET W : Cardinality(S) <= k =>
                   /\ total[S] \in Nat
                   /\ \A w \in S : total[S] = cap[w] + total[S \ {w}]}
<1>1. \A S \in SUBSET W : total[S] = IF S = {} THEN 0 ELSE cap[Some(S)] + total[S \ {Some(S)}]
  <2>1. CapacitiesOf(total, cap, SUBSET W)
    BY CapacitiesDefined
  <2> HIDE DEF total
  <2>2. QED BY <2>1, Zenon DEF CapacitiesOf
<1>2. \A S \in SUBSET W : /\ Cardinality(S) \in Nat
                          /\ Cardinality(S) = 0 <=> S = {}
                          /\ \A w \in S : Cardinality(S \ {w}) = Cardinality(S) - 1
  <2> TAKE S \in SUBSET W
  <2>1. IsFiniteSet(S)
    BY FS_Subset
  <2>2. Cardinality(S) \in Nat
    BY <2>1, FS_CardinalityType
  <2>3. Cardinality(S) = 0 <=> S = {}
    BY Zenon, <2>1, FS_EmptySet
  <2>4. \A w \in S : Cardinality(S \ {w}) = Cardinality(S) - 1
    BY Zenon, <2>1, FS_RemoveElement
  <2>5. QED BY <2>2, <2>3, <2>4
<1>3. \A S \in SUBSET W : S # {} => Some(S) \in S
  OBVIOUS
<1> HIDE DEF total, Some
<1>4. 0 \in I
  <2>1. \A S \in SUBSET W : Cardinality(S) <= 0 => S = {}
    BY <1>2
  <2>2. total[{}] = 0
    BY Zenon, <1>1
  <2>3. QED BY <2>1, <2>2
<1>5. ASSUME NEW k \in I PROVE k + 1 \in I
  <2>1. k \in Nat /\ \A S \in SUBSET W : Cardinality(S) <= k =>
                       /\ total[S] \in Nat
                       /\ \A w \in S : total[S] = cap[w] + total[S \ {w}]
    OBVIOUS
  <2> HIDE DEF I
  <2>2. ASSUME NEW S \in SUBSET W, Cardinality(S) = k + 1
        PROVE  /\ total[S] \in Nat
               /\ \A w \in S : total[S] = cap[w] + total[S \ {w}]
    <3> DEFINE c == Some(S)
    <3>1. S # {} /\ c \in S /\ c \in W
      BY <1>2, <1>3, <2>1, <2>2
    <3>2. total[S] = cap[c] + total[S \ {c}]
      BY Zenon, <1>1, <3>1
    <3>3. \A w \in S : Cardinality(S \ {w}) = k /\ S \ {w} \in SUBSET W
      BY <1>2, <2>1, <2>2
    <3>4. \A w \in S : total[S \ {w}] \in Nat /\ cap[w] \in Nat
      BY <2>1, <3>3
    <3>5. total[S] \in Nat
      BY <3>1, <3>2, <3>4
    <3>6. ASSUME NEW w \in S PROVE total[S] = cap[w] + total[S \ {w}]
      <4>1. CASE w = c
        BY <3>2, <4>1
      <4>2. CASE w # c
        <5>1. w \in S \ {c} /\ c \in S \ {w} /\ (S \ {c}) \ {w} = (S \ {w}) \ {c}
          BY <3>1, <4>2
        <5>2. total[S \ {c}] = cap[w] + total[(S \ {c}) \ {w}]
          <6>1. Cardinality(S \ {c}) <= k /\ S \ {c} \in SUBSET W
            BY <2>1, <3>1, <3>3
          <6> HIDE DEF c
          <6>2. QED BY Zenon, <2>1, <5>1, <6>1
        <5>3. total[S \ {w}] = cap[c] + total[(S \ {w}) \ {c}]
          <6>1. Cardinality(S \ {w}) <= k /\ S \ {w} \in SUBSET W
            BY <2>1, <3>3
          <6> HIDE DEF c
          <6>2. QED BY Zenon, <2>1, <5>1, <6>1
        <5>4. total[(S \ {c}) \ {w}] \in Int
          <6>1. (S \ {c}) \ {w} \in SUBSET W /\ Cardinality((S \ {c}) \ {w}) = k - 1
            <7>1. S \ {c} \in SUBSET W /\ Cardinality(S \ {c}) = k
              BY Zenon, <3>1, <3>3
            <7>2. QED BY Zenon, <1>2, <5>1, <7>1
          <6>2. Cardinality((S \ {c}) \ {w}) <= k
            BY <2>1, <6>1
          <6>3. total[(S \ {c}) \ {w}] \in Nat
            BY Zenon, <2>1, <6>1, <6>2
          <6>4. QED BY <6>3
        <5>5. cap[c] \in Int /\ cap[w] \in Int
          BY <3>1, <3>4
        <5>6. total[S] = cap[c] + (cap[w] + total[(S \ {c}) \ {w}])
          BY Zenon, <3>2, <5>2
        <5>7. total[S \ {w}] = cap[c] + total[(S \ {c}) \ {w}]
          BY Zenon, <5>1, <5>3
        <5> HIDE DEF c
        <5>8. QED BY <5>4, <5>5, <5>6, <5>7
      <4>3. QED BY <4>1, <4>2
    <3>7. QED BY <3>5, <3>6
  <2>3. \A S \in SUBSET W : Cardinality(S) <= k + 1 => Cardinality(S) <= k \/ Cardinality(S) = k + 1
    BY <1>2, <2>1
  <2>4. QED BY <2>1, <2>2, <2>3 DEF I
<1>6. I = Nat
  <2> HIDE DEF I
  <2>1. I \subseteq Nat
    BY DEF I
  <2>2. QED BY Zenon, <1>4, <1>5, <2>1, Climb
<1>7. \A S \in SUBSET W : total[S] \in Nat /\ \A w \in S : total[S] = cap[w] + total[S \ {w}]
  BY <1>2, <1>6
<1>8. total[{}] = 0
  BY Zenon, <1>1
<1> HIDE DEF total
<1>9. Additive(total, cap, W)
  BY Zenon, <1>7, <1>8 DEF Additive
<1>10. QED BY Zenon, <1>9 DEF total

\* What vuStart is in the loop over the workers.
Climbing(start, cap, order, n, target) ==
  /\ start[1] = 0
  /\ \A i \in 1 .. n + 1 : start[i] \in 0 .. target
  /\ \A i \in 1 .. n : start[i + 1] = Least(target, start[i] + cap[order[i]])
  /\ \A i, j \in 1 .. n + 1 : i <= j => start[i] <= start[j]

\* vuStart never falls and stays within the target.
LEMMA StartsClimb ==
  ASSUME NEW n \in Nat, NEW order, DOMAIN order = 1 .. n, NEW target \in Nat,
         NEW cap, \A i \in 1 .. n : cap[order[i]] \in Nat
  PROVE  Climbing(Starts(cap, order, target), cap, order, n, target)
<1> DEFINE start == Starts(cap, order, target)
           I == {k \in Nat : k <= n => start[k + 1] \in 0 .. target}
           J == {k \in Nat : \A i \in 1 .. n + 1 : i + k <= n + 1 => start[i] <= start[i + k]}
<1>1. start = [i \in 1 .. n + 1 |-> IF i = 1 THEN 0
                                    ELSE Least(target, start[i - 1] + cap[order[i - 1]])]
  <2>1. StartsOf(start, cap, order, n, target)
    BY Zenon, StartsDefined
  <2>2. QED BY Zenon, <2>1 DEF StartsOf
<1> HIDE DEF start
<1>2. start[1] = 0
  BY <1>1
<1>3. ASSUME NEW i \in 1 .. n PROVE start[i + 1] = Least(target, start[i] + cap[order[i]])
  <2>1. i + 1 \in 1 .. n + 1 /\ i + 1 # 1 /\ (i + 1) - 1 = i
    OBVIOUS
  <2>2. QED BY <1>1, <2>1
<1>4. 0 \in I
  BY <1>2
<1>5. ASSUME NEW k \in I PROVE k + 1 \in I
  <2>1. CASE k + 1 <= n
    <3>1. k \in Nat /\ k + 1 \in 1 .. n /\ start[k + 1] \in 0 .. target
      BY <2>1
    <3>2. start[(k + 1) + 1] = Least(target, start[k + 1] + cap[order[k + 1]])
      BY <1>3, <3>1
    <3>3. cap[order[k + 1]] \in Nat
      BY <3>1
    <3>4. QED BY <3>1, <3>2, <3>3 DEF Least
  <2>2. QED BY <2>1
<1>6. I = Nat
  <2> HIDE DEF I
  <2>1. I \subseteq Nat
    BY DEF I
  <2>2. QED BY Zenon, <1>4, <1>5, <2>1, Climb
<1>7. ASSUME NEW i \in 1 .. n + 1 PROVE start[i] \in 0 .. target
  <2>1. i - 1 \in Nat /\ i - 1 <= n /\ (i - 1) + 1 = i
    OBVIOUS
  <2>2. i - 1 \in I
    <3> HIDE DEF I
    <3>1. QED BY <1>6, <2>1
  <2>3. QED BY <2>1, <2>2
<1>8. 0 \in J
  BY <1>7
<1>9. ASSUME NEW k \in J PROVE k + 1 \in J
  <2>1. k \in Nat /\ \A i \in 1 .. n + 1 : i + k <= n + 1 => start[i] <= start[i + k]
    OBVIOUS
  <2>2. ASSUME NEW i \in 1 .. n + 1, i + (k + 1) <= n + 1
        PROVE  start[i] <= start[i + (k + 1)]
    <3>1. i + k \in 1 .. n /\ i + k <= n + 1 /\ i + (k + 1) = (i + k) + 1
      BY <2>1, <2>2
    <3>2. start[i] <= start[i + k]
      BY <2>1, <3>1
    <3>3. start[(i + k) + 1] = Least(target, start[i + k] + cap[order[i + k]])
      BY <1>3, <3>1
    <3>4. start[i + k] \in 0 .. target /\ cap[order[i + k]] \in Nat /\ start[i] \in 0 .. target
      BY <1>7, <3>1
    <3>5. start[i + k] <= start[(i + k) + 1]
      BY <3>3, <3>4 DEF Least
    <3>6. QED BY <1>7, <3>1, <3>2, <3>4, <3>5
  <2>3. QED BY <2>1, <2>2
<1>10. J = Nat
  <2> HIDE DEF J
  <2>1. J \subseteq Nat
    BY DEF J
  <2>2. QED BY Zenon, <1>8, <1>9, <2>1, Climb
<1>11. ASSUME NEW i \in 1 .. n + 1, NEW j \in 1 .. n + 1, i <= j PROVE start[i] <= start[j]
  <2>1. j - i \in Nat /\ i + (j - i) = j /\ i + (j - i) <= n + 1
    BY <1>11
  <2>2. j - i \in J
    <3> HIDE DEF J
    <3>1. QED BY <1>10, <2>1
  <2>3. QED BY Zenon, <2>1, <2>2
<1>12. Climbing(start, cap, order, n, target)
  BY Zenon, <1>2, <1>3, <1>7, <1>11 DEF Climbing
<1>13. QED BY Zenon, <1>12 DEF start

\* After k workers vuStart has reached what they have room for, or the target.
FilledBy(k, W, order, cap, target) ==
  Starts(cap, order, target)[k + 1] =
    Least(target, Capacities(cap, W)[{order[j] : j \in 1 .. k}])

\* The loop over the workers keeps vuStart at the capacity passed over so far.
LEMMA StartsFill ==
  ASSUME NEW W, IsFiniteSet(W), NEW n \in Nat, NEW order \in [1 .. n -> W],
         \A i, j \in 1 .. n : order[i] = order[j] => i = j,
         NEW target \in Nat, NEW cap, \A w \in W : cap[w] \in Nat
  PROVE  \A k \in 0 .. n : FilledBy(k, W, order, cap, target)
<1> DEFINE start == Starts(cap, order, target)
           total == Capacities(cap, W)
           P(k) == {order[j] : j \in 1 .. k}
           I == {k \in Nat : k <= n => start[k + 1] = Least(target, total[P(k)])}
<1>climb. Climbing(start, cap, order, n, target)
  <2>1. DOMAIN order = 1 .. n /\ \A i \in 1 .. n : cap[order[i]] \in Nat
    OBVIOUS
  <2>2. QED BY Zenon, <2>1, StartsClimb
<1>add. Additive(total, cap, W)
  BY Zenon, TotalWithout
<1> HIDE DEF start, total
<1>1. /\ start[1] = 0
      /\ \A i \in 1 .. n + 1 : start[i] \in 0 .. target
      /\ \A i \in 1 .. n : start[i + 1] = Least(target, start[i] + cap[order[i]])
  BY Zenon, <1>climb DEF Climbing
<1>2. /\ total[{}] = 0
      /\ \A S \in SUBSET W : total[S] \in Nat
      /\ \A S \in SUBSET W : \A w \in S : total[S] = cap[w] + total[S \ {w}]
  BY Zenon, <1>add DEF Additive
<1>3. 0 \in I
  <2>1. P(0) = {}
    OBVIOUS
  <2> HIDE DEF P
  <2>2. total[P(0)] = 0
    BY Zenon, <1>2, <2>1
  <2>3. start[1] = Least(target, total[P(0)])
    BY <1>1, <2>2 DEF Least
  <2>4. QED BY <2>3
<1>4. ASSUME NEW k \in I PROVE k + 1 \in I
  <2>1. CASE k + 1 <= n
    <3>1. k \in Nat /\ k + 1 \in 1 .. n /\ start[k + 1] = Least(target, total[P(k)])
      <4>1. k \in Nat /\ (k <= n => start[k + 1] = Least(target, total[P(k)]))
        BY Zenon
      <4> HIDE DEF P, I
      <4>2. k <= n /\ k + 1 \in 1 .. n
        BY <2>1, <4>1
      <4>3. QED BY Zenon, <4>1, <4>2
    <3>2. P(k) \in SUBSET W /\ P(k + 1) \in SUBSET W
      BY <3>1
    <3>3. P(k + 1) \ {order[k + 1]} = P(k) /\ order[k + 1] \in P(k + 1)
      <4>1. 1 .. k + 1 = (1 .. k) \cup {k + 1} /\ k + 1 \notin 1 .. k
        BY <3>1
      <4>2. \A j \in 1 .. k : order[j] # order[k + 1]
        BY <3>1
      <4>3. P(k + 1) = P(k) \cup {order[k + 1]}
        BY <4>1
      <4>4. order[k + 1] \notin P(k)
        BY <4>2
      <4>5. QED BY <4>3, <4>4
    <3> HIDE DEF P
    <3>4. total[P(k + 1)] = cap[order[k + 1]] + total[P(k)]
      <4>1. total[P(k + 1)] = cap[order[k + 1]] + total[P(k + 1) \ {order[k + 1]}]
        BY Zenon, <1>2, <3>2, <3>3
      <4>2. QED BY Zenon, <3>3, <4>1
    <3>5. start[(k + 1) + 1] = Least(target, start[k + 1] + cap[order[k + 1]])
      BY <1>1, <3>1
    <3>6. cap[order[k + 1]] \in Nat /\ total[P(k)] \in Nat
      BY <1>2, <3>1, <3>2
    <3>7. start[(k + 1) + 1] = Least(target, total[P(k + 1)])
      BY <3>1, <3>4, <3>5, <3>6 DEF Least
    <3>8. QED BY <3>1, <3>7
  <2>2. QED BY <2>1
<1>5. I = Nat
  <2> HIDE DEF I
  <2>1. I \subseteq Nat
    BY DEF I
  <2>2. QED BY Zenon, <1>3, <1>4, <2>1, Climb
<1>6. \A k \in 0 .. n : start[k + 1] = Least(target, total[P(k)])
  <2> TAKE k \in 0 .. n
  <2>1. k \in Nat /\ k <= n
    OBVIOUS
  <2>2. k \in I
    <3> HIDE DEF I
    <3>1. QED BY <1>5, <2>1
  <2> HIDE DEF P
  <2>3. QED BY <2>1, <2>2
<1>7. QED BY Zenon, <1>6 DEF start, total, FilledBy

\* An order of the workers is a numbering of all of them.
LEMMA OrderFacts ==
  ASSUME NEW W, IsFiniteSet(W), NEW cap, \A w \in W : cap[w] \in Nat,
         NEW order \in Orders(cap, W)
  PROVE  LET n == Cardinality(W)
         IN  /\ n \in Nat /\ order \in [1 .. n -> W]
             /\ \A i, j \in 1 .. n : order[i] = order[j] => i = j
             /\ \A w \in W : \E i \in 1 .. n : order[i] = w
             /\ \A i, j \in 1 .. n : i <= j => cap[order[i]] >= cap[order[j]]
<1> DEFINE n == Cardinality(W)
<1>1. n \in Nat
  BY FS_CardinalityType
<1>2. /\ order \in [1 .. n -> W]
      /\ \A i, j \in 1 .. n : i < j => order[i] # order[j] /\ cap[order[i]] >= cap[order[j]]
  BY DEF Orders
<1>3. \A i, j \in 1 .. n : order[i] = order[j] => i = j
  <2> HIDE DEF n
  <2>1. QED BY <1>1, <1>2
<1>4. \A w \in W : \E i \in 1 .. n : order[i] = w
  <2>1. order \in Injection(1 .. n, W)
    BY <1>2, <1>3 DEF Injection, IsInjective
  <2>2. IsFiniteSet(1 .. n) /\ Cardinality(1 .. n) = n
    BY <1>1, FS_Interval
  <2>3. order \in Surjection(1 .. n, W)
    BY <2>1, <2>2, FS_Injection
  <2>4. QED BY <2>3 DEF Surjection
<1>5. \A i, j \in 1 .. n : i <= j => cap[order[i]] >= cap[order[j]]
  <2> TAKE i, j \in 1 .. n
  <2> HAVE i <= j
  <2>1. order[i] \in W /\ order[j] \in W
    BY <1>2
  <2>2. CASE i = j
    BY <2>1, <2>2
  <2>3. CASE i < j
    BY <1>2, <2>3
  <2> HIDE DEF n
  <2>4. QED BY <1>1, <2>2, <2>3
<1>6. QED BY <1>1, <1>2, <1>3, <1>4, <1>5

\* When the capacity suffices, the placement loop ends with every user placed.
LEMMA StartsReach ==
  ASSUME NEW W, IsFiniteSet(W), NEW cap, \A w \in W : cap[w] \in Nat,
         NEW order \in Orders(cap, W), NEW target \in Nat, TotalCapacity(cap, W) >= target
  PROVE  Starts(cap, order, target)[Cardinality(W) + 1] = target
<1> DEFINE n == Cardinality(W)
<1>1. /\ n \in Nat /\ order \in [1 .. n -> W]
      /\ \A i, j \in 1 .. n : order[i] = order[j] => i = j
      /\ \A w \in W : \E i \in 1 .. n : order[i] = w
  BY OrderFacts
<1>2. {order[j] : j \in 1 .. n} = W
  BY <1>1
<1>3. n \in 0 .. n
  BY <1>1
<1> HIDE DEF n
<1>4. Starts(cap, order, target)[n + 1] =
        Least(target, Capacities(cap, W)[{order[j] : j \in 1 .. n}])
  <2>1. FilledBy(n, W, order, cap, target)
    BY Zenon, <1>1, <1>3, StartsFill
  <2>2. QED BY Zenon, <2>1 DEF FilledBy
<1>5. Starts(cap, order, target)[n + 1] = Least(target, TotalCapacity(cap, W))
  BY <1>2, <1>4 DEF TotalCapacity
<1>6. TotalCapacity(cap, W) \in Nat
  <2>1. Additive(Capacities(cap, W), cap, W)
    BY Zenon, TotalWithout
  <2>2. QED BY Zenon, <2>1 DEF TotalCapacity, Additive
<1>7. QED BY <1>5, <1>6 DEF Least, n

\* A worker whose turn comes before all users are placed has room for one: the
\* workers are sorted, and after one without room there is none with any.
LEMMA UsedHaveRoom ==
  ASSUME NEW n \in Nat, NEW order, DOMAIN order = 1 .. n, NEW target \in Nat,
         NEW cap, \A i \in 1 .. n : cap[order[i]] \in Nat,
         \A i, j \in 1 .. n : i <= j => cap[order[i]] >= cap[order[j]],
         Starts(cap, order, target)[n + 1] = target,
         NEW u \in 1 .. n, Starts(cap, order, target)[u] < target
  PROVE  cap[order[u]] > 0
<1> DEFINE start == Starts(cap, order, target)
           I == {k \in Nat : u + k <= n + 1 => start[u + k] = start[u]}
<1>climb. Climbing(start, cap, order, n, target)
  BY Zenon, StartsClimb
<1>2. start[n + 1] = target /\ start[u] < target /\ u \in Nat
  OBVIOUS
<1> HIDE DEF start
<1>1. /\ \A i \in 1 .. n + 1 : start[i] \in 0 .. target
      /\ \A i \in 1 .. n : start[i + 1] = Least(target, start[i] + cap[order[i]])
  BY Zenon, <1>climb DEF Climbing
<1>3. SUFFICES ASSUME cap[order[u]] = 0 PROVE FALSE
  OBVIOUS
<1>4. 0 \in I
  BY <1>2
<1>5. ASSUME NEW k \in I PROVE k + 1 \in I
  <2>1. CASE u + (k + 1) <= n + 1
    <3>1. k \in Nat /\ u + k \in 1 .. n /\ u <= u + k /\ u + (k + 1) = (u + k) + 1
          /\ start[u + k] = start[u]
      BY <2>1
    <3>2. cap[order[u + k]] = 0
      BY <1>3, <3>1
    <3>3. start[(u + k) + 1] = Least(target, start[u + k] + cap[order[u + k]])
      BY <1>1, <3>1
    <3>4. start[u] \in 0 .. target
      BY <1>1
    <3>5. start[(u + k) + 1] = start[u]
      BY <3>1, <3>2, <3>3, <3>4 DEF Least
    <3>6. QED BY <3>1, <3>5
  <2>2. QED BY <2>1
<1>6. I = Nat
  <2> HIDE DEF I
  <2>1. I \subseteq Nat
    BY DEF I
  <2>2. QED BY Zenon, <1>4, <1>5, <2>1, Climb
<1>7. (n + 1) - u \in I
  <2> HIDE DEF I
  <2>1. (n + 1) - u \in Nat
    OBVIOUS
  <2>2. QED BY <1>6, <2>1
<1>8. start[n + 1] = start[u]
  <2>1. u + ((n + 1) - u) = n + 1
    OBVIOUS
  <2>2. QED BY <1>7, <2>1
<1>9. QED BY <1>1, <1>2, <1>8

\* AllocateAssignments and ReallocateAssignments, when they do not refuse, give
\* every user 0 .. target - 1 to exactly one worker, and every worker they use at
\* least one user and no more than its capacity, for any capacities and any target.
THEOREM PlacementsExact ==
  ASSUME NEW W, IsFiniteSet(W), NEW cap, \A w \in W : cap[w] \in Nat,
         NEW target \in Nat, NEW p \in Allocations(cap, W, target)
  PROVE  Exact(p, cap, W, target)
<1>1. PICK order \in Orders(cap, W) : p = Pack(cap, order, target)
  BY DEF Allocations
<1>2. target > 0 /\ TotalCapacity(cap, W) >= target
  <2>1. TotalCapacity(cap, W) \in Nat
    <3>1. Additive(Capacities(cap, W), cap, W)
      BY Zenon, TotalWithout
    <3>2. QED BY Zenon, <3>1 DEF TotalCapacity, Additive
  <2>2. QED BY <2>1 DEF Allocations
<1> DEFINE n == Cardinality(W)
           start == Starts(cap, order, target)
           used == {i \in 1 .. n : start[i] < target}
<1>3. /\ n \in Nat /\ order \in [1 .. n -> W] /\ DOMAIN order = 1 .. n
      /\ \A i, j \in 1 .. n : order[i] = order[j] => i = j
      /\ \A i, j \in 1 .. n : i <= j => cap[order[i]] >= cap[order[j]]
  BY Zenon, OrderFacts
<1>4. start[n + 1] = target
  BY <1>2, StartsReach
<1>5. \A i \in 1 .. n : cap[order[i]] \in Nat
  BY <1>3
<1>6. \A i \in used : cap[order[i]] > 0
  <2> HIDE DEF n
  <2>1. QED BY <1>3, <1>4, <1>5, UsedHaveRoom
<1>7. /\ start[1] = 0
      /\ \A i \in 1 .. n + 1 : start[i] \in 0 .. target
      /\ \A i \in 1 .. n : start[i + 1] = Least(target, start[i] + cap[order[i]])
      /\ \A i, j \in 1 .. n + 1 : i <= j => start[i] <= start[j]
  <2> HIDE DEF n
  <2>1. Climbing(start, cap, order, n, target)
    BY Zenon, <1>3, <1>5, StartsClimb
  <2> HIDE DEF start
  <2>2. QED BY Zenon, <2>1 DEF Climbing
<1>8. /\ DOMAIN p = {order[i] : i \in used}
      /\ \A i \in used : p[order[i]] = VUIDRange(start[i], start[i + 1])
  <2>1. p = [w \in {order[i] : i \in used} |->
               LET i == CHOOSE j \in used : order[j] = w
               IN  VUIDRange(start[i], start[i + 1])]
    BY <1>1, <1>3 DEF Pack
  <2> HIDE DEF start, n
  <2>2. ASSUME NEW i \in used PROVE (CHOOSE j \in used : order[j] = order[i]) = i
    BY <1>3
  <2> HIDE DEF used
  <2>3. QED BY <2>1, <2>2
<1> HIDE DEF start, n
<1>9. DOMAIN p \subseteq W
  BY <1>3, <1>8
<1>range. ASSUME NEW i \in used
          PROVE  /\ order[i] \in DOMAIN p
                 /\ p[order[i]].lo = start[i] /\ p[order[i]].hi = start[i + 1]
                 /\ Users(p[order[i]]) = start[i] .. (start[i + 1] - 1)
  <2> HIDE DEF used
  <2>1. order[i] \in DOMAIN p /\ p[order[i]] = VUIDRange(start[i], start[i + 1])
    BY Zenon, <1>8
  <2>2. QED BY <2>1 DEF VUIDRange, Users
<1>10. ASSUME NEW i \in used
       PROVE  /\ start[i] \in 0 .. target /\ start[i + 1] \in 0 .. target
              /\ start[i + 1] - start[i] \in 1 .. cap[order[i]]
  <2>1. i \in 1 .. n /\ i \in 1 .. n + 1 /\ i + 1 \in 1 .. n + 1 /\ start[i] < target
    BY <1>3
  <2>2. /\ start[i] \in 0 .. target /\ start[i + 1] \in 0 .. target
        /\ start[i + 1] = Least(target, start[i] + cap[order[i]])
    BY <1>7, <2>1
  <2>3. cap[order[i]] \in Nat /\ cap[order[i]] > 0
    BY <1>5, <1>6, <2>1
  <2>4. QED BY <2>1, <2>2, <2>3 DEF Least
<1>11. ASSUME NEW w \in DOMAIN p
       PROVE  /\ p[w].lo \in Nat /\ p[w].hi \in Nat /\ p[w].hi <= target
              /\ p[w].hi - p[w].lo \in 1 .. cap[w]
  <2>1. PICK i \in used : w = order[i]
    BY <1>8
  <2>2. p[w].lo = start[i] /\ p[w].hi = start[i + 1]
    BY Zenon, <1>range, <2>1
  <2>3. QED BY <1>10, <2>1, <2>2
<1>12. ASSUME NEW v \in DOMAIN p, NEW w \in DOMAIN p, v # w
       PROVE  Users(p[v]) \cap Users(p[w]) = {}
  <2>1. PICK i \in used : v = order[i]
    BY <1>8
  <2>2. PICK j \in used : w = order[j]
    BY <1>8
  <2>3. /\ Users(p[v]) = start[i] .. (start[i + 1] - 1)
        /\ Users(p[w]) = start[j] .. (start[j + 1] - 1)
    BY Zenon, <1>range, <2>1, <2>2
  <2>4. i \in 1 .. n /\ j \in 1 .. n /\ i # j
    BY <1>12, <2>1, <2>2
  <2>5. start[i + 1] <= start[j] \/ start[j + 1] <= start[i]
    BY <1>3, <1>7, <2>4
  <2>6. /\ start[i] \in Int /\ start[j] \in Int /\ start[i + 1] \in Int /\ start[j + 1] \in Int
    BY <1>10
  <2>7. CASE start[i + 1] <= start[j]
    BY <2>3, <2>6, <2>7
  <2>8. CASE start[j + 1] <= start[i]
    BY <2>3, <2>6, <2>8
  <2>9. QED BY Zenon, <2>5, <2>7, <2>8
<1>13. ASSUME NEW x \in 0 .. (target - 1)
       PROVE  \E w \in DOMAIN p : x \in Users(p[w])
  <2> DEFINE T == {k \in Nat : k + 1 \in 1 .. n + 1 /\ start[k + 1] > x}
  <2>1. n \in T
    BY <1>3, <1>4
  <2>2. PICK k \in T : \A m \in T : ~ (<<m, k>> \in OpToRel(<, Nat))
    <3>1. T \subseteq Nat
      OBVIOUS
    <3> HIDE DEF T
    <3>2. QED BY <2>1, <3>1, NatLessThanWellFounded, WFMin
  <2>3. k \in Nat /\ k + 1 \in 1 .. n + 1 /\ start[k + 1] > x
    OBVIOUS
  <2>4. k # 0
    BY <1>7, <2>3
  <2>5. k - 1 \in Nat /\ (k - 1) + 1 = k /\ k \in 1 .. n /\ k \in 1 .. n + 1 /\ k - 1 < k
    BY <1>3, <2>3, <2>4
  <2>6. k - 1 \notin T
    BY Zenon, <2>2, <2>5 DEF OpToRel
  <2>7. start[k] \in 0 .. target /\ start[k] <= x
    BY <1>7, <2>5, <2>6
  <2>8. k \in used
    BY <2>5, <2>7
  <2>9. p[order[k]].lo = start[k] /\ p[order[k]].hi = start[k + 1] /\ order[k] \in DOMAIN p
    BY Zenon, <1>range, <2>8
  <2>10. start[k + 1] \in Int
    BY <1>7, <2>3
  <2>11. QED BY <2>3, <2>7, <2>9, <2>10 DEF Users
<1>14. ASSUME NEW w \in DOMAIN p PROVE Users(p[w]) \subseteq 0 .. (target - 1)
  BY <1>11 DEF Users
<1>15. UNION {Users(p[w]) : w \in DOMAIN p} = 0 .. (target - 1)
  BY Zenon, <1>13, <1>14
<1>16. QED BY Zenon, <1>9, <1>11, <1>12, <1>15 DEF Exact

-----------------------------------------------------------------------------
\* What the stage dispatches rely on: the registered workers are finitely many.
LEMMA Exactly == AllocatesExactly
<1> SUFFICES ASSUME NEW W \in SUBSET Workers, NEW cap \in [Workers -> Nat], NEW n \in Nat,
                    NEW p \in Allocations(cap, W, n)
             PROVE  Exact(p, cap, W, n)
  BY DEF AllocatesExactly
<1>1. IsFiniteSet(W)
  BY Zenon, WorkersAssumption, FS_Subset
<1>2. \A w \in W : cap[w] \in Nat
  BY Zenon
<1>3. QED BY Zenon, <1>1, <1>2, PlacementsExact

\* The leases of a stage never overlap and never exceed its capped target, whichever of
\* the three dispatchers (stage, ramp, replacement) issued them and whatever the monitor
\* and the heartbeats do in between.
THEOREM RangesStayDisjoint == Spec => []DisjointRanges
<1>1. LossInv /\ CoverInv /\ [Next]_vars => CoverInv'
  BY Zenon, Exactly, CoverNext
<1>2. QED BY <1>1, LossInvInit, LossInvNext, CoverInit, CoverGives, PTL DEF Spec

\* Once the dispatch of a stage is over, and unless the allocator refused or a worker was
\* lost since it began, the stage has a lease for every user of its target; a ramp, for
\* every user added so far.
THEOREM StagesCovered == Spec => []StageCovered
<1>1. LossInv /\ CoverInv /\ [Next]_vars => CoverInv'
  BY Zenon, Exactly, CoverNext
<1>2. QED BY <1>1, LossInvInit, LossInvNext, CoverInit, CoverGives, PTL DEF Spec
=============================================================================
