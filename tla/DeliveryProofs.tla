--------------------------- MODULE DeliveryProofs ---------------------------
(***************************************************************************)
(* What is delivered between the control plane, its workers and its        *)
(* readers, whatever is lost on the way. For any leases and any limit of   *)
(* the queue, no assignment is lost or executed again without a reason;    *)
(* for any readers and limits, the event stream implements the safety part *)
(* of the feed; and for any runs, outcomes and sizes of buffer and batch,  *)
(* no outcome is stored again without a reason.                            *)
(***************************************************************************)
EXTENDS AssignmentDelivery, TelemetryShipper, EventStream, WellFoundedInduction, TLAPS

-----------------------------------------------------------------------------
(* Loops.                                                                  *)

\* Induction, as a fact about sets of numbers.
LEMMA Climb ==
  ASSUME NEW I \in SUBSET Nat, 0 \in I, \A k \in I : k + 1 \in I
  PROVE  I = Nat
<1>1. SUFFICES ASSUME Nat \ I # {} PROVE FALSE
  BY Zenon
<1>2. PICK x \in Nat \ I : \A y \in Nat \ I : ~ (<<y, x>> \in OpToRel(<, Nat))
  BY <1>1, NatLessThanWellFounded, WFMin
<1>3. \A y \in Nat \ I : ~(y < x)
  BY Zenon, <1>2 DEF OpToRel
<1>4. x # 0 /\ x - 1 \in Nat /\ x - 1 < x
  OBVIOUS
<1>5. x - 1 \in I
  BY <1>3, <1>4
<1>6. QED BY <1>4, <1>5

\* f is what a loop of n turns has made of `first` after each turn.
LoopOf(f, first, step, n) ==
  f = [i \in 0 .. n |-> IF i = 0 THEN first ELSE step[i, f[i - 1]]]

\* A loop whose body step keeps within V has a value after every turn.
LEMMA Loop ==
  ASSUME NEW V, NEW first \in V, NEW n \in Nat, NEW step \in [(1 .. n) \X V -> V]
  PROVE  \E f \in [0 .. n -> V] : LoopOf(f, first, step, n)
<1> DEFINE I == {k \in Nat : k <= n => \E f \in [0 .. k -> V] : LoopOf(f, first, step, k)}
<1>1. 0 \in I
  <2>1. [i \in 0 .. 0 |-> first] \in [0 .. 0 -> V]
    OBVIOUS
  <2>2. LoopOf([i \in 0 .. 0 |-> first], first, step, 0)
    BY DEF LoopOf
  <2>3. QED BY <2>1, <2>2
<1>2. ASSUME NEW k \in I PROVE k + 1 \in I
  <2>1. k \in Nat
    OBVIOUS
  <2>2. SUFFICES ASSUME k + 1 <= n
                 PROVE  \E f \in [0 .. k + 1 -> V] : LoopOf(f, first, step, k + 1)
    BY <2>1
  <2>3. PICK f \in [0 .. k -> V] : LoopOf(f, first, step, k)
    BY <2>1, <2>2
  <2>4. \A i \in 0 .. k : f[i] = IF i = 0 THEN first ELSE step[i, f[i - 1]]
    BY Zenon, <2>3 DEF LoopOf
  <2> DEFINE g == [i \in 0 .. k + 1 |-> IF i = k + 1 THEN step[k + 1, f[k]] ELSE f[i]]
             h == [i \in 0 .. k + 1 |-> IF i = 0 THEN first ELSE step[i, g[i - 1]]]
  <2>5. step[k + 1, f[k]] \in V
    <3>1. k + 1 \in 1 .. n /\ k \in 0 .. k
      BY <2>1, <2>2
    <3>2. f[k] \in V
      BY Zenon, <3>1
    <3>3. <<k + 1, f[k]>> \in (1 .. n) \X V
      BY Zenon, <3>1, <3>2
    <3>4. QED BY Zenon, <3>3
  <2>6. g \in [0 .. k + 1 -> V]
    <3> DEFINE last == step[k + 1, f[k]]
    <3> HIDE DEF last
    <3>1. \A i \in 0 .. k + 1 : i # k + 1 => i \in 0 .. k
      BY <2>1
    <3>2. \A i \in 0 .. k + 1 : (IF i = k + 1 THEN last ELSE f[i]) \in V
      BY Zenon, <2>5, <3>1 DEF last
    <3>3. QED BY Zenon, <3>2 DEF last
  <2>7. ASSUME NEW i \in 0 .. k + 1 PROVE g[i] = h[i]
    <3>1. CASE i = k + 1
      <4>1. i - 1 = k /\ i # 0 /\ k \in 0 .. k + 1 /\ k # k + 1
        BY <2>1, <3>1
      <4>2. g[k] = f[k]
        BY Zenon, <4>1
      <4>3. QED BY Zenon, <3>1, <4>1, <4>2
    <3>2. CASE i # k + 1
      <4>1. i \in 0 .. k /\ (i # 0 => i - 1 \in 0 .. k + 1 /\ i - 1 # k + 1)
        BY <2>1, <3>2
      <4>2. g[i] = f[i] /\ (i # 0 => g[i - 1] = f[i - 1])
        BY <3>2, <4>1
      <4>3. h[i] = IF i = 0 THEN first ELSE step[i, g[i - 1]]
        OBVIOUS
      <4> HIDE DEF g, h
      <4>4. QED BY <2>4, <4>1, <4>2, <4>3
    <3>3. QED BY <3>1, <3>2
  <2>8. LoopOf(g, first, step, k + 1)
    BY Zenon, <2>7 DEF LoopOf
  <2> HIDE DEF g
  <2>9. QED BY <2>6, <2>8
<1>3. n \in I
  <2> HIDE DEF I
  <2>1. I \subseteq Nat
    BY DEF I
  <2>2. QED BY Zenon, <1>1, <1>2, <2>1, Climb
<1>4. QED BY <1>3

-----------------------------------------------------------------------------
(* The inductive invariant of the assignments.                             *)

Delivery == [lease : Leases, old : BOOLEAN]

\* No lease is in q, and none has a delivery in s, more than once.
Once(q) == \A i, j \in DOMAIN q : q[i] = q[j] => i = j
OnceDelivered(s) == \A i, j \in DOMAIN s : s[i].lease = s[j].lease => i = j

DeliveryTypes ==
  /\ setup \in Setups
  /\ pending \in Seq(Leases) /\ pendingAck \in Seq(Delivery)
  /\ poll = [at |-> poll.at, batch |-> poll.batch, started |-> poll.started]
  /\ poll.batch \in Seq(Leases) /\ poll.started \subseteq Leases
  /\ exec = [l \in Leases |-> exec[l]]
  /\ starts \in [Leases -> 0 .. MaxLate + 1] /\ late \in [Leases -> 0 .. MaxLate]
  /\ queued \subseteq Leases

\* An assignment is in one place: it waits in the queue or for its acknowledgement.
\* Only what was queued gets that far; the worker has a batch only while it goes
\* through it.
OnePlace ==
  /\ Once(pending) /\ OnceDelivered(pendingAck) /\ Once(poll.batch)
  /\ Queue \cap Unacked = {}
  /\ Queue \cup Unacked \cup Elements(poll.batch) \subseteq queued
  /\ poll.at = "idle" => poll.batch = <<>>

\* What was started was executed, and only what was queued.
Executed ==
  /\ \A l \in Leases : exec[l] # "none" => starts[l] > 0
  /\ \A l \in poll.started : starts[l] > 0
  /\ \A l \in Leases : starts[l] > 0 => l \in queued

\* How often S has x.
In(x, S) == IF x \in S THEN 1 ELSE 0

\* Every execution of a lease, and every one that its copies in the queue and in the
\* worker's batch can still lead to, is the first or due to a redelivery.
DueFor(executions, copies, redeliveries) ==
  redeliveries = MaxLate \/ executions + copies <= 1 + redeliveries

CopiesLeft(l) == In(l, Queue) + In(l, Elements(poll.batch))

Due == \A l \in Leases : DueFor(starts[l], CopiesLeft(l), late[l])

DeliveryInv == DeliveryTypes /\ OnePlace /\ Executed /\ Due /\ Accounted

-----------------------------------------------------------------------------
(* The queues.                                                             *)

\* The list r has the elements of q and x, and none twice if that can be.
Extended(r, S, q, x) ==
  /\ r \in Seq(S) /\ Elements(r) = Elements(q) \cup {x}
  /\ x \notin Elements(q) /\ Once(q) => Once(r)

\* The elements of a list that grows at its end.
LEMMA AppendElements ==
  ASSUME NEW S, NEW q \in Seq(S), NEW x \in S
  PROVE  Extended(Append(q, x), S, q, x)
<1>1. /\ Append(q, x) \in Seq(S) /\ DOMAIN q = 1 .. Len(q) /\ Len(q) \in Nat
      /\ DOMAIN Append(q, x) = 1 .. Len(q) + 1
      /\ \A i \in 1 .. Len(q) : Append(q, x)[i] = q[i]
      /\ Append(q, x)[Len(q) + 1] = x
  OBVIOUS
<1>2. PICK r : r = Append(q, x)
  BY Zenon
<1>3. \A i \in 1 .. Len(q) + 1 : i \in 1 .. Len(q) \/ i = Len(q) + 1
  BY <1>1
<1>4. Len(q) + 1 \in 1 .. Len(q) + 1 /\ 1 .. Len(q) \subseteq 1 .. Len(q) + 1
  BY <1>1
<1>5. Elements(r) = Elements(q) \cup {x}
  BY Zenon, <1>1, <1>2, <1>3, <1>4 DEF Elements
<1>6. ASSUME x \notin Elements(q), Once(q) PROVE Once(r)
  <2>1. \A i \in 1 .. Len(q) : r[i] = q[i] /\ q[i] # x
    BY Zenon, <1>1, <1>2, <1>6 DEF Elements
  <2>2. \A i, j \in 1 .. Len(q) : q[i] = q[j] => i = j
    BY Zenon, <1>1, <1>6 DEF Once
  <2>3. r[Len(q) + 1] = x /\ DOMAIN r = 1 .. Len(q) + 1
    BY Zenon, <1>1, <1>2
  <2>4. ASSUME NEW i \in 1 .. Len(q) + 1, NEW j \in 1 .. Len(q) + 1, r[i] = r[j] PROVE i = j
    BY Zenon, <1>3, <2>1, <2>2, <2>3, <2>4
  <2>5. QED BY Zenon, <2>3, <2>4 DEF Once
<1>7. QED BY Zenon, <1>1, <1>2, <1>5, <1>6 DEF Extended

\* A delivery of another lease than those of s.
LEMMA AppendDelivered ==
  ASSUME NEW s \in Seq(Delivery), NEW x \in Delivery, OnceDelivered(s),
         \A d \in Elements(s) : d.lease # x.lease
  PROVE  OnceDelivered(Append(s, x))
<1>1. /\ DOMAIN s = 1 .. Len(s) /\ Len(s) \in Nat
      /\ DOMAIN Append(s, x) = 1 .. Len(s) + 1
      /\ \A i \in 1 .. Len(s) : Append(s, x)[i] = s[i]
      /\ Append(s, x)[Len(s) + 1] = x
  OBVIOUS
<1>2. PICK r : r = Append(s, x)
  BY Zenon
<1>3. \A i \in 1 .. Len(s) + 1 : i \in 1 .. Len(s) \/ i = Len(s) + 1
  BY <1>1
<1>4. \A i \in 1 .. Len(s) : r[i] = s[i] /\ s[i].lease # x.lease
  BY Zenon, <1>1, <1>2 DEF Elements
<1>5. \A i, j \in 1 .. Len(s) : s[i].lease = s[j].lease => i = j
  BY Zenon, <1>1 DEF OnceDelivered
<1>6. r[Len(s) + 1] = x /\ DOMAIN r = 1 .. Len(s) + 1
  BY Zenon, <1>1, <1>2
<1>7. ASSUME NEW i \in 1 .. Len(s) + 1, NEW j \in 1 .. Len(s) + 1, r[i].lease = r[j].lease
      PROVE  i = j
  BY Zenon, <1>3, <1>4, <1>5, <1>6, <1>7
<1>8. QED BY Zenon, <1>2, <1>6, <1>7 DEF OnceDelivered

\* The elements of the end of a list.
LEMMA TailElements ==
  ASSUME NEW S, NEW q \in Seq(S), NEW d \in Nat, d <= Len(q)
  PROVE  /\ SubSeq(q, d + 1, Len(q)) \in Seq(S)
         /\ Elements(SubSeq(q, d + 1, Len(q))) \subseteq Elements(q)
         /\ Once(q) => Once(SubSeq(q, d + 1, Len(q)))
<1>1. PICK r : r = SubSeq(q, d + 1, Len(q))
  BY Zenon
<1>2. Len(q) \in Nat /\ DOMAIN q = 1 .. Len(q)
  OBVIOUS
<1>3. r \in Seq(S) /\ Len(r) = Len(q) - d /\ \A i \in 1 .. Len(r) : r[i] = q[d + i]
  <2>1. \A i \in d + 1 .. Len(q) : q[i] \in S
    BY <1>2
  <2>2. Len(q) \in d .. Len(q)
    BY <1>2
  <2>3. SubSeq(q, d + 1, Len(q)) = [i \in 1 .. Len(q) - d |-> q[d + i]]
    BY <1>2
  <2>4. \A i \in 1 .. Len(q) - d : q[d + i] \in S
    BY <1>2
  <2>5. Len(q) - d \in Nat
    BY <1>2
  <2>6. QED BY <1>1, <2>3, <2>4, <2>5
<1>4. DOMAIN r = 1 .. Len(q) - d
  BY <1>3
<1>5. \A i \in DOMAIN r : d + i \in DOMAIN q /\ r[i] = q[d + i]
  BY <1>2, <1>3, <1>4
<1>6. Elements(r) \subseteq Elements(q)
  BY Zenon, <1>5 DEF Elements
<1>7. Once(q) => Once(r)
  <2>1. \A i, j \in DOMAIN r : d + i = d + j => i = j
    BY <1>4
  <2>2. QED BY Zenon, <1>5, <2>1 DEF Once
<1>8. QED BY Zenon, <1>1, <1>3, <1>6, <1>7

\* What addAssignmentLocked leaves in the queue, and that it adds l.
Enqueues(r, q, l) ==
  /\ r \in Seq(Leases) /\ Elements(r) \subseteq Elements(q) \cup {l} /\ l \in Elements(r)
  /\ Once(q) /\ l \notin Elements(q) => Once(r)

\* addAssignmentLocked puts l into the queue, which holds nothing else that is new
\* and holds nothing twice if l was not there.
LEMMA EnqueueElements ==
  ASSUME setup \in Setups, NEW q \in Seq(Leases), NEW l \in Leases
  PROVE  Enqueues(Enqueue(q, l), q, l)
<1>1. setup.limit \in Nat \ {0}
  BY SetupsAssumption DEF Setup
<1>2. PICK d : d = IF Len(q) >= setup.limit THEN Len(q) - setup.limit + 1 ELSE 0
  OBVIOUS
<1>3. d \in Nat /\ d <= Len(q)
  BY <1>1, <1>2
<1>4. PICK s : s = SubSeq(q, d + 1, Len(q))
  BY Zenon
<1>5. s \in Seq(Leases) /\ Elements(s) \subseteq Elements(q) /\ (Once(q) => Once(s))
  BY <1>3, <1>4, TailElements
<1>6. Enqueue(q, l) = Append(s, l)
  BY Zenon, <1>2, <1>4 DEF Enqueue
<1>7. PICK r : r = Append(s, l)
  BY Zenon
<1>8. Extended(r, Leases, s, l)
  BY Zenon, <1>5, <1>7, AppendElements
<1>9. Enqueues(r, q, l)
  BY Zenon, <1>5, <1>8 DEF Enqueues, Extended
<1>10. QED BY Zenon, <1>6, <1>7, <1>9

\* What is left of the deliveries s without those of `gone`.
Remains(r, s, gone) ==
  r \in Seq(Delivery) /\ Elements(r) = Elements(s) \ gone /\ OnceDelivered(r)

\* The loop that builds `remaining` keeps every other delivery, once.
LEMMA RemainingExact ==
  ASSUME NEW s \in Seq(Delivery), OnceDelivered(s), NEW gone
  PROVE  Remains(Remaining(s, gone), s, gone)
<1> DEFINE n == Len(s)
           V == Seq(Delivery)
           After(i, r) == IF s[i] \in gone THEN r ELSE Append(r, s[i])
           step == [x \in (1 .. n) \X V |-> After(x[1], x[2])]
<1>1. n \in Nat /\ DOMAIN s = 1 .. n /\ (\A i \in 1 .. n : s[i] \in Delivery) /\ <<>> \in V
  OBVIOUS
<1> HIDE DEF n, V
<1>2. ASSUME NEW i \in 1 .. n, NEW r \in V PROVE After(i, r) \in V
  <2>1. Append(r, s[i]) \in V
    <3>1. Extended(Append(r, s[i]), Delivery, r, s[i])
      BY Zenon, <1>1, AppendElements DEF V
    <3>2. QED BY Zenon, <3>1 DEF Extended, V
  <2>2. QED BY Zenon, <2>1
<1>3. step \in [(1 .. n) \X V -> V]
  <2>1. \A x \in (1 .. n) \X V : x[1] \in 1 .. n /\ x[2] \in V
    OBVIOUS
  <2> HIDE DEF After
  <2>2. QED BY Zenon, <1>2, <2>1
<1>4. \A i \in 1 .. n, r \in V : step[i, r] = After(i, r)
  <2> HIDE DEF After
  <2>1. ASSUME NEW i \in 1 .. n, NEW r \in V PROVE step[<<i, r>>] = After(i, r)
    <3>1. <<i, r>> \in (1 .. n) \X V /\ <<i, r>>[1] = i /\ <<i, r>>[2] = r
      OBVIOUS
    <3>2. QED BY Zenon, <3>1
  <2>2. QED BY Zenon, <2>1
<1> HIDE DEF step
<1>5. PICK f \in [0 .. n -> V] : LoopOf(f, <<>>, step, n)
  BY Zenon, <1>1, <1>3, Loop
<1> DEFINE F(g) == [i \in 0 .. n |-> IF i = 0 THEN <<>>
                                     ELSE IF s[i] \in gone THEN g[i - 1]
                                     ELSE Append(g[i - 1], s[i])]
<1>6. \A i \in 0 .. n : i # 0 => i \in 1 .. n /\ i - 1 \in 0 .. n
  BY <1>1
<1>7. \A i \in 1 .. n : i - 1 \in 0 .. n /\ f[i - 1] \in V
  BY <1>1
<1>8. f = F(f)
  <2>1. f = [i \in 0 .. n |-> IF i = 0 THEN <<>> ELSE step[i, f[i - 1]]]
    BY Zenon, <1>5 DEF LoopOf
  <2>2. \A i \in 0 .. n : f[i] = IF i = 0 THEN <<>> ELSE step[i, f[i - 1]]
    BY Zenon, <2>1
  <2>3. \A i \in 1 .. n : step[i, f[i - 1]] = After(i, f[i - 1])
    BY Zenon, <1>4, <1>7
  <2>4. \A i \in 0 .. n : f[i] = F(f)[i]
    BY Zenon, <1>6, <2>2, <2>3
  <2>5. QED BY Zenon, <2>4
<1>9. PICK g : g = F(g) /\ Remaining(s, gone) = g[n]
  <2>1. \E g : g = F(g)
    BY Zenon, <1>8
  <2>2. QED BY Zenon, <2>1 DEF Remaining, n
<1>10. \A i \in 0 .. n : g[i] = IF i = 0 THEN <<>> ELSE After(i, g[i - 1])
  BY Zenon, <1>9
<1> DEFINE Sofar(i) == {s[j] : j \in 1 .. i}
           Good(i) == g[i] \in V /\ Elements(g[i]) = Sofar(i) \ gone /\ OnceDelivered(g[i])
           I == {k \in Nat : k <= n => Good(k)}
<1>11. Good(0)
  <2>1. g[0] = <<>>
    BY <1>1, <1>10
  <2>2. Sofar(0) = {} /\ Elements(<<>>) = {}
    BY DEF Elements
  <2>3. OnceDelivered(<<>>)
    BY DEF OnceDelivered
  <2>4. QED BY Zenon, <1>1, <2>1, <2>2, <2>3
<1>12. ASSUME NEW k \in Nat, k + 1 <= n, Good(k) PROVE Good(k + 1)
  <2>1. /\ k + 1 \in 0 .. n /\ k + 1 # 0 /\ (k + 1) - 1 = k /\ k + 1 \in 1 .. n
        /\ \A j \in 1 .. k : j \in 1 .. n /\ j # k + 1
    BY <1>1, <1>12
  <2>2. g[k + 1] = After(k + 1, g[k])
    BY Zenon, <1>10, <2>1
  <2>3. \A j \in 1 .. k + 1 : j \in 1 .. k \/ j = k + 1
    BY <1>12
  <2>4. k + 1 \in 1 .. k + 1 /\ 1 .. k \subseteq 1 .. k + 1
    BY <1>12
  <2>5. Sofar(k + 1) = Sofar(k) \cup {s[k + 1]}
    BY Zenon, <2>3, <2>4
  <2>6. CASE s[k + 1] \in gone
    BY Zenon, <1>12, <2>2, <2>5, <2>6
  <2>7. CASE s[k + 1] \notin gone
    <3>1. g[k] \in V /\ Elements(g[k]) = Sofar(k) \ gone /\ OnceDelivered(g[k])
      BY Zenon, <1>12
    <3>2. g[k + 1] = Append(g[k], s[k + 1]) /\ s[k + 1] \in Delivery
      BY Zenon, <1>1, <2>1, <2>2, <2>7
    <3>3. g[k + 1] \in V /\ Elements(g[k + 1]) = Elements(g[k]) \cup {s[k + 1]}
      <4>1. Extended(Append(g[k], s[k + 1]), Delivery, g[k], s[k + 1])
        BY Zenon, <3>1, <3>2, AppendElements DEF V
      <4>2. QED BY Zenon, <3>2, <4>1 DEF Extended, V
    <3>4. \A d \in Elements(g[k]) : d.lease # s[k + 1].lease
      BY Zenon, <1>1, <2>1, <3>1 DEF OnceDelivered
    <3>5. OnceDelivered(g[k + 1])
      BY Zenon, <3>1, <3>2, <3>4, AppendDelivered DEF V
    <3>6. Elements(g[k + 1]) = Sofar(k + 1) \ gone
      BY Zenon, <2>5, <2>7, <3>1, <3>3
    <3>7. QED BY Zenon, <3>3, <3>5, <3>6
  <2>8. QED BY Zenon, <2>6, <2>7
<1>13. n \in I
  <2>1. 0 \in I /\ I \subseteq Nat
    <3> HIDE DEF Good
    <3>1. QED BY Zenon, <1>11
  <2>2. ASSUME NEW k \in I PROVE k + 1 \in I
    <3> HIDE DEF Good
    <3>1. k \in Nat /\ (k + 1 <= n => k <= n)
      BY <1>1
    <3>2. QED BY <1>12, <3>1
  <2> HIDE DEF I
  <2>3. QED BY Zenon, <1>1, <2>1, <2>2, Climb
<1>14. Good(n)
  <2> HIDE DEF Good
  <2>1. QED BY <1>1, <1>13
<1>15. Sofar(n) = Elements(s)
  BY Zenon, <1>1 DEF Elements
<1>16. QED BY Zenon, <1>9, <1>14, <1>15 DEF Remains, V

\* The queue r, into which deliveries of `gone` have been put back.
Returned(r, q, gone) ==
  r \in Seq(Leases) /\ Once(r) /\ Elements(r) \subseteq Elements(q) \cup {d.lease : d \in gone}

\* The calls of addAssignmentLocked for expired deliveries put no lease into the queue
\* that is there already.
LEMMA RequeuedOnce ==
  ASSUME setup \in Setups, NEW q \in Seq(Leases), Once(q),
         NEW s \in Seq(Delivery), OnceDelivered(s),
         \A d \in Elements(s) : d.lease \notin Elements(q), NEW gone
  PROVE  Returned(Requeued(q, s, gone), q, gone)
<1> DEFINE n == Len(s)
           V == Seq(Leases)
           After(i, r) == IF s[i] \in gone THEN Enqueue(r, s[i].lease) ELSE r
           step == [x \in (1 .. n) \X V |-> After(x[1], x[2])]
<1>1. n \in Nat /\ DOMAIN s = 1 .. n /\ (\A i \in 1 .. n : s[i] \in Delivery)
  OBVIOUS
<1>2. \A i \in 1 .. n : s[i].lease \in Leases
  <2>1. \A d \in Delivery : d.lease \in Leases
    BY DEF Delivery
  <2>2. QED BY Zenon, <1>1, <2>1
<1> HIDE DEF n, V
<1>3. ASSUME NEW i \in 1 .. n, NEW r \in V PROVE After(i, r) \in V
  <2>1. Enqueues(Enqueue(r, s[i].lease), r, s[i].lease)
    BY Zenon, <1>2, EnqueueElements DEF V
  <2>2. QED BY Zenon, <2>1 DEF Enqueues, V
<1>4. step \in [(1 .. n) \X V -> V]
  <2>1. \A x \in (1 .. n) \X V : x[1] \in 1 .. n /\ x[2] \in V
    OBVIOUS
  <2> HIDE DEF After
  <2>2. QED BY Zenon, <1>3, <2>1
<1>5. \A i \in 1 .. n, r \in V : step[i, r] = After(i, r)
  <2> HIDE DEF After
  <2>1. ASSUME NEW i \in 1 .. n, NEW r \in V PROVE step[<<i, r>>] = After(i, r)
    <3>1. <<i, r>> \in (1 .. n) \X V /\ <<i, r>>[1] = i /\ <<i, r>>[2] = r
      OBVIOUS
    <3>2. QED BY Zenon, <3>1
  <2>2. QED BY Zenon, <2>1
<1> HIDE DEF step
<1>6. PICK f \in [0 .. n -> V] : LoopOf(f, q, step, n)
  <2>1. q \in V
    BY DEF V
  <2>2. QED BY Zenon, <1>1, <1>4, <2>1, Loop
<1> DEFINE F(g) == [i \in 0 .. n |-> IF i = 0 THEN q
                                     ELSE IF s[i] \in gone THEN Enqueue(g[i - 1], s[i].lease)
                                     ELSE g[i - 1]]
<1>7. \A i \in 0 .. n : i # 0 => i \in 1 .. n /\ i - 1 \in 0 .. n
  BY <1>1
<1>8. f = F(f)
  <2>1. f = [i \in 0 .. n |-> IF i = 0 THEN q ELSE step[i, f[i - 1]]]
    BY Zenon, <1>6 DEF LoopOf
  <2>2. \A i \in 0 .. n : f[i] = IF i = 0 THEN q ELSE step[i, f[i - 1]]
    BY Zenon, <2>1
  <2>3. \A i \in 0 .. n : i # 0 => step[i, f[i - 1]] = After(i, f[i - 1])
    BY Zenon, <1>5, <1>7
  <2>4. \A i \in 0 .. n : f[i] = F(f)[i]
    BY Zenon, <2>2, <2>3
  <2>5. QED BY Zenon, <2>4
<1>9. PICK g : g = F(g) /\ Requeued(q, s, gone) = g[n]
  <2>1. \E g : g = F(g)
    BY Zenon, <1>8
  <2>2. QED BY Zenon, <2>1 DEF Requeued, n
<1>10. \A i \in 0 .. n : g[i] = IF i = 0 THEN q ELSE After(i, g[i - 1])
  BY Zenon, <1>9
<1> DEFINE Back(i) == {s[j].lease : j \in {k \in 1 .. i : s[k] \in gone}}
           Good(i) == g[i] \in V /\ Once(g[i]) /\ Elements(g[i]) \subseteq Elements(q) \cup Back(i)
           I == {k \in Nat : k <= n => Good(k)}
<1>11. Good(0)
  <2>1. g[0] = q
    BY <1>1, <1>10
  <2>2. QED BY Zenon, <2>1 DEF V
<1>12. ASSUME NEW k \in Nat, k + 1 <= n, Good(k) PROVE Good(k + 1)
  <2>1. /\ k + 1 \in 0 .. n /\ k + 1 # 0 /\ (k + 1) - 1 = k /\ k + 1 \in 1 .. n
        /\ \A j \in 1 .. k : j \in 1 .. n /\ j # k + 1
    BY <1>1, <1>12
  <2>2. g[k + 1] = After(k + 1, g[k])
    BY Zenon, <1>10, <2>1
  <2>3. k + 1 \in 1 .. k + 1 /\ 1 .. k \subseteq 1 .. k + 1
    BY <1>12
  <2>4. g[k] \in V /\ Once(g[k]) /\ Elements(g[k]) \subseteq Elements(q) \cup Back(k)
    BY Zenon, <1>12
  <2>5. Back(k) \subseteq Back(k + 1)
    BY Zenon, <2>3
  <2>6. CASE s[k + 1] \notin gone
    BY Zenon, <2>2, <2>4, <2>5, <2>6
  <2>7. CASE s[k + 1] \in gone
    <3>1. Enqueues(g[k + 1], g[k], s[k + 1].lease)
      <4>1. Enqueues(Enqueue(g[k], s[k + 1].lease), g[k], s[k + 1].lease)
        BY Zenon, <1>2, <2>1, <2>4, EnqueueElements DEF V
      <4>2. QED BY Zenon, <2>2, <2>7, <4>1
    <3>2. s[k + 1].lease \in Back(k + 1)
      BY Zenon, <2>3, <2>7
    <3>3. s[k + 1].lease \notin Back(k)
      BY Zenon, <1>1, <2>1 DEF OnceDelivered
    <3>4. s[k + 1].lease \notin Elements(q)
      BY Zenon, <1>1, <2>1 DEF Elements
    <3>5. s[k + 1].lease \notin Elements(g[k])
      BY Zenon, <2>4, <3>3, <3>4
    <3> HIDE DEF Back
    <3>6. QED BY Zenon, <2>4, <2>5, <3>1, <3>2, <3>5 DEF Enqueues, V
  <2>8. QED BY Zenon, <2>6, <2>7
<1>13. n \in I
  <2>1. 0 \in I /\ I \subseteq Nat
    <3> HIDE DEF Good
    <3>1. QED BY Zenon, <1>11
  <2>2. ASSUME NEW k \in I PROVE k + 1 \in I
    <3> HIDE DEF Good
    <3>1. k \in Nat /\ (k + 1 <= n => k <= n)
      BY <1>1
    <3>2. QED BY <1>12, <3>1
  <2> HIDE DEF I
  <2>3. QED BY Zenon, <1>1, <2>1, <2>2, Climb
<1>14. Good(n)
  <2> HIDE DEF Good
  <2>1. QED BY <1>1, <1>13
<1>15. Back(n) \subseteq {d.lease : d \in gone}
  BY Zenon
<1>16. QED BY Zenon, <1>9, <1>14, <1>15 DEF Returned, V

\* The new deliveries of the leases in q.
NewDeliveries(q) == [i \in DOMAIN q |-> [lease |-> q[i], old |-> FALSE]]

\* Deliveries of leases that have none.
LEMMA DeliveredOnce ==
  ASSUME NEW s \in Seq(Delivery), OnceDelivered(s), NEW q \in Seq(Leases), Once(q),
         \A d \in Elements(s) : d.lease \notin Elements(q)
  PROVE  /\ s \o NewDeliveries(q) \in Seq(Delivery) /\ OnceDelivered(s \o NewDeliveries(q))
         /\ {d.lease : d \in Elements(s \o NewDeliveries(q))} = {d.lease : d \in Elements(s)} \cup Elements(q)
<1>1. PICK n : n = NewDeliveries(q)
  OBVIOUS
<1>2. /\ n \in Seq(Delivery) /\ Len(n) = Len(q) /\ DOMAIN q = 1 .. Len(q) /\ DOMAIN n = 1 .. Len(q)
      /\ \A i \in 1 .. Len(q) : n[i].lease = q[i]
  <2>1. DOMAIN q = 1 .. Len(q) /\ Len(q) \in Nat /\ \A i \in 1 .. Len(q) : q[i] \in Leases
    OBVIOUS
  <2>2. n = [i \in 1 .. Len(q) |-> [lease |-> q[i], old |-> FALSE]]
    BY Zenon, <1>1, <2>1 DEF NewDeliveries
  <2>3. \A i \in 1 .. Len(q) : [lease |-> q[i], old |-> FALSE] \in Delivery
    BY <2>1 DEF Delivery
  <2>4. n \in Seq(Delivery) /\ Len(n) = Len(q) /\ DOMAIN n = 1 .. Len(q)
    BY <2>1, <2>2, <2>3
  <2>5. \A i \in 1 .. Len(q) : n[i].lease = q[i]
    BY <2>2
  <2>6. QED BY Zenon, <2>1, <2>4, <2>5
<1>3. PICK r : r = s \o n
  BY Zenon
<1>4. /\ r \in Seq(Delivery) /\ DOMAIN r = 1 .. Len(s) + Len(q) /\ DOMAIN s = 1 .. Len(s)
      /\ Len(s) \in Nat /\ Len(q) \in Nat
  <2>1. r \in Seq(Delivery) /\ Len(r) = Len(s) + Len(q)
    <3>1. n \in Seq(Delivery) /\ Len(n) = Len(q)
      BY <1>2
    <3>2. s \o n \in Seq(Delivery) /\ Len(s \o n) = Len(s) + Len(n)
      BY ONLY <3>1, s \in Seq(Delivery)
    <3>3. QED BY ONLY <1>3, <3>1, <3>2
  <2>2. DOMAIN r = 1 .. Len(r) /\ DOMAIN s = 1 .. Len(s) /\ Len(s) \in Nat /\ Len(q) \in Nat
    BY <2>1
  <2>3. QED BY Zenon, <2>1, <2>2
<1>5. \A i \in 1 .. Len(s) : r[i] = s[i]
  BY <1>2, <1>3
<1>6. \A i \in 1 .. Len(s) + Len(q) :
        \/ i \in 1 .. Len(s) /\ r[i].lease = s[i].lease
        \/ i - Len(s) \in 1 .. Len(q) /\ i = Len(s) + (i - Len(s)) /\ r[i].lease = q[i - Len(s)]
  BY <1>2, <1>3, <1>4
<1>7. \A i \in 1 .. Len(q) : Len(s) + i \in 1 .. Len(s) + Len(q) /\ r[Len(s) + i].lease = q[i]
  BY <1>2, <1>3, <1>4
<1>8. \A i \in 1 .. Len(s) : i \in 1 .. Len(s) + Len(q)
  BY <1>4
<1>9. {d.lease : d \in Elements(r)} = {d.lease : d \in Elements(s)} \cup Elements(q)
  <2>1. \A i \in 1 .. Len(s) + Len(q) : r[i].lease \in {d.lease : d \in Elements(s)} \cup Elements(q)
    BY Zenon, <1>2, <1>4, <1>6 DEF Elements
  <2>2. \A i \in 1 .. Len(s) : s[i].lease \in {d.lease : d \in Elements(r)}
    BY Zenon, <1>4, <1>5, <1>8 DEF Elements
  <2>3. \A i \in 1 .. Len(q) : q[i] \in {d.lease : d \in Elements(r)}
    BY Zenon, <1>4, <1>7 DEF Elements
  <2>4. {d.lease : d \in Elements(r)} \subseteq {d.lease : d \in Elements(s)} \cup Elements(q)
    BY Zenon, <1>4, <2>1 DEF Elements
  <2>5. {d.lease : d \in Elements(s)} \subseteq {d.lease : d \in Elements(r)}
    BY Zenon, <1>4, <2>2 DEF Elements
  <2>6. Elements(q) \subseteq {d.lease : d \in Elements(r)}
    BY Zenon, <1>2, <2>3 DEF Elements
  <2>7. QED BY Zenon, <2>4, <2>5, <2>6
<1>10. OnceDelivered(r)
  <2>1. ASSUME NEW i \in 1 .. Len(s) + Len(q), NEW j \in 1 .. Len(s) + Len(q), r[i].lease = r[j].lease
        PROVE  i = j
    <3>1. CASE i \in 1 .. Len(s) /\ j \in 1 .. Len(s)
      BY Zenon, <1>4, <1>5, <2>1, <3>1 DEF OnceDelivered
    <3>2. \A k \in 1 .. Len(s), m \in 1 .. Len(q) : s[k].lease # q[m]
      BY Zenon, <1>2, <1>4 DEF Elements
    <3>3. CASE i \notin 1 .. Len(s) /\ j \notin 1 .. Len(s)
      <4>1. \A k, m \in 1 .. Len(q) : q[k] = q[m] => k = m
        BY Zenon, <1>2 DEF Once
      <4>2. /\ i - Len(s) \in 1 .. Len(q) /\ r[i].lease = q[i - Len(s)]
            /\ j - Len(s) \in 1 .. Len(q) /\ r[j].lease = q[j - Len(s)]
        BY Zenon, <1>6, <3>3
      <4>3. i - Len(s) = j - Len(s)
        BY Zenon, <2>1, <4>1, <4>2
      <4>4. QED BY <1>4, <4>3
    <3>4. CASE i \in 1 .. Len(s) /\ j \notin 1 .. Len(s)
      BY Zenon, <1>5, <1>6, <2>1, <3>2, <3>4
    <3>5. CASE i \notin 1 .. Len(s) /\ j \in 1 .. Len(s)
      BY Zenon, <1>5, <1>6, <2>1, <3>2, <3>5
    <3>6. QED BY Zenon, <3>1, <3>3, <3>4, <3>5
  <2>2. QED BY Zenon, <1>4, <2>1 DEF OnceDelivered
<1>11. QED BY Zenon, <1>1, <1>3, <1>4, <1>9, <1>10

\* The head of a batch without repetitions, and the rest.
LEMMA HeadOnce ==
  ASSUME NEW S, NEW q \in Seq(S), Once(q), q # <<>>
  PROVE  /\ Tail(q) \in Seq(S) /\ Once(Tail(q)) /\ Head(q) \in S
         /\ Elements(q) = Elements(Tail(q)) \cup {Head(q)} /\ Head(q) \notin Elements(Tail(q))
<1>1. PICK r : r = Tail(q)
  BY Zenon
<1>2. /\ r \in Seq(S) /\ DOMAIN r = 1 .. Len(q) - 1 /\ DOMAIN q = 1 .. Len(q) /\ Len(q) \in Nat
      /\ Head(q) = q[1] /\ 1 \in 1 .. Len(q) /\ q[1] \in S
      /\ \A i \in 1 .. Len(q) - 1 : r[i] = q[i + 1]
  BY <1>1
<1>3. \A i \in 1 .. Len(q) : i = 1 \/ (i - 1 \in 1 .. Len(q) - 1 /\ r[i - 1] = q[i])
  BY <1>2
<1>4. \A i \in 1 .. Len(q) - 1 : i + 1 \in 1 .. Len(q) /\ r[i] = q[i + 1] /\ i + 1 # 1
  BY <1>2
<1>5. \A i, j \in 1 .. Len(q) - 1 : i + 1 = j + 1 => i = j
  BY <1>2
<1>6. \A i, j \in 1 .. Len(q) : q[i] = q[j] => i = j
  BY Zenon, <1>2 DEF Once
<1>7. Once(r)
  <2>1. ASSUME NEW i \in 1 .. Len(q) - 1, NEW j \in 1 .. Len(q) - 1, r[i] = r[j] PROVE i = j
    <3>1. i + 1 = j + 1
      BY Zenon, <1>4, <1>6, <2>1
    <3>2. QED BY Zenon, <1>5, <3>1
  <2>2. QED BY Zenon, <1>2, <2>1 DEF Once
<1>8. Elements(q) = Elements(r) \cup {q[1]}
  <2>1. \A i \in 1 .. Len(q) : q[i] \in Elements(r) \cup {q[1]}
    BY Zenon, <1>2, <1>3 DEF Elements
  <2>2. \A i \in 1 .. Len(q) - 1 : r[i] \in Elements(q)
    BY Zenon, <1>2, <1>4 DEF Elements
  <2>3. q[1] \in Elements(q)
    BY Zenon, <1>2 DEF Elements
  <2>4. Elements(q) \subseteq Elements(r) \cup {q[1]}
    BY Zenon, <1>2, <2>1 DEF Elements
  <2>5. Elements(r) \subseteq Elements(q)
    BY Zenon, <1>2, <2>2 DEF Elements
  <2>6. QED BY Zenon, <2>3, <2>4, <2>5
<1>9. q[1] \notin Elements(r)
  <2>1. \A i \in 1 .. Len(q) - 1 : r[i] # q[1]
    BY Zenon, <1>2, <1>4, <1>6
  <2>2. QED BY Zenon, <1>2, <2>1 DEF Elements
<1>10. QED BY Zenon, <1>1, <1>2, <1>7, <1>8, <1>9

-----------------------------------------------------------------------------
(* Every step keeps the invariant of the assignments.                      *)

\* Fewer copies, or the same.
LEMMA DueLess ==
  ASSUME NEW a \in Nat, NEW c \in Nat, NEW n \in Nat, NEW m \in Nat, m <= n, DueFor(a, n, c)
  PROVE  DueFor(a, m, c)
BY DEF DueFor

\* The worker takes a lease from its batch, and executes it or not.
LEMMA DueStarts ==
  ASSUME NEW a \in Nat, NEW c \in Nat, NEW n \in Nat, DueFor(a, n + 1, c)
  PROVE  DueFor(a, n, c) /\ DueFor(Capped(a + 1, MaxLate + 1), n, c)
<1>1. Capped(a + 1, MaxLate + 1) <= a + 1 /\ Capped(a + 1, MaxLate + 1) \in Int
  BY LateAssumption DEF Capped
<1>2. PICK b : b = Capped(a + 1, MaxLate + 1)
  OBVIOUS
<1>3. DueFor(b, n, c)
  BY <1>1, <1>2 DEF DueFor
<1>4. DueFor(a, n, c)
  BY DEF DueFor
<1>5. QED BY Zenon, <1>2, <1>3, <1>4

\* A delivery that is overdue goes back into the queue, and is counted.
LEMMA DueAgain ==
  ASSUME NEW a \in Nat, NEW c \in 0 .. MaxLate, NEW n \in Nat, NEW m \in Nat, m <= n + 1,
         DueFor(a, n, c)
  PROVE  DueFor(a, m, Capped(c + 1, MaxLate)) /\ Capped(c + 1, MaxLate) \in 0 .. MaxLate
<1>1. CASE c + 1 < MaxLate
  <2>1. Capped(c + 1, MaxLate) = c + 1 /\ c + 1 \in 0 .. MaxLate /\ c # MaxLate
    BY <1>1, LateAssumption DEF Capped
  <2>2. DueFor(a, m, c + 1)
    BY <2>1 DEF DueFor
  <2>3. QED BY Zenon, <2>1, <2>2
<1>2. CASE ~(c + 1 < MaxLate)
  <2>1. Capped(c + 1, MaxLate) = MaxLate /\ MaxLate \in 0 .. MaxLate
    BY <1>2, LateAssumption DEF Capped
  <2>2. QED BY Zenon, <2>1 DEF DueFor
<1>3. QED BY <1>1, <1>2

\* The empty queues of a new server and the idle worker.
LEMMA DeliveryInit == Init => DeliveryInv
<1> SUFFICES ASSUME Init PROVE DeliveryInv
  OBVIOUS
<1> USE DEF Init
<1>1. Queue = {} /\ Unacked = {} /\ Elements(poll.batch) = {}
  BY DEF Queue, Unacked, Elements, NoPoll
<1>2. DeliveryTypes
  BY LateAssumption DEF DeliveryTypes, NoPoll
<1>3. OnePlace
  BY <1>1 DEF OnePlace, Once, OnceDelivered, NoPoll
<1>4. Executed
  BY DEF Executed, NoPoll
<1>5. Due
  BY <1>1 DEF Due, DueFor, CopiesLeft, In
<1>6. Accounted
  BY DEF Accounted
<1>7. QED BY Zenon, <1>2, <1>3, <1>4, <1>5, <1>6 DEF DeliveryInv

\* A step that leaves the queues and the loop of the worker alone, and begins no execution.
Aside ==
  /\ UNCHANGED <<setup, pending, pendingAck, late, queued, dropped, poll, starts>>
  /\ exec' = [l \in Leases |-> exec'[l]]
  /\ \A l \in Leases : exec'[l] # "none" => exec[l] # "none"

\* Such a step keeps the invariant.
LEMMA AsideKeeps == DeliveryInv /\ Aside => DeliveryInv'
<1> SUFFICES ASSUME DeliveryInv, Aside PROVE DeliveryInv'
  OBVIOUS
<1> USE DEF DeliveryInv, Aside
<1>1. Queue' = Queue /\ Unacked' = Unacked
  BY DEF Queue, Unacked, Elements
<1>2. DeliveryTypes'
  BY Zenon DEF DeliveryTypes
<1>3. OnePlace'
  BY <1>1 DEF OnePlace
<1>4. Executed'
  BY Zenon DEF Executed
<1>5. Due'
  <2>1. \A l \in Leases : CopiesLeft(l)' = CopiesLeft(l)
    BY Zenon, <1>1 DEF CopiesLeft
  <2>2. QED BY Zenon, <2>1 DEF Due, DueFor
<1>6. Accounted'
  BY Zenon, <1>1 DEF Accounted
<1>7. QED BY Zenon, <1>2, <1>3, <1>4, <1>5, <1>6

\* The run, its leases, the executions and the heartbeats are beside the queues.
LEMMA MostAside ==
  ASSUME DeliveryInv,
         \/ Run \/ Executing \/ Heartbeats \/ UNCHANGED vars \/ \E l \in Leases : IssueLease(l)
  PROVE  Aside
<1> USE DEF vars, serverVars, queueVars, execVars
<1>1. exec = [l \in Leases |-> exec[l]]
  BY DEF DeliveryInv, DeliveryTypes
<1>2. CASE Run
  BY Zenon, <1>1, <1>2 DEF Run, RequestStop, Escalate, FinishRun, EndLeases, RevokeWorkerLeases, RemoveWorker, Aside
<1>3. CASE Executing
  <2>1. PICK l \in Leases : DurationExpires(l) \/ ContextDone(l) \/ cleanupAssignment(l) \/ FailExecution(l)
    BY Zenon, <1>3 DEF Executing
  <2>2. CASE DurationExpires(l) \/ ContextDone(l)
    BY <1>1, <2>2 DEF DurationExpires, ContextDone, StopEngine, Aside
  <2>3. CASE cleanupAssignment(l) \/ FailExecution(l)
    BY <1>1, <2>3 DEF cleanupAssignment, FailExecution, Cleanup, Aside
  <2>4. QED BY Zenon, <2>1, <2>2, <2>3
<1>4. CASE Heartbeats
  <2>1. CASE UNCHANGED vars
    BY Zenon, <1>1, <2>1 DEF Aside
  <2>2. CASE ListWorkerRunIDs \/ ListStoppingRunsForWorker \/ ListImmediateStopRunsForWorker \/ LoseReply
    BY Zenon, <1>1, <2>2 DEF ListWorkerRunIDs, ListStoppingRunsForWorker, ListImmediateStopRunsForWorker, LoseReply, Aside
  <2>3. ASSUME NEW now, Cancel(now) PROVE /\ starts' = starts /\ exec' = [l \in Leases |-> exec'[l]]
                                          /\ \A l \in Leases : exec'[l] # "none" => exec[l] # "none"
    BY <2>3 DEF Cancel
  <2>4. CASE StopRun \/ StopRunImmediate
    BY Zenon, <1>1, <2>3, <2>4 DEF StopRun, StopRunImmediate, Aside
  <2>5. QED BY Zenon, <1>4, <2>1, <2>2, <2>4 DEF Heartbeats
<1>5. CASE UNCHANGED vars
  BY Zenon, <1>1, <1>5 DEF Aside
<1>6. CASE \E l \in Leases : IssueLease(l)
  BY Zenon, <1>1, <1>6 DEF IssueLease, Aside
<1>7. QED BY Zenon, <1>2, <1>3, <1>4, <1>5, <1>6

\* Copies are counted in natural numbers; fewer places have fewer copies.
LEMMA CopiesNat == \A l : CopiesLeft(l) \in Nat /\ CopiesLeft(l)' \in Nat
<1>1. \A l, S : In(l, S) \in Nat
  BY DEF In
<1>2. QED BY <1>1 DEF CopiesLeft

\* The empty list.
LEMMA NoElements == Elements(<<>>) = {} /\ Once(<<>>)
BY DEF Elements, Once

\* The ranges of the capped counters.
LEMMA NatRanges ==
  /\ \A n \in 0 .. MaxLate : n \in Nat
  /\ \A n \in 0 .. MaxLate + 1 : n \in Nat
BY LateAssumption

\* Steps that count no execution and no redelivery, and add no copy.
LEMMA DueKept ==
  ASSUME DeliveryTypes, Due, starts' = starts, late' = late,
         \A l \in Leases : CopiesLeft(l)' <= CopiesLeft(l)
  PROVE  Due'
<1>1. ASSUME NEW l \in Leases PROVE DueFor(starts[l], CopiesLeft(l)', late[l])
  <2>1. DueFor(starts[l], CopiesLeft(l), late[l])
    BY Zenon DEF Due
  <2>2. starts[l] \in Nat /\ late[l] \in Nat
    BY LateAssumption DEF DeliveryTypes
  <2>3. QED BY <2>1, <2>2, CopiesNat, DueLess
<1>2. QED BY Zenon, <1>1 DEF Due

\* The assignments arrive or are lost, or the acknowledgement is lost.
PollOnly ==
  /\ UNCHANGED <<setup, pending, pendingAck, late, queued, dropped, exec, starts>>
  /\ poll' \in {NoPoll, [poll EXCEPT !.at = "execute"]}

\* Such a step of pollAssignments keeps the invariant.
LEMMA PollOnlyKeeps == DeliveryInv /\ PollOnly => DeliveryInv'
<1> SUFFICES ASSUME DeliveryInv, PollOnly PROVE DeliveryInv'
  OBVIOUS
<1> USE DEF DeliveryInv, PollOnly
<1>1. Queue' = Queue /\ Unacked' = Unacked
  BY DEF Queue, Unacked, Elements
<1>2. /\ poll' = [at |-> poll'.at, batch |-> poll'.batch, started |-> poll'.started]
      /\ poll'.batch \in {<<>>, poll.batch} /\ poll'.started \in {{}, poll.started}
      /\ poll'.at = "idle" => poll'.batch = <<>>
  BY DEF DeliveryTypes, NoPoll
<1>3. Elements(poll'.batch) \subseteq Elements(poll.batch)
  BY Zenon, <1>2, NoElements
<1>4. DeliveryTypes'
  <2>1. <<>> \in Seq(Leases)
    OBVIOUS
  <2>2. poll'.batch \in Seq(Leases) /\ poll'.started \subseteq Leases
    BY Zenon, <1>2, <2>1 DEF DeliveryTypes
  <2>3. QED BY Zenon, <1>2, <2>2 DEF DeliveryTypes
<1>5. OnePlace'
  BY <1>1, <1>2, <1>3, NoElements DEF OnePlace
<1>6. Executed'
  BY <1>2 DEF Executed
<1>7. Due'
  <2>1. \A l \in Leases : CopiesLeft(l)' <= CopiesLeft(l)
    BY <1>1, <1>3 DEF CopiesLeft, In
  <2>2. QED BY Zenon, <2>1, DueKept
<1>8. Accounted'
  BY Zenon, <1>1 DEF Accounted
<1>9. QED BY Zenon, <1>4, <1>5, <1>6, <1>7, <1>8

\* A new assignment: the lease waits nowhere yet and was never executed.
LEMMA AddKeeps ==
  ASSUME DeliveryInv, NEW l \in Leases, AddAssignment(l)
  PROVE  DeliveryInv'
<1> USE DEF DeliveryInv
<1>1. /\ l \notin queued /\ pending' = Enqueue(pending, l) /\ queued' = queued \cup {l}
      /\ dropped' = dropped \cup (Queue \ Elements(pending'))
      /\ UNCHANGED <<setup, pendingAck, late, poll, exec, starts>>
  BY Zenon DEF AddAssignment, serverVars, execVars
<1>2. Enqueues(pending', pending, l)
  BY Zenon, <1>1, EnqueueElements DEF DeliveryTypes
<1>3. l \notin Queue /\ l \notin Unacked /\ l \notin Elements(poll.batch) /\ starts[l] = 0
  <2>1. ~(starts[l] > 0)
    BY Zenon, <1>1 DEF Executed
  <2>2. starts[l] = 0
    BY <2>1, LateAssumption DEF DeliveryTypes
  <2>3. QED BY <1>1, <2>2 DEF OnePlace
<1>4. /\ Queue' \subseteq Queue \cup {l} /\ l \in Queue' /\ Once(pending') /\ pending' \in Seq(Leases)
      /\ Unacked' = Unacked
  BY Zenon, <1>1, <1>2, <1>3 DEF Enqueues, Queue, Unacked, OnePlace
<1>5. DeliveryTypes'
  BY <1>1, <1>4 DEF DeliveryTypes
<1>6. OnePlace'
  BY <1>1, <1>3, <1>4 DEF OnePlace
<1>7. Executed'
  BY Zenon, <1>1 DEF Executed
<1>8. Due'
  <2>1. ASSUME NEW k \in Leases PROVE DueFor(starts[k], CopiesLeft(k)', late[k])
    <3>1. DueFor(starts[k], CopiesLeft(k), late[k]) /\ starts[k] \in Nat /\ late[k] \in Nat
      BY Zenon, NatRanges DEF Due, DeliveryTypes
    <3>2. CASE k = l
      <4>1. CopiesLeft(k)' = 1
        BY <1>1, <1>3, <1>4, <3>2 DEF CopiesLeft, In
      <4>2. QED BY <1>3, <3>1, <3>2, <4>1 DEF DueFor
    <3>3. CASE k # l
      <4>1. CopiesLeft(k)' <= CopiesLeft(k)
        BY <1>1, <1>4, <3>3 DEF CopiesLeft, In
      <4>2. QED BY <3>1, <4>1, CopiesNat, DueLess
    <3>4. QED BY <3>2, <3>3
  <2>2. QED BY Zenon, <1>1, <2>1 DEF Due
<1>9. Accounted'
  <2>1. ASSUME NEW k \in queued' PROVE k \in Queue' \cup Unacked' \cup dropped' \/ starts'[k] > 0
    <3>1. k = l \/ k \in Queue \cup Unacked \cup dropped \/ starts[k] > 0
      BY Zenon, <1>1 DEF Accounted
    <3>2. Queue \subseteq Queue' \cup dropped'
      BY Zenon, <1>1 DEF Queue
    <3>3. QED BY Zenon, <1>1, <1>4, <3>1, <3>2
  <2>2. QED BY Zenon, <2>1 DEF Accounted
<1>10. QED BY Zenon, <1>5, <1>6, <1>7, <1>8, <1>9

\* The poll of the worker takes the whole queue.
LEMMA GetKeeps ==
  ASSUME DeliveryInv, getAssignmentsForWorker
  PROVE  DeliveryInv'
<1> USE DEF DeliveryInv
<1>1. /\ poll.at = "idle" /\ pendingAck' = pendingAck \o NewDeliveries(pending) /\ pending' = <<>>
      /\ poll' = [at |-> "reply", batch |-> pending, started |-> {}]
      /\ UNCHANGED <<setup, late, queued, dropped, exec, starts>>
  BY Zenon DEF getAssignmentsForWorker, serverVars, execVars, NoPoll, NewDeliveries
<1>2. poll'.at = "reply" /\ poll'.batch = pending /\ poll'.started = {}
  BY <1>1
<1>3. Elements(poll.batch) = {} /\ Queue' = {} /\ Elements(poll'.batch) = Queue
  BY <1>1, <1>2 DEF OnePlace, Elements, Queue
<1>4. \A d \in Elements(pendingAck) : d.lease \notin Elements(pending)
  BY DEF OnePlace, Queue, Unacked
<1>5. pendingAck' \in Seq(Delivery) /\ OnceDelivered(pendingAck') /\ Unacked' = Unacked \cup Queue
  <2>1. /\ pendingAck' \in Seq(Delivery) /\ OnceDelivered(pendingAck')
        /\ {d.lease : d \in Elements(pendingAck')} = {d.lease : d \in Elements(pendingAck)} \cup Elements(pending)
    BY Zenon, <1>1, <1>4, DeliveredOnce DEF DeliveryTypes, OnePlace
  <2>2. QED BY Zenon, <2>1 DEF Unacked, Queue
<1>6. DeliveryTypes'
  BY <1>1, <1>2, <1>5 DEF DeliveryTypes
<1>7. OnePlace'
  <2>1. Once(pending') /\ poll'.at # "idle"
    BY <1>1, <1>2 DEF Once
  <2>2. QED BY Zenon, <1>1, <1>2, <1>3, <1>5, <2>1 DEF OnePlace
<1>8. Executed'
  BY Zenon, <1>1, <1>2 DEF Executed
<1>9. Due'
  <2>1. \A l \in Leases : CopiesLeft(l)' <= CopiesLeft(l)
    BY <1>3 DEF CopiesLeft, In
  <2>2. QED BY Zenon, <1>1, <2>1, DueKept
<1>10. Accounted'
  BY Zenon, <1>1, <1>5 DEF Accounted
<1>11. QED BY Zenon, <1>6, <1>7, <1>8, <1>9, <1>10

\* The deliveries made so far are past the timeout.
LEMMA OverdueKeeps ==
  ASSUME DeliveryInv, AckOverdue
  PROVE  DeliveryInv'
<1> USE DEF DeliveryInv
<1>1. /\ pendingAck' = [i \in DOMAIN pendingAck |-> [pendingAck[i] EXCEPT !.old = TRUE]]
      /\ UNCHANGED <<setup, pending, late, queued, dropped, poll, exec, starts>>
  BY Zenon DEF AckOverdue, serverVars, execVars
<1>2. PICK n \in Nat : DOMAIN pendingAck = 1 .. n /\ \A i \in 1 .. n : pendingAck[i] \in Delivery
  <2>1. pendingAck \in Seq(Delivery)
    BY Zenon DEF DeliveryTypes
  <2>2. /\ Len(pendingAck) \in Nat /\ DOMAIN pendingAck = 1 .. Len(pendingAck)
        /\ \A i \in 1 .. Len(pendingAck) : pendingAck[i] \in Delivery
    BY ONLY <2>1
  <2>3. QED BY Zenon, <2>2
<1>3. /\ DOMAIN pendingAck' = 1 .. n
      /\ \A i \in 1 .. n : pendingAck'[i] \in Delivery /\ pendingAck'[i].lease = pendingAck[i].lease
  BY Zenon, <1>1, <1>2 DEF Delivery
<1>4. pendingAck' \in Seq(Delivery)
  <2>1. pendingAck' = [i \in 1 .. n |-> pendingAck'[i]]
    BY Zenon, <1>1, <1>2
  <2>2. QED BY <1>3, <2>1
<1>5. OnceDelivered(pendingAck')
  BY Zenon, <1>2, <1>3 DEF OnePlace, OnceDelivered
<1>6. Queue' = Queue /\ Unacked' = Unacked
  <2>1. Unacked = {pendingAck[i].lease : i \in 1 .. n}
    BY Zenon, <1>2 DEF Unacked, Elements
  <2>2. Unacked' = {pendingAck'[i].lease : i \in 1 .. n}
    BY Zenon, <1>3 DEF Unacked, Elements
  <2>3. Unacked' = Unacked
    BY Zenon, <1>3, <2>1, <2>2
  <2>4. QED BY Zenon, <1>1, <2>3 DEF Queue
<1>7. DeliveryTypes'
  BY Zenon, <1>1, <1>4 DEF DeliveryTypes
<1>8. OnePlace'
  BY <1>1, <1>5, <1>6 DEF OnePlace
<1>9. Executed'
  BY Zenon, <1>1 DEF Executed
<1>10. Due'
  <2>1. \A l \in Leases : CopiesLeft(l)' <= CopiesLeft(l)
    BY <1>1, <1>6 DEF CopiesLeft, In
  <2>2. QED BY Zenon, <1>1, <2>1, DueKept
<1>11. Accounted'
  BY Zenon, <1>1, <1>6 DEF Accounted
<1>12. QED BY Zenon, <1>7, <1>8, <1>9, <1>10, <1>11

\* The acknowledgement: only of what the worker executed.
LEMMA AckKeeps ==
  ASSUME DeliveryInv, ackAssignmentsForWorker
  PROVE  DeliveryInv'
<1> USE DEF DeliveryInv
<1> DEFINE gone == {d \in Elements(pendingAck) : d.lease \in poll.started}
<1>1. /\ pendingAck' = Remaining(pendingAck, gone) /\ poll' = NoPoll
      /\ UNCHANGED <<setup, pending, late, queued, dropped, exec, starts>>
  BY Zenon DEF ackAssignmentsForWorker, serverVars, execVars
<1>2. Remains(pendingAck', pendingAck, gone)
  BY Zenon, <1>1, RemainingExact DEF DeliveryTypes, OnePlace
<1>3. /\ pendingAck' \in Seq(Delivery) /\ OnceDelivered(pendingAck')
      /\ Unacked' \subseteq Unacked /\ Unacked \subseteq Unacked' \cup poll.started
  BY Zenon, <1>2 DEF Remains, Unacked
<1>4. /\ poll' = [at |-> poll'.at, batch |-> poll'.batch, started |-> poll'.started]
      /\ poll'.batch = <<>> /\ poll'.started = {}
  BY <1>1 DEF NoPoll
<1>5. Queue' = Queue /\ Elements(poll'.batch) = {} /\ Once(poll'.batch)
  BY Zenon, <1>1, <1>4, NoElements DEF Queue
<1> HIDE DEF gone
<1>6. DeliveryTypes'
  BY <1>1, <1>3, <1>4 DEF DeliveryTypes
<1>7. OnePlace'
  BY <1>1, <1>3, <1>4, <1>5 DEF OnePlace
<1>8. Executed'
  BY Zenon, <1>1, <1>4 DEF Executed
<1>9. Due'
  <2>1. \A l \in Leases : CopiesLeft(l)' <= CopiesLeft(l)
    BY <1>5 DEF CopiesLeft, In
  <2>2. QED BY Zenon, <1>1, <2>1, DueKept
<1>10. Accounted'
  <2>1. \A l \in Unacked : l \in Unacked' \/ starts[l] > 0
    BY Zenon, <1>3 DEF Executed
  <2>2. QED BY Zenon, <1>1, <1>5, <2>1 DEF Accounted
<1>11. QED BY Zenon, <1>6, <1>7, <1>8, <1>9, <1>10

\* The worker takes the next assignment of its batch and, unless it executes that lease
\* already, begins to.
LEMMA ExecuteKeeps ==
  ASSUME DeliveryInv, Execute
  PROVE  DeliveryInv'
<1> USE DEF DeliveryInv
<1>1. PICK l : l = Head(poll.batch)
  OBVIOUS
<1>2. /\ poll.at = "execute" /\ poll.batch # <<>>
      /\ IF exec[l] # "none" THEN exec' = exec /\ starts' = starts
         ELSE /\ exec' = [exec EXCEPT ![l] = "running"]
              /\ starts' = [starts EXCEPT ![l] = Capped(starts[l] + 1, MaxLate + 1)]
      /\ poll' = [poll EXCEPT !.batch = Tail(poll.batch), !.started = poll.started \cup {l}]
      /\ UNCHANGED <<setup, pending, pendingAck, late, queued, dropped>>
  BY <1>1 DEF Execute, Start, serverVars, queueVars, execVars
<1>3. /\ poll'.at = "execute" /\ poll'.batch = Tail(poll.batch) /\ poll'.started = poll.started \cup {l}
      /\ poll' = [at |-> poll'.at, batch |-> poll'.batch, started |-> poll'.started]
  BY Zenon, <1>2 DEF DeliveryTypes
<1>4. /\ poll'.batch \in Seq(Leases) /\ Once(poll'.batch) /\ l \in Leases
      /\ Elements(poll.batch) = Elements(poll'.batch) \cup {l} /\ l \notin Elements(poll'.batch)
  BY Zenon, <1>1, <1>2, <1>3, HeadOnce DEF DeliveryTypes, OnePlace
<1>5. Queue' = Queue /\ Unacked' = Unacked
  BY Zenon, <1>2 DEF Queue, Unacked
<1>6. PICK b : b = Capped(starts[l] + 1, MaxLate + 1)
  OBVIOUS
<1>7. b \in 0 .. MaxLate + 1 /\ b > 0
  <2>1. PICK a \in 0 .. MaxLate + 1 : a = starts[l]
    BY Zenon, <1>4 DEF DeliveryTypes
  <2>2. b = Capped(a + 1, MaxLate + 1)
    BY Zenon, <1>6, <2>1
  <2>3. QED BY ONLY <2>2, LateAssumption DEF Capped
<1>8. /\ starts' \in [Leases -> 0 .. MaxLate + 1] /\ exec' = [k \in Leases |-> exec'[k]]
      /\ starts'[l] > 0 /\ starts'[l] \in {starts[l], b}
      /\ \A k \in Leases : k # l => starts'[k] = starts[k] /\ exec'[k] = exec[k]
  <2>1. CASE exec[l] # "none"
    BY Zenon, <1>2, <1>4, <2>1 DEF DeliveryTypes, Executed
  <2>2. CASE exec[l] = "none"
    <3>1. exec' = [exec EXCEPT ![l] = "running"] /\ starts' = [starts EXCEPT ![l] = b]
      BY Zenon, <1>2, <1>6, <2>2
    <3>2. QED BY Zenon, <1>4, <1>7, <3>1 DEF DeliveryTypes
  <2>3. QED BY Zenon, <2>1, <2>2
<1>9. DeliveryTypes'
  BY Zenon, <1>2, <1>3, <1>4, <1>8 DEF DeliveryTypes
<1>10. OnePlace'
  BY <1>2, <1>3, <1>4, <1>5 DEF OnePlace
<1>11. Executed'
  <2>1. l \in queued
    BY Zenon, <1>4 DEF OnePlace
  <2>2. \A k \in Leases : k = l \/ k # l
    OBVIOUS
  <2>3. \A k \in Leases : exec'[k] # "none" => starts'[k] > 0
    BY Zenon, <1>8, <2>2 DEF Executed
  <2>4. \A k \in poll'.started : starts'[k] > 0
    BY Zenon, <1>3, <1>8, <2>2 DEF Executed, DeliveryTypes
  <2>5. \A k \in Leases : starts'[k] > 0 => k \in queued'
    BY Zenon, <1>2, <1>8, <2>1, <2>2 DEF Executed
  <2>6. QED BY Zenon, <2>3, <2>4, <2>5 DEF Executed
<1>12. Due'
  <2>1. ASSUME NEW k \in Leases PROVE DueFor(starts'[k], CopiesLeft(k)', late[k])
    <3>1. DueFor(starts[k], CopiesLeft(k), late[k]) /\ starts[k] \in Nat /\ late[k] \in Nat
      BY Zenon, NatRanges DEF Due, DeliveryTypes
    <3>2. CASE k = l
      <4>1. CopiesLeft(k) = CopiesLeft(k)' + 1
        BY <1>4, <1>5, <3>2 DEF CopiesLeft, In
      <4>2. PICK m \in Nat : m = CopiesLeft(k)'
        BY Zenon, CopiesNat
      <4>3. DueFor(starts[k], m, late[k]) /\ DueFor(b, m, late[k])
        BY Zenon, <1>6, <3>1, <3>2, <4>1, <4>2, DueStarts
      <4>4. QED BY Zenon, <1>8, <3>2, <4>2, <4>3
    <3>3. CASE k # l
      <4>1. CopiesLeft(k)' = CopiesLeft(k)
        BY <1>4, <1>5, <3>3 DEF CopiesLeft, In
      <4>2. QED BY Zenon, <1>8, <3>1, <3>3, <4>1
    <3>4. QED BY <3>2, <3>3
  <2>2. QED BY Zenon, <1>2, <2>1 DEF Due
<1>13. Accounted'
  <2>1. \A k \in queued : k \in Leases /\ (k = l \/ k # l)
    BY DEF DeliveryTypes
  <2>2. QED BY Zenon, <1>2, <1>5, <1>8, <2>1 DEF Accounted
<1>14. QED BY Zenon, <1>9, <1>10, <1>11, <1>12, <1>13

\* The deliveries that are overdue go back into the queue.
LEMMA RequeueKeeps ==
  ASSUME DeliveryInv, requeueExpiredPendingAcks
  PROVE  DeliveryInv'
<1> USE DEF DeliveryInv
<1> DEFINE expired == {d \in Elements(pendingAck) : Expired(d)}
           again == {d.lease : d \in expired}
<1>1. /\ pending' = Requeued(pending, pendingAck, expired)
      /\ pendingAck' = Remaining(pendingAck, expired)
      /\ late' = [l \in Leases |-> IF l \in again THEN Capped(late[l] + 1, MaxLate) ELSE late[l]]
      /\ dropped' = dropped \cup ((Queue \cup again) \ Elements(pending'))
      /\ UNCHANGED <<setup, queued, poll, exec, starts>>
  BY Zenon DEF requeueExpiredPendingAcks, serverVars, execVars
<1>2. \A d \in Elements(pendingAck) : d.lease \notin Elements(pending)
  BY Zenon DEF OnePlace, Queue, Unacked
<1>3. Returned(pending', pending, expired)
  BY Zenon, <1>1, <1>2, RequeuedOnce DEF DeliveryTypes, OnePlace
<1>4. Remains(pendingAck', pendingAck, expired)
  BY Zenon, <1>1, RemainingExact DEF DeliveryTypes, OnePlace
<1>5. /\ again \subseteq Unacked /\ Unacked' \subseteq Unacked /\ Unacked \subseteq Unacked' \cup again
      /\ pendingAck' \in Seq(Delivery) /\ OnceDelivered(pendingAck')
  BY Zenon, <1>4 DEF Remains, Unacked
<1>6. Unacked' \cap again = {}
  <2>1. \A d, e \in Elements(pendingAck) : d.lease = e.lease => d = e
    BY Zenon DEF Elements, OnePlace, OnceDelivered
  <2>2. \A k \in Unacked' : \E d \in Elements(pendingAck) : d \notin expired /\ k = d.lease
    BY Zenon, <1>4 DEF Remains, Unacked
  <2>3. expired \subseteq Elements(pendingAck)
    BY Zenon
  <2>4. ASSUME NEW k \in Unacked', k \in again PROVE FALSE
    <3>1. PICK e \in expired : k = e.lease
      BY Zenon, <2>4
    <3>2. PICK d \in Elements(pendingAck) : d \notin expired /\ k = d.lease
      BY Zenon, <2>2
    <3> HIDE DEF expired
    <3>3. QED BY Zenon, <2>1, <2>3, <3>1, <3>2
  <2>5. QED BY Zenon, <2>4
<1>7. Once(pending') /\ pending' \in Seq(Leases) /\ Queue' \subseteq Queue \cup again
  BY Zenon, <1>3 DEF Returned, Queue
<1> HIDE DEF expired, again
<1>8. Queue \cap Unacked = {} /\ Unacked \subseteq queued /\ queued \subseteq Leases
  BY Zenon DEF OnePlace, DeliveryTypes
<1>9. ASSUME NEW k \in Leases
      PROVE  DueFor(starts[k], CopiesLeft(k)', late'[k]) /\ late'[k] \in 0 .. MaxLate
  <2>1. /\ DueFor(starts[k], CopiesLeft(k), late[k]) /\ starts[k] \in Nat /\ late[k] \in Nat
        /\ late[k] \in 0 .. MaxLate
    BY Zenon, NatRanges DEF Due, DeliveryTypes
  <2>2. Elements(poll'.batch) = Elements(poll.batch)
    BY Zenon, <1>1
  <2>3. CASE k \in again
    <3>1. late'[k] = Capped(late[k] + 1, MaxLate)
      BY Zenon, <1>1, <2>3
    <3>2. CopiesLeft(k)' <= CopiesLeft(k) + 1
      BY <2>2 DEF CopiesLeft, In
    <3>3. QED BY Zenon, <2>1, <3>1, <3>2, CopiesNat, DueAgain
  <2>4. CASE k \notin again
    <3>1. late'[k] = late[k]
      BY Zenon, <1>1, <2>4
    <3>2. CopiesLeft(k)' <= CopiesLeft(k)
      BY <1>7, <2>2, <2>4 DEF CopiesLeft, In
    <3>3. QED BY Zenon, <2>1, <3>1, <3>2, CopiesNat, DueLess
  <2>5. QED BY Zenon, <2>3, <2>4
<1>10. Due'
  BY Zenon, <1>1, <1>9 DEF Due
<1>11. DeliveryTypes'
  <2>1. late' = [l \in Leases |-> late'[l]]
    BY Zenon, <1>1
  <2>2. late' \in [Leases -> 0 .. MaxLate]
    BY Zenon, <1>9, <2>1
  <2>3. QED BY Zenon, <1>1, <1>5, <1>7, <2>2 DEF DeliveryTypes
<1>12. OnePlace'
  BY <1>1, <1>5, <1>6, <1>7, <1>8 DEF OnePlace
<1>13. Executed'
  BY Zenon, <1>1 DEF Executed
<1>14. Accounted'
  <2>1. Queue \cup again \subseteq Queue' \cup dropped' /\ dropped \subseteq dropped'
    BY Zenon, <1>1 DEF Queue
  <2>2. QED BY Zenon, <1>1, <1>5, <2>1 DEF Accounted
<1>15. QED BY Zenon, <1>10, <1>11, <1>12, <1>13, <1>14

\* Every step keeps the invariant.
LEMMA DeliveryNext == DeliveryInv /\ [Next]_vars => DeliveryInv'
<1> SUFFICES ASSUME DeliveryInv, [Next]_vars PROVE DeliveryInv'
  OBVIOUS
<1>1. CASE Run \/ Executing \/ Heartbeats \/ UNCHANGED vars \/ \E l \in Leases : IssueLease(l)
  BY Zenon, <1>1, MostAside, AsideKeeps
<1>2. CASE \E l \in Leases : AddAssignment(l)
  BY Zenon, <1>2, AddKeeps
<1>3. CASE AckOverdue \/ requeueExpiredPendingAcks
  BY Zenon, <1>3, OverdueKeeps, RequeueKeeps
<1>4. CASE getAssignmentsForWorker \/ Execute \/ ackAssignmentsForWorker
  BY Zenon, <1>4, GetKeeps, ExecuteKeeps, AckKeeps
<1>5. CASE ReceiveAssignments \/ LoseAssignments \/ LoseAck
  <2>1. PollOnly
    BY Zenon, <1>5 DEF ReceiveAssignments, LoseAssignments, LoseAck, PollOnly, serverVars, queueVars, execVars
  <2>2. QED BY Zenon, <2>1, PollOnlyKeeps
<1>6. QED BY Zenon, <1>1, <1>2, <1>3, <1>4, <1>5 DEF Next, Queues, Polling

\* Whatever polls, replies and acknowledgements are lost, and however often deliveries are
\* overdue: an assignment that was queued waits, was executed, or fell out of a full queue,
\* for any leases and any maxPendingAssignmentsPerWorker.
THEOREM AssignmentsAccounted == Spec => []Accounted
<1>1. DeliveryInv => Accounted
  BY Zenon DEF DeliveryInv
<1>2. QED BY <1>1, DeliveryInit, DeliveryNext, PTL DEF Spec

\* The worker executes a lease again only for a redelivery: never twice from one delivery,
\* and never because the lease was queued twice.  The count is exact as far as the
\* redeliveries are told apart.
THEOREM RepeatsAlwaysExplained == Spec => []RepeatsExplained
<1>1. DeliveryInv => RepeatsExplained
  <2> SUFFICES ASSUME DeliveryInv, NEW l \in Leases PROVE starts[l] <= 1 + late[l]
    BY Zenon DEF RepeatsExplained
  <2>1. DueFor(starts[l], CopiesLeft(l), late[l])
    BY Zenon DEF DeliveryInv, Due
  <2>2. starts[l] \in 0 .. MaxLate + 1 /\ late[l] \in 0 .. MaxLate
    BY Zenon DEF DeliveryInv, DeliveryTypes
  <2>3. QED BY <2>1, <2>2, CopiesNat, LateAssumption DEF DueFor
<1>2. QED BY <1>1, DeliveryInit, DeliveryNext, PTL DEF Spec

-----------------------------------------------------------------------------
(* The event stream.                                                       *)

StreamSpec == StreamInit /\ [][StreamNext]_streamVars

FeedSafety == Feed!Init /\ [][Feed!Next]_<<log, received>>

-----------------------------------------------------------------------------
(* The inductive invariant: the log numbers its events from 1 on, and as   *)
(* long as it has room it holds every event; a reader has seen a prefix;   *)
(* what is on the wire continues it, up to the cursor of the handler.      *)

Counts(s, n) == s \in Seq(Nat) /\ \A i \in 1 .. Len(s) : s[i] = n + i

LogOK ==
  /\ appended \in Nat
  /\ Counts(log, 0)
  /\ maxEvents = 0 \/ Len(log) < maxEvents => Len(log) = appended

\* The cursor of a reader that has seen some events and is being sent others,
\* with n events in the log.
CursorOK(c, seen, sent, n) ==
  /\ c \in Int /\ -1 <= c /\ c <= n /\ seen <= n
  /\ c = -1 => sent = 0
  /\ c # -1 => c = seen + sent

ReaderOK(r) ==
  /\ Counts(received[r], 0)
  /\ Counts(wire[r], Len(received[r]))
  /\ CursorOK(cursor[r], Len(received[r]), Len(wire[r]), Len(log))

StreamTypes ==
  /\ DOMAIN cursor = Readers /\ cursor = [r \in Readers |-> cursor[r]]
  /\ DOMAIN wire = Readers /\ wire = [r \in Readers |-> wire[r]]
  /\ DOMAIN received = Readers /\ received = [r \in Readers |-> received[r]]

StreamInv == LogOK /\ StreamTypes /\ \A r \in Readers : ReaderOK(r)

-----------------------------------------------------------------------------
\* A sequence that counts on from n, continued by the next number, counts on from n:
\* what Append does to the log.
LEMMA CountsAppend ==
  ASSUME NEW s, NEW n \in Nat, Counts(s, n)
  PROVE  Counts(Append(s, n + Len(s) + 1), n) /\ Len(Append(s, n + Len(s) + 1)) = Len(s) + 1
<1> DEFINE e == n + Len(s) + 1
<1>1. s \in Seq(Nat) /\ Len(s) \in Nat /\ e \in Nat
  BY DEF Counts
<1> HIDE DEF e
<1>2. /\ Append(s, e) \in Seq(Nat)
      /\ Len(Append(s, e)) = Len(s) + 1
      /\ \A i \in 1 .. Len(s) : Append(s, e)[i] = s[i]
      /\ Append(s, e)[Len(s) + 1] = e
  BY <1>1
<1>3. ASSUME NEW i \in 1 .. Len(s) + 1 PROVE Append(s, e)[i] = n + i
  <2>1. CASE i \in 1 .. Len(s)
    BY <1>2, <2>1 DEF Counts
  <2>2. CASE i = Len(s) + 1
    BY <1>1, <1>2, <2>2 DEF e
  <2> QED BY <1>1, <2>1, <2>2
<1> QED BY <1>2, <1>3 DEF Counts, e

\* The same for two sequences, the second counting on from the end of the first: a
\* batch written behind what is already on the wire.
LEMMA CountsConcat ==
  ASSUME NEW s, NEW t, NEW n \in Nat, Counts(s, n), Counts(t, n + Len(s))
  PROVE  Counts(s \o t, n) /\ Len(s \o t) = Len(s) + Len(t)
<1>1. s \in Seq(Nat) /\ t \in Seq(Nat) /\ Len(s) \in Nat /\ Len(t) \in Nat
  BY DEF Counts
<1>2. /\ s \o t \in Seq(Nat)
      /\ Len(s \o t) = Len(s) + Len(t)
      /\ \A i \in 1 .. Len(s) + Len(t) : (s \o t)[i] = IF i <= Len(s) THEN s[i] ELSE t[i - Len(s)]
  BY <1>1
<1>3. ASSUME NEW i \in 1 .. Len(s) + Len(t) PROVE (s \o t)[i] = n + i
  <2>1. CASE i <= Len(s)
    BY <1>1, <1>2, <2>1 DEF Counts
  <2>2. CASE ~(i <= Len(s))
    <3>1. i - Len(s) \in 1 .. Len(t)
      BY <1>1, <2>2
    <3>2. t[i - Len(s)] = n + Len(s) + (i - Len(s))
      BY <1>1, <3>1 DEF Counts
    <3> QED BY <1>1, <1>2, <2>2, <3>2
  <2> QED BY <2>1, <2>2
<1> QED BY <1>2, <1>3 DEF Counts

\* Reading takes the first number and leaves a sequence that counts on from it.
LEMMA CountsTail ==
  ASSUME NEW s, NEW n \in Nat, Counts(s, n), s # <<>>
  PROVE  Head(s) = n + 1 /\ Counts(Tail(s), n + 1) /\ Len(Tail(s)) = Len(s) - 1 /\ Len(s) > 0
<1>1. s \in Seq(Nat) /\ Len(s) \in Nat /\ Len(s) > 0
  BY DEF Counts
<1>2. /\ Tail(s) \in Seq(Nat)
      /\ Len(Tail(s)) = Len(s) - 1
      /\ \A i \in 1 .. Len(Tail(s)) : Tail(s)[i] = s[i + 1]
  BY <1>1
<1>3. Head(s) = s[1]
  BY <1>1
<1>4. s[1] = n + 1
  BY <1>1 DEF Counts
<1>5. ASSUME NEW i \in 1 .. Len(Tail(s)) PROVE Tail(s)[i] = n + 1 + i
  <2>1. i + 1 \in 1 .. Len(s)
    BY <1>1, <1>2
  <2> QED BY <1>2, <2>1 DEF Counts
<1> QED BY <1>1, <1>2, <1>3, <1>4, <1>5 DEF Counts

\* The batch that EventTail reads at a cursor counts on from it and stays within
\* the log.
LEMMA BatchCounts ==
  ASSUME LogOK, NEW c \in 0 .. Len(log)
  PROVE  Counts(EventTail(c), c) /\ c + Len(EventTail(c)) <= Len(log)
<1> DEFINE m == IF c + batchLimit > Len(log) THEN Len(log) ELSE c + batchLimit
<1>1. /\ log \in Seq(Nat) /\ Len(log) \in Nat /\ c \in Int
      /\ \A i \in 1 .. Len(log) : log[i] \in Nat /\ log[i] = i
  BY DEF LogOK, Counts
<1>2. m \in Int /\ m <= Len(log) /\ c <= m
  BY <1>1, StreamAssumption
<1>3. EventTail(c) = SubSeq(log, c + 1, m)
  BY DEF EventTail
<1> HIDE DEF m
<1>4. \A i \in c + 1 .. m : log[i] \in Nat
  BY <1>1, <1>2
<1>5. /\ SubSeq(log, c + 1, m) \in Seq(Nat)
      /\ Len(SubSeq(log, c + 1, m)) = IF c + 1 <= m THEN m - (c + 1) + 1 ELSE 0
      /\ \A i \in 1 .. m - (c + 1) + 1 : SubSeq(log, c + 1, m)[i] = log[c + 1 + i - 1]
  <2>1. c + 1 \in Int
    BY <1>1
  <2> QED BY ONLY <1>2, <1>4, <2>1
<1>6. Len(SubSeq(log, c + 1, m)) = m - c
  BY <1>1, <1>2, <1>5
<1>7. ASSUME NEW i \in 1 .. m - c PROVE SubSeq(log, c + 1, m)[i] = c + i
  <2>1. i \in 1 .. m - (c + 1) + 1 /\ c + 1 + i - 1 = c + i /\ c + i \in 1 .. Len(log)
    BY <1>1, <1>2
  <2> QED BY <1>1, <1>5, <2>1
<1> QED BY <1>1, <1>2, <1>3, <1>5, <1>6, <1>7 DEF Counts

\* FindEventIndex finds an event of the log where its number says.
LEMMA IndexOfEvent ==
  ASSUME LogOK, NEW e \in 1 .. Len(log)
  PROVE  FindEventIndex(e) = e - 1
<1>1. Len(log) \in Nat /\ \A i \in 1 .. Len(log) : log[i] = i
  BY DEF LogOK, Counts
<1>2. \A i \in 1 .. Len(log) : log[i] = e <=> i = e
  BY <1>1
<1>3. (CHOOSE i \in 1 .. Len(log) : log[i] = e) = e
  BY <1>2
<1> QED BY <1>2, <1>3 DEF FindEventIndex

\* What the cursor says, and how it keeps up: with a log that grows, with a batch
\* that is written and with an event that is read.
LEMMA CursorMoves ==
  ASSUME NEW c, NEW seen \in Nat, NEW sent \in Nat, NEW n \in Nat, CursorOK(c, seen, sent, n)
  PROVE  /\ seen <= n
         /\ \A k \in Nat : k >= n => CursorOK(c, seen, sent, k)
         /\ c >= 0 => c \in 0 .. n /\ c = seen + sent
         /\ \A k \in Nat : c >= 0 /\ c + k <= n => CursorOK(c + k, seen, sent + k, n)
         /\ sent > 0 => seen + 1 <= n /\ CursorOK(c, seen + 1, sent - 1, n)
BY DEF CursorOK

-----------------------------------------------------------------------------
\* The invariant holds when the log is made.
LEMMA InvInit == StreamInit => StreamInv
<1> SUFFICES ASSUME StreamInit PROVE StreamInv
  OBVIOUS
<1>1. <<>> \in Seq(Nat) /\ Len(<<>>) = 0
  OBVIOUS
<1>2. Counts(<<>>, 0)
  BY <1>1 DEF Counts
<1>3. CursorOK(-1, 0, 0, 0)
  BY DEF CursorOK
<1>4. LogOK
  BY <1>1, <1>2 DEF StreamInit, LogOK
<1>5. StreamTypes
  BY DEF StreamInit, StreamTypes
<1>6. ASSUME NEW r \in Readers PROVE ReaderOK(r)
  <2>1. received[r] = <<>> /\ wire[r] = <<>> /\ cursor[r] = -1 /\ log = <<>>
    BY DEF StreamInit
  <2> QED BY <1>1, <1>2, <1>3, <2>1 DEF ReaderOK
<1> QED BY <1>4, <1>5, <1>6 DEF StreamInv

\* What the invariant says of one reader, with the types that follow from it.
LEMMA ReaderFacts ==
  ASSUME StreamInv, NEW r \in Readers
  PROVE  /\ ReaderOK(r) /\ StreamTypes /\ LogOK /\ Len(log) \in Nat
         /\ received[r] \in Seq(Nat) /\ Len(received[r]) \in Nat
         /\ wire[r] \in Seq(Nat) /\ Len(wire[r]) \in Nat
<1>1. ReaderOK(r) /\ StreamTypes /\ LogOK
  BY DEF StreamInv
<1>2. log \in Seq(Nat) /\ received[r] \in Seq(Nat) /\ wire[r] \in Seq(Nat)
  BY <1>1 DEF ReaderOK, LogOK, Counts
<1> QED BY <1>1, <1>2

\* A reader of whom a step changes nothing keeps its part of the invariant, since
\* the log only grows.
LEMMA ReaderKept ==
  ASSUME StreamInv, NEW q \in Readers, Len(log') \in Nat, Len(log') >= Len(log),
         received'[q] = received[q], wire'[q] = wire[q], cursor'[q] = cursor[q]
  PROVE  ReaderOK(q)'
<1>1. /\ ReaderOK(q) /\ Len(log) \in Nat
      /\ Len(received[q]) \in Nat /\ Len(wire[q]) \in Nat
  BY ReaderFacts
<1>2. CursorOK(cursor[q], Len(received[q]), Len(wire[q]), Len(log'))
  BY Zenon, <1>1, CursorMoves DEF ReaderOK
<1> QED BY <1>1, <1>2 DEF ReaderOK

\* What each step does to the feed: the log grows by the next event, a reader
\* sees its next event, or neither changes.
LEMMA InvNext == StreamInv /\ [StreamNext]_streamVars => StreamInv' /\ [Feed!Next]_<<log, received>>
<1> SUFFICES ASSUME StreamInv, [StreamNext]_streamVars
             PROVE  StreamInv' /\ [Feed!Next]_<<log, received>>
  OBVIOUS
<1> DEFINE Step == StreamInv' /\ [Feed!Next]_<<log, received>>
<1>1. CASE UNCHANGED streamVars
  <2>1. LogOK' /\ StreamTypes' /\ \A r \in Readers : ReaderOK(r)'
    BY <1>1 DEF streamVars, StreamInv, LogOK, StreamTypes, ReaderOK
  <2> QED BY <1>1, <2>1 DEF streamVars, StreamInv
<1>2. CASE AppendEvent
  <2> DEFINE full == maxEvents > 0 /\ Len(log) >= maxEvents
  <2>1. Len(log) \in Nat /\ LogOK /\ StreamTypes
    BY DEF StreamInv, LogOK, Counts
  <2>2. CASE full
    <3>1. UNCHANGED <<log, received, wire, cursor>> /\ appended' = appended + 1
      BY <1>2, <2>2 DEF AppendEvent, Append_
    <3>2. LogOK'
      BY <2>1, <2>2, <3>1, StreamAssumption DEF LogOK
    <3>3. StreamTypes' /\ \A r \in Readers : ReaderOK(r)'
      BY <3>1 DEF StreamInv, StreamTypes, ReaderOK
    <3> QED BY <3>1, <3>2, <3>3 DEF StreamInv
  <2>3. CASE ~full
    <3>1. /\ log' = Append(log, appended + 1) /\ appended' = appended + 1 /\ appended < MaxAppends
          /\ UNCHANGED <<received, wire, cursor>>
      BY <1>2, <2>3 DEF AppendEvent, Append_
    <3>2. Len(log) = appended /\ appended \in Nat
      BY <2>1, <2>3, StreamAssumption DEF LogOK
    <3>3. Counts(log', 0) /\ Len(log') = Len(log) + 1
      <4>1. log' = Append(log, 0 + Len(log) + 1)
        BY <2>1, <3>1, <3>2
      <4> QED BY <2>1, <4>1, CountsAppend DEF LogOK
    <3>4. LogOK'
      BY <3>1, <3>2, <3>3 DEF LogOK
    <3>5. StreamTypes'
      BY <2>1, <3>1 DEF StreamTypes
    <3>6. ASSUME NEW r \in Readers PROVE ReaderOK(r)'
      <4>1. Len(log') \in Nat /\ Len(log') >= Len(log)
        BY <2>1, <3>3
      <4> QED BY <3>1, <4>1, ReaderKept
    <3>7. Feed!Publish(appended + 1) /\ appended + 1 \in 1 .. MaxAppends
      BY <3>1, <3>2, StreamAssumption DEF Feed!Publish
    <3> QED BY <3>4, <3>5, <3>6, <3>7 DEF StreamInv, Feed!Next
  <2> QED BY <2>2, <2>3
<1>3. ASSUME NEW r \in Readers, Serve(r) PROVE Step
  <2> DEFINE n == Len(received[r])
  <2>1. /\ ReaderOK(r) /\ StreamTypes /\ LogOK /\ Len(log) \in Nat
        /\ n \in Nat /\ received[r] \in Seq(Nat)
    BY ReaderFacts
  <2>2. n <= Len(log)
    BY <2>1 DEF ReaderOK, CursorOK
  <2>3. /\ cursor' = [cursor EXCEPT ![r] = n]
        /\ wire' = [wire EXCEPT ![r] = <<>>]
        /\ UNCHANGED <<log, appended, received>>
    <3>1. CASE received[r] = <<>>
      <4>1. lastEventId(r) = 0 /\ n = 0
        BY <3>1 DEF lastEventId
      <4> QED BY Zenon, <1>3, <4>1 DEF Serve
    <3>2. CASE received[r] # <<>>
      <4>1. n \in 1 .. Len(log)
        BY <2>1, <2>2, <3>2
      <4>2. received[r][n] = n
        BY <2>1, <4>1 DEF ReaderOK, Counts
      <4>3. FindEventIndex(n) = n - 1
        BY <2>1, <4>1, IndexOfEvent
      <4>4. lastEventId(r) = n /\ n # 0 /\ FindEventIndex(n) + 1 = n
        BY <2>1, <3>2, <4>1, <4>2, <4>3 DEF lastEventId
      <4> QED BY Zenon, <1>3, <4>4 DEF Serve
    <3> QED BY <3>1, <3>2
  <2>4. LogOK' /\ StreamTypes'
    BY Zenon, <2>1, <2>3 DEF LogOK, StreamTypes
  <2>5. Counts(<<>>, n) /\ CursorOK(n, n, 0, Len(log)) /\ Len(<<>>) = 0
    BY <2>1, <2>2 DEF Counts, CursorOK
  <2>6. ASSUME NEW q \in Readers PROVE ReaderOK(q)'
    <3>1. CASE q = r
      <4>1. cursor'[r] = n /\ wire'[r] = <<>> /\ received'[r] = received[r] /\ log' = log
        BY <2>1, <2>3 DEF StreamTypes
      <4> QED BY <2>1, <2>5, <3>1, <4>1 DEF ReaderOK
    <3>2. CASE q # r
      <4>1. received'[q] = received[q] /\ wire'[q] = wire[q] /\ cursor'[q] = cursor[q]
        BY Zenon, <2>1, <2>3, <3>2 DEF StreamTypes
      <4> QED BY <2>1, <2>3, <4>1, ReaderKept
    <3> QED BY <3>1, <3>2
  <2> QED BY <2>3, <2>4, <2>6 DEF StreamInv
<1>4. ASSUME NEW r \in Readers, PollEvents(r) PROVE Step
  <2> DEFINE n == Len(received[r])
             m == Len(wire[r])
             batch == EventTail(cursor[r])
  <2>1. /\ ReaderOK(r) /\ StreamTypes /\ LogOK /\ Len(log) \in Nat
        /\ n \in Nat /\ m \in Nat
    BY ReaderFacts
  <2>2. cursor[r] \in 0 .. Len(log) /\ cursor[r] = n + m /\ n <= Len(log)
    BY Zenon, <1>4, <2>1, CursorMoves DEF PollEvents, ReaderOK
  <2>3. Counts(batch, cursor[r]) /\ cursor[r] + Len(batch) <= Len(log)
    BY Zenon, <2>1, <2>2, BatchCounts
  <2>4. Len(batch) \in Nat
    BY <2>3 DEF Counts
  <2>5. /\ wire' = [wire EXCEPT ![r] = wire[r] \o batch]
        /\ cursor' = [cursor EXCEPT ![r] = cursor[r] + Len(batch)]
        /\ UNCHANGED <<log, appended, received>>
    BY <1>4 DEF PollEvents
  <2> HIDE DEF batch
  <2>6. Counts(wire[r] \o batch, n) /\ Len(wire[r] \o batch) = m + Len(batch)
    <3>1. Counts(wire[r], n) /\ Counts(batch, n + Len(wire[r]))
      BY Zenon, <2>1, <2>2, <2>3 DEF ReaderOK
    <3> QED BY Zenon, <2>1, <3>1, CountsConcat
  <2>7. CursorOK(cursor[r] + Len(batch), n, m + Len(batch), Len(log))
    <3>1. CursorOK(cursor[r], n, m, Len(log))
      BY <2>1 DEF ReaderOK
    <3>2. cursor[r] >= 0
      BY <1>4 DEF PollEvents
    <3> QED BY Zenon, <2>1, <2>3, <2>4, <3>1, <3>2, CursorMoves
  <2>8. LogOK' /\ StreamTypes'
    BY Zenon, <2>1, <2>5 DEF LogOK, StreamTypes
  <2>9. ASSUME NEW q \in Readers PROVE ReaderOK(q)'
    <3>1. CASE q = r
      <4>1. /\ cursor'[r] = cursor[r] + Len(batch) /\ wire'[r] = wire[r] \o batch
            /\ received'[r] = received[r] /\ log' = log
        BY <2>1, <2>5 DEF StreamTypes
      <4> QED BY <2>1, <2>6, <2>7, <3>1, <4>1 DEF ReaderOK
    <3>2. CASE q # r
      <4>1. received'[q] = received[q] /\ wire'[q] = wire[q] /\ cursor'[q] = cursor[q]
        BY Zenon, <2>1, <2>5, <3>2 DEF StreamTypes
      <4> QED BY <2>1, <2>5, <4>1, ReaderKept
    <3> QED BY <3>1, <3>2
  <2> QED BY <2>5, <2>8, <2>9 DEF StreamInv
<1>5. ASSUME NEW r \in Readers, Disconnect(r) PROVE Step
  <2> DEFINE n == Len(received[r])
  <2>1. ReaderOK(r) /\ StreamTypes /\ LogOK /\ n \in Nat /\ Len(log) \in Nat
    BY ReaderFacts
  <2>2. /\ cursor' = [cursor EXCEPT ![r] = -1] /\ wire' = [wire EXCEPT ![r] = <<>>]
        /\ UNCHANGED <<log, appended, received>>
    BY <1>5 DEF Disconnect
  <2>3. LogOK' /\ StreamTypes'
    BY Zenon, <2>1, <2>2 DEF LogOK, StreamTypes
  <2>4. Counts(<<>>, n) /\ CursorOK(-1, n, 0, Len(log)) /\ Len(<<>>) = 0
    BY <2>1 DEF Counts, CursorOK, ReaderOK
  <2>5. ASSUME NEW q \in Readers PROVE ReaderOK(q)'
    <3>1. CASE q = r
      <4>1. cursor'[r] = -1 /\ wire'[r] = <<>> /\ received'[r] = received[r] /\ log' = log
        BY <2>1, <2>2 DEF StreamTypes
      <4> QED BY <2>1, <2>4, <3>1, <4>1 DEF ReaderOK
    <3>2. CASE q # r
      <4>1. received'[q] = received[q] /\ wire'[q] = wire[q] /\ cursor'[q] = cursor[q]
        BY Zenon, <2>1, <2>2, <3>2 DEF StreamTypes
      <4> QED BY <2>1, <2>2, <4>1, ReaderKept
    <3> QED BY <3>1, <3>2
  <2> QED BY <2>2, <2>3, <2>5 DEF StreamInv
<1>6. ASSUME NEW r \in Readers, ReadEvent(r) PROVE Step
  <2> DEFINE n == Len(received[r])
             m == Len(wire[r])
  <2>1. /\ ReaderOK(r) /\ StreamTypes /\ LogOK /\ Len(log) \in Nat
        /\ n \in Nat /\ m \in Nat /\ wire[r] # <<>>
    BY <1>6, ReaderFacts DEF ReadEvent
  <2>2. Head(wire[r]) = n + 1 /\ Counts(Tail(wire[r]), n + 1) /\ Len(Tail(wire[r])) = m - 1 /\ m > 0
    BY <2>1, CountsTail DEF ReaderOK
  <2>3. CursorOK(cursor[r], n, m, Len(log))
    BY <2>1 DEF ReaderOK
  <2>4. n + 1 <= Len(log) /\ CursorOK(cursor[r], n + 1, m - 1, Len(log))
    BY Zenon, <2>1, <2>2, <2>3, CursorMoves
  <2>5. /\ received' = [received EXCEPT ![r] = Append(received[r], n + 1)]
        /\ wire' = [wire EXCEPT ![r] = Tail(wire[r])]
        /\ UNCHANGED <<log, appended, cursor>>
    BY Zenon, <1>6, <2>2 DEF ReadEvent
  <2>6. Counts(Append(received[r], n + 1), 0) /\ Len(Append(received[r], n + 1)) = n + 1
    <3>1. 0 + Len(received[r]) + 1 = n + 1
      BY <2>1
    <3> QED BY Zenon, <2>1, <3>1, CountsAppend DEF ReaderOK
  <2>7. LogOK' /\ StreamTypes'
    BY Zenon, <2>1, <2>5 DEF LogOK, StreamTypes
  <2>8. ASSUME NEW q \in Readers PROVE ReaderOK(q)'
    <3>1. CASE q = r
      <4>1. /\ received'[r] = Append(received[r], n + 1) /\ wire'[r] = Tail(wire[r])
            /\ cursor'[r] = cursor[r] /\ log' = log
        BY <2>1, <2>5 DEF StreamTypes
      <4> QED BY <2>2, <2>4, <2>6, <3>1, <4>1 DEF ReaderOK
    <3>2. CASE q # r
      <4>1. received'[q] = received[q] /\ wire'[q] = wire[q] /\ cursor'[q] = cursor[q]
        BY Zenon, <2>1, <2>5, <3>2 DEF StreamTypes
      <4> QED BY <2>1, <2>5, <4>1, ReaderKept
    <3> QED BY <3>1, <3>2
  <2>9. Feed!Deliver(r)
    <3>1. n < Len(log) /\ n + 1 \in 1 .. Len(log)
      BY <2>1, <2>4
    <3>2. log[n + 1] = n + 1
      BY <2>1, <3>1 DEF LogOK, Counts
    <3> QED BY <2>5, <3>1, <3>2 DEF Feed!Deliver
  <2> QED BY <2>7, <2>8, <2>9 DEF StreamInv, Feed!Next
<1> QED BY <1>1, <1>2, <1>3, <1>4, <1>5, <1>6 DEF StreamNext, ReaderStep, Connect, Rerender

\* handleStreamEvents over the event log implements the safety part of the feed,
\* for any readers, limits of the log and of a batch, and numbers of events and of
\* lost connections: a reader sees the events of the log in order, each once.
THEOREM StreamImplementsFeed == StreamSpec => FeedSafety
<1>1. StreamInit => Feed!Init
  BY DEF StreamInit, Feed!Init
<1> QED BY <1>1, InvInit, InvNext, PTL DEF StreamSpec, FeedSafety

-----------------------------------------------------------------------------
(* The inductive invariant of the outcomes.                                *)

INSTANCE FiniteSetTheorems

ShipTypes ==
  /\ next \in 1 .. N + 1 /\ buffer \in Seq(Outcomes) /\ batches \in [Runs -> Seq(Outcomes)]
  /\ posting \in Runs \cup {NoRun} /\ arrived \in Seq(Outcomes) /\ unheard \in [Outcomes -> Nat]

\* An outcome that was shipped is in one place: the buffer or the batch of its run.
HeldOnce ==
  /\ Once(buffer) /\ \A r \in Runs : Once(batches[r])
  /\ \A o \in Elements(buffer) : o < next /\ o \notin Elements(batches[RunOf[o]])
  /\ \A r \in Runs : \A o \in Elements(batches[r]) : o < next /\ RunOf[o] = r

\* The outcome o may still be posted.
ToPost(o) ==
  o >= next \/ o \in Elements(buffer) \/ o \in Elements(batches[RunOf[o]])

\* Until the batch of an outcome is given up or answered, lost answers explain every copy.
CopiesDue ==
  \A o \in Outcomes :
    Copies(o) <= unheard[o] + 1 /\ (ToPost(o) => Copies(o) <= unheard[o])

ShipInv == ShipTypes /\ HeldOnce /\ CopiesDue

Places(s, o) == {i \in DOMAIN s : s[i] = o}
CopiesIn(s, o) == Cardinality(Places(s, o))

\* A batch without repetitions adds at most one copy of an outcome to what the server stored.
LEMMA BatchAddsOne ==
  ASSUME NEW s \in Seq(Outcomes), NEW t \in Seq(Outcomes), Once(t), NEW o
  PROVE  /\ CopiesIn(s, o) \in Nat
         /\ CopiesIn(s \o t, o) = CopiesIn(s, o) + In(o, Elements(t))
<1>1. PICK u : u = s \o t
  BY Zenon
<1>2. /\ Len(s) \in Nat /\ Len(t) \in Nat
      /\ DOMAIN s = 1 .. Len(s) /\ DOMAIN t = 1 .. Len(t) /\ DOMAIN u = 1 .. Len(s) + Len(t)
      /\ \A i \in 1 .. Len(s) : u[i] = s[i]
      /\ \A j \in 1 .. Len(t) : u[Len(s) + j] = t[j]
  BY <1>1
<1>3. /\ \A i \in 1 .. Len(s) + Len(t) : i \in 1 .. Len(s) \/ (i - Len(s) \in 1 .. Len(t) /\ i = Len(s) + (i - Len(s)))
      /\ 1 .. Len(s) \subseteq 1 .. Len(s) + Len(t)
      /\ \A j \in 1 .. Len(t) : Len(s) + j \in 1 .. Len(s) + Len(t) /\ Len(s) + j \notin 1 .. Len(s)
  BY <1>2
<1>4. IsFiniteSet(Places(s, o)) /\ CopiesIn(s, o) \in Nat
  <2>1. IsFiniteSet(1 .. Len(s))
    BY <1>2, FS_Interval
  <2>2. Places(s, o) \in SUBSET (1 .. Len(s))
    BY Zenon, <1>2 DEF Places
  <2>3. IsFiniteSet(Places(s, o))
    BY Zenon, <2>1, <2>2, FS_Subset
  <2>4. QED BY Zenon, <2>3, FS_CardinalityType DEF CopiesIn
<1>5. CASE o \in Elements(t)
  <2>1. PICK j \in 1 .. Len(t) : t[j] = o
    BY Zenon, <1>2, <1>5 DEF Elements
  <2>2. \A i \in 1 .. Len(t) : t[i] = o => i = j
    BY Zenon, <1>2, <2>1 DEF Once
  <2>3. Places(u, o) = Places(s, o) \cup {Len(s) + j}
    <3>1. ASSUME NEW i \in Places(u, o) PROVE i \in Places(s, o) \cup {Len(s) + j}
      <4>1. i \in 1 .. Len(s) + Len(t) /\ u[i] = o
        BY Zenon, <1>2 DEF Places
      <4>2. CASE i \in 1 .. Len(s)
        BY Zenon, <1>2, <4>1, <4>2 DEF Places
      <4>3. CASE i - Len(s) \in 1 .. Len(t) /\ i = Len(s) + (i - Len(s))
        <5>1. PICK k \in 1 .. Len(t) : i = Len(s) + k
          BY Zenon, <4>3
        <5>2. k = j
          BY Zenon, <1>2, <2>2, <4>1, <5>1
        <5>3. QED BY Zenon, <5>1, <5>2
      <4>4. QED BY Zenon, <1>3, <4>1, <4>2, <4>3
    <3>2. Places(s, o) \subseteq Places(u, o)
      BY Zenon, <1>2, <1>3 DEF Places
    <3>3. Len(s) + j \in Places(u, o)
      BY Zenon, <1>2, <1>3, <2>1 DEF Places
    <3>4. QED BY Zenon, <3>1, <3>2, <3>3
  <2>4. Len(s) + j \notin Places(s, o)
    BY Zenon, <1>2, <1>3 DEF Places
  <2>5. Cardinality(Places(u, o)) = Cardinality(Places(s, o)) + 1
    BY Zenon, <1>4, <2>3, <2>4, FS_AddElement
  <2>6. In(o, Elements(t)) = 1
    BY Zenon, <1>5 DEF In
  <2>7. QED BY Zenon, <1>1, <1>4, <2>5, <2>6 DEF CopiesIn
<1>6. CASE o \notin Elements(t)
  <2>1. Places(u, o) = Places(s, o)
    <3>1. ASSUME NEW i \in Places(u, o) PROVE i \in Places(s, o)
      <4>1. i \in 1 .. Len(s) + Len(t) /\ u[i] = o
        BY Zenon, <1>2 DEF Places
      <4>2. CASE i \in 1 .. Len(s)
        BY Zenon, <1>2, <4>1, <4>2 DEF Places
      <4>3. CASE i - Len(s) \in 1 .. Len(t) /\ i = Len(s) + (i - Len(s))
        <5>1. PICK k \in 1 .. Len(t) : i = Len(s) + k
          BY Zenon, <4>3
        <5>2. QED BY Zenon, <1>2, <1>6, <4>1, <5>1 DEF Elements
      <4>4. QED BY Zenon, <1>3, <4>1, <4>2, <4>3
    <3>2. Places(s, o) \subseteq Places(u, o)
      BY Zenon, <1>2, <1>3 DEF Places
    <3>3. QED BY Zenon, <3>1, <3>2
  <2>2. In(o, Elements(t)) = 0 /\ CopiesIn(u, o) = CopiesIn(s, o)
    BY Zenon, <1>6, <2>1 DEF In, CopiesIn
  <2>3. QED BY <1>1, <1>4, <2>2
<1>7. QED BY Zenon, <1>5, <1>6

\* What the buffer and the batches hold are outcomes.
LEMMA HeldOutcomes == \A q \in Seq(Outcomes) : Elements(q) \subseteq Outcomes
BY DEF Elements

\* A new shipper holds nothing, and the server has stored nothing.
LEMMA ShipStart == ShipInit => ShipInv
<1> SUFFICES ASSUME ShipInit PROVE ShipInv
  OBVIOUS
<1> USE DEF ShipInit
<1>1. ShipTypes
  BY ShipperAssumption DEF ShipTypes
<1>2. HeldOnce
  BY NoElements DEF HeldOnce
<1>3. CopiesDue
  <2>1. \A o : Places(arrived, o) = {}
    BY DEF Places
  <2>2. Cardinality({}) = 0
    BY FS_EmptySet
  <2>3. \A o \in Outcomes : Copies(o) = 0 /\ unheard[o] = 0
    BY Zenon, <2>1, <2>2 DEF Copies, Places
  <2>4. QED BY <2>3 DEF CopiesDue
<1>4. QED BY Zenon, <1>1, <1>2, <1>3 DEF ShipInv

\* Steps that store nothing, and after which no further outcome is to be posted.
LEMMA CopiesKept ==
  ASSUME CopiesDue, arrived' = arrived, unheard' = unheard, \A o \in Outcomes : ToPost(o)' => ToPost(o)
  PROVE  CopiesDue'
BY Zenon DEF CopiesDue, Copies

\* The virtual users' next outcome is buffered, or lost when the buffer is full or closed.
LEMMA ShipKeeps ==
  ASSUME ShipInv, Ship
  PROVE  ShipInv'
<1> USE DEF ShipInv
<1>1. /\ next <= N /\ next' = next + 1 /\ buffer' \in {buffer, Append(buffer, next)}
      /\ UNCHANGED <<batches, posting, arrived, unheard>>
  BY DEF Ship
<1>2. next \in Outcomes /\ next' \in 1 .. N + 1 /\ \A o \in Outcomes : o < next' <=> o < next \/ o = next
  BY <1>1, ShipperAssumption DEF ShipTypes, Outcomes
<1>3. ~(next < next)
  BY <1>2 DEF Outcomes
<1>4. Extended(Append(buffer, next), Outcomes, buffer, next)
  BY Zenon, <1>2, AppendElements DEF ShipTypes
<1>5. next \notin Elements(buffer) /\ \A r \in Runs : next \notin Elements(batches[r])
  BY Zenon, <1>3 DEF HeldOnce
<1>6. /\ buffer' \in Seq(Outcomes) /\ Once(buffer')
      /\ Elements(buffer') \subseteq Elements(buffer) \cup {next}
  BY Zenon, <1>1, <1>4, <1>5 DEF Extended, HeldOnce, ShipTypes
<1>7. /\ \A o \in Outcomes : RunOf[o] \in Runs
      /\ Elements(buffer) \subseteq Outcomes /\ \A r \in Runs : Elements(batches[r]) \subseteq Outcomes
  BY Zenon, ShipperAssumption, HeldOutcomes DEF ShipTypes, Outcomes
<1>8. ShipTypes'
  BY Zenon, <1>1, <1>2, <1>6 DEF ShipTypes
<1>9. HeldOnce'
  <2>1. ASSUME NEW o \in Elements(buffer') PROVE o < next' /\ o \notin Elements(batches'[RunOf[o]])
    <3>1. CASE o \in Elements(buffer)
      BY Zenon, <1>1, <1>2, <1>7, <3>1 DEF HeldOnce
    <3>2. CASE o = next
      BY Zenon, <1>1, <1>2, <1>5, <1>7, <3>2
    <3>3. QED BY Zenon, <1>6, <3>1, <3>2
  <2>2. \A r \in Runs : \A o \in Elements(batches'[r]) : o < next' /\ RunOf[o] = r
    BY Zenon, <1>1, <1>2, <1>7 DEF HeldOnce
  <2>3. QED BY Zenon, <1>1, <1>6, <2>1, <2>2 DEF HeldOnce
<1>10. CopiesDue'
  <2>1. ASSUME NEW o \in Outcomes PROVE ToPost(o)' => ToPost(o)
    <3>1. (o >= next' => o >= next) /\ (o = next => o >= next)
      BY <1>1, <1>2 DEF Outcomes, ShipTypes
    <3>2. QED BY Zenon, <1>1, <1>6, <3>1 DEF ToPost
  <2>2. QED BY Zenon, <1>1, <2>1, CopiesKept
<1>11. QED BY Zenon, <1>8, <1>9, <1>10

\* run() moves the oldest outcome of the buffer to the batch of its run.
LEMMA TakeKeeps ==
  ASSUME ShipInv, Take
  PROVE  ShipInv'
<1> USE DEF ShipInv
<1>1. PICK h, r : h = Head(buffer) /\ r = RunOf[h]
  OBVIOUS
<1>2. /\ buffer # <<>> /\ batches' = [batches EXCEPT ![r] = Append(batches[r], h)]
      /\ buffer' = Tail(buffer) /\ posting' \in {posting, r}
      /\ UNCHANGED <<next, arrived, unheard>>
  BY <1>1 DEF Take, BeginPost
<1>3. /\ buffer' \in Seq(Outcomes) /\ Once(buffer') /\ h \in Outcomes
      /\ Elements(buffer) = Elements(buffer') \cup {h} /\ h \notin Elements(buffer')
  BY Zenon, <1>1, <1>2, HeadOnce DEF ShipTypes, HeldOnce
<1>4. /\ r \in Runs /\ batches[r] \in Seq(Outcomes) /\ Once(batches[r]) /\ h \notin Elements(batches[r])
      /\ \A o \in Outcomes : RunOf[o] \in Runs
  BY Zenon, <1>1, <1>3, ShipperAssumption DEF ShipTypes, HeldOnce, Outcomes
<1>5. Extended(Append(batches[r], h), Outcomes, batches[r], h)
  BY Zenon, <1>3, <1>4, AppendElements
<1>6. /\ batches'[r] \in Seq(Outcomes) /\ Once(batches'[r])
      /\ Elements(batches'[r]) = Elements(batches[r]) \cup {h}
      /\ \A k \in Runs : k # r => batches'[k] = batches[k]
      /\ batches' = [k \in Runs |-> batches'[k]]
  <2>1. /\ batches'[r] = Append(batches[r], h) /\ batches' = [k \in Runs |-> batches'[k]]
        /\ \A k \in Runs : k # r => batches'[k] = batches[k]
    BY Zenon, <1>2, <1>4 DEF ShipTypes
  <2>2. QED BY Zenon, <1>4, <1>5, <2>1 DEF Extended
<1>7. \A k \in Runs : k = r \/ k # r
  OBVIOUS
<1>8. ShipTypes'
  <2>1. \A k \in Runs : batches'[k] \in Seq(Outcomes)
    BY Zenon, <1>6, <1>7 DEF ShipTypes
  <2>2. batches' \in [Runs -> Seq(Outcomes)]
    BY Zenon, <1>6, <2>1
  <2>3. posting' \in Runs \cup {NoRun}
    BY Zenon, <1>2, <1>4 DEF ShipTypes
  <2>4. QED BY Zenon, <1>2, <1>3, <2>2, <2>3 DEF ShipTypes
<1>9. HeldOnce'
  <2>1. \A k \in Runs : Once(batches'[k])
    BY Zenon, <1>6, <1>7 DEF HeldOnce
  <2>2. ASSUME NEW o \in Elements(buffer') PROVE o < next /\ o \notin Elements(batches'[RunOf[o]])
    <3>1. o < next /\ o \notin Elements(batches[RunOf[o]]) /\ o # h /\ o \in Outcomes
      BY Zenon, <1>3, HeldOutcomes DEF HeldOnce
    <3>2. CASE RunOf[o] = r
      BY Zenon, <1>6, <3>1, <3>2
    <3>3. CASE RunOf[o] # r
      BY Zenon, <1>4, <1>6, <3>1, <3>3
    <3>4. QED BY Zenon, <3>2, <3>3
  <2>3. ASSUME NEW k \in Runs, NEW o \in Elements(batches'[k]) PROVE o < next /\ RunOf[o] = k
    <3>1. CASE k = r
      BY Zenon, <1>1, <1>3, <1>6, <2>3, <3>1 DEF HeldOnce
    <3>2. CASE k # r
      BY Zenon, <1>6, <2>3, <3>2 DEF HeldOnce
    <3>3. QED BY Zenon, <3>1, <3>2
  <2>4. QED BY Zenon, <1>2, <1>3, <2>1, <2>2, <2>3 DEF HeldOnce
<1>10. CopiesDue'
  <2>1. ASSUME NEW o \in Outcomes PROVE ToPost(o)' => ToPost(o)
    <3>1. CASE RunOf[o] = r
      BY Zenon, <1>2, <1>3, <1>6, <3>1 DEF ToPost
    <3>2. CASE RunOf[o] # r
      BY Zenon, <1>2, <1>3, <1>4, <1>6, <3>2 DEF ToPost
    <3>3. QED BY Zenon, <3>1, <3>2
  <2>2. QED BY Zenon, <1>2, <2>1, CopiesKept
<1>11. QED BY Zenon, <1>8, <1>9, <1>10

\* Steps of run() and of the shutdown that move no outcome.
LEMMA ShipAside ==
  ASSUME ShipInv, UNCHANGED <<next, buffer, batches, arrived, unheard>>, posting' \in Runs \cup {NoRun}
  PROVE  ShipInv'
<1>1. ShipTypes'
  BY Zenon DEF ShipInv, ShipTypes
<1>2. HeldOnce'
  BY Zenon DEF ShipInv, HeldOnce
<1>3. \A o \in Outcomes : ToPost(o)' => ToPost(o)
  BY Zenon DEF ToPost
<1>4. QED BY Zenon, <1>1, <1>2, <1>3, CopiesKept DEF ShipInv

\* The end of a post, or another attempt: the batch of the run is as it was, or empty.
LEMMA PostHeld ==
  ASSUME ShipInv, posting \in Runs, UNCHANGED <<next, buffer>>, posting' \in {posting, NoRun},
         batches' \in {batches, [batches EXCEPT ![posting] = <<>>]},
         arrived' \in Seq(Outcomes), unheard' \in [Outcomes -> Nat]
  PROVE  ShipTypes' /\ HeldOnce' /\ \A o \in Outcomes : ToPost(o)' => ToPost(o)
<1> USE DEF ShipInv
<1>1. <<>> \in Seq(Outcomes)
  OBVIOUS
<1>2. /\ batches' \in [Runs -> Seq(Outcomes)]
      /\ \A r \in Runs : batches'[r] = batches[r] \/ batches'[r] = <<>>
  BY Zenon, <1>1 DEF ShipTypes
<1>3. \A r \in Runs : Once(batches'[r]) /\ Elements(batches'[r]) \subseteq Elements(batches[r])
  BY Zenon, <1>2, NoElements DEF HeldOnce
<1>4. Elements(buffer) \subseteq Outcomes /\ \A o \in Outcomes : RunOf[o] \in Runs
  BY Zenon, HeldOutcomes, ShipperAssumption DEF ShipTypes, Outcomes
<1>5. ShipTypes'
  BY Zenon, <1>2 DEF ShipTypes
<1>6. HeldOnce'
  BY Zenon, <1>3, <1>4 DEF HeldOnce
<1>7. \A o \in Outcomes : ToPost(o)' => ToPost(o)
  BY Zenon, <1>3, <1>4 DEF ToPost
<1>8. QED BY Zenon, <1>5, <1>6, <1>7

\* The server stores the batch that is posted, once more.
LEMMA StoredCopies ==
  ASSUME ShipInv, posting \in Runs, Stored, NEW o \in Outcomes
  PROVE  /\ arrived' \in Seq(Outcomes) /\ Copies(o) \in Nat
         /\ Copies(o)' = Copies(o) + In(o, Elements(batches[posting]))
<1> USE DEF ShipInv
<1>1. arrived \in Seq(Outcomes) /\ batches[posting] \in Seq(Outcomes) /\ Once(batches[posting])
  BY Zenon DEF ShipTypes, HeldOnce
<1>2. arrived' = arrived \o batches[posting]
  BY Zenon DEF Stored
<1>3. arrived' \in Seq(Outcomes)
  BY <1>1, <1>2
<1>4. Copies(o) = CopiesIn(arrived, o) /\ Copies(o)' = CopiesIn(arrived', o)
  BY Zenon DEF Copies, CopiesIn, Places
<1>5. CopiesIn(arrived, o) \in Nat /\ CopiesIn(arrived \o batches[posting], o) = CopiesIn(arrived, o) + In(o, Elements(batches[posting]))
  BY Zenon, <1>1, BatchAddsOne
<1>6. QED BY Zenon, <1>2, <1>3, <1>4, <1>5

\* The outcome is in the batch that is posted: it is to be posted, and in no other place.
LEMMA PostedOutcome ==
  ASSUME ShipInv, posting \in Runs, NEW o \in Elements(batches[posting])
  PROVE  o \in Outcomes /\ o < next /\ RunOf[o] = posting /\ o \notin Elements(buffer) /\ ToPost(o)
<1>1. batches[posting] \in Seq(Outcomes)
  BY Zenon DEF ShipInv, ShipTypes
<1>2. o \in Outcomes
  BY Zenon, <1>1, HeldOutcomes
<1>3. o < next /\ RunOf[o] = posting
  BY Zenon DEF ShipInv, HeldOnce
<1>4. o \notin Elements(buffer)
  BY Zenon, <1>3 DEF ShipInv, HeldOnce
<1>5. QED BY Zenon, <1>2, <1>3, <1>4 DEF ToPost

\* An attempt of a post: the batch is stored and answered, stored without an answer, lost,
\* or refused.
LEMMA AttemptKeeps ==
  ASSUME ShipInv, Attempt
  PROVE  ShipInv'
<1> USE DEF ShipInv
<1>1. posting \in Runs
  BY Zenon DEF Attempt, ShipTypes
<1>2. ASSUME Retry
      PROVE  /\ UNCHANGED buffer /\ posting' \in {posting, NoRun}
             /\ batches' \in {batches, [batches EXCEPT ![posting] = <<>>]}
  BY Zenon, <1>2 DEF Retry, GiveUp, EndPost
<1>3. ASSUME EndPost
      PROVE  /\ UNCHANGED buffer /\ posting' \in {posting, NoRun}
             /\ batches' \in {batches, [batches EXCEPT ![posting] = <<>>]}
  BY Zenon, <1>3 DEF EndPost
<1>4. /\ next' = next /\ UNCHANGED buffer /\ posting' \in {posting, NoRun}
      /\ batches' \in {batches, [batches EXCEPT ![posting] = <<>>]}
  BY Zenon, <1>2, <1>3 DEF Attempt, Acknowledged, AnswerLost, RequestLost, Refused, GiveUp
<1>5. \A o \in Outcomes :
        /\ unheard[o] \in Nat
        /\ Copies(o) <= unheard[o] + 1 /\ (ToPost(o) => Copies(o) <= unheard[o])
  BY Zenon DEF CopiesDue, ShipTypes
<1>6. CASE Acknowledged
  <2>1. Stored /\ unheard' = unheard /\ batches'[posting] = <<>>
    <3>1. Stored /\ unheard' = unheard /\ batches' = [batches EXCEPT ![posting] = <<>>]
      BY Zenon, <1>6 DEF Acknowledged, EndPost
    <3>2. QED BY <1>1, <3>1 DEF ShipTypes
  <2>2. arrived' \in Seq(Outcomes)
    <3>1. arrived \in Seq(Outcomes) /\ batches[posting] \in Seq(Outcomes) /\ arrived' = arrived \o batches[posting]
      BY Zenon, <1>1, <2>1 DEF ShipTypes, Stored
    <3>2. QED BY <3>1
  <2>3. ShipTypes' /\ HeldOnce' /\ \A o \in Outcomes : ToPost(o)' => ToPost(o)
    <3>1. unheard' \in [Outcomes -> Nat]
      BY Zenon, <2>1 DEF ShipTypes
    <3>2. QED BY Zenon, <1>1, <1>4, <2>2, <3>1, PostHeld
  <2>4. ASSUME NEW o \in Outcomes
        PROVE  Copies(o)' <= unheard'[o] + 1 /\ (ToPost(o)' => Copies(o)' <= unheard'[o])
    <3>1. Copies(o) \in Nat /\ Copies(o)' = Copies(o) + In(o, Elements(batches[posting]))
      BY Zenon, <1>1, <2>1, StoredCopies
    <3>2. CASE o \in Elements(batches[posting])
      <4>1. o < next /\ RunOf[o] = posting /\ o \notin Elements(buffer) /\ ToPost(o)
        BY Zenon, <1>1, <3>2, PostedOutcome
      <4>2. ~(o >= next)
        BY <4>1 DEF ShipTypes, Outcomes
      <4>3. ~ToPost(o)'
        BY Zenon, <1>4, <2>1, <4>1, <4>2, NoElements DEF ToPost
      <4>4. In(o, Elements(batches[posting])) = 1
        BY Zenon, <3>2 DEF In
      <4>5. QED BY <1>5, <2>1, <3>1, <4>1, <4>3, <4>4
    <3>3. CASE o \notin Elements(batches[posting])
      <4>1. In(o, Elements(batches[posting])) = 0
        BY Zenon, <3>3 DEF In
      <4>2. QED BY <1>5, <2>1, <2>3, <3>1, <4>1
    <3>4. QED BY Zenon, <3>2, <3>3
  <2>5. CopiesDue'
    BY Zenon, <2>4 DEF CopiesDue
  <2>6. QED BY Zenon, <2>3, <2>5
<1>7. CASE AnswerLost
  <2>1. Stored
    BY Zenon, <1>7 DEF AnswerLost
  <2>2. \A o \in Outcomes : unheard'[o] = unheard[o] + In(o, Elements(batches[posting]))
    <3>1. Range(batches[posting]) = Elements(batches[posting])
      BY Zenon DEF Range, Elements
    <3>2. unheard' = [o \in Outcomes |-> IF o \in Elements(batches[posting]) THEN unheard[o] + 1 ELSE unheard[o]]
      BY Zenon, <1>7, <3>1 DEF AnswerLost
    <3>3. QED BY <1>5, <3>2 DEF In
  <2>3. unheard' \in [Outcomes -> Nat]
    <3>1. unheard' = [o \in Outcomes |-> unheard'[o]]
      BY Zenon, <1>7 DEF AnswerLost
    <3>2. \A o \in Outcomes : unheard'[o] \in Nat
      BY <1>5, <2>2 DEF In
    <3>3. QED BY Zenon, <3>1, <3>2
  <2>4. arrived' \in Seq(Outcomes)
    <3>1. arrived \in Seq(Outcomes) /\ batches[posting] \in Seq(Outcomes) /\ arrived' = arrived \o batches[posting]
      BY Zenon, <1>1, <2>1 DEF ShipTypes, Stored
    <3>2. QED BY <3>1
  <2>5. ShipTypes' /\ HeldOnce' /\ \A o \in Outcomes : ToPost(o)' => ToPost(o)
    BY Zenon, <1>1, <1>4, <2>3, <2>4, PostHeld
  <2>6. ASSUME NEW o \in Outcomes
        PROVE  Copies(o)' <= unheard'[o] + 1 /\ (ToPost(o)' => Copies(o)' <= unheard'[o])
    <3>1. Copies(o) \in Nat /\ Copies(o)' = Copies(o) + In(o, Elements(batches[posting]))
      BY Zenon, <1>1, <2>1, StoredCopies
    <3>2. In(o, Elements(batches[posting])) \in Nat
      BY DEF In
    <3>3. PICK d \in Nat : d = In(o, Elements(batches[posting]))
      BY Zenon, <3>2
    <3>4. Copies(o) \in Nat /\ Copies(o)' = Copies(o) + d /\ unheard'[o] = unheard[o] + d
      BY Zenon, <2>2, <3>1, <3>3
    <3>5. unheard[o] \in Nat /\ Copies(o) <= unheard[o] + 1 /\ (ToPost(o) => Copies(o) <= unheard[o])
      BY Zenon, <1>5
    <3>6. ToPost(o)' => ToPost(o)
      BY Zenon, <2>5
    <3>7. QED BY ONLY <3>3, <3>4, <3>5, <3>6
  <2>7. CopiesDue'
    BY Zenon, <2>6 DEF CopiesDue
  <2>8. QED BY Zenon, <2>5, <2>7
<1>8. CASE RequestLost \/ Refused
  <2>1. arrived' = arrived /\ unheard' = unheard
    BY Zenon, <1>8 DEF RequestLost, Refused
  <2>2. ShipTypes' /\ HeldOnce' /\ \A o \in Outcomes : ToPost(o)' => ToPost(o)
    <3>1. arrived' \in Seq(Outcomes) /\ unheard' \in [Outcomes -> Nat]
      BY Zenon, <2>1 DEF ShipTypes
    <3>2. QED BY Zenon, <1>1, <1>4, <3>1, PostHeld
  <2>3. QED BY Zenon, <2>1, <2>2, CopiesKept
<1>9. QED BY Zenon, <1>6, <1>7, <1>8 DEF Attempt

\* Every step of the shipper, the server and the shutdown keeps the invariant.
LEMMA ShipNextKeeps == ShipInv /\ [ShipNext]_shipperVars => ShipInv'
<1> SUFFICES ASSUME ShipInv, [ShipNext]_shipperVars PROVE ShipInv'
  OBVIOUS
<1>1. CASE Ship \/ Take \/ Attempt
  BY Zenon, <1>1, ShipKeeps, TakeKeeps, AttemptKeeps
<1>2. posting \in Runs \cup {NoRun}
  BY Zenon DEF ShipInv, ShipTypes
<1>3. CASE EndOfBuffer \/ FlushTick \/ ShipContextDone
  BY Zenon, <1>2, <1>3, ShipAside DEF EndOfBuffer, FlushTick, ShipContextDone
<1>4. CASE flush
  BY Zenon, <1>2, <1>4, ShipAside DEF flush, BeginPost
<1>5. CASE CancelWorker \/ Close \/ Exit \/ ShipFinished \/ UNCHANGED shipperVars
  BY Zenon, <1>2, <1>5, ShipAside DEF CancelWorker, Close, Exit, ShipFinished, shipperVars, shipVars
<1>6. QED BY Zenon, <1>1, <1>3, <1>4, <1>5 DEF ShipNext, RunStep

\* The server has an outcome twice only if an answer was lost, one copy for each: retries,
\* flushes, the drain at the end and the shutdown never post an outcome that the shipper
\* has heard to be stored, for any runs, outcomes, batch size, buffer and retries.
THEOREM CopiesAlwaysExplained == ShipInit /\ [][ShipNext]_shipperVars => []CopiesExplained
<1>1. ShipInv => CopiesExplained
  <2>1. ASSUME ShipInv, NEW o \in Outcomes PROVE Copies(o) <= 1 + unheard[o]
    <3>1. Copies(o) <= unheard[o] + 1 /\ unheard[o] \in Nat
      BY Zenon, <2>1 DEF ShipInv, CopiesDue, ShipTypes
    <3>2. QED BY <3>1
  <2>2. QED BY Zenon, <2>1 DEF CopiesExplained
<1>2. QED BY <1>1, ShipStart, ShipNextKeeps, PTL
=============================================================================
