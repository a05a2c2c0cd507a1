-------------------------- MODULE SessionPoolProofs --------------------------
(***************************************************************************)
(* The steps of the session pool, for any number of clients and sessions   *)
(* and any size of the pool: what it hands out, whom it wakes, and which   *)
(* connections are left when it is closed.                                 *)
(***************************************************************************)
EXTENDS SessionPool, TLAPS

-----------------------------------------------------------------------------
(* The inductive invariant.                                                *)

\* Where a client is without a session, and where it has one.
Without == {"idle", "entered", "waiting", "woken", "connecting"}
With == {"created", "adding", "using", "returning", "releasing", "looked",
         "dropping", "taking", "tracking", "rejecting", "borrowing", "parking"}
\* Where a client has p.mu between two steps.
Holding == {"borrowing", "parking"}

ClientTypes ==
  /\ setup \in Setup
  /\ at \in [Clients -> Without \cup With]
  /\ mine \in [Clients -> Sessions \cup {None}]
  /\ closing \in {"open", "flagged", "stopped", "done"}
  /\ overtaken \in BOOLEAN

PoolTypes ==
  /\ conn \in [Sessions -> BOOLEAN]
  /\ idle \in Seq(Sessions)
  /\ inUse \subseteq Sessions /\ IsFiniteSet(inUse)
  /\ pending \in Nat
  /\ evict \in [at : {"idle", "due", "remove"}, s : Sessions \cup {None},
               reason : {"none", "ttl", "idle"}]

\* A client has a session exactly where it should have one.
Hands == \A c \in Clients : mine[c] = None <=> at[c] \in Without

\* The pool's places are disjoint: the list, the map of those in use, and the
\* new sessions that neither the pool nor the evictor knows.
Apart ==
  /\ IsInjective(idle)
  /\ Range(idle) \cap inUse = {}
  /\ \A c \in Clients : mine[c] # None =>
       /\ mine[c] \notin Range(idle)
       /\ \A d \in Clients \ {c} : mine[d] # mine[c]
  /\ \A c \in Clients : at[c] \in {"created", "adding"} =>
       mine[c] \notin inUse \cup tracked \cup {evict.s}

\* A session on its way between the list and its client is not in the map.
OnTheWay == \A c \in Clients : at[c] \in Holding => mine[c] \notin inUse

\* In an open pool what clients use is in the map, and what they use or could take
\* has a connection.
OpenPool ==
  /\ \A c \in Clients : at[c] \notin Without \cup Holding \cup {"created", "adding"} => mine[c] \in inUse
  /\ \A c \in Clients : mine[c] # None => conn[mine[c]]
  /\ \A s \in Range(idle) : conn[s]

\* As many clients are on their way to look as there are sessions to take, and
\* as there is room, not counting what a client with p.mu is moving.
Awake ==
  Waiting # {} =>
    /\ Len(idle) <= Cardinality(Woken)
    /\ setup.maxSize - Cardinality(inUse) - pending <= Cardinality(Woken) + Cardinality(Holders)

\* Unless Close was called under a client, nobody is inside a closed manager.
Quiet ==
  /\ Closed /\ ~overtaken => \A c \in Clients : at[c] = "idle"
  /\ ~Closed => ~overtaken

\* The open connections of a pool are where Close finds them, or in use.
PoolKept ==
  ~overtaken => \A s \in Sessions : conn[s] =>
    closing # "done" /\ (s \in Range(idle) \cup inUse \/ \E c \in Clients : mine[c] = s)

PoolLists == Apart /\ OnTheWay /\ (~Closed => OpenPool) /\ PoolKept

PoolInv == ClientTypes /\ PoolTypes /\ Hands /\ Quiet /\ Awake /\ PoolLists

-----------------------------------------------------------------------------
(* The operators of the pool.                                              *)

\* What the lemmas on the pool use of finite sets and of sets of naturals. They
\* take it as a hypothesis, which SetFactsHold of SessionManagerProofs discharges.
SetFacts ==
  /\ IsFiniteSet({}) /\ Cardinality({}) = 0
  /\ \A S : IsFiniteSet(S) =>
       /\ Cardinality(S) \in Nat
       /\ \A R \in SUBSET S : IsFiniteSet(R)
       /\ \A x : IsFiniteSet(S \cup {x}) /\ IsFiniteSet(S \ {x})
       /\ \A x : Cardinality(S \cup {x}) = IF x \in S THEN Cardinality(S) ELSE Cardinality(S) + 1
       /\ \A x : Cardinality(S \ {x}) = IF x \in S THEN Cardinality(S) - 1 ELSE Cardinality(S)
  /\ \A I \in SUBSET Nat : I # {} => Min(I) \in I /\ \A y \in I : Min(I) <= y

\* Finite sets grow and shrink by one: what the counts of sleeping clients and
\* of sessions in use rest on.
LEMMA OneMore ==
  ASSUME SetFacts, NEW S, NEW x, IsFiniteSet(S)
  PROVE  /\ IsFiniteSet(S \cup {x}) /\ IsFiniteSet(S \ {x})
         /\ Cardinality(S) \in Nat
         /\ Cardinality(S \cup {x}) = IF x \in S THEN Cardinality(S) ELSE Cardinality(S) + 1
         /\ Cardinality(S \ {x}) = IF x \in S THEN Cardinality(S) - 1 ELSE Cardinality(S)
BY Zenon DEF SetFacts

\* One element less.
LEMMA OneLess ==
  ASSUME SetFacts, NEW S, IsFiniteSet(S), NEW x \in S, NEW R, R = S \ {x}
  PROVE  Cardinality(R) = Cardinality(S) - 1
<1>1. Cardinality(S \ {x}) = IF x \in S THEN Cardinality(S) - 1 ELSE Cardinality(S)
  BY Zenon, OneMore
<1> QED BY <1>1

\* The room of a pool of m with u sessions in use and p reservations is matched by
\* w clients awake and h with p.mu.
Matched(m, u, p, w, h) ==
  /\ m \in Nat /\ u \in Nat /\ p \in Nat /\ w \in Nat /\ h \in Nat
  /\ m - u - p <= w + h

\* It stays so as long as the four together do not become fewer.
LEMMA Balance ==
  ASSUME NEW m, NEW u, NEW p, NEW w, NEW h, Matched(m, u, p, w, h),
         NEW v \in Nat, NEW q \in Nat, NEW k \in Nat, NEW g \in Nat,
         u + p + w + h <= v + q + k + g
  PROVE  m - v - q <= k + g
BY DEF Matched

\* One client more is awake when one session less is in use or on its way.
LEMMA OneMoreAwake ==
  ASSUME NEW u \in Nat, NEW p \in Nat, NEW w \in Nat, NEW h \in Nat,
         NEW v \in Nat, NEW k \in Nat, NEW g \in Nat, v + g >= u + h - 1, k = w + 1
  PROVE  u + p + w + h <= v + p + k + g
OBVIOUS

\* The size of the map of sessions in use is a number.
LEMMA Count ==
  ASSUME SetFacts, NEW S, IsFiniteSet(S)
  PROVE  Cardinality(S) \in Nat
BY Zenon DEF SetFacts

\* A set of naturals has a least element: the place where a search of a list ends.
LEMMA LeastOf ==
  ASSUME SetFacts, NEW I \in SUBSET Nat, I # {}
  PROVE  Min(I) \in I /\ \A y \in I : Min(I) <= y
BY Zenon DEF SetFacts

\* A list of sessions seen through its places.
LEMMA Places ==
  ASSUME NEW q \in Seq(Sessions)
  PROVE  /\ Len(q) \in Nat /\ DOMAIN q = 1 .. Len(q) /\ Range(q) \subseteq Sessions
         /\ \A x : x \in Range(q) <=> \E i \in 1 .. Len(q) : q[i] = x
         /\ IsInjective(q) <=> \A i, j \in 1 .. Len(q) : q[i] = q[j] => i = j
<1>1. Len(q) \in Nat /\ DOMAIN q = 1 .. Len(q)
  OBVIOUS
<1>2. \A x : x \in Range(q) <=> \E i \in 1 .. Len(q) : q[i] = x
  BY Zenon, <1>1 DEF Range
<1>3. IsInjective(q) <=> \A i, j \in 1 .. Len(q) : q[i] = q[j] => i = j
  BY Zenon, <1>1 DEF IsInjective
<1>4. \A i \in 1 .. Len(q) : q[i] \in Sessions
  OBVIOUS
<1>5. Range(q) \subseteq Sessions
  BY Zenon, <1>2, <1>4
<1> QED BY Zenon, <1>1, <1>2, <1>3, <1>5

\* The list after one of its sessions was taken out, which is there once.
LEMMA RemovedFacts ==
  ASSUME SetFacts, idle \in Seq(Sessions), IsInjective(idle), NEW s, NEW r, r = Removed(s)
  PROVE  /\ r \in Seq(Sessions) /\ Len(r) <= Len(idle) /\ IsInjective(r)
         /\ Range(r) = Range(idle) \ {s}
<1> DEFINE I == {i \in DOMAIN idle : idle[i] = s}
<1>1. CASE I = {}
  <2>1. r = idle /\ s \notin Range(idle)
    BY <1>1, Places DEF Removed
  <2> QED BY <2>1
<1>2. CASE I # {}
  <2> DEFINE k == Min(I)
  <2>1. k \in I
    <3>1. I \in SUBSET Nat
      OBVIOUS
    <3> HIDE DEF I
    <3> QED BY <1>2, <3>1, LeastOf
  <2>2. r = SubSeq(idle, 1, k - 1) \o SubSeq(idle, k + 1, Len(idle))
    BY Zenon, <1>2 DEF Removed
  <2> HIDE DEF k
  <2>3. k \in 1 .. Len(idle) /\ idle[k] = s
    BY <2>1
  <2> HIDE DEF I
  <2> DEFINE a == SubSeq(idle, 1, k - 1)
             b == SubSeq(idle, k + 1, Len(idle))
  <2>4. /\ a \in Seq(Sessions) /\ Len(a) = k - 1 /\ \A i \in 1 .. k - 1 : a[i] = idle[i]
        /\ b \in Seq(Sessions) /\ Len(b) = Len(idle) - k /\ \A i \in 1 .. Len(idle) - k : b[i] = idle[k + i]
    BY <2>3
  <2>5. r = a \o b
    BY <2>2
  <2> HIDE DEF a, b
  <2>6. /\ r \in Seq(Sessions) /\ Len(r) = Len(a) + Len(b)
        /\ \A i \in 1 .. Len(a) + Len(b) : r[i] = IF i <= Len(a) THEN a[i] ELSE b[i - Len(a)]
    <3>1. a \in Seq(Sessions) /\ b \in Seq(Sessions)
      BY <2>4
    <3>2. /\ a \o b \in Seq(Sessions) /\ Len(a \o b) = Len(a) + Len(b)
          /\ \A i \in 1 .. Len(a) + Len(b) : (a \o b)[i] = IF i <= Len(a) THEN a[i] ELSE b[i - Len(a)]
      BY <3>1
    <3> QED BY Zenon, <2>5, <3>2
  <2>7. Len(r) = Len(idle) - 1
    BY <2>3, <2>4, <2>6
  <2>8. ASSUME NEW i \in 1 .. Len(idle) - 1 PROVE r[i] = IF i < k THEN idle[i] ELSE idle[i + 1]
    <3>1. r[i] = IF i <= k - 1 THEN a[i] ELSE b[i - (k - 1)]
      BY <2>3, <2>4, <2>6
    <3>2. CASE i < k
      BY <2>3, <2>4, <3>1, <3>2
    <3>3. CASE ~(i < k)
      <4>1. i - (k - 1) \in 1 .. Len(idle) - k /\ k + (i - (k - 1)) = i + 1 /\ ~(i <= k - 1)
        BY <2>3, <3>3
      <4> QED BY <2>4, <3>1, <3>3, <4>1
    <3> QED BY <3>2, <3>3
  <2>9. \A i, j \in 1 .. Len(idle) : idle[i] = idle[j] => i = j
    BY Places
  <2>10. IsInjective(r)
    <3>1. \A i, j \in 1 .. Len(r) : r[i] = r[j] => i = j
      BY <2>3, <2>7, <2>8, <2>9
    <3> QED BY <2>6, <3>1, Places
  <2>11. \A i \in 1 .. Len(r) : r[i] # s /\ \E j \in 1 .. Len(idle) : idle[j] = r[i]
    BY <2>3, <2>7, <2>8, <2>9
  <2>12. ASSUME NEW j \in 1 .. Len(idle), idle[j] # s PROVE \E i \in 1 .. Len(r) : r[i] = idle[j]
    <3>1. CASE j < k
      <4>1. j \in 1 .. Len(idle) - 1 /\ r[j] = idle[j]
        BY <2>3, <2>8, <3>1
      <4> QED BY <2>7, <4>1
    <3>2. CASE j > k
      <4>1. j - 1 \in 1 .. Len(idle) - 1 /\ ~(j - 1 < k) /\ (j - 1) + 1 = j
        BY <2>3, <3>2
      <4>2. r[j - 1] = idle[j]
        BY <2>8, <4>1
      <4> QED BY <2>7, <4>1, <4>2
    <3> QED BY <2>3, <2>12, <3>1, <3>2
  <2>13. \A x : x \in Range(r) <=> x \in Range(idle) /\ x # s
    <3>1. \A x : x \in Range(r) <=> \E i \in 1 .. Len(r) : r[i] = x
      BY Zenon, <2>6, Places
    <3>2. \A x : x \in Range(idle) <=> \E i \in 1 .. Len(idle) : idle[i] = x
      BY Places
    <3>3. \A j \in 1 .. Len(idle) : idle[j] # s => \E i \in 1 .. Len(r) : r[i] = idle[j]
      BY <2>12
    <3>4. ASSUME NEW x, x \in Range(r) PROVE x \in Range(idle) /\ x # s
      BY Zenon, <2>11, <3>1, <3>2, <3>4
    <3>5. ASSUME NEW x, x \in Range(idle), x # s PROVE x \in Range(r)
      BY Zenon, <3>1, <3>2, <3>3, <3>5
    <3> QED BY Zenon, <3>4, <3>5
  <2>14. Len(r) <= Len(idle)
    BY <2>7
  <2> QED BY <2>6, <2>10, <2>13, <2>14
<1> QED BY <1>1, <1>2

\* The scan of Acquire: what is thrown out, what is taken and what stays in the
\* list are disjoint and make up the list.
LEMMA ScanFacts ==
  ASSUME SetFacts, idle \in Seq(Sessions), IsInjective(idle), Scan
  PROVE  /\ FirstLive \in 0 .. Len(idle)
         /\ idle' \in Seq(Sessions) /\ IsInjective(idle')
         /\ Discarded \subseteq Range(idle) /\ Range(idle') \subseteq Range(idle)
         /\ FirstLive = 0 => idle' = <<>> /\ Discarded = Range(idle)
         /\ FirstLive # 0 =>
              /\ Len(idle') < Len(idle)
              /\ idle[FirstLive] \in Range(idle)
              /\ idle[FirstLive] \notin Range(idle') \cup Discarded
              /\ Discarded \cap Range(idle') = {}
              /\ Range(idle) = Discarded \cup {idle[FirstLive]} \cup Range(idle')
<1> DEFINE I == Live
<1>1. FirstLive = IF I # {} THEN Min(I) ELSE 0
  BY DEF FirstLive
<1>2. I \in SUBSET Nat /\ \A i \in I : i \in 0 .. Len(idle)
  BY DEF Live
<1> HIDE DEF I
<1>3. FirstLive \in 0 .. Len(idle)
  <2>1. Len(idle) \in Nat
    OBVIOUS
  <2>2. I # {} => Min(I) \in I
    BY <1>2, LeastOf
  <2>3. 0 \in 0 .. Len(idle)
    BY <2>1
  <2> QED BY Zenon, <1>1, <1>2, <2>2, <2>3
<1>4. CASE FirstLive = 0
  <2>1. idle' = <<>> /\ Discarded = Range(SubSeq(idle, 1, Len(idle)))
    BY <1>4 DEF Scan, Discarded
  <2>2. Range(SubSeq(idle, 1, Len(idle))) = Range(idle)
    <3> DEFINE q == SubSeq(idle, 1, Len(idle))
    <3>1. q \in Seq(Sessions) /\ Len(q) = Len(idle) /\ \A i \in 1 .. Len(idle) : q[i] = idle[i]
      OBVIOUS
    <3> HIDE DEF q
    <3>2. /\ \A x : x \in Range(q) <=> \E i \in 1 .. Len(idle) : q[i] = x
          /\ \A x : x \in Range(idle) <=> \E i \in 1 .. Len(idle) : idle[i] = x
      BY Zenon, <3>1, Places
    <3>3. Range(q) = Range(idle)
      BY Zenon, <3>1, <3>2
    <3> QED BY <3>3 DEF q
  <2>3. idle' \in Seq(Sessions) /\ Len(idle') = 0
    BY <2>1
  <2>4. IsInjective(idle') /\ \A x : x \notin Range(idle')
    BY <2>1 DEF IsInjective, Range
  <2> QED BY Zenon, <1>3, <1>4, <2>1, <2>2, <2>3, <2>4
<1>5. CASE FirstLive # 0
  <2> DEFINE k == FirstLive
             a == SubSeq(idle, 1, k - 1)
             b == SubSeq(idle, k + 1, Len(idle))
  <2>1. k \in 1 .. Len(idle) /\ idle' = b /\ Discarded = Range(a)
    BY <1>3, <1>5 DEF Scan, Discarded
  <2> HIDE DEF k
  <2>2. /\ a \in Seq(Sessions) /\ Len(a) = k - 1 /\ \A i \in 1 .. k - 1 : a[i] = idle[i]
        /\ b \in Seq(Sessions) /\ Len(b) = Len(idle) - k
        /\ \A i \in 1 .. Len(idle) - k : b[i] = idle[k + i]
    BY <2>1
  <2> HIDE DEF a, b
  <2>3. \A i, j \in 1 .. Len(idle) : idle[i] = idle[j] => i = j
    BY Places
  <2>4. IsInjective(b)
    <3>1. \A i, j \in 1 .. Len(b) : b[i] = b[j] => i = j
      <4>1. ASSUME NEW i \in 1 .. Len(b), NEW j \in 1 .. Len(b), b[i] = b[j] PROVE i = j
        <5>1. k + i \in 1 .. Len(idle) /\ k + j \in 1 .. Len(idle)
          BY <2>1, <2>2
        <5>2. idle[k + i] = idle[k + j]
          BY <2>2, <4>1
        <5>3. k + i = k + j
          BY <2>3, <5>1, <5>2
        <5> QED BY <2>1, <2>2, <5>3
      <4> QED BY <4>1
    <3> QED BY <2>2, <3>1, Places
  <2>5. \A x : x \in Range(a) <=> \E i \in 1 .. Len(idle) : i < k /\ idle[i] = x
    <3>1. \A x : x \in Range(a) <=> \E i \in 1 .. k - 1 : a[i] = x
      BY <2>2, Places
    <3>2. \A i : i \in 1 .. k - 1 <=> i \in 1 .. Len(idle) /\ i < k
      BY <2>1
    <3> QED BY Zenon, <2>2, <3>1, <3>2
  <2>6. \A x : x \in Range(b) <=> \E i \in 1 .. Len(idle) : i > k /\ idle[i] = x
    <3>1. \A x : x \in Range(b) <=> \E i \in 1 .. Len(idle) - k : b[i] = x
      BY <2>2, Places
    <3>2. \A i \in 1 .. Len(idle) - k : k + i \in 1 .. Len(idle) /\ k + i > k
      BY <2>1
    <3>3. \A i \in 1 .. Len(idle) : i > k => i - k \in 1 .. Len(idle) - k /\ k + (i - k) = i
      BY <2>1
    <3> QED BY <2>2, <3>1, <3>2, <3>3
  <2>7. \A x : x \in Range(idle) <=> \E i \in 1 .. Len(idle) : idle[i] = x
    BY Places
  <2>8. \A i \in 1 .. Len(idle) : i < k \/ i = k \/ i > k
    BY <2>1
  <2>9. /\ Range(a) \subseteq Range(idle) /\ Range(b) \subseteq Range(idle)
        /\ idle[k] \in Range(idle)
        /\ Range(idle) \subseteq Range(a) \cup {idle[k]} \cup Range(b)
    BY <2>1, <2>5, <2>6, <2>7, <2>8
  <2>10. idle[k] \notin Range(a) \cup Range(b) /\ Range(a) \cap Range(b) = {}
    BY <2>1, <2>3, <2>5, <2>6
  <2>11. Len(b) < Len(idle)
    BY <2>1, <2>2
  <2> QED BY <1>3, <1>5, <2>1, <2>2, <2>4, <2>9, <2>10, <2>11 DEF k
<1> QED BY <1>3, <1>4, <1>5

-----------------------------------------------------------------------------
(* The condition variable.                                                 *)

\* There are finitely many clients, so their sets can be counted.
LEMMA Counted ==
  ASSUME SetFacts, NEW S \in SUBSET Clients
  PROVE  IsFiniteSet(S) /\ Cardinality(S) \in Nat
BY Zenon, ClientsAssumption DEF SetFacts

\* What one client's step makes of the clients that have p.mu.
LEMMA HoldersMove ==
  ASSUME SetFacts, NEW c \in Clients,
         \A d \in Clients \ {c} : at'[d] \in Holding <=> at[d] \in Holding
  PROVE  /\ Cardinality(Holders) \in Nat /\ Cardinality(Holders') \in Nat
         /\ (at'[c] \in Holding <=> at[c] \in Holding) => Holders' = Holders
         /\ at'[c] \in Holding /\ at[c] \notin Holding => Cardinality(Holders') = Cardinality(Holders) + 1
         /\ at'[c] \notin Holding /\ at[c] \in Holding => Cardinality(Holders') = Cardinality(Holders) - 1
<1>1. IsFiniteSet(Holders) /\ Cardinality(Holders) \in Nat /\ Cardinality(Holders') \in Nat
  BY Counted DEF Holders
<1>2. Holders = {d \in Clients : at[d] \in Holding} /\ Holders' = {d \in Clients : at'[d] \in Holding}
  BY DEF Holders, Holding
<1>3. (at'[c] \in Holding <=> at[c] \in Holding) => Holders' = Holders
  BY Zenon, <1>2
<1>4. at'[c] \in Holding /\ at[c] \notin Holding => Holders' = Holders \cup {c} /\ c \notin Holders
  BY <1>2
<1>5. at'[c] \notin Holding /\ at[c] \in Holding => Holders' = Holders \ {c} /\ c \in Holders
  BY <1>2
<1>6. ASSUME at'[c] \in Holding, at[c] \notin Holding PROVE Cardinality(Holders') = Cardinality(Holders) + 1
  BY Zenon, <1>1, <1>4, <1>6, OneMore
<1>7. ASSUME at'[c] \notin Holding, at[c] \in Holding PROVE Cardinality(Holders') = Cardinality(Holders) - 1
  BY Zenon, <1>1, <1>5, <1>7, OneLess
<1> QED BY Zenon, <1>1, <1>3, <1>6, <1>7

\* A client that was not waiting goes elsewhere than to sleep.
LEMMA OneMoves ==
  ASSUME SetFacts, at \in [Clients -> Without \cup With], NEW c \in Clients, NEW x \in Without \cup With,
         at[c] # "waiting", x \notin {"waiting", "woken"}, at' = [at EXCEPT ![c] = x]
  PROVE  /\ at' \in [Clients -> Without \cup With]
         /\ at'[c] = x /\ \A d \in Clients \ {c} : at'[d] = at[d]
         /\ Waiting' = Waiting
         /\ Cardinality(Woken) \in Nat
         /\ Cardinality(Woken') = IF at[c] = "woken" THEN Cardinality(Woken) - 1 ELSE Cardinality(Woken)
         /\ at[c] \notin Holding /\ x \notin Holding => Holders' = Holders
<1>1. /\ at' \in [Clients -> Without \cup With]
      /\ at'[c] = x /\ \A d \in Clients \ {c} : at'[d] = at[d]
  OBVIOUS
<1>2. Waiting' = Waiting
  BY <1>1 DEF Waiting
<1>3. Woken' = Woken \ {c} /\ (c \in Woken <=> at[c] = "woken")
  BY <1>1 DEF Woken
<1>4. IsFiniteSet(Woken)
  BY Counted DEF Woken
<1>5. at[c] \notin Holding /\ x \notin Holding => Holders' = Holders
  BY Zenon, <1>1, HoldersMove
<1> QED BY Zenon, <1>1, <1>2, <1>3, <1>4, <1>5, OneMore

\* What everyone else sees of a step that wakes sleeping clients, if any.
LEMMA SignalFacts ==
  ASSUME SetFacts, at \in [Clients -> Without \cup With], NEW f \in [Clients -> Without \cup With],
         \A d \in Clients : f[d] = "waiting" <=> at[d] = "waiting",
         \A d \in Clients : f[d] = "woken" <=> at[d] = "woken",
         Signal(f)
  PROVE  /\ at' \in [Clients -> Without \cup With]
         /\ \A d \in Clients : at'[d] = f[d] \/ (f[d] = "waiting" /\ at'[d] = "woken")
         /\ Cardinality(Woken) \in Nat
         /\ Waiting' # {} => Waiting # {} /\ Cardinality(Woken') = Cardinality(Woken) + 1
<1>1. IsFiniteSet(Woken) /\ Cardinality(Woken) \in Nat
  BY Counted DEF Woken
<1>2. CASE Waiting = {} /\ at' = f
  BY <1>1, <1>2 DEF Waiting
<1>3. CASE \E d \in Waiting : at' = [f EXCEPT ![d] = "woken"]
  <2>1. PICK d \in Clients : at[d] = "waiting" /\ at' = [f EXCEPT ![d] = "woken"]
    BY Zenon, <1>3 DEF Waiting
  <2>2. /\ at' \in [Clients -> Without \cup With]
        /\ at'[d] = "woken" /\ \A e \in Clients \ {d} : at'[e] = f[e]
    BY <2>1 DEF Without
  <2>3. Woken' = Woken \cup {d} /\ d \notin Woken /\ d \in Waiting
    BY <2>1, <2>2 DEF Woken, Waiting
  <2>4. Cardinality(Woken') = Cardinality(Woken) + 1
    BY Zenon, <1>1, <2>3, OneMore
  <2> QED BY <1>1, <2>1, <2>2, <2>3, <2>4
<1> QED BY <1>2, <1>3 DEF Signal

\* A broadcast leaves nobody asleep.
LEMMA BroadcastFacts ==
  ASSUME at \in [Clients -> Without \cup With], Broadcast(at)
  PROVE  /\ at' \in [Clients -> Without \cup With]
         /\ \A d \in Clients : at'[d] = at[d] \/ (at[d] = "waiting" /\ at'[d] = "woken")
         /\ Waiting' = {}
<1>1. \A d \in Clients : at'[d] = IF at[d] = "waiting" THEN "woken" ELSE at[d]
  BY DEF Broadcast
<1>2. at' \in [Clients -> Without \cup With]
  BY DEF Broadcast, Without
<1> QED BY <1>1, <1>2 DEF Waiting

-----------------------------------------------------------------------------
(* The steps of a client of the pool.                                      *)

\* What a step of one client leaves of the others: their sessions, and their
\* places but for one that is woken.
Others(c) ==
  \A d \in Clients \ {c} :
    /\ mine'[d] = mine[d]
    /\ at'[d] = at[d] \/ (at[d] = "waiting" /\ at'[d] = "woken")

\* What holds of the clients whatever the mode, after a step of one of them that
\* has it in the right place.
LEMMA ClientKept ==
  ASSUME ClientTypes, Hands, Quiet, NEW c \in Clients, at[c] # "idle",
         at' \in [Clients -> Without \cup With], mine' \in [Clients -> Sessions \cup {None}],
         UNCHANGED <<closing, overtaken, setup>>,
         Others(c), mine'[c] = None <=> at'[c] \in Without
  PROVE  ClientTypes' /\ Hands' /\ Quiet' /\ (~Closed \/ overtaken)
<1>1. ClientTypes'
  BY DEF ClientTypes
<1>2. Hands'
  BY DEF Hands, Others, Without
<1>3. ~Closed \/ overtaken
  BY DEF Quiet
<1> QED BY <1>1, <1>2, <1>3 DEF Quiet, Closed

\* Acquire of a client that finds the pool closed.
LEMMA AcquireRefused ==
  ASSUME SetFacts, PoolInv, NEW c \in Clients, at[c] = "entered",
         at' = [at EXCEPT ![c] = "idle"],
         UNCHANGED <<poolVars, mine, sessionVars, tracked, evict, closeVars, setup>>
  PROVE  PoolInv'
<1>1. /\ at' \in [Clients -> Without \cup With]
      /\ at'[c] = "idle" /\ \A d \in Clients \ {c} : at'[d] = at[d]
      /\ Waiting' = Waiting /\ Cardinality(Woken') = Cardinality(Woken) /\ Holders' = Holders
  BY Zenon, OneMoves DEF PoolInv, ClientTypes, Without, Holding
<1>2. UNCHANGED <<mine, conn, idle, inUse, pending, tracked, evict, closing, overtaken, setup>>
  BY DEF poolVars, sessionVars, closeVars
<1>3. ClientTypes' /\ Hands' /\ Quiet'
  BY <1>1, <1>2, ClientKept DEF PoolInv, ClientTypes, Hands, Others, Without
<1>4. PoolTypes' /\ Awake'
  BY <1>1, <1>2 DEF PoolInv, PoolTypes, Awake
<1>5. Apart' /\ OnTheWay'
  BY <1>1, <1>2 DEF PoolInv, PoolLists, Apart, OnTheWay, Holding
<1>6. ~Closed => OpenPool'
  BY <1>1, <1>2 DEF PoolInv, PoolLists, OpenPool, Without
<1>7. PoolKept'
  BY <1>1, <1>2 DEF PoolInv, PoolLists, PoolKept
<1> QED BY <1>2, <1>3, <1>4, <1>5, <1>6, <1>7 DEF PoolInv, PoolLists, Closed

\* Acquire of a client that finds a live session in the list.
LEMMA AcquireTakes ==
  ASSUME SetFacts, PoolInv, NEW c \in Clients, at[c] \in {"entered", "woken"},
         Scan, FirstLive # 0, NEW s, s = idle[FirstLive],
         mine' = [mine EXCEPT ![c] = s], at' = [at EXCEPT ![c] = "borrowing"],
         UNCHANGED <<pending, inUse, evict, closeVars, setup>>
  PROVE  PoolInv'
<1>1. /\ at' \in [Clients -> Without \cup With]
      /\ at'[c] = "borrowing" /\ \A d \in Clients \ {c} : at'[d] = at[d]
      /\ Waiting' = Waiting /\ Cardinality(Woken) \in Nat
      /\ Cardinality(Woken') \in {Cardinality(Woken), Cardinality(Woken) - 1}
  BY Zenon, OneMoves DEF PoolInv, ClientTypes, With
<1>2. UNCHANGED <<pending, inUse, evict, closing, overtaken, setup>>
  BY DEF closeVars
<1>3. /\ idle \in Seq(Sessions) /\ IsInjective(idle) /\ conn \in [Sessions -> BOOLEAN]
      /\ inUse \subseteq Sessions /\ IsFiniteSet(inUse) /\ pending \in Nat
      /\ Range(idle) \cap inUse = {}
  BY DEF PoolInv, PoolTypes, PoolLists, Apart
<1>4. /\ idle' \in Seq(Sessions) /\ IsInjective(idle')
      /\ Discarded \subseteq Range(idle) /\ Range(idle') \subseteq Range(idle)
      /\ Len(idle') < Len(idle)
      /\ s \in Range(idle) /\ s \notin Range(idle') \cup Discarded
      /\ Discarded \cap Range(idle') = {}
      /\ Range(idle) = Discarded \cup {s} \cup Range(idle')
  BY <1>3, ScanFacts
<1>5. s \in Sessions /\ s # None /\ s \notin inUse
  BY <1>3, <1>4, Places, NoneAssumption
<1>6. /\ mine' \in [Clients -> Sessions \cup {None}]
      /\ mine'[c] = s /\ \A d \in Clients \ {c} : mine'[d] = mine[d]
      /\ mine[c] = None
  BY <1>5 DEF PoolInv, ClientTypes, Hands, Without
<1>7. ClientTypes' /\ Hands' /\ Quiet' /\ (~Closed \/ overtaken)
  BY Zenon, <1>1, <1>2, <1>5, <1>6, ClientKept DEF PoolInv, Others, Without
<1>8. /\ conn' \in [Sessions -> BOOLEAN]
      /\ \A t \in Sessions : conn'[t] <=> conn[t] /\ t \notin Discarded
      /\ tracked' \subseteq tracked
  BY Zenon, <1>3 DEF Scan
<1>9. /\ Cardinality(inUse) \in Nat /\ Cardinality(Holders) \in Nat
      /\ Cardinality(Holders') = Cardinality(Holders) + 1
  <2>1. at'[c] \in Holding /\ at[c] \notin Holding
    BY <1>1 DEF Holding
  <2> QED BY Zenon, <1>1, <1>3, <2>1, Count, HoldersMove
<1>10. PoolTypes'
  BY <1>2, <1>3, <1>4, <1>8, <1>9 DEF PoolInv, PoolTypes
<1>11. Awake'
  <2>1. Len(idle) \in Nat /\ Len(idle') \in Nat /\ setup.maxSize \in Nat
    BY <1>3, <1>4 DEF PoolInv, ClientTypes, Setup
  <2>2. ASSUME Waiting' # {}
        PROVE  /\ Len(idle) <= Cardinality(Woken)
               /\ setup.maxSize - Cardinality(inUse) - pending <= Cardinality(Woken) + Cardinality(Holders)
    BY Zenon, <1>1, <2>2 DEF PoolInv, Awake
  <2>3. ASSUME Waiting' # {} PROVE Len(idle') <= Cardinality(Woken')
    BY <1>1, <1>4, <2>1, <2>2, <2>3
  <2>4. ASSUME Waiting' # {}
        PROVE  setup.maxSize - Cardinality(inUse) - pending <= Cardinality(Woken') + Cardinality(Holders')
    <3>1. Cardinality(Holders') = Cardinality(Holders) + 1 /\ Cardinality(inUse) \in Nat
          /\ Cardinality(Holders) \in Nat
          /\ pending \in Nat /\ Cardinality(Woken') >= Cardinality(Woken) - 1
          /\ Cardinality(Woken) \in Nat /\ Cardinality(Woken') \in Int
      BY <1>1, <1>3, <1>9
    <3>2. QED BY <2>1, <2>2, <2>4, <3>1
  <2>5. QED BY Zenon, <1>2, <2>3, <2>4 DEF Awake
<1>12. Apart'
  <2>1. Range(idle') \cap inUse' = {}
    BY <1>2, <1>3, <1>4
  <2>2. \A d \in Clients : mine'[d] # None =>
          mine'[d] \notin Range(idle') /\ \A e \in Clients \ {d} : mine'[e] # mine'[d]
    BY <1>4, <1>6 DEF PoolInv, PoolLists, Apart
  <2>3. \A d \in Clients : at'[d] \in {"created", "adding"} =>
          mine'[d] \notin inUse' \cup tracked' \cup {evict'.s}
    <3>1. ASSUME NEW d \in Clients, at'[d] \in {"created", "adding"}
          PROVE  mine'[d] \notin inUse' \cup tracked' \cup {evict'.s}
      <4>1. d # c /\ at[d] \in {"created", "adding"} /\ mine'[d] = mine[d] /\ mine[d] # None
        BY <1>1, <1>6, <3>1 DEF PoolInv, Hands, Without
      <4>2. mine[d] \notin inUse \cup tracked \cup {evict.s} /\ mine[d] # s
        BY <1>4, <4>1 DEF PoolInv, PoolLists, Apart
      <4> QED BY <1>2, <1>8, <4>1, <4>2
    <3> QED BY <3>1
  <2> QED BY <1>4, <2>1, <2>2, <2>3 DEF Apart
<1>13. ~Closed => OpenPool'
  <2> SUFFICES ASSUME OpenPool PROVE OpenPool'
    BY DEF PoolInv, PoolLists
  <2>1. \A d \in Clients : mine'[d] # None => conn'[mine'[d]]
    BY <1>4, <1>5, <1>6, <1>8 DEF PoolInv, ClientTypes, OpenPool, PoolLists, Apart, Without
  <2>2. \A t \in Range(idle') : t \in Sessions /\ conn'[t]
    BY <1>3, <1>4, <1>8, Places DEF OpenPool, Without
  <2> QED BY <1>1, <1>2, <1>6, <2>1, <2>2 DEF OpenPool, Without, Holding
<1>14. PoolKept'
  <2>1. ASSUME ~overtaken, NEW t \in Sessions, conn'[t]
        PROVE  closing # "done" /\ (t \in Range(idle') \cup inUse' \/ \E d \in Clients : mine'[d] = t)
    <3>1. t \notin Discarded /\ conn[t]
      BY <1>8, <2>1
    <3>2. closing # "done" /\ (t \in Range(idle) \cup inUse \/ \E d \in Clients : mine[d] = t)
      BY <2>1, <3>1 DEF PoolInv, PoolLists, PoolKept
    <3>3. ASSUME NEW d \in Clients, mine[d] = t PROVE mine'[d] = t
      BY <1>6, <3>3, NoneAssumption
    <3> QED BY <1>2, <1>4, <1>6, <3>1, <3>2, <3>3
  <2> QED BY <1>2, <2>1 DEF PoolKept
<1>15. OnTheWay'
  BY <1>1, <1>2, <1>5, <1>6 DEF PoolInv, PoolLists, OnTheWay, Holding
<1> QED BY <1>2, <1>7, <1>10, <1>11, <1>12, <1>13, <1>14, <1>15 DEF PoolInv, PoolLists, Closed

\* SetState(StateActive): the session is in the map, whatever the evictor made of it.
LEMMA BorrowKeeps ==
  ASSUME SetFacts, PoolInv, NEW c \in Clients, Borrow(c)
  PROVE  PoolInv'
<1>1. at[c] = "borrowing" /\ at' = [at EXCEPT ![c] = "using"] /\ inUse' = inUse \cup {mine[c]}
  BY DEF Borrow
<1>2. UNCHANGED <<mine, conn, idle, pending, tracked, evict, closing, overtaken, setup>>
  BY DEF Borrow, closeVars
<1>3. /\ at' \in [Clients -> Without \cup With]
      /\ at'[c] = "using" /\ \A d \in Clients \ {c} : at'[d] = at[d]
      /\ Waiting' = Waiting /\ Cardinality(Woken') = Cardinality(Woken)
      /\ Cardinality(Woken) \in Nat
  BY Zenon, <1>1, OneMoves DEF PoolInv, ClientTypes, With
<1>4. /\ mine[c] \in Sessions /\ mine[c] # None /\ mine[c] \notin inUse /\ mine[c] \notin Range(idle)
      /\ \A d \in Clients \ {c} : mine[d] # mine[c]
      /\ mine' \in [Clients -> Sessions \cup {None}]
  BY <1>1, <1>2 DEF PoolInv, ClientTypes, Hands, PoolLists, Apart, OnTheWay, Without, Holding
<1>5. /\ IsFiniteSet(inUse') /\ Cardinality(inUse) \in Nat
      /\ Cardinality(inUse') = Cardinality(inUse) + 1
  BY Zenon, <1>1, <1>4, OneMore DEF PoolInv, PoolTypes
<1>6. Cardinality(Holders) \in Nat /\ Cardinality(Holders') = Cardinality(Holders) - 1
  <2>1. at'[c] \notin Holding /\ at[c] \in Holding
    BY <1>1, <1>3 DEF Holding
  <2> QED BY Zenon, <1>3, <2>1, HoldersMove
<1>7. ClientTypes' /\ Hands' /\ Quiet'
  BY Zenon, <1>1, <1>2, <1>3, <1>4, ClientKept DEF PoolInv, Others, Without
<1>8. PoolTypes'
  BY <1>1, <1>2, <1>4, <1>5 DEF PoolInv, PoolTypes
<1>9. Awake'
  <2>1. Len(idle) \in Nat /\ setup.maxSize \in Nat /\ pending \in Nat
    BY DEF PoolInv, PoolTypes, ClientTypes, Setup
  <2> QED BY <1>2, <1>3, <1>5, <1>6, <2>1 DEF PoolInv, Awake
<1>10. Apart' /\ OnTheWay'
  BY <1>1, <1>2, <1>3, <1>4 DEF PoolInv, PoolLists, Apart, OnTheWay, Holding
<1>11. ~Closed => OpenPool'
  BY Zenon, <1>1, <1>2, <1>3 DEF PoolInv, PoolLists, OpenPool, Without
<1>12. PoolKept'
  <2>1. \A t \in Range(idle) \cup inUse : t \in Range(idle') \cup inUse'
    BY <1>1, <1>2
  <2> QED BY <1>2, <2>1 DEF PoolInv, PoolLists, PoolKept
<1> QED BY <1>2, <1>7, <1>8, <1>9, <1>10, <1>11, <1>12 DEF PoolInv, PoolLists, Closed

\* Acquire of a client that finds none: it reserves the room there is, or there is
\* none and it goes to sleep or gives up.
LEMMA AcquireFindsNone ==
  ASSUME SetFacts, PoolInv, NEW c \in Clients, at[c] \in {"entered", "woken"},
         Scan, FirstLive = 0, NEW x, at' = [at EXCEPT ![c] = x],
         \/ x = "connecting" /\ HasRoom /\ pending' = pending + 1
         \/ x \in {"idle", "waiting"} /\ ~HasRoom /\ pending' = pending,
         UNCHANGED <<mine, inUse, evict, closeVars, setup>>
  PROVE  PoolInv'
<1>1. /\ at' \in [Clients -> Without \cup With]
      /\ at'[c] = x /\ \A d \in Clients \ {c} : at'[d] = at[d]
      /\ x \in Without
  BY DEF PoolInv, ClientTypes, Without
<1>2. UNCHANGED <<mine, inUse, evict, closing, overtaken, setup>>
  BY DEF closeVars
<1>3. /\ idle \in Seq(Sessions) /\ IsInjective(idle) /\ conn \in [Sessions -> BOOLEAN]
      /\ inUse \subseteq Sessions /\ IsFiniteSet(inUse) /\ pending \in Nat
      /\ Cardinality(inUse) \in Nat /\ setup.maxSize \in Nat
  BY Count DEF PoolInv, ClientTypes, PoolTypes, PoolLists, Apart, Setup
<1>4. idle' = <<>> /\ idle' \in Seq(Sessions) /\ IsInjective(idle') /\ Discarded = Range(idle)
  BY Zenon, <1>3, ScanFacts
<1>5. Len(idle') = 0 /\ Range(idle') = {}
  BY <1>4 DEF Range
<1>held. Cardinality(Holders) \in Nat /\ Holders' = Holders
  <2>1. at'[c] \notin Holding /\ at[c] \notin Holding
    BY <1>1 DEF Holding, Without
  <2> QED BY Zenon, <1>1, <2>1, HoldersMove
<1>6. mine' \in [Clients -> Sessions \cup {None}] /\ mine[c] = None
  BY <1>2 DEF PoolInv, ClientTypes, Hands, Without
<1>7. ClientTypes' /\ Hands' /\ Quiet'
  BY Zenon, <1>1, <1>2, <1>6, ClientKept DEF PoolInv, Others, Without
<1>8. /\ conn' \in [Sessions -> BOOLEAN]
      /\ \A t \in Sessions : conn'[t] <=> conn[t] /\ t \notin Discarded
      /\ tracked' \subseteq tracked
  BY Zenon, <1>3 DEF Scan
<1>9. PoolTypes'
  BY <1>2, <1>3, <1>4, <1>8 DEF PoolInv, PoolTypes
<1>10. Awake'
  <2>1. CASE x = "connecting" /\ HasRoom /\ pending' = pending + 1
    <3>1. /\ Waiting' = Waiting /\ Cardinality(Woken) \in Nat
          /\ Cardinality(Woken') \in {Cardinality(Woken), Cardinality(Woken) - 1}
      BY Zenon, <1>1, <2>1, OneMoves DEF PoolInv, ClientTypes
    <3>2. setup.maxSize - Cardinality(inUse) - pending >= 1
      BY <1>3, <2>1 DEF HasRoom
    <3>3. Waiting' # {} => setup.maxSize - Cardinality(inUse) - pending <= Cardinality(Woken) + Cardinality(Holders)
      BY Zenon, <3>1 DEF PoolInv, Awake
    <3>4. Cardinality(Woken') \in Nat
      BY Counted DEF Woken
    <3>5. Waiting' # {} =>
            setup.maxSize - Cardinality(inUse) - pending' <= Cardinality(Woken') + Cardinality(Holders)
      <4>1. pending' = pending + 1 /\ pending' \in Nat /\ Cardinality(Woken') >= Cardinality(Woken) - 1
        BY <1>3, <2>1, <3>1
      <4>2. Cardinality(inUse) + pending + Cardinality(Woken) + Cardinality(Holders)
              <= Cardinality(inUse) + pending' + Cardinality(Woken') + Cardinality(Holders)
        BY <1>3, <1>held, <3>1, <3>4, <4>1
      <4>3. /\ setup.maxSize \in Nat /\ Cardinality(inUse) \in Nat /\ pending \in Nat /\ pending' \in Nat
            /\ Cardinality(Woken) \in Nat /\ Cardinality(Woken') \in Nat /\ Cardinality(Holders) \in Nat
        BY Zenon, <1>3, <1>held, <3>1, <3>4, <4>1
      <4> QED BY <3>3, <4>2, <4>3
    <3>6. Len(idle') <= Cardinality(Woken')
      BY <1>5, <3>4
    <3> QED BY Zenon, <1>2, <1>held, <3>5, <3>6 DEF Awake
  <2>2. CASE x \in {"idle", "waiting"} /\ ~HasRoom /\ pending' = pending
    <3>1. Cardinality(Woken') \in Nat
      BY Counted DEF Woken
    <3>2. setup.maxSize - Cardinality(inUse) - pending <= 0
      BY <1>3, <2>2 DEF HasRoom
    <3> QED BY <1>2, <1>3, <1>5, <1>held, <2>2, <3>1, <3>2 DEF Awake
  <2> QED BY <2>1, <2>2
<1>11. Apart'
  <2>1. \A d \in Clients : mine'[d] # None =>
          mine'[d] \notin Range(idle') /\ \A e \in Clients \ {d} : mine'[e] # mine'[d]
    BY <1>2, <1>5 DEF PoolInv, PoolLists, Apart
  <2>2. \A d \in Clients : at'[d] \in {"created", "adding"} =>
          mine'[d] \notin inUse' \cup tracked' \cup {evict'.s}
    BY <1>1, <1>2, <1>8 DEF PoolInv, PoolLists, Apart, Without
  <2> QED BY <1>4, <1>5, <2>1, <2>2 DEF Apart
<1>12. ~Closed => OpenPool'
  BY <1>1, <1>2, <1>4, <1>5, <1>6, <1>8 DEF PoolInv, ClientTypes, PoolLists, OpenPool, Apart, Without
<1>13. PoolKept' /\ OnTheWay'
  BY <1>1, <1>2, <1>4, <1>8 DEF PoolInv, PoolLists, PoolKept, OnTheWay, Without, Holding
<1> QED BY <1>2, <1>7, <1>9, <1>10, <1>11, <1>12, <1>13 DEF PoolInv, PoolLists, Closed

\* Every Acquire of the pool.
LEMMA AcquireKeeps ==
  ASSUME SetFacts, PoolInv, NEW c \in Clients, Acquire(c)
  PROVE  PoolInv'
<1>1. CASE /\ at[c] = "entered" /\ Closed
           /\ at' = [at EXCEPT ![c] = "idle"]
           /\ UNCHANGED <<poolVars, mine, sessionVars, tracked>>
  BY Zenon, <1>1, AcquireRefused DEF Acquire
<1>2. CASE /\ Scan /\ FirstLive # 0
           /\ LET s == idle[FirstLive]
              IN  mine' = [mine EXCEPT ![c] = s]
           /\ at' = [at EXCEPT ![c] = "borrowing"]
           /\ UNCHANGED <<inUse, pending>>
  BY Zenon, <1>2, AcquireTakes DEF Acquire
<1>3. CASE /\ Scan /\ FirstLive = 0 /\ HasRoom
           /\ pending' = pending + 1
           /\ at' = [at EXCEPT ![c] = "connecting"]
           /\ UNCHANGED <<inUse, mine>>
  BY Zenon, <1>3, AcquireFindsNone DEF Acquire
<1>4. CASE /\ Scan /\ FirstLive = 0 /\ ~HasRoom
           /\ at' = [at EXCEPT ![c] = IF c \in cancelled THEN "idle" ELSE "waiting"]
           /\ UNCHANGED <<inUse, pending, mine>>
  BY Zenon, <1>4, AcquireFindsNone DEF Acquire
<1> QED BY Zenon, <1>1, <1>2, <1>3, <1>4 DEF Acquire

\* The identity of a new session is nobody's.
LEMMA FreeFacts ==
  ASSUME setup \in Setup, NEW known, NEW s \in Free(known)
  PROVE  /\ s \in Sessions /\ s # None /\ s \notin known \cup tracked
         /\ s # evict.s /\ ~conn[s]
         /\ \A c \in Clients : mine[c] # s
<1> DEFINE free == {t \in setup.sessions \ (known \cup Held \cup tracked) : ~conn[t]}
<1>1. s \in free
  BY DEF Free
<1>2. setup.sessions \subseteq Sessions
  BY DEF Setup
<1> QED BY <1>1, <1>2, NoneAssumption DEF Held

\* What the handshake leaves of the connections.
LEMMA ConnectFacts ==
  ASSUME conn \in [Sessions -> BOOLEAN], NEW s \in Sessions \cup {None}, NEW h \in Handshakes,
         connectAndInitialize(s, h)
  PROVE  /\ conn' \in [Sessions -> BOOLEAN]
         /\ \A t \in Sessions \ {s} : conn'[t] = conn[t]
         /\ s \in Sessions => conn'[s] = Succeeds(h)
         /\ s \notin Sessions => conn' = conn
<1>1. Succeeds(h) \in BOOLEAN
  BY DEF Succeeds, ValidateNegotiation
<1> HIDE DEF Succeeds
<1>2. conn' = [conn EXCEPT ![s] = Succeeds(h)]
  BY DEF connectAndInitialize
<1> QED BY Zenon, <1>1, <1>2

\* createSession, when there is a session.
LEMMA CreateSucceeds ==
  ASSUME SetFacts, PoolInv, NEW c \in Clients, at[c] = "connecting",
         NEW s \in Free(Range(idle) \cup inUse), NEW h \in Handshakes, Succeeds(h),
         connectAndInitialize(s, h),
         mine' = [mine EXCEPT ![c] = s], at' = [at EXCEPT ![c] = "created"],
         UNCHANGED <<poolVars, tracked, evict, closeVars, setup>>
  PROVE  PoolInv'
<1>1. /\ at' \in [Clients -> Without \cup With]
      /\ at'[c] = "created" /\ \A d \in Clients \ {c} : at'[d] = at[d]
      /\ Waiting' = Waiting /\ Cardinality(Woken') = Cardinality(Woken) /\ Holders' = Holders
  BY Zenon, OneMoves DEF PoolInv, ClientTypes, With, Holding
<1>2. UNCHANGED <<idle, inUse, pending, tracked, evict, closing, overtaken, setup>>
  BY DEF poolVars, closeVars
<1>3. /\ s \in Sessions /\ s # None /\ s \notin Range(idle) \cup inUse \cup tracked
      /\ s # evict.s /\ \A d \in Clients : mine[d] # s
  BY Zenon, FreeFacts DEF PoolInv, ClientTypes
<1>4. /\ mine' \in [Clients -> Sessions \cup {None}]
      /\ mine'[c] = s /\ \A d \in Clients \ {c} : mine'[d] = mine[d]
      /\ mine[c] = None
  BY <1>3 DEF PoolInv, ClientTypes, Hands, Without
<1>5. ClientTypes' /\ Hands' /\ Quiet'
  BY <1>1, <1>2, <1>3, <1>4, ClientKept DEF PoolInv, Others, Without
<1>6. /\ conn' \in [Sessions -> BOOLEAN] /\ conn'[s]
      /\ \A t \in Sessions \ {s} : conn'[t] = conn[t]
  BY <1>3, ConnectFacts DEF PoolInv, PoolTypes
<1>7. PoolTypes' /\ Awake'
  BY <1>1, <1>2, <1>6 DEF PoolInv, PoolTypes, Awake
<1>8. Apart'
  <2>1. \A d \in Clients : mine'[d] # None =>
          mine'[d] \notin Range(idle') /\ \A e \in Clients \ {d} : mine'[e] # mine'[d]
    BY <1>2, <1>3, <1>4 DEF PoolInv, PoolLists, Apart
  <2>2. \A d \in Clients : at'[d] \in {"created", "adding"} =>
          mine'[d] \notin inUse' \cup tracked' \cup {evict'.s}
    BY <1>1, <1>2, <1>3, <1>4 DEF PoolInv, PoolLists, Apart
  <2> QED BY Zenon, <1>2, <2>1, <2>2 DEF PoolInv, PoolLists, Apart
<1>9. ~Closed => OpenPool'
  <2> SUFFICES ASSUME OpenPool PROVE OpenPool'
    BY DEF PoolInv, PoolLists
  <2>1. \A d \in Clients : mine'[d] # None => conn'[mine'[d]]
    BY Zenon, <1>3, <1>4, <1>6 DEF PoolInv, ClientTypes, OpenPool, Without
  <2>2. \A t \in Range(idle') : conn'[t]
    BY <1>2, <1>3, <1>6, Places DEF OpenPool, PoolInv, PoolTypes, Without
  <2> QED BY Zenon, <1>1, <1>2, <1>4, <2>1, <2>2 DEF OpenPool, Without
<1>way. OnTheWay'
  BY <1>1, <1>2, <1>4 DEF PoolInv, PoolLists, OnTheWay, Holding
<1>10. PoolKept'
  <2>1. ASSUME ~overtaken, NEW t \in Sessions, conn'[t]
        PROVE  closing # "done" /\ (t \in Range(idle') \cup inUse' \/ \E d \in Clients : mine'[d] = t)
    <3>1. CASE t = s
      <4>1. closing # "done"
        BY <2>1 DEF PoolInv, Quiet, Closed
      <4> QED BY <1>4, <3>1, <4>1
    <3>2. CASE t # s
      <4>1. closing # "done" /\ (t \in Range(idle) \cup inUse \/ \E d \in Clients : mine[d] = t)
        BY <1>6, <2>1, <3>2 DEF PoolInv, PoolLists, PoolKept
      <4>2. ASSUME NEW d \in Clients, mine[d] = t PROVE mine'[d] = t
        BY <1>4, <4>2, NoneAssumption
      <4> QED BY <1>2, <4>1, <4>2
    <3> QED BY <3>1, <3>2
  <2> QED BY <1>2, <2>1 DEF PoolKept
<1> QED BY <1>2, <1>5, <1>7, <1>8, <1>9, <1>10, <1>way DEF PoolInv, PoolLists, Closed

\* createSession, when the handshake fails: the room is given back and a sleeping
\* client hears of it.
LEMMA CreateFails ==
  ASSUME SetFacts, PoolInv, NEW c \in Clients, at[c] = "connecting",
         NEW s \in Free(Range(idle) \cup inUse) \cup {None}, NEW h \in Handshakes, ~Succeeds(h),
         connectAndInitialize(s, h), CancelReservation(c),
         UNCHANGED <<mine, idle, inUse, tracked, evict, closeVars, setup>>
  PROVE  PoolInv'
<1> DEFINE f == [at EXCEPT ![c] = "idle"]
<1>1. /\ f \in [Clients -> Without \cup With] /\ at \in [Clients -> Without \cup With]
      /\ f[c] = "idle" /\ \A d \in Clients \ {c} : f[d] = at[d]
  BY DEF PoolInv, ClientTypes, Without
<1>2. Signal(f) /\ pending' = IF pending > 0 THEN pending - 1 ELSE 0
  BY DEF CancelReservation
<1> HIDE DEF f
<1>3. /\ at' \in [Clients -> Without \cup With]
      /\ \A d \in Clients : at'[d] = f[d] \/ (f[d] = "waiting" /\ at'[d] = "woken")
      /\ Cardinality(Woken) \in Nat
      /\ Waiting' # {} => Waiting # {} /\ Cardinality(Woken') = Cardinality(Woken) + 1
  BY Zenon, <1>1, <1>2, SignalFacts
<1>4. at'[c] = "idle" /\ \A d \in Clients \ {c} : at'[d] = at[d] \/ (at[d] = "waiting" /\ at'[d] = "woken")
  BY <1>1, <1>3
<1>held. Cardinality(Holders) \in Nat /\ Holders' = Holders
  <2>1. at'[c] \notin Holding /\ at[c] \notin Holding
    BY Zenon, <1>4 DEF Holding
  <2>2. \A d \in Clients \ {c} : at'[d] \in Holding <=> at[d] \in Holding
    BY <1>4 DEF Holding
  <2> QED BY Zenon, <2>1, <2>2, HoldersMove
<1>5. UNCHANGED <<mine, idle, inUse, tracked, evict, closing, overtaken, setup>>
  BY DEF closeVars
<1>6. /\ conn' \in [Sessions -> BOOLEAN]
      /\ \A t \in Sessions : conn'[t] <=> conn[t]
  <2>1. s \in Sessions => ~conn[s]
    BY Zenon, FreeFacts, NoneAssumption DEF PoolInv, ClientTypes
  <2>2. s \in Sessions \cup {None}
    BY Zenon, FreeFacts DEF PoolInv, ClientTypes
  <2> QED BY <2>1, <2>2, ConnectFacts DEF PoolInv, PoolTypes
<1>7. mine[c] = None /\ mine' \in [Clients -> Sessions \cup {None}]
  BY <1>5 DEF PoolInv, ClientTypes, Hands, Without
<1>8. ClientTypes' /\ Hands' /\ Quiet'
  BY Zenon, <1>3, <1>4, <1>5, <1>7, ClientKept DEF PoolInv, Others, Without
<1>9. /\ pending \in Nat /\ pending' \in Nat /\ pending' >= pending - 1
      /\ IsFiniteSet(inUse) /\ Cardinality(inUse) \in Nat
  BY <1>2, Count DEF PoolInv, PoolTypes
<1>10. PoolTypes'
  BY <1>5, <1>6, <1>9 DEF PoolInv, PoolTypes
<1>11. Awake'
  <2>1. Len(idle) \in Nat /\ setup.maxSize \in Nat
    BY DEF PoolInv, PoolTypes, ClientTypes, Setup
  <2>2. ASSUME Waiting' # {}
        PROVE  /\ Len(idle) <= Cardinality(Woken)
               /\ setup.maxSize - Cardinality(inUse) - pending <= Cardinality(Woken) + Cardinality(Holders)
    BY Zenon, <1>3, <2>2 DEF PoolInv, Awake
  <2>3. ASSUME Waiting' # {}
        PROVE  /\ Len(idle) <= Cardinality(Woken')
               /\ setup.maxSize - Cardinality(inUse) - pending' <= Cardinality(Woken') + Cardinality(Holders)
    <3>1. Cardinality(Woken') = Cardinality(Woken) + 1 /\ Cardinality(Woken) \in Nat
      BY Zenon, <1>3, <2>3
    <3> QED BY <1>9, <1>held, <2>1, <2>2, <2>3, <3>1
  <2> QED BY Zenon, <1>5, <1>held, <2>3 DEF Awake
<1>12. Apart' /\ OnTheWay'
  BY Zenon, <1>4, <1>5 DEF PoolInv, PoolLists, Apart, OnTheWay, Holding
<1>13. ~Closed => OpenPool'
  <2> SUFFICES ASSUME OpenPool PROVE OpenPool'
    BY DEF PoolInv, PoolLists
  <2>1. \A t \in Range(idle') : conn'[t]
    BY Zenon, <1>5, <1>6, Places DEF OpenPool, PoolInv, PoolTypes, Without
  <2> QED BY <1>4, <1>5, <1>6, <2>1 DEF OpenPool, PoolInv, ClientTypes, Without
<1>14. PoolKept'
  BY Zenon, <1>5, <1>6 DEF PoolInv, PoolLists, PoolKept
<1> QED BY <1>5, <1>8, <1>10, <1>11, <1>12, <1>13, <1>14 DEF PoolInv, PoolLists, Closed

\* createSession of the pool.
LEMMA CreateKeeps ==
  ASSUME SetFacts, PoolInv, NEW c \in Clients, createSession(c)
  PROVE  PoolInv'
<1>1. PICK s \in Free(Range(idle) \cup inUse) \cup {None}, h \in Handshakes :
        /\ s # None \/ h.fails = "connect"
        /\ connectAndInitialize(s, h)
        /\ IF Succeeds(h)
           THEN /\ mine' = [mine EXCEPT ![c] = s]
                /\ at' = [at EXCEPT ![c] = "created"]
                /\ UNCHANGED pending
           ELSE CancelReservation(c) /\ UNCHANGED mine
  BY Zenon DEF createSession
<1>2. at[c] = "connecting" /\ UNCHANGED <<idle, inUse, tracked, evict, closeVars, setup>>
  BY DEF createSession
<1>3. CASE Succeeds(h)
  <2>1. s \in Free(Range(idle) \cup inUse)
    BY <1>1, <1>3 DEF Succeeds
  <2> QED BY Zenon, <1>1, <1>2, <1>3, <2>1, CreateSucceeds DEF poolVars
<1>4. CASE ~Succeeds(h)
  BY Zenon, <1>1, <1>2, <1>4, CreateFails
<1> QED BY <1>3, <1>4

\* Add up to the lock, and the refusal of a closed pool, which closes the
\* connection of a session its client goes on to use.
LEMMA AddBeginKeeps ==
  ASSUME SetFacts, PoolInv, NEW c \in Clients, AddBegin(c)
  PROVE  PoolInv'
<1> DEFINE x == IF Closed THEN "using" ELSE "adding"
<1>1. at[c] = "created" /\ at' = [at EXCEPT ![c] = x] /\ x \in {"using", "adding"}
  BY DEF AddBegin
<1>2. /\ at' \in [Clients -> Without \cup With]
      /\ at'[c] = x /\ \A d \in Clients \ {c} : at'[d] = at[d]
      /\ Waiting' = Waiting /\ Cardinality(Woken') = Cardinality(Woken) /\ Holders' = Holders
  BY Zenon, <1>1, OneMoves DEF PoolInv, ClientTypes, With, Holding
<1>3. UNCHANGED <<mine, idle, inUse, pending, tracked, evict, closing, overtaken, setup>>
  BY Zenon DEF AddBegin, poolVars, closeVars
<1>4. mine[c] \in Sessions /\ mine[c] # None /\ mine' \in [Clients -> Sessions \cup {None}]
  BY <1>1, <1>3 DEF PoolInv, ClientTypes, Hands, Without
<1>5. /\ conn' \in [Sessions -> BOOLEAN] /\ conn'[mine[c]] = ~Closed
      /\ \A t \in Sessions \ {mine[c]} : conn'[t] = conn[t]
  <2>1. conn' = [conn EXCEPT ![mine[c]] = ~Closed] /\ (~Closed) \in BOOLEAN
    BY DEF AddBegin
  <2> QED BY Zenon, <1>4, <2>1 DEF PoolInv, PoolTypes
<1>6. ClientTypes' /\ Hands' /\ Quiet' /\ (~Closed \/ overtaken)
  BY Zenon, <1>1, <1>2, <1>3, <1>4, ClientKept DEF PoolInv, Others, Without
<1>7. PoolTypes' /\ Awake'
  BY <1>2, <1>3, <1>5 DEF PoolInv, PoolTypes, Awake
<1>8. Apart' /\ OnTheWay'
  BY Zenon, <1>1, <1>2, <1>3 DEF PoolInv, PoolLists, Apart, OnTheWay, Holding
<1>9. ~Closed => OpenPool'
  <2> SUFFICES ASSUME ~Closed, OpenPool PROVE OpenPool'
    BY DEF PoolInv, PoolLists
  <2>1. at'[c] = "adding" /\ \A t \in Sessions : conn[t] => conn'[t]
    BY Zenon, <1>2, <1>5
  <2>2. \A t \in Range(idle') : conn'[t]
    BY Zenon, <1>3, <2>1, Places DEF OpenPool, PoolInv, PoolTypes, Without
  <2> QED BY Zenon, <1>2, <1>3, <2>1, <2>2 DEF OpenPool, PoolInv, ClientTypes, Without
<1>10. PoolKept'
  BY <1>3, <1>4, <1>5, <1>6 DEF PoolInv, PoolLists, PoolKept, Closed
<1> QED BY <1>3, <1>6, <1>7, <1>8, <1>9, <1>10 DEF PoolInv, PoolLists, Closed

\* Add: the session is the pool's now, and known to the evictor.
LEMMA AddKeeps ==
  ASSUME SetFacts, PoolInv, NEW c \in Clients, Add(c)
  PROVE  PoolInv'
<1>1. at[c] = "adding" /\ at' = [at EXCEPT ![c] = "using"]
  BY DEF Add
<1>2. /\ at' \in [Clients -> Without \cup With]
      /\ at'[c] = "using" /\ \A d \in Clients \ {c} : at'[d] = at[d]
      /\ Waiting' = Waiting /\ Cardinality(Woken') = Cardinality(Woken) /\ Holders' = Holders
      /\ Cardinality(Woken) \in Nat
  BY Zenon, <1>1, OneMoves DEF PoolInv, ClientTypes, With, Holding
<1>3. /\ UNCHANGED <<mine, idle, conn, evict, closing, overtaken, setup>>
      /\ inUse' = inUse \cup {mine[c]} /\ tracked' \subseteq tracked \cup {mine[c]}
      /\ pending' = IF pending > 0 THEN pending - 1 ELSE 0
  BY Zenon DEF Add, sessionVars, closeVars
<1>4. mine[c] \in Sessions /\ mine[c] # None /\ mine' \in [Clients -> Sessions \cup {None}]
  BY <1>1, <1>3 DEF PoolInv, ClientTypes, Hands, Without
<1>5. mine[c] \notin inUse /\ mine[c] \notin Range(idle) /\ \A d \in Clients \ {c} : mine[d] # mine[c]
  BY Zenon, <1>1, <1>4 DEF PoolInv, PoolLists, Apart
<1>6. ClientTypes' /\ Hands' /\ Quiet'
  BY Zenon, <1>1, <1>2, <1>3, <1>4, ClientKept DEF PoolInv, Others, Without
<1>7. /\ pending \in Nat /\ pending' \in Nat /\ pending' >= pending - 1
      /\ IsFiniteSet(inUse') /\ Cardinality(inUse) \in Nat
      /\ Cardinality(inUse') = Cardinality(inUse) + 1
  <2>1. pending \in Nat /\ IsFiniteSet(inUse)
    BY DEF PoolInv, PoolTypes
  <2>2. pending' \in Nat /\ pending' >= pending - 1
    BY <1>3, <2>1
  <2>3. /\ IsFiniteSet(inUse') /\ Cardinality(inUse) \in Nat
        /\ Cardinality(inUse') = Cardinality(inUse) + 1
    BY Zenon, <1>3, <1>5, <2>1, OneMore
  <2> QED BY <2>1, <2>2, <2>3
<1>8. PoolTypes'
  BY <1>3, <1>4, <1>7 DEF PoolInv, PoolTypes
<1>9. Awake'
  <2>1. Len(idle) \in Nat /\ setup.maxSize \in Nat
    BY DEF PoolInv, PoolTypes, ClientTypes, Setup
  <2>2. Cardinality(Holders) \in Nat
    BY Counted DEF Holders
  <2>3. ASSUME Waiting' # {}
        PROVE  /\ Len(idle) <= Cardinality(Woken)
               /\ setup.maxSize - Cardinality(inUse) - pending <= Cardinality(Woken) + Cardinality(Holders)
    BY Zenon, <1>2, <2>3 DEF PoolInv, Awake
  <2>4. ASSUME Waiting' # {}
        PROVE  setup.maxSize - Cardinality(inUse') - pending' <= Cardinality(Woken) + Cardinality(Holders)
    BY <1>2, <1>7, <2>1, <2>2, <2>3, <2>4
  <2> QED BY Zenon, <1>2, <1>3, <2>3, <2>4 DEF Awake
<1>10. Apart'
  <2>1. \A d \in Clients : at'[d] \in {"created", "adding"} =>
          mine'[d] \notin inUse' \cup tracked' \cup {evict'.s}
    BY Zenon, <1>2, <1>3, <1>5 DEF PoolInv, PoolLists, Apart
  <2>2. Range(idle) \cap inUse' = {}
    BY Zenon, <1>3, <1>5 DEF PoolInv, PoolLists, Apart
  <2> QED BY Zenon, <1>3, <2>1, <2>2 DEF PoolInv, PoolLists, Apart
<1>way. OnTheWay'
  BY <1>1, <1>2, <1>3, <1>4, <1>5 DEF PoolInv, PoolLists, OnTheWay, Hands, Without, Holding
<1>11. ~Closed => OpenPool'
  BY <1>2, <1>3 DEF PoolInv, PoolLists, OpenPool, Without
<1>12. PoolKept'
  <2>1. \A t \in Range(idle) \cup inUse : t \in Range(idle') \cup inUse'
    BY <1>3
  <2> QED BY Zenon, <1>3, <2>1 DEF PoolInv, PoolLists, PoolKept
<1> QED BY <1>3, <1>6, <1>8, <1>9, <1>10, <1>11, <1>12, <1>way DEF PoolInv, PoolLists, Closed

-----------------------------------------------------------------------------
(* A session comes back or is thrown out, the pool is closed, and the      *)
(* manager and the evictor work beside it.                                 *)

\* PoolMode.Release and SessionPool.Release up to the lock.
LEMMA ReleaseCheckKeeps ==
  ASSUME SetFacts, PoolInv, NEW c \in Clients, ReleaseCheck(c)
  PROVE  PoolInv'
<1> DEFINE x == IF Closed THEN "idle" ELSE "releasing"
<1>1. at[c] = "returning" /\ at' = [at EXCEPT ![c] = x] /\ x \in {"idle", "releasing"}
  BY DEF ReleaseCheck
<1>2. /\ at' \in [Clients -> Without \cup With]
      /\ at'[c] = x /\ \A d \in Clients \ {c} : at'[d] = at[d]
      /\ Waiting' = Waiting /\ Cardinality(Woken') = Cardinality(Woken) /\ Holders' = Holders
  BY Zenon, <1>1, OneMoves DEF PoolInv, ClientTypes, With, Without, Holding
<1>3. UNCHANGED <<idle, inUse, pending, tracked, evict, closing, overtaken, setup>>
  BY DEF ReleaseCheck, poolVars, closeVars
<1>4. mine[c] \in Sessions /\ mine[c] # None
  BY <1>1 DEF PoolInv, ClientTypes, Hands, Without
<1>5. /\ mine' \in [Clients -> Sessions \cup {None}] /\ conn' \in [Sessions -> BOOLEAN]
      /\ \A d \in Clients \ {c} : mine'[d] = mine[d]
      /\ Closed => mine'[c] = None
      /\ ~Closed => mine' = mine /\ conn' = conn
  BY Zenon, <1>4 DEF ReleaseCheck, PoolInv, ClientTypes, PoolTypes
<1>6. ClientTypes' /\ Hands' /\ Quiet' /\ (~Closed \/ overtaken)
  <2>1. mine'[c] = None <=> at'[c] \in Without
    BY <1>2, <1>4, <1>5 DEF Without
  <2> QED BY Zenon, <1>1, <1>2, <1>3, <1>5, <2>1, ClientKept DEF PoolInv, Others
<1>7. PoolTypes' /\ Awake'
  BY <1>2, <1>3, <1>5 DEF PoolInv, PoolTypes, Awake
<1>8. Apart'
  <2>1. \A d \in Clients : mine'[d] # None => mine'[d] = mine[d]
    BY Zenon, <1>5
  <2>2. \A d \in Clients : at'[d] \in {"created", "adding"} => at'[d] = at[d] /\ mine'[d] = mine[d]
    BY <1>1, <1>2, <1>5
  <2>3. \A d \in Clients : mine'[d] # None =>
          mine'[d] \notin Range(idle) /\ \A e \in Clients \ {d} : mine'[e] # mine'[d]
    BY Zenon, <2>1 DEF PoolInv, PoolLists, Apart
  <2> QED BY Zenon, <1>3, <2>2, <2>3 DEF PoolInv, PoolLists, Apart
<1>way. OnTheWay'
  BY <1>2, <1>3, <1>5 DEF PoolInv, PoolLists, OnTheWay, Holding
<1>9. ~Closed => OpenPool'
  BY <1>1, <1>2, <1>3, <1>5 DEF PoolInv, PoolLists, OpenPool, Without, Holding
<1>10. PoolKept'
  BY <1>3, <1>5, <1>6 DEF PoolInv, PoolLists, PoolKept
<1> QED BY <1>3, <1>6, <1>7, <1>8, <1>9, <1>10, <1>way DEF PoolInv, PoolLists, Closed

\* The end of Release: the session goes to the list, or is over and goes nowhere;
\* a sleeping client hears of it in both cases.
LEMMA ReturnKeeps ==
  ASSUME SetFacts, PoolInv, NEW c \in Clients, at[c] \in {"releasing", "parking"},
         Signal([at EXCEPT ![c] = "idle"]), inUse' = inUse \ {mine[c]},
         mine' = [mine EXCEPT ![c] = None],
         UNCHANGED <<pending, evict, closing, overtaken, setup>>,
         \/ conn' = [conn EXCEPT ![mine[c]] = FALSE] /\ idle' = idle /\ tracked' = tracked \ {mine[c]}
         \/ conn' = conn /\ idle' = Append(idle, mine[c]) /\ tracked' = tracked
  PROVE  PoolInv'
<1> DEFINE f == [at EXCEPT ![c] = "idle"]
           s == mine[c]
<1>1. /\ at[c] \in {"releasing", "parking"} /\ Signal(f) /\ inUse' = inUse \ {s}
      /\ mine' = [mine EXCEPT ![c] = None]
      /\ UNCHANGED <<pending, evict, closing, overtaken, setup>>
      /\ \/ /\ conn' = [conn EXCEPT ![s] = FALSE] /\ idle' = idle /\ tracked' = tracked \ {s}
         \/ conn' = conn /\ idle' = Append(idle, s) /\ tracked' = tracked
  OBVIOUS
<1>2. /\ f \in [Clients -> Without \cup With] /\ at \in [Clients -> Without \cup With]
      /\ f[c] = "idle" /\ \A d \in Clients \ {c} : f[d] = at[d]
  BY DEF PoolInv, ClientTypes, Without
<1> HIDE DEF f
<1>3. /\ at' \in [Clients -> Without \cup With]
      /\ \A d \in Clients : at'[d] = f[d] \/ (f[d] = "waiting" /\ at'[d] = "woken")
      /\ Cardinality(Woken) \in Nat
      /\ Waiting' # {} => Waiting # {} /\ Cardinality(Woken') = Cardinality(Woken) + 1
  BY Zenon, <1>1, <1>2, SignalFacts
<1>4. at'[c] = "idle" /\ \A d \in Clients \ {c} : at'[d] = at[d] \/ (at[d] = "waiting" /\ at'[d] = "woken")
  BY <1>2, <1>3
<1>5. s \in Sessions /\ s # None
  BY <1>1 DEF PoolInv, ClientTypes, Hands, Without
<1>6. /\ mine' \in [Clients -> Sessions \cup {None}]
      /\ mine'[c] = None /\ \A d \in Clients \ {c} : mine'[d] = mine[d]
  BY <1>1 DEF PoolInv, ClientTypes
<1>7. /\ s \notin Range(idle) /\ \A d \in Clients \ {c} : mine[d] # s
      /\ idle \in Seq(Sessions) /\ IsInjective(idle) /\ conn \in [Sessions -> BOOLEAN]
      /\ Range(idle) \cap inUse = {} /\ inUse \subseteq Sessions /\ IsFiniteSet(inUse)
      /\ pending \in Nat
  BY Zenon, <1>5 DEF PoolInv, PoolTypes, PoolLists, Apart
<1> HIDE DEF s
<1>8. /\ conn' \in [Sessions -> BOOLEAN] /\ tracked' \subseteq tracked
      /\ \A t \in Sessions \ {s} : conn'[t] = conn[t]
      /\ ~conn'[s] \/ (conn' = conn /\ s \in Range(idle'))
  <2>1. CASE idle' = Append(idle, s) /\ conn' = conn /\ tracked' = tracked
    <3>1. DOMAIN idle' = 1 .. Len(idle) + 1 /\ idle'[Len(idle) + 1] = s /\ Len(idle) + 1 \in DOMAIN idle'
      BY <1>5, <1>7, <2>1
    <3> QED BY Zenon, <1>7, <2>1, <3>1 DEF Range
  <2>2. CASE conn' = [conn EXCEPT ![s] = FALSE] /\ tracked' = tracked \ {s}
    BY <1>5, <1>7, <2>2
  <2> QED BY <1>1, <2>1, <2>2
<1>9. /\ idle' \in Seq(Sessions) /\ IsInjective(idle') /\ Len(idle') \in Nat
      /\ Len(idle') <= Len(idle) + 1 /\ Len(idle) \in Nat
      /\ Range(idle) \subseteq Range(idle') /\ Range(idle') \subseteq Range(idle) \cup {s}
  <2>1. CASE idle' = idle
    BY <1>7, <2>1
  <2>2. CASE idle' = Append(idle, s)
    <3>1. /\ idle' \in Seq(Sessions) /\ Len(idle') = Len(idle) + 1 /\ Len(idle) \in Nat
          /\ \A i \in 1 .. Len(idle) : idle'[i] = idle[i]
          /\ idle'[Len(idle) + 1] = s
      BY <1>5, <1>7, <2>2
    <3>2. \A x : x \in Range(idle') <=> \E i \in 1 .. Len(idle) + 1 : idle'[i] = x
      BY Zenon, <3>1, Places
    <3>3. \A x : x \in Range(idle) <=> \E i \in 1 .. Len(idle) : idle[i] = x
      BY Zenon, <1>7, Places
    <3>4. \A i, j \in 1 .. Len(idle) : idle[i] = idle[j] => i = j
      BY Zenon, <1>7, Places
    <3>5. \A i : i \in 1 .. Len(idle) + 1 <=> i \in 1 .. Len(idle) \/ i = Len(idle) + 1
      BY <3>1
    <3>6. \A i \in 1 .. Len(idle) : idle[i] # s
      BY <1>7, <3>3
    <3>7. \A i, j \in 1 .. Len(idle) + 1 : idle'[i] = idle'[j] => i = j
      BY <3>1, <3>4, <3>5, <3>6
    <3>8. IsInjective(idle')
      BY Zenon, <3>1, <3>7, Places
    <3>9. Range(idle) \subseteq Range(idle') /\ Range(idle') \subseteq Range(idle) \cup {s}
      BY <3>1, <3>2, <3>3, <3>5
    <3> QED BY <3>1, <3>8, <3>9
  <2> QED BY <1>1, <2>1, <2>2
<1>10. ClientTypes' /\ Hands' /\ Quiet'
  BY Zenon, <1>1, <1>3, <1>4, <1>6, ClientKept DEF PoolInv, Others, Without
<1>11. /\ IsFiniteSet(inUse') /\ Cardinality(inUse) \in Nat /\ Cardinality(inUse') \in Nat
       /\ Cardinality(Holders) \in Nat /\ Cardinality(Holders') \in Nat
       /\ Cardinality(inUse') + Cardinality(Holders') >= Cardinality(inUse) + Cardinality(Holders) - 1
  <2>1. /\ IsFiniteSet(inUse') /\ Cardinality(inUse) \in Nat /\ Cardinality(inUse') \in Nat
        /\ Cardinality(inUse') = IF s \in inUse THEN Cardinality(inUse) - 1 ELSE Cardinality(inUse)
    <3>1. inUse' = inUse \ {s} /\ IsFiniteSet(inUse)
      BY <1>1, <1>7
    <3> HIDE DEF s
    <3>2. /\ IsFiniteSet(inUse \ {s}) /\ Cardinality(inUse) \in Nat /\ Cardinality(inUse \ {s}) \in Nat
          /\ Cardinality(inUse \ {s}) = IF s \in inUse THEN Cardinality(inUse) - 1 ELSE Cardinality(inUse)
      BY Zenon, <3>1, OneMore, Count
    <3> QED BY Zenon, <3>1, <3>2
  <2>2. at'[c] \notin Holding /\ \A d \in Clients \ {c} : at'[d] \in Holding <=> at[d] \in Holding
    BY Zenon, <1>4 DEF Holding
  <2>3. CASE at[c] \in Holding
    <3>1. s \notin inUse
      BY <2>3 DEF PoolInv, PoolLists, OnTheWay, s
    <3>2. /\ Cardinality(Holders) \in Nat /\ Cardinality(Holders') \in Nat
          /\ Cardinality(Holders') = Cardinality(Holders) - 1
      BY Zenon, <2>2, <2>3, HoldersMove
    <3> QED BY <2>1, <3>1, <3>2
  <2>4. CASE at[c] \notin Holding
    <3>1. Cardinality(Holders) \in Nat /\ Holders' = Holders
      BY Zenon, <2>2, <2>4, HoldersMove
    <3> QED BY <2>1, <3>1
  <2> QED BY <2>3, <2>4
<1>12. PoolTypes'
  BY Zenon, <1>1, <1>7, <1>8, <1>9, <1>11 DEF PoolInv, PoolTypes
<1>13. Awake'
  <2>1. setup.maxSize \in Nat
    BY DEF PoolInv, ClientTypes, Setup
  <2>2. ASSUME Waiting' # {}
        PROVE  /\ Len(idle) <= Cardinality(Woken) /\ Cardinality(Woken') = Cardinality(Woken) + 1
               /\ setup.maxSize - Cardinality(inUse) - pending <= Cardinality(Woken) + Cardinality(Holders)
    BY Zenon, <1>3, <2>2 DEF PoolInv, Awake
  <2>3. ASSUME Waiting' # {}
        PROVE  /\ Len(idle') <= Cardinality(Woken')
               /\ setup.maxSize - Cardinality(inUse') - pending <= Cardinality(Woken') + Cardinality(Holders')
    <3>1. /\ Cardinality(Woken) \in Nat /\ pending \in Nat /\ Len(idle) \in Nat
          /\ Len(idle') \in Nat /\ Len(idle') <= Len(idle) + 1
      BY Zenon, <1>3, <1>7, <1>9
    <3>2. Len(idle') <= Cardinality(Woken')
      BY <2>2, <2>3, <3>1
    <3>3. setup.maxSize - Cardinality(inUse') - pending <= Cardinality(Woken') + Cardinality(Holders')
      <4>1. /\ Cardinality(inUse') + Cardinality(Holders') >= Cardinality(inUse) + Cardinality(Holders) - 1
            /\ Cardinality(Holders) \in Nat /\ Cardinality(Holders') \in Nat
        BY Zenon, <1>11
      <4>2. /\ setup.maxSize - Cardinality(inUse) - pending <= Cardinality(Woken) + Cardinality(Holders)
            /\ Cardinality(Woken') = Cardinality(Woken) + 1
        BY Zenon, <2>2, <2>3
      <4>3. Cardinality(inUse) \in Nat /\ Cardinality(inUse') \in Nat
        BY Zenon, <1>11
      <4>4. Cardinality(Woken') \in Nat
        BY <3>1, <4>2
      <4>5. Cardinality(inUse) + pending + Cardinality(Woken) + Cardinality(Holders)
              <= Cardinality(inUse') + pending + Cardinality(Woken') + Cardinality(Holders')
        BY Zenon, <3>1, <4>1, <4>2, <4>3, <4>4, OneMoreAwake
      <4>6. Matched(setup.maxSize, Cardinality(inUse), pending, Cardinality(Woken), Cardinality(Holders))
        BY Zenon, <2>1, <3>1, <4>1, <4>2, <4>3 DEF Matched
      <4>7. QED BY Zenon, <3>1, <4>1, <4>3, <4>4, <4>5, <4>6, Balance
    <3> QED BY <3>2, <3>3
  <2> QED BY Zenon, <1>1, <2>3 DEF Awake
<1>14. Apart'
  <2>1. \A d \in Clients : mine'[d] # None =>
          mine'[d] \notin Range(idle') /\ \A e \in Clients \ {d} : mine'[e] # mine'[d]
    BY Zenon, <1>6, <1>7, <1>9 DEF PoolInv, PoolLists, Apart
  <2>2. \A d \in Clients : at'[d] \in {"created", "adding"} =>
          mine'[d] \notin inUse' \cup tracked' \cup {evict'.s}
    BY Zenon, <1>1, <1>4, <1>6, <1>8 DEF PoolInv, PoolLists, Apart
  <2> QED BY Zenon, <1>1, <1>7, <1>9, <2>1, <2>2 DEF Apart
<1>15. ~Closed => OpenPool'
  <2> SUFFICES ASSUME OpenPool PROVE OpenPool'
    BY DEF PoolInv, PoolLists
  <2>1. \A d \in Clients : at'[d] \notin Without \cup Holding \cup {"created", "adding"} => mine'[d] \in inUse'
    BY Zenon, <1>1, <1>4, <1>6, <1>7 DEF OpenPool, Without
  <2>2. \A d \in Clients : mine'[d] # None => conn'[mine'[d]]
    BY <1>6, <1>7, <1>8 DEF OpenPool, PoolInv, ClientTypes, Without
  <2>3. \A t \in Range(idle') : conn'[t]
    <3>1. \A t \in Range(idle) : t # s /\ t \in Sessions
      BY Zenon, <1>7, Places
    <3>2. CASE idle' = idle
      BY <1>8, <3>1, <3>2 DEF OpenPool, Without
    <3>3. CASE conn' = conn
      <4>1. conn[s]
        BY <1>5 DEF OpenPool, s, Without
      <4> QED BY <1>9, <3>3, <4>1 DEF OpenPool, Without
    <3> QED BY <1>1, <3>2, <3>3
  <2> QED BY Zenon, <2>1, <2>2, <2>3 DEF OpenPool, Without
<1>16. PoolKept'
  <2>1. ASSUME ~overtaken, NEW t \in Sessions, conn'[t]
        PROVE  closing # "done" /\ (t \in Range(idle') \cup inUse' \/ \E d \in Clients : mine'[d] = t)
    <3>1. closing # "done" /\ (t \in Range(idle) \cup inUse \/ \E d \in Clients : mine[d] = t)
      BY <1>8, <2>1 DEF PoolInv, PoolLists, PoolKept
    <3>2. t # s \/ s \in Range(idle')
      BY <1>8, <2>1
    <3>3. ASSUME NEW d \in Clients, mine[d] = t, t # s PROVE mine'[d] = t
      BY <1>6, <3>3 DEF s
    <3> QED BY <1>1, <1>9, <3>1, <3>2, <3>3
  <2> QED BY <1>1, <2>1 DEF PoolKept
<1>17. OnTheWay'
  BY <1>1, <1>4, <1>6 DEF PoolInv, PoolLists, OnTheWay, Holding
<1> QED BY <1>1, <1>10, <1>12, <1>13, <1>14, <1>15, <1>16, <1>17 DEF PoolInv, PoolLists, Closed

\* Release of a session that is over, and the first half of it for the others.
LEMMA ReleaseKeeps ==
  ASSUME SetFacts, PoolInv, NEW c \in Clients, Release(c)
  PROVE  PoolInv'
<1>1. /\ at[c] = "releasing" /\ inUse' = inUse \ {mine[c]}
      /\ UNCHANGED <<idle, pending, evict, closing, overtaken, setup>>
      /\ \/ /\ conn' = [conn EXCEPT ![mine[c]] = FALSE] /\ tracked' = tracked \ {mine[c]}
            /\ mine' = [mine EXCEPT ![c] = None] /\ Signal([at EXCEPT ![c] = "idle"])
         \/ at' = [at EXCEPT ![c] = "parking"] /\ UNCHANGED <<conn, mine, tracked>>
  BY Zenon DEF Release, closeVars
<1>2. CASE /\ conn' = [conn EXCEPT ![mine[c]] = FALSE] /\ tracked' = tracked \ {mine[c]}
           /\ mine' = [mine EXCEPT ![c] = None] /\ Signal([at EXCEPT ![c] = "idle"])
  BY Zenon, <1>1, <1>2, ReturnKeeps
<1>3. CASE at' = [at EXCEPT ![c] = "parking"] /\ UNCHANGED <<conn, mine, tracked>>
  <2>1. /\ at' \in [Clients -> Without \cup With]
        /\ at'[c] = "parking" /\ \A d \in Clients \ {c} : at'[d] = at[d]
        /\ Waiting' = Waiting /\ Cardinality(Woken') = Cardinality(Woken)
        /\ Cardinality(Woken) \in Nat
    BY Zenon, <1>1, <1>3, OneMoves DEF PoolInv, ClientTypes, With
  <2>2. /\ mine[c] \in Sessions /\ mine[c] # None /\ mine' \in [Clients -> Sessions \cup {None}]
        /\ \A d \in Clients \ {c} : mine[d] # mine[c]
    BY Zenon, <1>1, <1>3 DEF PoolInv, ClientTypes, Hands, PoolLists, Apart, Without
  <2>3. /\ IsFiniteSet(inUse') /\ Cardinality(inUse) \in Nat /\ Cardinality(inUse') \in Nat
        /\ Cardinality(inUse') \in {Cardinality(inUse), Cardinality(inUse) - 1}
    BY Zenon, <1>1, OneMore, Count DEF PoolInv, PoolTypes
  <2>4. Cardinality(Holders) \in Nat /\ Cardinality(Holders') = Cardinality(Holders) + 1
    <3>1. at'[c] \in Holding /\ at[c] \notin Holding
      BY <1>1, <2>1 DEF Holding
    <3> QED BY Zenon, <2>1, <3>1, HoldersMove
  <2>5. ClientTypes' /\ Hands' /\ Quiet'
    BY Zenon, <1>1, <1>3, <2>1, <2>2, ClientKept DEF PoolInv, Others, Without
  <2>6. PoolTypes'
    BY <1>1, <1>3, <2>3 DEF PoolInv, PoolTypes
  <2>7. Awake'
    <3>1. Len(idle) \in Nat /\ setup.maxSize \in Nat /\ pending \in Nat
      BY DEF PoolInv, PoolTypes, ClientTypes, Setup
    <3>2. ASSUME Waiting' # {}
          PROVE  /\ Len(idle) <= Cardinality(Woken)
                 /\ setup.maxSize - Cardinality(inUse) - pending <= Cardinality(Woken) + Cardinality(Holders)
      BY Zenon, <2>1, <3>2 DEF PoolInv, Awake
    <3>3. ASSUME Waiting' # {}
          PROVE  setup.maxSize - Cardinality(inUse') - pending <= Cardinality(Woken) + Cardinality(Holders')
      <4>1. Cardinality(inUse) + pending + Cardinality(Woken) + Cardinality(Holders)
              <= Cardinality(inUse') + pending + Cardinality(Woken) + Cardinality(Holders')
        BY <2>1, <2>3, <2>4, <3>1
      <4>2. /\ setup.maxSize \in Nat /\ Cardinality(inUse) \in Nat /\ Cardinality(inUse') \in Nat
            /\ pending \in Nat /\ Cardinality(Woken) \in Nat
            /\ Cardinality(Holders) \in Nat /\ Cardinality(Holders') \in Nat
        BY <2>1, <2>3, <2>4, <3>1
      <4>3. Matched(setup.maxSize, Cardinality(inUse), pending, Cardinality(Woken), Cardinality(Holders))
        BY Zenon, <3>2, <3>3, <4>2 DEF Matched
      <4> QED BY Zenon, <4>1, <4>2, <4>3, Balance
    <3> QED BY Zenon, <1>1, <2>1, <3>2, <3>3 DEF Awake
  <2>8. Apart' /\ OnTheWay'
    BY Zenon, <1>1, <1>3, <2>1, <2>2 DEF PoolInv, PoolLists, Apart, OnTheWay, Holding
  <2>9. ~Closed => OpenPool'
    BY <1>1, <1>3, <2>1, <2>2 DEF PoolInv, PoolLists, OpenPool, Hands, Without, Holding
  <2>10. PoolKept'
    BY <1>1, <1>3 DEF PoolInv, PoolLists, PoolKept
  <2> QED BY <1>1, <2>5, <2>6, <2>7, <2>8, <2>9, <2>10 DEF PoolInv, PoolLists, Closed
<1> QED BY Zenon, <1>1, <1>2, <1>3

\* The second half of Release: the session is in the list.
LEMMA ParkKeeps ==
  ASSUME SetFacts, PoolInv, NEW c \in Clients, Park(c)
  PROVE  PoolInv'
<1>1. inUse' = inUse \ {mine[c]}
  BY DEF Park, PoolInv, PoolLists, OnTheWay, Holding
<1>2. /\ at[c] = "parking" /\ Signal([at EXCEPT ![c] = "idle"]) /\ mine' = [mine EXCEPT ![c] = None]
      /\ idle' = Append(idle, mine[c]) /\ conn' = conn /\ tracked' = tracked
      /\ UNCHANGED <<pending, evict, closing, overtaken, setup>>
  BY DEF Park, closeVars
<1> QED BY Zenon, <1>1, <1>2, ReturnKeeps

\* A context that ends, and the goroutine that watches it.
LEMMA ContextKeeps ==
  ASSUME SetFacts, PoolInv, NEW c \in Clients, ContextDone(c) \/ WatchContext(c)
  PROVE  PoolInv'
<1>1. UNCHANGED <<mine, conn, idle, inUse, pending, tracked, evict, closing, overtaken, setup>>
  BY Zenon DEF ContextDone, WatchContext, poolVars, sessionVars, closeVars
<1>2. CASE ContextDone(c)
  <2>1. UNCHANGED at
    BY <1>2 DEF ContextDone
  <2> QED BY Zenon, <1>1, <2>1 DEF PoolInv, ClientTypes, PoolTypes, Hands, Quiet, Awake, PoolLists, Apart,
            OnTheWay, OpenPool, PoolKept, Closed, Waiting, Woken, Holders
<1>3. CASE WatchContext(c)
  <2>1. /\ at' \in [Clients -> Without \cup With] /\ Waiting' = {}
        /\ \A d \in Clients : at'[d] = at[d] \/ (at[d] = "waiting" /\ at'[d] = "woken")
        /\ at[c] = "waiting"
    BY <1>3, BroadcastFacts DEF WatchContext, PoolInv, ClientTypes
  <2>2. ClientTypes' /\ Quiet' /\ Hands'
    BY <1>1, <2>1 DEF PoolInv, ClientTypes, Hands, Quiet, Closed, Without
  <2>3. PoolTypes' /\ Awake'
    BY <1>1, <2>1 DEF PoolInv, PoolTypes, Awake
  <2>4. Apart' /\ OnTheWay' /\ (~Closed => OpenPool') /\ PoolKept'
    BY Zenon, <1>1, <2>1 DEF PoolInv, PoolLists, Apart, OnTheWay, OpenPool, PoolKept, Without, Holding
  <2> QED BY <1>1, <2>2, <2>3, <2>4 DEF PoolInv, PoolLists, Closed
<1> QED BY <1>2, <1>3

\* removeSession: what the evictor throws out of the list is nobody's; what is in
\* use it leaves alone.
LEMMA RemoveKeeps ==
  ASSUME SetFacts, PoolInv, removeSession
  PROVE  PoolInv'
<1> DEFINE s == evict.s
<1>1. /\ evict.at = "remove" /\ evict' = NoEvict
      /\ UNCHANGED <<mine, inUse, pending, tracked, closing, overtaken, setup>>
      /\ \/ s \in inUse /\ UNCHANGED <<idle, at, conn>>
         \/ s \notin inUse /\ idle' = Removed(s) /\ conn' = [conn EXCEPT ![s] = FALSE] /\ Signal(at)
  BY DEF removeSession, sessionVars, closeVars
<1>held. Holders = {} /\ \A c \in Clients : at[c] \notin Holding
  BY DEF removeSession, Locked, Holders, Holding
<1>2. /\ at \in [Clients -> Without \cup With]
      /\ idle \in Seq(Sessions) /\ IsInjective(idle) /\ conn \in [Sessions -> BOOLEAN]
      /\ evict' \in [at : {"idle", "due", "remove"}, s : Sessions \cup {None},
                     reason : {"none", "ttl", "idle"}]
      /\ evict'.s = None
  BY <1>1 DEF PoolInv, ClientTypes, PoolTypes, PoolLists, Apart, NoEvict
<1> HIDE DEF s
<1>3. /\ idle' \in Seq(Sessions) /\ IsInjective(idle') /\ Len(idle') <= Len(idle)
      /\ Range(idle') \subseteq Range(idle) /\ Range(idle) \subseteq Range(idle') \cup {s}
      /\ s \in inUse \/ s \notin Range(idle')
  <2>1. CASE s \in inUse /\ UNCHANGED idle
    BY <1>2, <2>1
  <2>2. CASE s \notin inUse /\ idle' = Removed(s)
    BY <1>2, <2>2, RemovedFacts
  <2> QED BY <1>1, <2>1, <2>2
<1>4. /\ conn' \in [Sessions -> BOOLEAN]
      /\ \A t \in Sessions : conn'[t] <=> conn[t] /\ (t # s \/ s \in inUse)
  BY Zenon, <1>1, <1>2
<1>5. /\ at' \in [Clients -> Without \cup With]
      /\ \A d \in Clients : at'[d] = at[d] \/ (at[d] = "waiting" /\ at'[d] = "woken")
      /\ Cardinality(Woken) \in Nat
      /\ Waiting' # {} => Waiting # {} /\ Cardinality(Woken') \in Nat
                          /\ Cardinality(Woken') >= Cardinality(Woken)
  <2>1. Cardinality(Woken) \in Nat
    BY Counted DEF Woken
  <2>2. CASE at' = at
    <3>1. Waiting' = Waiting /\ Woken' = Woken
      BY <2>2 DEF Waiting, Woken
    <3> QED BY <1>2, <2>1, <2>2, <3>1
  <2>3. CASE Signal(at)
    <3>1. Waiting' # {} => Waiting # {} /\ Cardinality(Woken') = Cardinality(Woken) + 1
      BY Zenon, <1>2, <2>3, SignalFacts
    <3>2. /\ at' \in [Clients -> Without \cup With]
          /\ \A d \in Clients : at'[d] = at[d] \/ (at[d] = "waiting" /\ at'[d] = "woken")
      BY Zenon, <1>2, <2>3, SignalFacts
    <3> QED BY <2>1, <3>1, <3>2
  <2> QED BY <1>1, <2>2, <2>3
<1>6. ClientTypes' /\ Hands' /\ Quiet'
  BY <1>1, <1>5 DEF PoolInv, ClientTypes, Hands, Quiet, Closed, Without
<1>7. PoolTypes'
  BY <1>1, <1>2, <1>3, <1>4 DEF PoolInv, PoolTypes
<1>8. Awake'
  <2>1. /\ Len(idle) \in Nat /\ Len(idle') \in Nat /\ setup.maxSize \in Nat /\ pending \in Nat
        /\ Cardinality(inUse) \in Nat
    BY <1>2, <1>3, Count DEF PoolInv, ClientTypes, PoolTypes, Setup
  <2>2. ASSUME Waiting' # {}
        PROVE  /\ Len(idle') <= Cardinality(Woken')
               /\ setup.maxSize - Cardinality(inUse) - pending <= Cardinality(Woken') + Cardinality(Holders')
    <3>1. Holders' = Holders /\ Cardinality(Holders) = 0
      BY <1>5, <1>held DEF Holders, SetFacts
    <3> QED BY <1>3, <1>5, <2>1, <2>2, <3>1 DEF PoolInv, Awake
  <2> QED BY Zenon, <1>1, <2>2 DEF Awake
<1>9. Apart'
  <2>1. \A d \in Clients : mine'[d] # None =>
          mine'[d] \notin Range(idle') /\ \A e \in Clients \ {d} : mine'[e] # mine'[d]
    BY Zenon, <1>1, <1>3 DEF PoolInv, PoolLists, Apart
  <2>2. \A d \in Clients : at'[d] \in {"created", "adding"} =>
          mine'[d] \notin inUse' \cup tracked' \cup {evict'.s}
    BY Zenon, <1>1, <1>2, <1>5 DEF PoolInv, PoolLists, Apart, Hands, Without
  <2> QED BY Zenon, <1>1, <1>3, <2>1, <2>2 DEF PoolInv, PoolLists, Apart
<1>way. OnTheWay'
  BY <1>1, <1>5, <1>held DEF PoolInv, PoolLists, OnTheWay, Holding
<1>10. ~Closed => OpenPool'
  <2> SUFFICES ASSUME OpenPool PROVE OpenPool'
    BY DEF PoolInv, PoolLists
  <2>1. ASSUME NEW d \in Clients, mine[d] # None PROVE conn'[mine[d]]
    <3>1. mine[d] \in Sessions /\ conn[mine[d]] /\ at[d] \notin Without
      BY <2>1 DEF OpenPool, PoolInv, ClientTypes, Hands, Without
    <3>2. mine[d] # s \/ s \in inUse
      BY Zenon, <1>held, <2>1, <3>1 DEF OpenPool, PoolInv, PoolLists, Apart, s, Without
    <3> QED BY <1>4, <3>1, <3>2
  <2>2. \A t \in Range(idle') : conn'[t]
    BY Zenon, <1>2, <1>3, <1>4, Places DEF OpenPool, Without
  <2> QED BY Zenon, <1>1, <1>5, <2>1, <2>2 DEF OpenPool, Without
<1>11. PoolKept'
  BY <1>1, <1>3, <1>4 DEF PoolInv, PoolLists, PoolKept
<1> QED BY <1>1, <1>6, <1>7, <1>8, <1>9, <1>10, <1>11, <1>way DEF PoolInv, PoolLists, Closed

\* Close: everything the pool knows of is closed, and everybody wakes up.
LEMMA CloseKeeps ==
  ASSUME SetFacts, PoolInv, Close
  PROVE  PoolInv'
<1>1. /\ closing = "stopped" /\ closing' = "done" /\ idle' = <<>> /\ inUse' = {}
      /\ \A s \in Sessions : conn'[s] <=> conn[s] /\ s \notin Range(idle) \cup inUse
      /\ conn' \in [Sessions -> BOOLEAN]
      /\ UNCHANGED <<pending, mine, tracked, evict, overtaken, setup>>
  BY Zenon DEF Close, PoolInv, PoolTypes
<1>2. /\ at' \in [Clients -> Without \cup With] /\ Waiting' = {}
      /\ \A d \in Clients : at'[d] = at[d] \/ (at[d] = "waiting" /\ at'[d] = "woken")
  BY Zenon, BroadcastFacts DEF Close, PoolInv, ClientTypes
<1>3. Len(idle') = 0 /\ idle' \in Seq(Sessions) /\ Range(idle') = {} /\ IsInjective(idle')
  BY <1>1 DEF Range, IsInjective
<1>4. ClientTypes' /\ Hands' /\ Quiet'
  BY <1>1, <1>2 DEF PoolInv, ClientTypes, Hands, Quiet, Closed, Without
<1>5. PoolTypes' /\ Awake'
  BY Zenon, <1>1, <1>2, <1>3 DEF PoolInv, PoolTypes, Awake, SetFacts
<1>6. Apart' /\ OnTheWay'
  BY Zenon, <1>1, <1>2, <1>3 DEF PoolInv, PoolLists, Apart, OnTheWay, Holding
<1>7. PoolKept'
  <2>1. ASSUME ~overtaken, NEW s \in Sessions, conn'[s] PROVE FALSE
    <3>1. \A c \in Clients : mine[c] = None
      BY <1>1, <2>1 DEF PoolInv, Quiet, Closed, Hands, Without
    <3> QED BY <1>1, <2>1, <3>1, NoneAssumption DEF PoolInv, PoolLists, PoolKept
  <2> QED BY <1>1, <2>1 DEF PoolKept
<1> QED BY <1>1, <1>4, <1>5, <1>6, <1>7 DEF PoolInv, PoolLists, Closed

\* Every step of the pool.
LEMMA PoolKeeps ==
  ASSUME SetFacts, PoolInv, PoolStep
  PROVE  PoolInv'
<1>1. ASSUME NEW c \in Clients, PoolClientStep(c) \/ ContextDone(c) PROVE PoolInv'
  BY Zenon, <1>1, AcquireKeeps, BorrowKeeps, ContextKeeps, CreateKeeps, AddBeginKeeps, AddKeeps, ReleaseCheckKeeps,
     ReleaseKeeps, ParkKeeps DEF PoolClientStep
<1> QED BY Zenon, <1>1, RemoveKeeps, CloseKeeps DEF PoolStep

-----------------------------------------------------------------------------
(* The steps of the manager and of the evictor beside the pool.            *)

\* Acquire and Release up to the handler of the mode.
LEMMA BeginKeeps ==
  ASSUME SetFacts, PoolInv, NEW c \in Clients, AcquireBegin(c) \/ ReleaseBegin(c), UNCHANGED poolVars
  PROVE  PoolInv'
<1>1. UNCHANGED <<conn, idle, inUse, pending, tracked, evict, closing, overtaken, setup>>
  BY DEF AcquireBegin, ReleaseBegin, sessionVars, evictorVars, closeVars, poolVars
<1>2. /\ at[c] \in {"idle", "using"}
      /\ \E x \in {"idle", "entered", "returning"} : at' = [at EXCEPT ![c] = x]
  BY Zenon DEF AcquireBegin, ReleaseBegin
<1>3. /\ at' \in [Clients -> Without \cup With] /\ \A d \in Clients \ {c} : at'[d] = at[d]
      /\ Waiting' = Waiting /\ Cardinality(Woken') = Cardinality(Woken) /\ Holders' = Holders
  BY Zenon, <1>2, OneMoves DEF PoolInv, ClientTypes, With, Without, Holding
<1>4. /\ mine' \in [Clients -> Sessions \cup {None}] /\ \A d \in Clients \ {c} : mine'[d] = mine[d]
      /\ \/ at[c] = "idle" /\ at'[c] = "entered" /\ ~Closed /\ mine' = mine
         \/ at[c] = "using" /\ at'[c] = "idle" /\ Closed /\ mine'[c] = None
         \/ at[c] = "using" /\ at'[c] = "returning" /\ ~Closed /\ mine' = mine
  BY Zenon DEF AcquireBegin, ReleaseBegin, PoolInv, ClientTypes
<1>5. ClientTypes' /\ Hands' /\ Quiet'
  <2>1. ClientTypes'
    BY <1>1, <1>3, <1>4 DEF PoolInv, ClientTypes
  <2>2. Hands'
    BY Zenon, <1>3, <1>4 DEF PoolInv, Hands, Without
  <2> QED BY <1>1, <1>3, <1>4, <2>1, <2>2 DEF PoolInv, Quiet, Closed
<1>6. PoolTypes' /\ Awake'
  BY <1>1, <1>3 DEF PoolInv, PoolTypes, Awake
<1>7. Apart'
  <2>1. \A d \in Clients : mine'[d] # None => mine'[d] = mine[d]
    BY Zenon, <1>4
  <2>2. \A d \in Clients : at'[d] \in {"created", "adding"} => at'[d] = at[d] /\ mine'[d] = mine[d]
    BY <1>3, <1>4
  <2>3. \A d \in Clients : mine'[d] # None =>
          mine'[d] \notin Range(idle) /\ \A e \in Clients \ {d} : mine'[e] # mine'[d]
    BY Zenon, <2>1 DEF PoolInv, PoolLists, Apart
  <2> QED BY Zenon, <1>1, <2>2, <2>3 DEF PoolInv, PoolLists, Apart
<1>way. OnTheWay'
  BY <1>1, <1>3, <1>4 DEF PoolInv, PoolLists, OnTheWay, Holding
<1>8. ~Closed => OpenPool'
  BY Zenon, <1>1, <1>3, <1>4 DEF PoolInv, PoolLists, OpenPool, Without, Holding
<1>9. PoolKept'
  <2>1. ASSUME NEW d \in Clients, ~overtaken PROVE mine'[d] = mine[d]
    BY <1>3, <1>4, <2>1 DEF PoolInv, Quiet
  <2> QED BY Zenon, <1>1, <2>1 DEF PoolInv, PoolLists, PoolKept
<1> QED BY <1>1, <1>5, <1>6, <1>7, <1>8, <1>9, <1>way DEF PoolInv, PoolLists, Closed

\* Time, the evictor's look at a session, and Close up to the handler of the mode.
LEMMA BesideKeeps ==
  ASSUME SetFacts, PoolInv, UNCHANGED poolVars,
         \/ \E s \in Sessions : Expire(s) \/ checkEvictions(s)
         \/ evictSession \/ CloseBegin \/ StopEvictor
  PROVE  PoolInv'
<1>1. UNCHANGED <<at, mine, conn, idle, inUse, pending, setup>>
  BY Zenon DEF Expire, checkEvictions, evictSession, CloseBegin, StopEvictor, sessionVars, clientVars, poolVars
<1>2. /\ tracked' \subseteq tracked
      /\ evict' \in [at : {"idle", "due", "remove"}, s : Sessions \cup {None}, reason : {"none", "ttl", "idle"}]
      /\ evict'.s \in tracked \cup {evict.s, None}
  <2> DEFINE Evicts == [at : {"idle", "due", "remove"}, s : Sessions \cup {None},
                        reason : {"none", "ttl", "idle"}]
  <2>1. evict \in Evicts
    BY DEF PoolInv, PoolTypes
  <2>2. ASSUME NEW s \in Sessions, checkEvictions(s)
        PROVE  tracked' \subseteq tracked /\ evict' \in Evicts /\ evict'.s \in tracked \cup {evict.s}
    BY <2>1, <2>2 DEF checkEvictions
  <2>3. CASE evictSession
    BY <2>1, <2>3 DEF evictSession, NoEvict
  <2>4. CASE UNCHANGED <<tracked, evict>>
    BY <2>1, <2>4
  <2>5. \/ \E s \in Sessions : checkEvictions(s)
        \/ evictSession \/ UNCHANGED <<tracked, evict>>
    BY Zenon DEF Expire, CloseBegin, StopEvictor, evictorVars
  <2> QED BY Zenon, <2>2, <2>3, <2>4, <2>5
<1>3. \/ UNCHANGED <<closing, overtaken>>
      \/ closing = "open" /\ closing' = "flagged" /\ overtaken' = \E c \in Clients : at[c] # "idle"
      \/ closing = "flagged" /\ closing' = "stopped" /\ UNCHANGED overtaken
  BY Zenon DEF Expire, checkEvictions, evictSession, CloseBegin, StopEvictor, closeVars
<1>4. ClientTypes' /\ Hands' /\ Quiet'
  <2>1. ClientTypes'
    BY Zenon, <1>1, <1>3 DEF PoolInv, ClientTypes
  <2>2. \/ overtaken' = overtaken /\ (Closed' <=> Closed)
        \/ Closed' /\ overtaken' = \E c \in Clients : at[c] # "idle"
    BY Zenon, <1>3 DEF Closed
  <2>3. Hands'
    BY Zenon, <1>1 DEF PoolInv, Hands
  <2>4. CASE overtaken' = overtaken /\ (Closed' <=> Closed)
    BY Zenon, <1>1, <2>1, <2>3, <2>4 DEF PoolInv, Quiet
  <2>5. CASE Closed' /\ overtaken' = \E c \in Clients : at[c] # "idle"
    BY <1>1, <2>1, <2>3, <2>5 DEF Quiet
  <2> QED BY Zenon, <2>2, <2>4, <2>5
<1>5. PoolTypes' /\ Awake'
  BY <1>1, <1>2 DEF PoolInv, PoolTypes, Awake, Waiting, Woken, Holders
<1>6. Apart'
  <2>1. \A d \in Clients : at'[d] \in {"created", "adding"} =>
          mine'[d] \notin inUse' \cup tracked' \cup {evict'.s}
    BY Zenon, <1>1, <1>2 DEF PoolInv, PoolLists, Apart, Hands, Without
  <2> QED BY Zenon, <1>1, <2>1 DEF PoolInv, PoolLists, Apart
<1>7. OnTheWay' /\ (~Closed => OpenPool')
  BY Zenon, <1>1 DEF PoolInv, PoolLists, OnTheWay, OpenPool
<1>8. PoolKept'
  BY Zenon, <1>1, <1>3 DEF PoolInv, PoolLists, PoolKept, Quiet, Closed
<1> QED BY Zenon, <1>3, <1>4, <1>5, <1>6, <1>7, <1>8 DEF PoolInv, PoolLists, Closed
=============================================================================
