---------------------------- MODULE ApiRateLimiter ----------------------------
(***************************************************************************)
(* The rate limiter of the HTTP API (controlplane/api/ratelimit.go): one   *)
(* token bucket per client, made when the client first asks, dropped when  *)
(* it was idle for a while or when there are too many.                     *)
(*                                                                         *)
(* allowKey is one section under rl.mu.  Tokens are counted in parts, of   *)
(* which TokenParts make one.                                              *)
(***************************************************************************)
EXTENDS Integers, Sequences, FiniteSets

CONSTANTS
  ApiClients,
  TokenParts,
  LimiterSetups

LimiterSetup ==
  [rate : Nat,         \* RequestsPerSecond, in parts per tick
   burst : Nat,        \* BurstSize
   maxClients : Nat,   \* MaxClients; 0 is no limit
   ttl : Nat \ {0},    \* ClientTTL; cleanupLocked puts a default in place of 0
   interval : Nat,     \* CleanupInterval
   clients : SUBSET ApiClients,  \* bound: clients that ask
   requests : Nat,     \* bound: requests of a client in one tick
   horizon : Nat]      \* bound: the clock stops here

ASSUME LimiterAssumption ==
  LimiterSetups \subseteq LimiterSetup /\ TokenParts \in Nat \ {0}

VARIABLES
  limiter,       \* the setup
  tick,
  buckets,       \* rl.buckets: tokens, lastRefill, lastSeen
  lastCleanup,
  asked,         \* requests in this tick
  allowed,       \* history: when requests of a client were allowed
  forgotten      \* history: clients whose bucket was dropped for another's

limiterVars == <<limiter, tick, buckets, lastCleanup, asked, allowed, forgotten>>

LimiterInit(setups) ==
  /\ limiter \in setups
  /\ tick = 0 /\ buckets = <<>> /\ lastCleanup = 0
  /\ asked = [c \in ApiClients |-> 0]
  /\ allowed = [c \in ApiClients |-> <<>>] /\ forgotten = {}

newTokenBucket == [tokens |-> limiter.burst * TokenParts, lastRefill |-> tick, lastSeen |-> tick]

\* cleanupLocked: the buckets that survive.
Cleaned ==
  IF tick - lastCleanup < limiter.interval THEN buckets
  ELSE [c \in {x \in DOMAIN buckets : buckets[x].lastSeen >= tick - limiter.ttl} |-> buckets[c]]

\* evictOldestLocked: the oldest, any of them if there are several.
Oldest(bs) == {c \in DOMAIN bs : \A x \in DOMAIN bs : bs[c].lastSeen <= bs[x].lastSeen}

Victims(bs) ==
  IF limiter.maxClients > 0 /\ Cardinality(DOMAIN bs) >= limiter.maxClients THEN Oldest(bs) ELSE {}

Refilled(b) ==
  LET tokens == b.tokens + (tick - b.lastRefill) * limiter.rate
      full == limiter.burst * TokenParts
  IN  IF tokens > full THEN full ELSE tokens

\* Slip: only the request that makes a bucket dates it.
take_Undated(b) ==
  [tokens |-> Refilled(b) - IF Refilled(b) >= TokenParts THEN TokenParts ELSE 0,
   lastRefill |-> tick, lastSeen |-> b.lastSeen]

take(b) ==
  [tokens |-> Refilled(b) - IF Refilled(b) >= TokenParts THEN TokenParts ELSE 0,
   lastRefill |-> tick, lastSeen |-> tick]

allowKey(c) ==
  \E evicted \in SUBSET Victims(Cleaned) :
    LET kept == [x \in DOMAIN Cleaned \ evicted |-> Cleaned[x]]
        b == IF c \in DOMAIN Cleaned THEN Cleaned[c] ELSE newTokenBucket
    IN  /\ Cardinality(evicted) =
             IF c \notin DOMAIN Cleaned /\ Victims(Cleaned) # {} THEN 1 ELSE 0
        /\ c \in limiter.clients /\ asked[c] < limiter.requests
        /\ asked' = [asked EXCEPT ![c] = @ + 1]
        /\ buckets' = [x \in DOMAIN kept \cup {c} |-> IF x = c THEN take(b) ELSE kept[x]]
        /\ allowed' = IF Refilled(b) >= TokenParts THEN [allowed EXCEPT ![c] = Append(@, tick)] ELSE allowed
        /\ lastCleanup' = IF tick - lastCleanup < limiter.interval THEN lastCleanup ELSE tick
        /\ forgotten' = forgotten \cup evicted
        /\ UNCHANGED <<limiter, tick>>

LimiterTick ==
  /\ tick < limiter.horizon
  /\ tick' = tick + 1 /\ asked' = [c \in ApiClients |-> 0]
  /\ UNCHANGED <<limiter, buckets, lastCleanup, allowed, forgotten>>

LimiterNext == LimiterTick \/ \E c \in ApiClients : allowKey(c)

-----------------------------------------------------------------------------
(* Properties.                                                             *)

\* The parts a client can gain in ClientTTL: what the rate adds, or a whole burst, when
\* cleanupLocked may drop an idle bucket that is not full yet and allowKey makes a full one.
Gained(s) ==
  LET added == s.rate * s.ttl
      full == s.burst * TokenParts
  IN  IF added > full THEN added ELSE full

\* In no stretch of time does allowKey let a client do more than the burst and what it
\* gains in that time, with its idle bucket dropped by the cleanup and made again any
\* number of times; only a bucket dropped for want of room starts over.  When a bucket
\* fills up within ClientTTL, as with the defaults, the gain is the configured rate; when
\* it does not, which nothing in the configuration rules out, the client has the higher
\* rate of one burst per ClientTTL.
RateKept ==
  \A c \in ApiClients \ forgotten : \A i, j \in DOMAIN allowed[c] :
    i <= j => (j - i + 1) * (TokenParts * limiter.ttl)
                <= limiter.burst * (TokenParts * limiter.ttl)
                   + Gained(limiter) * (allowed[c][j] - allowed[c][i])
===============================================================================
