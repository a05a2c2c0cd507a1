---------------------------- MODULE SessionStates ----------------------------
(***************************************************************************)
(* What the session modes have in common (internal/session: types.go,      *)
(* eviction.go, manager.go, the first part of modes.go): a session with    *)
(* its state, connection and two deadlines, the handshake that makes it,   *)
(* the Evictor, and the flags and steps of Manager.                        *)
(*                                                                         *)
(* The closed flags of the manager and of the mode are set one right after *)
(* the other and are one variable.                                         *)
(***************************************************************************)
EXTENDS Integers, Sequences, FiniteSets, Functions, FiniteSetsExt

CONSTANTS
  Clients,    \* goroutines that acquire, use and release sessions
  VUs,        \* the virtual users they work for
  Sessions,   \* identities; one whose connection is closed may be used again
  Setups,     \* the instances considered
  None        \* no session

Setup ==
  [mode : {"pool", "reuse", "churn", "per_request"},   \* config.Mode
   policy : {"strict", "supported", "none"},           \* ProtocolVersionPolicy
   maxSize : Nat,                \* PoolSize, of pool mode
   deadlines : SUBSET {"ttl", "idle"},   \* which of TTLMs and MaxIdleMs are set
   interval : Nat,               \* ChurnIntervalOps; 0: by time
   clients : SUBSET Clients,     \* bound: the goroutines there are
   vu : [Clients -> VUs],        \* whose they are
   sessions : SUBSET Sessions,   \* bound: identities in use
   acquires : [Clients -> Nat],  \* bound: calls of Acquire of a client; 0: any number
   closes : BOOLEAN]             \* bound: whether the manager is ever closed

ASSUME SetupsAssumption == Setups \subseteq Setup
ASSUME NoneAssumption == None \notin Sessions \cup VUs
ASSUME ClientsAssumption == IsFiniteSet(Clients)

VARIABLES
  setup,
  at,         \* where each client is
  mine,       \* the session it was given, or looks at
  cancelled,  \* clients whose context is done
  state,      \* session.State, "none" before it exists
  conn,       \* whether session.Connection is open
  old,        \* sessions past ExpiresAt
  stale,      \* sessions past IdleExpiresAt
  tracked,    \* evictor.sessions
  evict,      \* the evictor: where, on which session, for which reason
  closing,    \* Close: "open", "flagged", "stopped" (the evictor), "done"
  overtaken,  \* history: whether a client was not idle when Close began
  acquired    \* history: calls of Acquire, where they are bounded

clientVars == <<at, mine, cancelled>>
sessionVars == <<state, conn, old, stale>>
evictorVars == <<tracked, evict>>
closeVars == <<closing, overtaken, acquired>>

NoEvict == [at |-> "idle", s |-> None, reason |-> "none"]
Closed == closing # "open"
IsExpired(s) == s \in old \/ s \in stale
Held == {mine[c] : c \in Clients} \cup {evict.s}

\* NewManager, without a handler's own state.
NewManager ==
  /\ setup \in Setups
  /\ at = [c \in Clients |-> "idle"] /\ mine = [c \in Clients |-> None]
  /\ cancelled = {}
  /\ state = [s \in Sessions |-> "none"] /\ conn = [s \in Sessions |-> FALSE]
  /\ old = {} /\ stale = {} /\ tracked = {}
  /\ evict = NoEvict /\ closing = "open" /\ overtaken = FALSE
  /\ acquired = [c \in Clients |-> 0]

-----------------------------------------------------------------------------
(* Making a session.                                                       *)

\* The version the server answers with: the requested one, another that is
\* supported, or neither.
Versions == {"requested", "supported", "unknown"}

ValidateNegotiation(policy, returned) ==
  \/ policy = "none"
  \/ policy = "supported" /\ returned # "unknown"
  \/ policy = "strict" /\ returned = "requested"

\* What connectAndInitialize may meet: no connection, a failed or refused
\* initialize, a version, and a failed notification.
Handshakes ==
  {[fails |-> "connect", version |-> None], [fails |-> "initialize", version |-> None]}
    \cup [fails : {"initialized", "nothing"}, version : Versions]

Succeeds(h) == h.fails = "nothing" /\ ValidateNegotiation(setup.policy, h.version)

\* The identity for a new session: one that nobody knows from before, if any.
Free(known) ==
  LET free == {s \in setup.sessions \ (known \cup Held \cup tracked) : ~conn[s]}
  IN  IF free = {} THEN {} ELSE {CHOOSE s \in free : TRUE}

\* The connection is open afterwards only if there is a session.
connectAndInitialize(s, h) ==
  /\ conn' = [conn EXCEPT ![s] = Succeeds(h)]
  /\ state' = IF Succeeds(h) THEN [state EXCEPT ![s] = "active"] ELSE state
  /\ old' = old \ {s} /\ stale' = stale \ {s}

-----------------------------------------------------------------------------
(* Time and the evictor.                                                   *)

Expire(s) ==
  /\ conn[s]
  /\ \/ "ttl" \in setup.deadlines /\ s \notin old /\ old' = old \cup {s} /\ UNCHANGED stale
     \/ "idle" \in setup.deadlines /\ s \notin stale /\ stale' = stale \cup {s} /\ UNCHANGED old
  /\ UNCHANGED <<clientVars, state, conn, evictorVars, closeVars, setup>>

\* checkEvictions notes a session it finds due, or forgets one that is over.
checkEvictions(s) ==
  /\ evict.at = "idle" /\ closing \in {"open", "flagged"} /\ s \in tracked
  /\ \/ /\ state[s] \in {"expired", "closed"}
        /\ tracked' = tracked \ {s} /\ UNCHANGED evict
     \/ /\ state[s] \notin {"expired", "closed"} /\ UNCHANGED tracked
        /\ \/ s \in old /\ evict' = [at |-> "due", s |-> s, reason |-> "ttl"]
           \/ /\ s \notin old /\ s \in stale /\ state[s] = "idle"
              /\ evict' = [at |-> "due", s |-> s, reason |-> "idle"]
  /\ UNCHANGED <<clientVars, sessionVars, closeVars, setup>>

\* evictSession looks again, under the session's lock.
Evictable(s) ==
  \/ evict.reason = "idle" /\ state[s] = "idle" /\ s \in stale
  \/ evict.reason = "ttl" /\ state[s] \notin {"active", "expired", "closed"} /\ s \in old

evictSession ==
  LET s == evict.s
  IN  /\ evict.at = "due"
      /\ IF Evictable(s)
         THEN /\ state' = [state EXCEPT ![s] = "expired"]
              /\ tracked' = tracked \ {s}
              /\ evict' = [evict EXCEPT !.at = "remove"]
         ELSE /\ evict' = NoEvict
              /\ tracked' = IF state[s] \in {"expired", "closed"} THEN tracked \ {s} ELSE tracked
              /\ UNCHANGED state
      /\ UNCHANGED <<clientVars, conn, old, stale, closeVars, setup>>

-----------------------------------------------------------------------------
(* Manager.                                                                *)

\* Manager.Acquire, and the same look at the handler's flag.
AcquireBegin(c) ==
  /\ c \in setup.clients /\ at[c] = "idle" /\ ~Closed
  /\ setup.acquires[c] = 0 \/ acquired[c] < setup.acquires[c]
  /\ acquired' = IF setup.acquires[c] = 0 THEN acquired ELSE [acquired EXCEPT ![c] = @ + 1]
  /\ at' = [at EXCEPT ![c] = "entered"]
  /\ UNCHANGED <<mine, cancelled, sessionVars, evictorVars, closing, overtaken, setup>>

\* Manager.Release of a closed manager does nothing at all.
ReleaseBegin(c) ==
  /\ at[c] = "using"
  /\ at' = [at EXCEPT ![c] = IF Closed THEN "idle" ELSE "returning"]
  /\ mine' = [mine EXCEPT ![c] = IF Closed THEN None ELSE @]
  /\ cancelled' = IF Closed THEN cancelled \ {c} ELSE cancelled
  /\ UNCHANGED <<sessionVars, evictorVars, closeVars, setup>>

CloseBegin ==
  /\ setup.closes /\ closing = "open" /\ closing' = "flagged"
  /\ overtaken' = \E c \in Clients : at[c] # "idle"
  /\ UNCHANGED acquired
  /\ UNCHANGED <<clientVars, sessionVars, evictorVars, setup>>

\* evictor.Stop waits for the pass under way.
StopEvictor ==
  /\ closing = "flagged" /\ evict.at = "idle" /\ closing' = "stopped"
  /\ UNCHANGED <<overtaken, acquired, clientVars, sessionVars, evictorVars, setup>>
==============================================================================
