----------------------------- MODULE SessionPool -----------------------------
(***************************************************************************)
(* Sessions in pool mode (internal/session/pool.go, PoolMode of modes.go): *)
(* a bounded pool with a condition variable, borrowed by operation         *)
(* goroutines, emptied by the evictor and closed under everyone.           *)
(*                                                                         *)
(* A section under p.mu is one action where nobody else can see into it.   *)
(* The evictor changes a session's state under the session's own lock: a   *)
(* section that looks at a session and then sets its state is two, between *)
(* which the client keeps p.mu.                                            *)
(***************************************************************************)
EXTENDS SessionStates

VARIABLES
  idle,       \* p.sessions, oldest first
  inUse,      \* p.inUse
  pending     \* p.pendingCreates

poolVars == <<idle, inUse, pending>>

Waiting == {c \in Clients : at[c] = "waiting"}
Woken == {c \in Clients : at[c] = "woken"}

\* The clients between the two halves of a section, and whether p.mu is theirs.
Holders == {c \in Clients : at[c] \in {"borrowing", "parking"}}
Locked == Holders # {}

\* NewSessionPool.
PoolInit == idle = <<>> /\ inUse = {} /\ pending = 0

-----------------------------------------------------------------------------
(* The condition variable.  f is at with the caller's own step made.       *)

Signal(f) ==
  \/ Waiting = {} /\ at' = f
  \/ \E c \in Waiting : at' = [f EXCEPT ![c] = "woken"]

Broadcast(f) == at' = [c \in Clients |-> IF f[c] = "waiting" THEN "woken" ELSE f[c]]

-----------------------------------------------------------------------------
(* Acquire.                                                                *)

\* The sessions that a scan of the list throws out, and where it stops.
Dead(s) == IsExpired(s) \/ state[s] = "closed"
Live == {i \in DOMAIN idle : ~Dead(idle[i])}
FirstLive == IF Live = {} THEN 0 ELSE Min(Live)

Discarded == Range(SubSeq(idle, 1, IF FirstLive = 0 THEN Len(idle) ELSE FirstLive - 1))

Scan ==
  /\ idle' = IF FirstLive = 0 THEN <<>> ELSE SubSeq(idle, FirstLive + 1, Len(idle))
  /\ tracked' = tracked \ Discarded
  /\ conn' = [s \in Sessions |-> conn[s] /\ s \notin Discarded]

\* Room for one more once the scan has emptied the list.
HasRoom == Cardinality(inUse) + pending < setup.maxSize

\* A client with p.mu takes a live session out of the list, reserves room for a
\* new one, gives up, or waits.  A client that was waiting does not look at
\* p.closed; the others do so before they have the lock.
Acquire(c) ==
  /\ at[c] \in {"entered", "woken"}
  /\ \/ /\ at[c] = "entered" /\ Closed
        /\ at' = [at EXCEPT ![c] = "idle"]
        /\ cancelled' = cancelled \ {c}
        /\ UNCHANGED <<poolVars, mine, sessionVars, tracked>>
     \/ /\ ~Locked
        /\ at[c] = "woken" \/ ~Closed
        /\ Scan
        /\ \/ /\ FirstLive # 0
              /\ mine' = [mine EXCEPT ![c] = idle[FirstLive]]
              /\ at' = [at EXCEPT ![c] = "borrowing"]
              /\ UNCHANGED <<pending, cancelled>>
           \/ /\ FirstLive = 0 /\ HasRoom
              /\ pending' = pending + 1
              /\ at' = [at EXCEPT ![c] = "connecting"]
              /\ UNCHANGED <<mine, cancelled>>
           \/ /\ FirstLive = 0 /\ ~HasRoom
              /\ at' = [at EXCEPT ![c] = IF c \in cancelled THEN "idle" ELSE "waiting"]
              /\ cancelled' = cancelled \ {c}
              /\ UNCHANGED <<pending, mine>>
        /\ UNCHANGED <<inUse, state, old, stale>>
  /\ UNCHANGED <<evict, closeVars, setup>>

\* SetState(StateActive) and Touch of the session found.  An evictor that came
\* first has marked it expired and waits for p.mu.
Borrow(c) ==
  /\ at[c] = "borrowing"
  /\ state' = [state EXCEPT ![mine[c]] = "active"]
  /\ stale' = stale \ {mine[c]}
  /\ inUse' = inUse \cup {mine[c]}
  /\ at' = [at EXCEPT ![c] = "using"]
  /\ UNCHANGED <<idle, pending, mine, cancelled, conn, old, tracked, evict, closeVars, setup>>

\* The client's context ends; the goroutine that watches it for a waiting
\* client broadcasts.
ContextDone(c) ==
  /\ at[c] # "idle" /\ c \notin cancelled
  /\ cancelled' = cancelled \cup {c}
  /\ UNCHANGED <<poolVars, at, mine, sessionVars, tracked, evict, closeVars, setup>>

\* Slip: the broadcast is left to Close once the pool is closed.
WatchContext_Open(c) ==
  /\ at[c] = "waiting" /\ c \in cancelled /\ ~Locked
  /\ IF Closed THEN UNCHANGED at ELSE Broadcast(at)
  /\ UNCHANGED <<poolVars, mine, cancelled, sessionVars, tracked, evict, closeVars, setup>>

WatchContext(c) ==
  /\ at[c] = "waiting" /\ c \in cancelled /\ ~Locked
  /\ Broadcast(at)
  /\ UNCHANGED <<poolVars, mine, cancelled, sessionVars, tracked, evict, closeVars, setup>>

\* Slip: nobody is told of the room.
CancelReservation_Silent(c) ==
  /\ pending' = IF pending > 0 THEN pending - 1 ELSE 0
  /\ at' = [at EXCEPT ![c] = "idle"]

CancelReservation(c) ==
  /\ pending' = IF pending > 0 THEN pending - 1 ELSE 0
  /\ Signal([at EXCEPT ![c] = "idle"])

\* A new session, or the reservation is given back.
createSession(c) ==
  /\ at[c] = "connecting"
  /\ \E s \in Free(Range(idle) \cup inUse) \cup {None}, h \in Handshakes :
       /\ s # None \/ h.fails = "connect"
       /\ connectAndInitialize(s, h)
       /\ IF Succeeds(h)
          THEN /\ mine' = [mine EXCEPT ![c] = s]
               /\ at' = [at EXCEPT ![c] = "created"]
               /\ UNCHANGED <<pending, cancelled>>
          ELSE /\ ~Locked
               /\ CancelReservation(c)
               /\ cancelled' = cancelled \ {c}
               /\ UNCHANGED mine
  /\ UNCHANGED <<idle, inUse, tracked, evict, closeVars, setup>>

\* Add looks at p.closed before it has the lock.  To a closed pool the session
\* is not added, but the client has it.
AddBegin(c) ==
  /\ at[c] = "created"
  /\ at' = [at EXCEPT ![c] = IF Closed THEN "using" ELSE "adding"]
  /\ conn' = [conn EXCEPT ![mine[c]] = ~Closed]
  /\ UNCHANGED <<poolVars, mine, cancelled, state, old, stale, tracked, evict, closeVars, setup>>

Add(c) ==
  /\ at[c] = "adding" /\ ~Locked
  /\ pending' = IF pending > 0 THEN pending - 1 ELSE 0
  /\ inUse' = inUse \cup {mine[c]}
  /\ tracked' = IF closing \in {"open", "flagged"} THEN tracked \cup {mine[c]} ELSE tracked
  /\ at' = [at EXCEPT ![c] = "using"]
  /\ UNCHANGED <<idle, mine, cancelled, sessionVars, evict, closeVars, setup>>

-----------------------------------------------------------------------------
(* Release.                                                                *)

\* PoolMode.Release and SessionPool.Release, up to the lock.
ReleaseCheck(c) ==
  /\ at[c] = "returning"
  /\ IF Closed
     THEN /\ conn' = [conn EXCEPT ![mine[c]] = FALSE]
          /\ at' = [at EXCEPT ![c] = "idle"]
          /\ mine' = [mine EXCEPT ![c] = None]
          /\ cancelled' = cancelled \ {c}
     ELSE at' = [at EXCEPT ![c] = "releasing"] /\ UNCHANGED <<conn, mine, cancelled>>
  /\ UNCHANGED <<poolVars, state, old, stale, tracked, evict, closeVars, setup>>

\* A session that is over goes nowhere; the others are set idle.
Release(c) ==
  LET s == mine[c]
      dead == IsExpired(s) \/ state[s] \in {"closed", "expired"}
  IN  /\ at[c] = "releasing" /\ ~Locked
      /\ inUse' = inUse \ {s}
      /\ IF dead
         THEN /\ tracked' = tracked \ {s}
              /\ conn' = [conn EXCEPT ![s] = FALSE]
              /\ mine' = [mine EXCEPT ![c] = None]
              /\ cancelled' = cancelled \ {c}
              /\ Signal([at EXCEPT ![c] = "idle"])
              /\ UNCHANGED state
         ELSE /\ state' = [state EXCEPT ![s] = "idle"]
              /\ at' = [at EXCEPT ![c] = "parking"]
              /\ UNCHANGED <<conn, mine, cancelled, tracked>>
      /\ UNCHANGED <<idle, pending, old, stale, evict, closeVars, setup>>

\* Slip: the session is in the list while the client still has it.
Park_Kept(c) ==
  /\ at[c] = "parking"
  /\ stale' = stale \ {mine[c]} /\ idle' = Append(idle, mine[c])
  /\ Signal([at EXCEPT ![c] = "using"])
  /\ UNCHANGED <<inUse, pending, mine, cancelled, state, conn, old, tracked, evict, closeVars, setup>>

\* Touch, and the end of the list; a sleeping client hears of it.  The evictor
\* may have marked the session expired before the Touch.
Park(c) ==
  /\ at[c] = "parking"
  /\ stale' = stale \ {mine[c]}
  /\ idle' = Append(idle, mine[c])
  /\ mine' = [mine EXCEPT ![c] = None]
  /\ cancelled' = cancelled \ {c}
  /\ Signal([at EXCEPT ![c] = "idle"])
  /\ UNCHANGED <<inUse, pending, state, conn, old, tracked, evict, closeVars, setup>>

-----------------------------------------------------------------------------
(* Eviction and Close.                                                     *)

\* The list without the session: the search ends where it finds it.
Removed(s) ==
  LET places == {i \in DOMAIN idle : idle[i] = s}
  IN  IF places = {} THEN idle
      ELSE SubSeq(idle, 1, Min(places) - 1) \o SubSeq(idle, Min(places) + 1, Len(idle))

\* Slip: the evictor closes a session that was borrowed while it waited for p.mu.
removeSession_Blind ==
  /\ evict.at = "remove" /\ ~Locked
  /\ idle' = Removed(evict.s) /\ conn' = [conn EXCEPT ![evict.s] = FALSE]
  /\ Signal(at)
  /\ evict' = NoEvict
  /\ UNCHANGED <<inUse, pending, mine, cancelled, state, old, stale, tracked, closeVars, setup>>

removeSession ==
  LET s == evict.s
  IN  /\ evict.at = "remove" /\ ~Locked
      /\ IF s \in inUse
         THEN UNCHANGED <<idle, at, conn>>
         ELSE /\ idle' = Removed(s)
              /\ conn' = [conn EXCEPT ![s] = FALSE]
              /\ Signal(at)
      /\ evict' = NoEvict
      /\ UNCHANGED <<inUse, pending, mine, cancelled, state, old, stale, tracked, closeVars, setup>>

Close ==
  /\ closing = "stopped" /\ closing' = "done" /\ ~Locked
  /\ LET all == Range(idle) \cup inUse
     IN  /\ state' = [s \in Sessions |-> IF s \in all THEN "closed" ELSE state[s]]
         /\ conn' = [s \in Sessions |-> conn[s] /\ s \notin all]
  /\ idle' = <<>> /\ inUse' = {}
  /\ Broadcast(at)
  /\ UNCHANGED <<pending, mine, cancelled, old, stale, tracked, evict, overtaken, acquired, setup>>

-----------------------------------------------------------------------------
PoolClientStep(c) ==
  \/ Acquire(c) \/ Borrow(c) \/ WatchContext(c) \/ createSession(c) \/ AddBegin(c) \/ Add(c)
  \/ ReleaseCheck(c) \/ Release(c) \/ Park(c)

PoolStep ==
  \/ \E c \in Clients : PoolClientStep(c) \/ ContextDone(c)
  \/ removeSession \/ Close

-----------------------------------------------------------------------------
(* Properties.                                                             *)

\* A session is in one client's hands or in the list, never in two places: the
\* MCP server sees the operations of one user at a time on it.
Exclusive ==
  setup.mode = "pool" =>
  /\ IsInjective(idle)
  /\ \A c \in Clients : mine[c] # None =>
       mine[c] \notin Range(idle) /\ \A d \in Clients \ {c} : mine[d] # mine[c]

\* As long as the pool is open, a session in a client's hands keeps its
\* connection, even if evictSession marked it expired between the look Acquire
\* took at it and its SetState, or between the two halves of Release, and calls
\* removeSession when the next client has it.
UsedStaysOpen ==
  setup.mode = "pool" /\ ~Closed => \A c \in Clients : mine[c] # None => conn[mine[c]]

\* No wakeup is lost: when p.mu is free, clients wait and none is on its way to
\* look, there is nothing for them to take.
NoLostWakeup ==
  ~Locked /\ Waiting # {} /\ Woken = {} => idle = <<>> /\ ~HasRoom

\* A client whose context ends gets out of Acquire, or uses what it was given and
\* releases it, also when Close came first and left reservations behind.
CancelledReturns == \A c \in Clients : (c \in cancelled) ~> (c \notin cancelled)
==============================================================================
