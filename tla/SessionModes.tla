----------------------------- MODULE SessionModes -----------------------------
(***************************************************************************)
(* Sessions in the modes reuse, churn and per_request                      *)
(* (internal/session/modes.go, SessionTimer of eviction.go): a map from    *)
(* virtual users to sessions, read without the lock that its changes take, *)
(* with a timer and the evictor beside it in reuse mode and a count of     *)
(* operations in churn mode.  In per_request mode the map stays empty.     *)
(*                                                                         *)
(* Every section under rm.mu, cm.mu or a session's own lock is one action. *)
(* SetState, Touch and the timer's Touch, which Acquire calls in a row, are *)
(* one: until the first of them nothing has changed.                       *)
(***************************************************************************)
EXTENDS SessionStates

VARIABLES
  sessions,    \* rm.sessions, cm.sessions: None where there is no entry
  toVU,        \* sessionToVU: None where there is no entry
  opCount,     \* churnSession.opCount, of the entry made for each session
  armed,       \* sessions whose SessionTimer is not stopped
  idleArmed,   \* sessions whose idleTimer is to fire
  firing,      \* timer functions under way: the session and the phase
  lost,        \* history: sessions that another one's entry or end put out of the map
  uses         \* history: in churn mode by operations, how often each session was handed out

timerVars == <<armed, idleArmed, firing>>
modeVars == <<sessions, toVU, opCount, timerVars, lost, uses>>

Mapped == {sessions[v] : v \in VUs} \ {None}

\* NewReuseMode, NewPerRequestMode, NewChurnMode.
ModesInit ==
  /\ sessions = [v \in VUs |-> None] /\ toVU = [s \in Sessions |-> None]
  /\ opCount = [s \in Sessions |-> 0]
  /\ armed = {} /\ idleArmed = {} /\ firing = {}
  /\ lost = {} /\ uses = [s \in Sessions |-> 0]

-----------------------------------------------------------------------------
(* Acquire.                                                                *)

\* The entry is read under the read lock, or there is none.
Look(c) ==
  /\ at[c] = "entered"
  /\ LET s == sessions[setup.vu[c]]
     IN  /\ mine' = [mine EXCEPT ![c] = s]
         /\ at' = [at EXCEPT ![c] = IF s = None THEN "connecting" ELSE "looked"]
  /\ UNCHANGED <<cancelled, sessionVars, evictorVars, closeVars, setup, modeVars>>

\* Slip: one operation too many.
ShouldChurn_Late(c) ==
  IF setup.interval > 0 THEN {opCount[mine[c]] > setup.interval} ELSE BOOLEAN

\* Whether the entry is due for a change, which may be a matter of time.
ShouldChurn(c) ==
  IF setup.interval > 0 THEN {opCount[mine[c]] >= setup.interval} ELSE BOOLEAN

Unusable(c) ==
  {\/ IsExpired(mine[c]) \/ state[mine[c]] = "closed"
   \/ setup.mode = "reuse" /\ state[mine[c]] = "expired"
   \/ setup.mode = "churn" /\ churn : churn \in ShouldChurn(c)}

Check(c) ==
  /\ at[c] = "looked"
  /\ \E unusable \in Unusable(c) :
       at' = [at EXCEPT ![c] = IF unusable THEN "dropping" ELSE "taking"]
  /\ UNCHANGED <<mine, cancelled, sessionVars, evictorVars, closeVars, setup, modeVars>>

\* The entry of s goes, whichever session the entry of its user holds by now.
Unmap(s) ==
  LET v == toVU[s]
  IN  IF v = None
      THEN UNCHANGED <<sessions, toVU, armed, idleArmed, lost>>
      ELSE /\ sessions' = [sessions EXCEPT ![v] = None]
           /\ toVU' = [toVU EXCEPT ![s] = None]
           /\ armed' = armed \ {sessions[v]} /\ idleArmed' = idleArmed \ {sessions[v]}
           /\ lost' = lost \cup ({sessions[v]} \ {s, None})

\* Invalidate, called by Acquire or, in reuse mode, by a virtual user that finds
\* its session over and acquires again.
Invalidate(c) ==
  LET s == mine[c]
  IN  /\ at[c] \in {"dropping", "rejecting"}
      /\ Unmap(s)
      /\ state' = [state EXCEPT ![s] = "closed"] /\ conn' = [conn EXCEPT ![s] = FALSE]
      /\ tracked' = tracked \ {s}
      /\ mine' = [mine EXCEPT ![c] = None]
      /\ at' = [at EXCEPT ![c] = IF at[c] = "dropping" THEN "connecting" ELSE "idle"]
      /\ UNCHANGED <<cancelled, old, stale, evict, closeVars, setup, opCount, firing, uses>>

\* SetState(StateActive), Touch, and the timer's Touch unless it was stopped.
Take(c) ==
  LET s == mine[c]
  IN  /\ at[c] = "taking"
      /\ state' = [state EXCEPT ![s] = "active"]
      /\ stale' = stale \ {s}
      /\ idleArmed' = IF s \in armed /\ "idle" \in setup.deadlines
                      THEN idleArmed \cup {s} ELSE idleArmed
      /\ uses' = IF setup.mode = "churn" /\ setup.interval > 0 THEN [uses EXCEPT ![s] = @ + 1] ELSE uses
      /\ at' = [at EXCEPT ![c] = "using"]
      /\ UNCHANGED <<mine, cancelled, conn, old, evictorVars, closeVars, setup,
                     sessions, toVU, opCount, armed, firing, lost>>

\* createSession.
Connect(c) ==
  /\ at[c] = "connecting"
  /\ \E s \in Free({t \in Sessions : toVU[t] # None} \cup {f[1] : f \in firing}) \cup {None},
        h \in Handshakes :
       /\ s # None \/ h.fails = "connect"
       /\ connectAndInitialize(s, h)
       /\ mine' = [mine EXCEPT ![c] = IF Succeeds(h) THEN s ELSE None]
       /\ at' = [at EXCEPT ![c] = IF Succeeds(h) THEN "created" ELSE "idle"]
       /\ lost' = lost \ {s}
  /\ UNCHANGED <<cancelled, evictorVars, closeVars, setup, sessions, toVU, opCount, timerVars, uses>>

\* NewSessionTimer.
Arm(s) ==
  /\ armed' = armed \cup {s}
  /\ idleArmed' = IF "idle" \in setup.deadlines THEN idleArmed \cup {s} ELSE idleArmed

\* Slip: the entry that another goroutine made meanwhile is overwritten.
StoreReuse_Blind(c) ==
  LET v == setup.vu[c]
      s == mine[c]
  IN  /\ sessions' = [sessions EXCEPT ![v] = s] /\ toVU' = [toVU EXCEPT ![s] = v]
      /\ Arm(s)
      /\ at' = [at EXCEPT ![c] = "tracking"]
      /\ UNCHANGED <<mine, state, conn, opCount, lost, uses>>

\* In reuse mode the first one in wins; the other session is closed.
StoreReuse(c) ==
  LET v == setup.vu[c]
      s == mine[c]
  IN  IF sessions[v] # None
      THEN /\ state' = [state EXCEPT ![s] = "closed"] /\ conn' = [conn EXCEPT ![s] = FALSE]
           /\ mine' = [mine EXCEPT ![c] = sessions[v]]
           /\ at' = [at EXCEPT ![c] = "taking"]
           /\ UNCHANGED <<sessions, toVU, opCount, armed, idleArmed, lost, uses>>
      ELSE /\ sessions' = [sessions EXCEPT ![v] = s] /\ toVU' = [toVU EXCEPT ![s] = v]
           /\ Arm(s)
           /\ at' = [at EXCEPT ![c] = "tracking"]
           /\ UNCHANGED <<mine, state, conn, opCount, lost, uses>>

\* In churn mode the last one in wins, and the other is not closed.
StoreChurn(c) ==
  LET v == setup.vu[c]
      s == mine[c]
  IN  /\ lost' = lost \cup ({sessions[v]} \ {None})
      /\ sessions' = [sessions EXCEPT ![v] = s] /\ toVU' = [toVU EXCEPT ![s] = v]
      /\ opCount' = [opCount EXCEPT ![s] = 0]
      /\ uses' = IF setup.interval > 0 THEN [uses EXCEPT ![s] = 1] ELSE uses
      /\ at' = [at EXCEPT ![c] = "using"]
      /\ UNCHANGED <<mine, state, conn, armed, idleArmed>>

StorePerRequest(c) ==
  /\ at' = [at EXCEPT ![c] = "using"]
  /\ UNCHANGED <<mine, state, conn, sessions, toVU, opCount, armed, idleArmed, lost, uses>>

Store(c) ==
  /\ at[c] = "created"
  /\ \/ setup.mode = "reuse" /\ StoreReuse(c)
     \/ setup.mode = "churn" /\ StoreChurn(c)
     \/ setup.mode = "per_request" /\ StorePerRequest(c)
  /\ UNCHANGED <<cancelled, old, stale, evictorVars, closeVars, setup, firing>>

\* The evictor hears of the session after the lock is gone.
Track(c) ==
  /\ at[c] = "tracking"
  /\ tracked' = IF closing \in {"open", "flagged"} THEN tracked \cup {mine[c]} ELSE tracked
  /\ at' = [at EXCEPT ![c] = "using"]
  /\ UNCHANGED <<mine, cancelled, sessionVars, evict, closeVars, setup, modeVars>>
-----------------------------------------------------------------------------
(* Use and release.                                                        *)

\* An operation ends with Touch; the timer is not told.
Touch(c) ==
  /\ at[c] = "using" /\ mine[c] \in stale
  /\ stale' = stale \ {mine[c]}
  /\ UNCHANGED <<clientVars, state, conn, old, evictorVars, closeVars, setup, modeVars>>

\* The loop of a virtual user in reuse mode finds its session over.
Reject(c) ==
  /\ setup.mode = "reuse" /\ at[c] = "using"
  /\ IsExpired(mine[c]) \/ state[mine[c]] \in {"closed", "expired"}
  /\ at' = [at EXCEPT ![c] = "rejecting"]
  /\ UNCHANGED <<mine, cancelled, sessionVars, evictorVars, closeVars, setup, modeVars>>

\* The operation is counted for the entry that its user has by now.
CountOp(s) ==
  LET entry == IF toVU[s] = None THEN None ELSE sessions[toVU[s]]
  IN  opCount' = IF entry # None /\ setup.interval > 0
                 THEN [opCount EXCEPT ![entry] = @ + 1] ELSE opCount

ReleasePerRequest(s) ==
  /\ state' = [state EXCEPT ![s] = "closed"] /\ conn' = [conn EXCEPT ![s] = FALSE]
  /\ UNCHANGED opCount

ModeRelease(c) ==
  LET s == mine[c]
  IN  /\ at[c] = "returning"
      /\ \/ setup.mode = "per_request" /\ ReleasePerRequest(s)
         \/ setup.mode # "per_request" /\ Closed /\ UNCHANGED <<state, conn, opCount>>
         \/ /\ setup.mode # "per_request" /\ ~Closed /\ UNCHANGED conn
            /\ state' = [state EXCEPT ![s] = "idle"]
            /\ IF setup.mode = "churn" THEN CountOp(s) ELSE UNCHANGED opCount
      /\ mine' = [mine EXCEPT ![c] = None]
      /\ at' = [at EXCEPT ![c] = "idle"]
      /\ UNCHANGED <<cancelled, old, stale, evictorVars, closeVars, setup,
                     sessions, toVU, timerVars, lost, uses>>

-----------------------------------------------------------------------------
(* Timers, eviction and Close.                                             *)

\* onTTLExpired and onIdleExpired, up to the session's lock.  Stop finds a timer
\* whose function waits for its lock in time.
TimerFires(s) ==
  /\ \/ /\ s \in armed /\ s \in old
        /\ armed' = armed \ {s} /\ idleArmed' = idleArmed \ {s}
        /\ firing' = firing \cup {<<s, "ttl">>}
     \/ /\ s \in idleArmed
        /\ idleArmed' = idleArmed \ {s} /\ UNCHANGED armed
        /\ firing' = firing \cup {<<s, "idle">>}
  /\ UNCHANGED <<clientVars, sessionVars, evictorVars, closeVars, setup,
                 sessions, toVU, opCount, lost, uses>>

\* The session's state decides: one that is in use expires without being evicted
\* if its TTL is over, and does not expire if it was only idle for long.
TimerExpires(s, why) ==
  /\ <<s, why>> \in firing
  /\ LET expires == IF why = "ttl" THEN state[s] \notin {"expired", "closed"} ELSE state[s] = "idle"
         evicts == expires /\ state[s] # "active"
     IN  /\ state' = IF expires THEN [state EXCEPT ![s] = "expired"] ELSE state
         /\ firing' = (firing \ {<<s, why>>}) \cup (IF evicts THEN {<<s, "evict">>} ELSE {})
         /\ armed' = IF evicts THEN armed \ {s} ELSE armed
         /\ idleArmed' = IF evicts THEN idleArmed \ {s} ELSE idleArmed
  /\ UNCHANGED <<clientVars, conn, old, stale, evictorVars, closeVars, setup,
                 sessions, toVU, opCount, lost, uses>>

\* The callback of the timer or of the evictor.
onEviction(s) ==
  /\ Unmap(s)
  /\ conn' = [conn EXCEPT ![s] = FALSE]
  /\ \/ <<s, "evict">> \in firing /\ firing' = firing \ {<<s, "evict">>} /\ UNCHANGED evict
     \/ evict.at = "remove" /\ evict.s = s /\ evict' = NoEvict /\ UNCHANGED firing
  /\ UNCHANGED <<clientVars, state, old, stale, tracked, closeVars, setup, opCount, uses>>

CloseSessions ==
  /\ state' = [s \in Sessions |-> IF s \in Mapped THEN "closed" ELSE state[s]]
  /\ conn' = [s \in Sessions |-> conn[s] /\ s \notin Mapped]
  /\ sessions' = [v \in VUs |-> None] /\ toVU' = [s \in Sessions |-> None]

ModeClose ==
  /\ closing = "stopped" /\ closing' = "done"
  /\ CloseSessions
  /\ armed' = {} /\ idleArmed' = {}
  /\ UNCHANGED <<clientVars, old, stale, evictorVars, overtaken, acquired, setup, opCount, firing, lost, uses>>

ModeClientStep(c) ==
  \/ Look(c) \/ Check(c) \/ Invalidate(c) \/ Take(c) \/ Connect(c) \/ Store(c) \/ Track(c)
  \/ Touch(c) \/ Reject(c) \/ ModeRelease(c)

ModesStep ==
  \/ \E c \in Clients : ModeClientStep(c)
  \/ \E s \in Sessions :
       TimerFires(s) \/ TimerExpires(s, "ttl") \/ TimerExpires(s, "idle") \/ onEviction(s)
  \/ ModeClose

-----------------------------------------------------------------------------
(* Properties.                                                             *)

\* In churn mode by operations a session is handed out churnIntervalOps times at
\* most, and once more for each other operation of its user in flight, although
\* the count is read without the lock and kept per entry of the map.
ChurnBounded ==
  setup.mode = "churn" /\ setup.interval > 0 =>
    \A s \in Sessions : uses[s] <= setup.interval + Cardinality(setup.clients) - 1
==============================================================================
