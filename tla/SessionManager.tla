---------------------------- MODULE SessionManager ----------------------------
(***************************************************************************)
(* The session manager (internal/session/manager.go): one of the four      *)
(* modes, chosen by the configuration, behind one interface, and Close.    *)
(***************************************************************************)
EXTENDS SessionPool, SessionModes

vars == <<setup, clientVars, sessionVars, evictorVars, closeVars, poolVars, modeVars>>

Init == NewManager /\ PoolInit /\ ModesInit

Pooled == setup.mode = "pool"

\* What a client does with the handler of its mode.
ClientStep(c) ==
  \/ ReleaseBegin(c) /\ UNCHANGED <<poolVars, modeVars>>
  \/ Pooled /\ PoolClientStep(c) /\ UNCHANGED modeVars
  \/ ~Pooled /\ ModeClientStep(c) /\ UNCHANGED poolVars

\* Everything is over: nobody acquires from a closed manager, or any more.
Finished ==
  /\ \A c \in setup.clients :
       /\ at[c] = "idle"
       /\ closing = "done" \/ (setup.acquires[c] # 0 /\ acquired[c] = setup.acquires[c])
  /\ UNCHANGED vars

Next ==
  \/ \E c \in Clients : AcquireBegin(c) /\ UNCHANGED <<poolVars, modeVars>>
  \/ \E c \in Clients : ReleaseBegin(c) /\ UNCHANGED <<poolVars, modeVars>>
  \/ \E s \in Sessions : (Expire(s) \/ checkEvictions(s)) /\ UNCHANGED <<poolVars, modeVars>>
  \/ (evictSession \/ CloseBegin \/ StopEvictor) /\ UNCHANGED <<poolVars, modeVars>>
  \/ Pooled /\ PoolStep /\ UNCHANGED modeVars
  \/ ~Pooled /\ ModesStep /\ UNCHANGED poolVars
  \/ Finished

Spec == Init /\ [][Next]_vars

\* Goroutines are scheduled, sessions are used for a finite time, and p.mu goes to
\* everyone who waits for it: a sync.Mutex hands itself over to the goroutine that
\* has waited for a millisecond.
FairSpec == Spec /\ \A c \in Clients : SF_vars(ClientStep(c))

-----------------------------------------------------------------------------
(* Properties.                                                             *)

\* No connection is left behind.  One that is open is where Close will find it or
\* in a client's hands, and Close closes it; except those that cross Close with
\* the client that creates or holds them, and except, in churn mode, a session
\* that a second one of the same virtual user put out of the map.
NoLeak ==
  \A s \in Sessions : conn[s] =>
    \/ closing # "done" /\ s \in Mapped \cup Range(idle) \cup inUse \cup {mine[c] : c \in Clients}
    \/ overtaken
    \/ setup.mode = "churn" /\ s \in lost
==============================================================================
