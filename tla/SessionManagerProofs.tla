------------------------ MODULE SessionManagerProofs ------------------------
(***************************************************************************)
(* The session manager, for any number of clients, virtual users and       *)
(* sessions: the modes that keep a map of sessions, and with the proofs on *)
(* the pool, what holds of every mode.                                     *)
(***************************************************************************)
EXTENDS SessionManager, SessionPoolProofs

-----------------------------------------------------------------------------
(* The inductive invariant of the modes with a map.                        *)

MapTypes ==
  /\ conn \in [Sessions -> BOOLEAN]
  /\ sessions \in [VUs -> Sessions \cup {None}]
  /\ toVU \in [Sessions -> VUs \cup {None}]

\* The two maps agree as far as each mode lets them.
Maps ==
  /\ \A v \in VUs : sessions[v] # None => toVU[sessions[v]] = v
  /\ setup.mode = "reuse" => \A s \in Sessions : toVU[s] # None => sessions[toVU[s]] = s
  /\ setup.mode = "per_request" => \A v \in VUs : sessions[v] = None

\* A new session is in neither map and in nobody else's hands.
Fresh ==
  \A c \in Clients : at[c] = "created" =>
    toVU[mine[c]] = None /\ \A d \in Clients \ {c} : mine[d] # mine[c]

\* Who has a session that Close does not find in the map.
Carries(c) == at[c] = "created" \/ setup.mode = "per_request"

\* The open connections are in the map, or carried by the client that made them,
\* or were put out of the map in churn mode.
MapsKept ==
  ~overtaken => \A s \in Sessions : conn[s] =>
    \/ closing # "done" /\ (s \in Mapped \/ \E c \in Clients : mine[c] = s /\ Carries(c))
    \/ setup.mode = "churn" /\ s \in lost

ModesInv ==
  /\ ~Pooled
  /\ ClientTypes /\ MapTypes /\ Hands /\ Quiet /\ Waiting = {}
  /\ Maps /\ Fresh /\ MapsKept

-----------------------------------------------------------------------------
(* The steps of a client of these modes.                                   *)

\* What a step of one client to x with session m leaves of the clients.
LEMMA MovesTo ==
  ASSUME ModesInv, NEW c \in Clients, at[c] # "idle",
         NEW x \in (Without \cup With) \ {"waiting"}, NEW m \in Sessions \cup {None},
         m = None <=> x \in Without,
         at' = [at EXCEPT ![c] = x], mine' = [mine EXCEPT ![c] = m],
         UNCHANGED <<closing, overtaken, setup>>
  PROVE  /\ ~Pooled' /\ ClientTypes' /\ Hands' /\ Quiet' /\ Waiting' = {} /\ (~Closed \/ overtaken)
         /\ at'[c] = x /\ mine'[c] = m
         /\ \A d \in Clients \ {c} : at'[d] = at[d] /\ mine'[d] = mine[d]
<1>1. /\ at' \in [Clients -> Without \cup With] /\ mine' \in [Clients -> Sessions \cup {None}]
      /\ at'[c] = x /\ mine'[c] = m
      /\ \A d \in Clients \ {c} : at'[d] = at[d] /\ mine'[d] = mine[d]
  BY DEF ModesInv, ClientTypes
<1>2. ClientTypes' /\ Hands' /\ Quiet' /\ (~Closed \/ overtaken)
  BY Zenon, <1>1, ClientKept DEF ModesInv, Others
<1>3. Waiting' = {}
  BY <1>1 DEF ModesInv, Waiting
<1>4. ~Pooled'
  BY DEF ModesInv, Pooled
<1> QED BY Zenon, <1>1, <1>2, <1>3, <1>4

\* A step that leaves the maps alone and opens no connection: the client goes on with
\* the session it has, with one of the map or with none, and closes the one it carries
\* before it lets go of it.
LEMMA GoesOn ==
  ASSUME ModesInv, NEW c \in Clients, at[c] # "idle",
         NEW x \in (Without \cup With) \ {"waiting", "created"}, NEW m \in Sessions \cup {None},
         m = None <=> x \in Without,
         at' = [at EXCEPT ![c] = x], mine' = [mine EXCEPT ![c] = m],
         UNCHANGED <<closing, overtaken, setup, sessions, toVU, lost>>,
         conn' \in [Sessions -> BOOLEAN], \A s \in Sessions : conn'[s] => conn[s],
         m \in {None, mine[c]} \/ toVU[m] # None,
         ~overtaken /\ Carries(c) /\ mine[c] # None =>
           ~conn'[mine[c]] \/ (setup.mode = "per_request" /\ m = mine[c])
  PROVE  ModesInv'
<1>1. /\ ~Pooled' /\ ClientTypes' /\ Hands' /\ Quiet' /\ Waiting' = {} /\ (~Closed \/ overtaken)
      /\ at'[c] = x /\ mine'[c] = m
      /\ \A d \in Clients \ {c} : at'[d] = at[d] /\ mine'[d] = mine[d]
  BY Zenon, MovesTo
<1>2. MapTypes' /\ Maps'
  BY DEF ModesInv, MapTypes, Maps
<1>3. Fresh'
  <2>1. ASSUME NEW d \in Clients, at'[d] = "created"
        PROVE  toVU[mine[d]] = None /\ \A e \in Clients \ {d} : mine'[e] # mine[d]
    <3>1. d # c /\ at[d] = "created" /\ mine[d] # None
      BY <1>1, <2>1 DEF ModesInv, Hands, Without
    <3>2. toVU[mine[d]] = None /\ \A e \in Clients \ {d} : mine[e] # mine[d]
      BY Zenon, <3>1 DEF ModesInv, Fresh
    <3>3. m # mine[d]
      BY Zenon, <3>1, <3>2
    <3>4. \A e \in Clients : mine'[e] = m \/ mine'[e] = mine[e]
      BY Zenon, <1>1
    <3> QED BY Zenon, <3>2, <3>3, <3>4
  <2>2. toVU' = toVU /\ \A d \in Clients : at'[d] = "created" => mine'[d] = mine[d]
    BY <1>1
  <2> QED BY <2>1, <2>2 DEF Fresh
<1>4. MapsKept'
  <2>1. ASSUME ~overtaken, NEW s \in Sessions, conn'[s]
        PROVE  \/ s \in Mapped \/ \E d \in Clients : mine'[d] = s /\ Carries(d)'
               \/ setup.mode = "churn" /\ s \in lost
    <3>1. ASSUME NEW d \in Clients, mine[d] = s, Carries(d)
          PROVE  mine'[d] = s /\ Carries(d)'
      <4>1. CASE d = c
        BY <1>1, <2>1, <3>1, <4>1, NoneAssumption DEF Carries
      <4>2. CASE d # c
        BY <1>1, <3>1, <4>2 DEF Carries
      <4> QED BY <4>1, <4>2
    <3>2. conn[s]
      BY <2>1
    <3> QED BY Zenon, <2>1, <3>1, <3>2 DEF ModesInv, MapsKept
  <2>2. overtaken \/ closing # "done"
    BY <1>1 DEF Closed
  <2>3. Mapped' = Mapped
    BY DEF Mapped
  <2> QED BY Zenon, <2>1, <2>2, <2>3 DEF MapsKept
<1> QED BY Zenon, <1>1, <1>2, <1>3, <1>4 DEF ModesInv

\* Acquire's look at the map, its second look at the session and its use, the
\* registration with the evictor, the virtual user's own look, and Release.
LEMMA PlainKeeps ==
  ASSUME ModesInv, NEW c \in Clients,
         Look(c) \/ Check(c) \/ Take(c) \/ Track(c) \/ Touch(c) \/ Reject(c) \/ ModeRelease(c)
  PROVE  ModesInv'
<1>1. /\ mine[c] \in Sessions \cup {None} /\ (mine[c] = None <=> at[c] \in Without)
      /\ conn \in [Sessions -> BOOLEAN]
  BY DEF ModesInv, ClientTypes, MapTypes, Hands
<1>2. CASE Look(c)
  <2> DEFINE m == sessions[setup.vu[c]]
             x == IF m = None THEN "connecting" ELSE "looked"
  <2>1. setup.vu[c] \in VUs
    BY DEF ModesInv, ClientTypes, Setup
  <2>2. m \in Sessions \cup {None} /\ (m # None => toVU[m] = setup.vu[c] /\ toVU[m] # None)
    BY <2>1, NoneAssumption DEF ModesInv, MapTypes, Maps
  <2>3. /\ at[c] = "entered" /\ at' = [at EXCEPT ![c] = x] /\ mine' = [mine EXCEPT ![c] = m]
        /\ UNCHANGED <<conn, closing, overtaken, setup, sessions, toVU, lost>>
    BY <1>2 DEF Look, sessionVars, closeVars, modeVars
  <2>4. x \in (Without \cup With) \ {"waiting", "created"} /\ (m = None <=> x \in Without)
    BY DEF Without, With
  <2> HIDE DEF m, x
  <2>5. mine[c] = None
    BY <1>1, <2>3 DEF Without
  <2> QED BY Zenon, <1>1, <2>2, <2>3, <2>4, <2>5, GoesOn
<1>3. CASE Check(c) \/ Take(c) \/ Track(c) \/ Reject(c)
  <2>1. PICK x \in {"dropping", "taking", "using", "rejecting"} :
          /\ at[c] \in {"looked", "taking", "tracking", "using"} /\ at' = [at EXCEPT ![c] = x]
          /\ UNCHANGED <<mine, conn, closing, overtaken, setup, sessions, toVU, lost>>
          /\ at[c] = "using" => setup.mode = "reuse"
    BY Zenon, <1>3 DEF Check, Take, Track, Reject, sessionVars, closeVars, modeVars
  <2>2. mine[c] # None /\ mine' = [mine EXCEPT ![c] = mine[c]]
    BY <1>1, <2>1 DEF Without, ModesInv, ClientTypes
  <2>3. x \in (Without \cup With) \ {"waiting", "created"} /\ x \notin Without /\ at[c] # "idle"
    BY <2>1 DEF Without, With
  <2>4. Carries(c) => setup.mode = "per_request"
    BY <2>1 DEF Carries
  <2> QED BY Zenon, <1>1, <2>1, <2>2, <2>3, <2>4, GoesOn
<1>4. CASE Touch(c)
  <2>1. UNCHANGED <<at, mine, conn, closing, overtaken, setup, sessions, toVU, lost>>
    BY <1>4 DEF Touch, clientVars, closeVars, modeVars
  <2> QED BY <2>1 DEF ModesInv, Pooled, ClientTypes, MapTypes, Hands, Quiet, Closed, Waiting, Maps, Fresh,
                      MapsKept, Mapped, Carries
<1>5. CASE ModeRelease(c)
  <2>1. /\ at[c] = "returning" /\ at' = [at EXCEPT ![c] = "idle"] /\ mine' = [mine EXCEPT ![c] = None]
        /\ UNCHANGED <<closing, overtaken, setup, sessions, toVU, lost>>
        /\ conn' = conn \/ conn' = [conn EXCEPT ![mine[c]] = FALSE]
        /\ setup.mode = "per_request" => conn' = [conn EXCEPT ![mine[c]] = FALSE]
    BY <1>5 DEF ModeRelease, ReleasePerRequest, closeVars
  <2>2. mine[c] \in Sessions /\ "idle" \in (Without \cup With) \ {"waiting", "created"} /\ "idle" \in Without
    BY <1>1, <2>1 DEF Without
  <2>3. /\ conn' \in [Sessions -> BOOLEAN] /\ \A s \in Sessions : conn'[s] => conn[s]
        /\ setup.mode = "per_request" => ~conn'[mine[c]]
    BY Zenon, <1>1, <2>1, <2>2
  <2>4. Carries(c) => ~conn'[mine[c]]
    BY <2>1, <2>3 DEF Carries
  <2> QED BY Zenon, <2>1, <2>2, <2>3, <2>4, GoesOn
<1> QED BY <1>2, <1>3, <1>4, <1>5

\* createSession: the identity is nobody's.
LEMMA ConnectKeeps ==
  ASSUME ModesInv, NEW c \in Clients, Connect(c)
  PROVE  ModesInv'
<1>1. PICK s \in Free({t \in Sessions : toVU[t] # None} \cup {f[1] : f \in firing}) \cup {None},
           h \in Handshakes :
        /\ s # None \/ h.fails = "connect"
        /\ connectAndInitialize(s, h)
        /\ mine' = [mine EXCEPT ![c] = IF Succeeds(h) THEN s ELSE None]
        /\ at' = [at EXCEPT ![c] = IF Succeeds(h) THEN "created" ELSE "idle"]
        /\ lost' = lost \ {s}
  BY Zenon DEF Connect
<1>2. at[c] = "connecting" /\ UNCHANGED <<closing, overtaken, setup, sessions, toVU>>
  BY DEF Connect, closeVars
<1>3. mine[c] = None /\ conn \in [Sessions -> BOOLEAN]
  BY <1>2 DEF ModesInv, Hands, Without, MapTypes
<1>4. /\ s \in Sessions \cup {None}
      /\ s # None => ~conn[s] /\ toVU[s] = None /\ \A d \in Clients : mine[d] # s
  <2>1. setup \in Setup
    BY DEF ModesInv, ClientTypes
  <2>2. CASE s = None
    BY <2>2
  <2>3. CASE s # None
    <3>1. s \in Free({t \in Sessions : toVU[t] # None} \cup {f[1] : f \in firing})
      BY <2>3
    <3>2. /\ s \in Sessions /\ ~conn[s] /\ \A d \in Clients : mine[d] # s
          /\ s \notin {t \in Sessions : toVU[t] # None} \cup {f[1] : f \in firing}
      BY Zenon, <2>1, <3>1, FreeFacts
    <3> QED BY Zenon, <3>2
  <2> QED BY <2>2, <2>3
<1>5. /\ conn' \in [Sessions -> BOOLEAN]
      /\ \A t \in Sessions \ {s} : conn'[t] = conn[t]
      /\ s \in Sessions => conn'[s] = Succeeds(h)
      /\ s \notin Sessions => conn' = conn
  BY Zenon, <1>1, <1>3, <1>4, ConnectFacts
<1>6. MapTypes' /\ Maps' /\ Mapped' = Mapped
  BY <1>2, <1>5 DEF ModesInv, MapTypes, Maps, Mapped
<1>7. CASE Succeeds(h)
  <2>1. s \in Sessions /\ s # None
    BY <1>1, <1>4, <1>7 DEF Succeeds
  <2>2. mine' = [mine EXCEPT ![c] = s] /\ at' = [at EXCEPT ![c] = "created"]
    BY <1>1, <1>7
  <2>3. "created" \in (Without \cup With) \ {"waiting"} /\ "created" \notin Without
    BY DEF Without, With
  <2>4. /\ ~Pooled' /\ ClientTypes' /\ Hands' /\ Quiet' /\ Waiting' = {} /\ (~Closed \/ overtaken)
        /\ at'[c] = "created" /\ mine'[c] = s
        /\ \A d \in Clients \ {c} : at'[d] = at[d] /\ mine'[d] = mine[d]
    BY Zenon, <1>2, <2>1, <2>2, <2>3, MovesTo
  <2>5. Fresh'
    BY <1>2, <1>4, <2>1, <2>4 DEF ModesInv, Fresh
  <2>6. MapsKept'
    <3>1. ASSUME NEW t \in Sessions, conn'[t], ~overtaken
          PROVE  \/ t \in Mapped \/ \E d \in Clients : mine'[d] = t /\ Carries(d)'
                 \/ setup.mode = "churn" /\ t \in lost'
      <4>1. CASE t = s
        BY <2>4, <4>1 DEF Carries
      <4>2. CASE t # s
        <5>1. conn[t] /\ (t \in lost => t \in lost')
          BY <1>1, <1>5, <3>1, <4>2
        <5>2. ASSUME NEW d \in Clients, mine[d] = t, Carries(d) PROVE mine'[d] = t /\ Carries(d)'
          BY <1>2, <1>3, <2>4, <5>2, NoneAssumption DEF Carries
        <5> QED BY Zenon, <3>1, <5>1, <5>2 DEF ModesInv, MapsKept
      <4> QED BY <4>1, <4>2
    <3>2. overtaken \/ closing # "done"
      BY <2>4 DEF Closed
    <3> QED BY Zenon, <1>2, <1>6, <3>1, <3>2 DEF MapsKept
  <2> QED BY Zenon, <1>6, <2>4, <2>5, <2>6 DEF ModesInv
<1>8. CASE ~Succeeds(h)
  <2>1. mine' = [mine EXCEPT ![c] = None] /\ at' = [at EXCEPT ![c] = "idle"]
    BY <1>1, <1>8
  <2>2. "idle" \in (Without \cup With) \ {"waiting"} /\ "idle" \in Without
    BY DEF Without
  <2>3. /\ ~Pooled' /\ ClientTypes' /\ Hands' /\ Quiet' /\ Waiting' = {} /\ (~Closed \/ overtaken)
        /\ at'[c] = "idle" /\ mine'[c] = None
        /\ \A d \in Clients \ {c} : at'[d] = at[d] /\ mine'[d] = mine[d]
    BY Zenon, <1>2, <2>1, <2>2, MovesTo
  <2>4. Fresh'
    BY <1>2, <1>3, <2>3 DEF ModesInv, Fresh
  <2>5. MapsKept'
    <3>1. ASSUME NEW t \in Sessions, conn'[t], ~overtaken
          PROVE  \/ t \in Mapped \/ \E d \in Clients : mine'[d] = t /\ Carries(d)'
                 \/ setup.mode = "churn" /\ t \in lost'
      <4>1. t # s /\ conn[t] /\ (t \in lost => t \in lost')
        BY <1>1, <1>5, <1>8, <3>1
      <4>2. ASSUME NEW d \in Clients, mine[d] = t, Carries(d) PROVE mine'[d] = t /\ Carries(d)'
        BY <1>2, <1>3, <2>3, <4>2, NoneAssumption DEF Carries
      <4> QED BY Zenon, <3>1, <4>1, <4>2 DEF ModesInv, MapsKept
    <3>2. overtaken \/ closing # "done"
      BY <2>3 DEF Closed
    <3> QED BY Zenon, <1>2, <1>6, <3>1, <3>2 DEF MapsKept
  <2> QED BY Zenon, <1>6, <2>3, <2>4, <2>5 DEF ModesInv
<1> QED BY <1>7, <1>8

\* The new session of client c gets the entry of its virtual user, and what was there
\* before is known to be lost.
LEMMA EntersMap ==
  ASSUME ModesInv, NEW c \in Clients, NEW v \in VUs, NEW x \in {"tracking", "using"},
         at[c] = "created", setup.mode # "per_request",
         sessions[v] # None => setup.mode = "churn",
         sessions' = [sessions EXCEPT ![v] = mine[c]], toVU' = [toVU EXCEPT ![mine[c]] = v],
         lost' = lost \cup ({sessions[v]} \ {None}),
         at' = [at EXCEPT ![c] = x],
         UNCHANGED <<mine, conn, closing, overtaken, setup>>
  PROVE  ModesInv'
<1> DEFINE s == mine[c]
<1>1. s \in Sessions /\ s # None /\ toVU[s] = None /\ \A d \in Clients \ {c} : mine[d] # s
  <2>1. s \in Sessions \cup {None} /\ s # None
    BY DEF ModesInv, ClientTypes, Hands, Without
  <2> QED BY Zenon, <2>1 DEF ModesInv, Fresh
<1> HIDE DEF s
<1>2. /\ x \in (Without \cup With) \ {"waiting"} /\ x \notin Without
      /\ s \in Sessions \cup {None} /\ mine' = [mine EXCEPT ![c] = s]
  BY <1>1 DEF Without, With, s, ModesInv, ClientTypes
<1>3. /\ ~Pooled' /\ ClientTypes' /\ Hands' /\ Quiet' /\ Waiting' = {} /\ (~Closed \/ overtaken)
      /\ at'[c] = x /\ mine'[c] = s
      /\ \A d \in Clients \ {c} : at'[d] = at[d] /\ mine'[d] = mine[d]
  BY Zenon, <1>1, <1>2, MovesTo
<1>4. /\ sessions' \in [VUs -> Sessions \cup {None}] /\ toVU' \in [Sessions -> VUs \cup {None}]
      /\ sessions'[v] = s /\ \A u \in VUs \ {v} : sessions'[u] = sessions[u]
      /\ toVU'[s] = v /\ \A t \in Sessions \ {s} : toVU'[t] = toVU[t]
      /\ sessions \in [VUs -> Sessions \cup {None}] /\ toVU \in [Sessions -> VUs \cup {None}]
  BY <1>1 DEF ModesInv, MapTypes, s
<1>5. MapTypes'
  BY <1>4 DEF ModesInv, MapTypes
<1>6. Maps'
  <2>1. ASSUME NEW u \in VUs, sessions'[u] # None PROVE toVU'[sessions'[u]] = u
    <3>1. CASE u = v
      BY <1>4, <3>1
    <3>2. CASE u # v
      <4>1. sessions'[u] = sessions[u] /\ sessions[u] \in Sessions /\ toVU[sessions[u]] = u
        BY <1>4, <2>1, <3>2 DEF ModesInv, Maps
      <4>2. sessions[u] # s
        BY <1>1, <4>1, NoneAssumption
      <4> QED BY <1>4, <4>1, <4>2
    <3> QED BY <3>1, <3>2
  <2>2. ASSUME setup.mode = "reuse", NEW t \in Sessions, toVU'[t] # None
        PROVE  sessions'[toVU'[t]] = t
    <3>1. CASE t = s
      BY <1>4, <3>1
    <3>2. CASE t # s
      <4>1. toVU'[t] = toVU[t] /\ toVU[t] \in VUs /\ sessions[toVU[t]] = t
        BY <1>4, <2>2, <3>2 DEF ModesInv, Maps
      <4>2. toVU[t] # v
        BY <2>2, <4>1, NoneAssumption
      <4> QED BY <1>4, <4>1, <4>2
    <3> QED BY <3>1, <3>2
  <2> QED BY Zenon, <2>1, <2>2 DEF Maps
<1>7. Fresh'
  <2>1. ASSUME NEW d \in Clients, at'[d] = "created"
        PROVE  toVU'[mine'[d]] = None /\ \A e \in Clients \ {d} : mine'[e] # mine'[d]
    <3>1. d # c /\ at[d] = "created" /\ mine[d] \in Sessions
      BY <1>3, <2>1 DEF ModesInv, ClientTypes, Hands, Without
    <3>2. toVU[mine[d]] = None /\ \A e \in Clients \ {d} : mine[e] # mine[d]
      BY Zenon, <3>1 DEF ModesInv, Fresh
    <3> QED BY <1>1, <1>4, <3>1, <3>2
  <2> QED BY Zenon, <2>1 DEF Fresh
<1>8. MapsKept'
  <2>1. ASSUME NEW t \in Sessions, conn[t], ~overtaken
        PROVE  \/ t \in Mapped' \/ \E d \in Clients : mine'[d] = t /\ Carries(d)'
               \/ setup.mode = "churn" /\ t \in lost'
    <3>1. CASE t = s
      BY <1>1, <1>4, <3>1 DEF Mapped
    <3>2. CASE t # s
      <4>1. ASSUME NEW d \in Clients, mine[d] = t, Carries(d) PROVE mine'[d] = t /\ Carries(d)'
        BY <1>3, <3>2, <4>1 DEF Carries, s
      <4>2. ASSUME t \in Mapped PROVE t \in Mapped' \/ (setup.mode = "churn" /\ t \in lost')
        <5>1. PICK u \in VUs : sessions[u] = t /\ t # None
          BY <4>2 DEF Mapped
        <5>2. CASE u = v
          BY <5>1, <5>2
        <5>3. CASE u # v
          BY <1>4, <5>1, <5>3 DEF Mapped
        <5> QED BY <5>2, <5>3
      <4> QED BY Zenon, <2>1, <4>1, <4>2 DEF ModesInv, MapsKept
    <3> QED BY <3>1, <3>2
  <2>2. overtaken \/ closing # "done"
    BY <1>3 DEF Closed
  <2> QED BY Zenon, <2>1, <2>2 DEF MapsKept
<1> QED BY Zenon, <1>3, <1>5, <1>6, <1>7, <1>8 DEF ModesInv

\* Store, in each of the three modes.
LEMMA StoreKeeps ==
  ASSUME ModesInv, NEW c \in Clients, Store(c)
  PROVE  ModesInv'
<1> DEFINE v == setup.vu[c]
           s == mine[c]
<1>1. at[c] = "created" /\ UNCHANGED <<closing, overtaken, setup>> /\ v \in VUs
  BY DEF Store, closeVars, ModesInv, ClientTypes, Setup
<1>2. /\ s \in Sessions /\ s # None /\ conn \in [Sessions -> BOOLEAN]
      /\ sessions[v] # None => sessions[v] \in Sessions /\ toVU[sessions[v]] = v /\ v # None
  BY <1>1, NoneAssumption DEF ModesInv, ClientTypes, MapTypes, Maps, Hands, Without
<1>3. CASE setup.mode = "reuse" /\ StoreReuse(c) /\ sessions[v] # None
  <2>1. /\ conn' = [conn EXCEPT ![s] = FALSE] /\ mine' = [mine EXCEPT ![c] = sessions[v]]
        /\ at' = [at EXCEPT ![c] = "taking"] /\ UNCHANGED <<sessions, toVU, lost>>
    BY <1>3 DEF StoreReuse
  <2>2. conn' \in [Sessions -> BOOLEAN] /\ ~conn'[s] /\ \A t \in Sessions : conn'[t] => conn[t]
    BY <1>2, <2>1
  <2>3. "taking" \in (Without \cup With) \ {"waiting", "created"} /\ "taking" \notin Without
    BY DEF Without, With
  <2> QED BY Zenon, <1>1, <1>2, <1>3, <2>1, <2>2, <2>3, GoesOn
<1>4. CASE setup.mode = "reuse" /\ StoreReuse(c) /\ sessions[v] = None
  <2>1. /\ sessions' = [sessions EXCEPT ![v] = s] /\ toVU' = [toVU EXCEPT ![s] = v]
        /\ at' = [at EXCEPT ![c] = "tracking"] /\ UNCHANGED <<mine, conn, lost>>
    BY <1>4 DEF StoreReuse
  <2>2. lost' = lost \cup ({sessions[v]} \ {None}) /\ setup.mode # "per_request"
    BY <1>4, <2>1
  <2> QED BY Zenon, <1>1, <1>4, <2>1, <2>2, EntersMap
<1>5. CASE setup.mode = "churn" /\ StoreChurn(c)
  <2>1. /\ sessions' = [sessions EXCEPT ![v] = s] /\ toVU' = [toVU EXCEPT ![s] = v]
        /\ lost' = lost \cup ({sessions[v]} \ {None}) /\ setup.mode # "per_request"
        /\ at' = [at EXCEPT ![c] = "using"] /\ UNCHANGED <<mine, conn>>
    BY <1>5 DEF StoreChurn
  <2> QED BY Zenon, <1>1, <1>5, <2>1, EntersMap
<1>6. CASE setup.mode = "per_request" /\ StorePerRequest(c)
  <2>1. at' = [at EXCEPT ![c] = "using"] /\ UNCHANGED <<mine, conn, sessions, toVU, lost>>
    BY <1>6 DEF StorePerRequest
  <2>2. "using" \in (Without \cup With) \ {"waiting", "created"} /\ "using" \notin Without
    BY DEF Without, With
  <2>3. mine' = [mine EXCEPT ![c] = s] /\ s \in Sessions \cup {None} /\ at[c] # "idle"
    BY <1>1, <1>2, <2>1 DEF ModesInv, ClientTypes
  <2> QED BY Zenon, <1>1, <1>2, <1>6, <2>1, <2>2, <2>3, GoesOn
<1> QED BY Zenon, <1>3, <1>4, <1>5, <1>6 DEF Store

-----------------------------------------------------------------------------
(* Invalidation, eviction, timers and Close.                               *)

\* What a session's way out of the maps leaves of them: only in churn mode may the
\* entry be another session's, which is then known to be lost.
LEMMA UnmapFacts ==
  ASSUME ModesInv, NEW s \in Sessions, Unmap(s), UNCHANGED setup
  PROVE  /\ sessions' \in [VUs -> Sessions \cup {None}] /\ toVU' \in [Sessions -> VUs \cup {None}]
         /\ Maps' /\ lost \subseteq lost'
         /\ \A t \in Sessions : toVU[t] = None => toVU'[t] = None
         /\ \A t \in Mapped \ {s} : t \in Mapped' \/ (setup.mode = "churn" /\ t \in lost')
<1>1. sessions \in [VUs -> Sessions \cup {None}] /\ toVU \in [Sessions -> VUs \cup {None}]
  BY DEF ModesInv, MapTypes
<1>2. CASE toVU[s] = None
  BY <1>1, <1>2 DEF Unmap, ModesInv, Maps, Mapped
<1>3. CASE toVU[s] # None
  <2> DEFINE v == toVU[s]
  <2>1. v \in VUs /\ v # None
    BY <1>1, <1>3
  <2>2. /\ sessions' = [sessions EXCEPT ![v] = None] /\ toVU' = [toVU EXCEPT ![s] = None]
        /\ lost' = lost \cup ({sessions[v]} \ {s, None})
    BY <1>3 DEF Unmap
  <2>3. toVU[s] = v
    OBVIOUS
  <2> HIDE DEF v
  <2>4. /\ sessions' \in [VUs -> Sessions \cup {None}] /\ toVU' \in [Sessions -> VUs \cup {None}]
        /\ sessions'[v] = None /\ \A u \in VUs \ {v} : sessions'[u] = sessions[u]
        /\ toVU'[s] = None /\ \A t \in Sessions \ {s} : toVU'[t] = toVU[t]
    BY <1>1, <2>1, <2>2
  <2>5. Maps'
    <3>1. ASSUME NEW u \in VUs, sessions'[u] # None PROVE toVU'[sessions'[u]] = u
      <4>1. u # v /\ sessions'[u] = sessions[u] /\ sessions[u] \in Sessions
        BY <1>1, <2>4, <3>1
      <4>2. toVU[sessions[u]] = u
        BY <3>1, <4>1 DEF ModesInv, Maps
      <4> QED BY <2>3, <2>4, <4>1, <4>2
    <3>2. ASSUME setup.mode = "reuse", NEW t \in Sessions, toVU'[t] # None
          PROVE  sessions'[toVU'[t]] = t
      <4>1. t # s /\ toVU'[t] = toVU[t] /\ toVU[t] \in VUs
        BY <1>1, <2>4, <3>2
      <4>2. sessions[toVU[t]] = t /\ sessions[v] = s
        BY <2>1, <2>3, <3>2, <4>1 DEF ModesInv, Maps
      <4> QED BY <2>4, <4>1, <4>2
    <3>3. ASSUME setup.mode = "per_request", NEW u \in VUs PROVE sessions'[u] = None
      BY <2>4, <3>3 DEF ModesInv, Maps
    <3> QED BY Zenon, <3>1, <3>2, <3>3 DEF Maps
  <2>6. ASSUME NEW t \in Mapped \ {s} PROVE t \in Mapped' \/ (setup.mode = "churn" /\ t \in lost')
    <3>1. PICK u \in VUs : sessions[u] = t /\ t # None
      BY DEF Mapped
    <3>2. CASE u = v
      <4>1. t \in lost'
        BY <2>2, <3>1, <3>2
      <4>2. setup.mode # "reuse" /\ setup.mode # "per_request"
        BY <2>1, <2>3, <3>1, <3>2 DEF ModesInv, Maps
      <4>3. setup.mode = "churn"
        BY <4>2 DEF ModesInv, Pooled, ClientTypes, Setup
      <4> QED BY <4>1, <4>3
    <3>3. CASE u # v
      BY <2>4, <3>1, <3>3 DEF Mapped
    <3> QED BY <3>2, <3>3
  <2> QED BY <2>2, <2>3, <2>4, <2>5, <2>6
<1> QED BY <1>2, <1>3

\* Invalidate: the session goes out of the maps and is closed.
LEMMA InvalidateKeeps ==
  ASSUME ModesInv, NEW c \in Clients, Invalidate(c)
  PROVE  ModesInv'
<1> DEFINE s == mine[c]
           x == IF at[c] = "dropping" THEN "connecting" ELSE "idle"
<1>1. /\ at[c] \in {"dropping", "rejecting"} /\ Unmap(s) /\ conn' = [conn EXCEPT ![s] = FALSE]
      /\ mine' = [mine EXCEPT ![c] = None] /\ at' = [at EXCEPT ![c] = x]
      /\ UNCHANGED <<closing, overtaken, setup>>
  BY DEF Invalidate, closeVars
<1>2. s \in Sessions /\ s # None /\ conn \in [Sessions -> BOOLEAN]
  BY <1>1 DEF ModesInv, ClientTypes, MapTypes, Hands, Without
<1>3. x \in (Without \cup With) \ {"waiting"} /\ x # "created" /\ x \in Without /\ at[c] # "idle"
  BY <1>1 DEF Without
<1> HIDE DEF x
<1>4. /\ ~Pooled' /\ ClientTypes' /\ Hands' /\ Quiet' /\ Waiting' = {} /\ (~Closed \/ overtaken)
      /\ at'[c] = x /\ mine'[c] = None
      /\ \A d \in Clients \ {c} : at'[d] = at[d] /\ mine'[d] = mine[d]
  BY Zenon, <1>1, <1>3, MovesTo
<1>5. /\ conn' \in [Sessions -> BOOLEAN] /\ ~conn'[s] /\ \A t \in Sessions : conn'[t] => conn[t]
  BY <1>1, <1>2
<1>6. /\ sessions' \in [VUs -> Sessions \cup {None}] /\ toVU' \in [Sessions -> VUs \cup {None}]
      /\ Maps' /\ lost \subseteq lost'
      /\ \A t \in Sessions : toVU[t] = None => toVU'[t] = None
      /\ \A t \in Mapped \ {s} : t \in Mapped' \/ (setup.mode = "churn" /\ t \in lost')
  BY Zenon, <1>1, <1>2, UnmapFacts
<1>7. MapTypes'
  BY Zenon, <1>5, <1>6 DEF MapTypes
<1>8. Fresh'
  <2>1. ASSUME NEW d \in Clients, at'[d] = "created"
        PROVE  toVU'[mine'[d]] = None /\ \A e \in Clients \ {d} : mine'[e] # mine'[d]
    <3>1. d # c /\ at[d] = "created" /\ mine'[d] = mine[d] /\ mine[d] \in Sessions /\ mine[d] # None
      BY <1>3, <1>4, <2>1 DEF ModesInv, ClientTypes, Hands, Without
    <3>2. toVU[mine[d]] = None /\ \A e \in Clients \ {d} : mine[e] # mine[d]
      BY Zenon, <3>1 DEF ModesInv, Fresh
    <3> QED BY <1>4, <1>6, <3>1, <3>2
  <2> QED BY Zenon, <2>1 DEF Fresh
<1>9. MapsKept'
  <2>1. ASSUME NEW t \in Sessions, conn'[t], ~overtaken
        PROVE  \/ t \in Mapped' \/ \E d \in Clients : mine'[d] = t /\ Carries(d)'
               \/ setup.mode = "churn" /\ t \in lost'
    <3>1. t # s /\ conn[t]
      BY <1>5, <2>1
    <3>2. ASSUME NEW d \in Clients, mine[d] = t, Carries(d) PROVE mine'[d] = t /\ Carries(d)'
      BY <1>1, <1>4, <3>1, <3>2 DEF Carries
    <3>3. t \in Mapped => t \in Mapped' \/ (setup.mode = "churn" /\ t \in lost')
      BY Zenon, <1>6, <3>1
    <3>4. t \in lost => t \in lost'
      BY <1>6
    <3> QED BY Zenon, <2>1, <3>1, <3>2, <3>3, <3>4 DEF ModesInv, MapsKept
  <2>2. overtaken \/ closing # "done"
    BY <1>4 DEF Closed
  <2> QED BY Zenon, <1>1, <2>1, <2>2 DEF MapsKept
<1> QED BY Zenon, <1>4, <1>6, <1>7, <1>8, <1>9 DEF ModesInv

\* What the steps that are no client's leave of the clients.
LEMMA NobodyMoves ==
  ASSUME ModesInv, UNCHANGED <<at, mine, closing, overtaken, setup>>
  PROVE  /\ ~Pooled' /\ ClientTypes' /\ Hands' /\ Quiet' /\ Waiting' = {}
         /\ \A c \in Clients : Carries(c)' <=> Carries(c)
<1>1. ~Pooled' /\ ClientTypes' /\ (Closed' <=> Closed) /\ \A c \in Clients : Carries(c)' <=> Carries(c)
  BY DEF ModesInv, Pooled, ClientTypes, Closed, Carries
<1>2. Waiting' = {} /\ Hands'
  BY DEF ModesInv, Waiting, Hands
<1> QED BY Zenon, <1>1, <1>2 DEF ModesInv, Quiet

\* The callback of the timer or of the evictor.
LEMMA EvictionKeeps ==
  ASSUME ModesInv, NEW s \in Sessions, onEviction(s)
  PROVE  ModesInv'
<1>1. /\ Unmap(s) /\ conn' = [conn EXCEPT ![s] = FALSE]
      /\ UNCHANGED <<at, mine, closing, overtaken, setup>>
  BY DEF onEviction, clientVars, closeVars
<1>2. /\ ~Pooled' /\ ClientTypes' /\ Hands' /\ Quiet' /\ Waiting' = {}
      /\ \A c \in Clients : Carries(c)' <=> Carries(c)
  BY Zenon, <1>1, NobodyMoves
<1>3. conn' \in [Sessions -> BOOLEAN] /\ ~conn'[s] /\ \A t \in Sessions : conn'[t] => conn[t]
  BY <1>1 DEF ModesInv, MapTypes
<1>4. /\ sessions' \in [VUs -> Sessions \cup {None}] /\ toVU' \in [Sessions -> VUs \cup {None}]
      /\ Maps' /\ lost \subseteq lost'
      /\ \A t \in Sessions : toVU[t] = None => toVU'[t] = None
      /\ \A t \in Mapped \ {s} : t \in Mapped' \/ (setup.mode = "churn" /\ t \in lost')
  BY Zenon, <1>1, UnmapFacts
<1>5. MapTypes'
  BY Zenon, <1>3, <1>4 DEF MapTypes
<1>6. Fresh'
  <2>1. \A c \in Clients : at[c] = "created" => mine[c] \in Sessions
    BY DEF ModesInv, ClientTypes, Hands, Without
  <2> QED BY <1>1, <1>4, <2>1 DEF ModesInv, Fresh
<1>7. MapsKept'
  <2>1. ASSUME NEW t \in Sessions, conn'[t]
        PROVE  /\ t # s /\ conn[t]
               /\ t \in Mapped => t \in Mapped' \/ (setup.mode = "churn" /\ t \in lost')
               /\ t \in lost => t \in lost'
    BY <1>3, <1>4, <2>1
  <2> QED BY Zenon, <1>1, <1>2, <2>1 DEF ModesInv, MapsKept
<1> QED BY Zenon, <1>2, <1>4, <1>5, <1>6, <1>7 DEF ModesInv

\* Close: what is in the map is closed, and nothing else is open unless a client
\* crossed Close.
LEMMA ModeCloseKeeps ==
  ASSUME ModesInv, ModeClose
  PROVE  ModesInv'
<1>1. /\ closing = "stopped" /\ closing' = "done"
      /\ conn' = [s \in Sessions |-> conn[s] /\ s \notin Mapped]
      /\ sessions' = [v \in VUs |-> None] /\ toVU' = [s \in Sessions |-> None]
      /\ UNCHANGED <<at, mine, overtaken, setup, lost>>
  BY Zenon DEF ModeClose, CloseSessions, clientVars
<1>2. ~Pooled' /\ ClientTypes' /\ Hands' /\ Waiting' = {} /\ Closed /\ Closed'
  BY <1>1 DEF ModesInv, Pooled, ClientTypes, Hands, Waiting, Closed
<1>3. Quiet'
  BY Zenon, <1>1, <1>2 DEF ModesInv, Quiet
<1>4. MapTypes'
  BY <1>1 DEF ModesInv, MapTypes
<1>5. Maps'
  BY <1>1 DEF Maps
<1>6. Fresh'
  <2>1. \A c \in Clients : at[c] = "created" => mine[c] \in Sessions
    BY DEF ModesInv, ClientTypes, Hands, Without
  <2> QED BY <1>1, <2>1 DEF ModesInv, Fresh
<1>7. MapsKept'
  <2>1. ASSUME NEW t \in Sessions, conn'[t], ~overtaken PROVE setup.mode = "churn" /\ t \in lost
    <3>1. conn[t] /\ t \notin Mapped
      BY Zenon, <1>1, <2>1
    <3>2. \A c \in Clients : mine[c] # t
      BY <1>2, <2>1, NoneAssumption DEF ModesInv, Quiet, Hands, Without
    <3> QED BY Zenon, <2>1, <3>1, <3>2 DEF ModesInv, MapsKept
  <2> QED BY <1>1, <2>1 DEF MapsKept
<1> QED BY Zenon, <1>2, <1>3, <1>4, <1>5, <1>6, <1>7 DEF ModesInv

\* The timers, which touch neither a map nor a connection.
LEMMA TimerKeeps ==
  ASSUME ModesInv, NEW s \in Sessions,
         TimerFires(s) \/ TimerExpires(s, "ttl") \/ TimerExpires(s, "idle")
  PROVE  ModesInv'
<1>1. UNCHANGED <<at, mine, conn, closing, overtaken, setup, sessions, toVU, lost>>
  BY DEF TimerFires, TimerExpires, clientVars, sessionVars, closeVars
<1> QED BY <1>1 DEF ModesInv, Pooled, ClientTypes, MapTypes, Hands, Quiet, Closed, Waiting, Maps, Fresh,
                    MapsKept, Mapped, Carries

\* Every step of these modes.
LEMMA ModesKeep ==
  ASSUME ModesInv, ModesStep
  PROVE  ModesInv'
<1>1. ASSUME NEW c \in Clients, ModeClientStep(c) PROVE ModesInv'
  BY Zenon, <1>1, PlainKeeps, ConnectKeeps, StoreKeeps, InvalidateKeeps DEF ModeClientStep
<1>2. ASSUME NEW s \in Sessions,
             TimerFires(s) \/ TimerExpires(s, "ttl") \/ TimerExpires(s, "idle") \/ onEviction(s)
      PROVE  ModesInv'
  BY Zenon, <1>2, TimerKeeps, EvictionKeeps
<1> QED BY Zenon, <1>1, <1>2, ModeCloseKeeps DEF ModesStep

\* The steps of the manager and of the evictor beside these modes.
LEMMA ManagerKeeps ==
  ASSUME ModesInv, UNCHANGED modeVars,
         \/ \E c \in Clients : AcquireBegin(c) \/ ReleaseBegin(c)
         \/ \E s \in Sessions : Expire(s) \/ checkEvictions(s)
         \/ evictSession \/ CloseBegin \/ StopEvictor
  PROVE  ModesInv'
<1>1. UNCHANGED <<sessions, toVU, lost>>
  BY DEF modeVars
<1>2. ASSUME NEW c \in Clients, AcquireBegin(c) PROVE ModesInv'
  <2>1. /\ at[c] = "idle" /\ ~Closed /\ at' = [at EXCEPT ![c] = "entered"]
        /\ UNCHANGED <<mine, conn, closing, overtaken, setup>>
    BY Zenon, <1>2 DEF AcquireBegin, sessionVars
  <2>2. /\ at' \in [Clients -> Without \cup With] /\ at'[c] = "entered"
        /\ \A d \in Clients \ {c} : at'[d] = at[d]
    BY <2>1 DEF ModesInv, ClientTypes, Without
  <2>3. ~Pooled' /\ ClientTypes' /\ MapTypes' /\ Maps'
    BY Zenon, <1>1, <2>1, <2>2 DEF ModesInv, Pooled, ClientTypes, MapTypes, Maps
  <2>4. Hands' /\ Waiting' = {}
    BY <2>1, <2>2 DEF ModesInv, Hands, Waiting, Without
  <2>5. Quiet'
    BY <2>1 DEF ModesInv, Quiet, Closed
  <2>6. \A d \in Clients : (at'[d] = "created" <=> at[d] = "created") /\ (Carries(d)' <=> Carries(d))
    BY <2>1, <2>2 DEF Carries
  <2>7. Fresh'
    BY Zenon, <1>1, <2>1, <2>6 DEF ModesInv, Fresh
  <2>8. Mapped' = Mapped
    BY <1>1 DEF Mapped
  <2>9. MapsKept'
    BY Zenon, <1>1, <2>1, <2>6, <2>8 DEF ModesInv, MapsKept
  <2> QED BY Zenon, <2>3, <2>4, <2>5, <2>7, <2>9 DEF ModesInv
<1>3. ASSUME NEW c \in Clients, ReleaseBegin(c) PROVE ModesInv'
  <2> DEFINE x == IF Closed THEN "idle" ELSE "returning"
             m == IF Closed THEN None ELSE mine[c]
  <2>1. /\ at[c] = "using" /\ at' = [at EXCEPT ![c] = x] /\ mine' = [mine EXCEPT ![c] = m]
        /\ UNCHANGED <<conn, closing, overtaken, setup>>
    BY <1>3 DEF ReleaseBegin, sessionVars, closeVars
  <2>2. mine[c] \in Sessions /\ mine[c] # None /\ conn \in [Sessions -> BOOLEAN]
    BY <2>1 DEF ModesInv, ClientTypes, MapTypes, Hands, Without
  <2>3. /\ x \in (Without \cup With) \ {"waiting", "created"} /\ m \in Sessions \cup {None}
        /\ m = None <=> x \in Without
        /\ m \in {None, mine[c]}
    BY <2>2 DEF Without, With
  <2>4. ~overtaken => m = mine[c]
    BY <2>1 DEF ModesInv, Quiet
  <2>5. Carries(c) => setup.mode = "per_request"
    BY <2>1 DEF Carries
  <2> HIDE DEF x, m
  <2>6. conn' \in [Sessions -> BOOLEAN] /\ (\A s \in Sessions : conn'[s] => conn[s]) /\ at[c] # "idle"
    BY <2>1, <2>2
  <2> QED BY Zenon, <1>1, <2>1, <2>3, <2>4, <2>5, <2>6, GoesOn
<1>4. CASE \/ \E s \in Sessions : Expire(s) \/ checkEvictions(s)
           \/ evictSession \/ CloseBegin \/ StopEvictor
  <2>1. UNCHANGED <<at, mine, conn, setup>>
    BY Zenon, <1>4 DEF Expire, checkEvictions, evictSession, CloseBegin, StopEvictor, sessionVars, clientVars
  <2>2. \/ UNCHANGED <<closing, overtaken>>
        \/ closing = "open" /\ closing' = "flagged" /\ overtaken' = \E c \in Clients : at[c] # "idle"
        \/ closing = "flagged" /\ closing' = "stopped" /\ UNCHANGED overtaken
    BY Zenon, <1>4 DEF Expire, checkEvictions, evictSession, CloseBegin, StopEvictor, closeVars
  <2>3. ~Pooled' /\ MapTypes' /\ Hands' /\ Waiting' = {} /\ Maps' /\ Mapped' = Mapped
    BY <1>1, <2>1 DEF ModesInv, Pooled, MapTypes, Hands, Waiting, Maps, Mapped
  <2>4. ClientTypes'
    BY Zenon, <2>1, <2>2 DEF ModesInv, ClientTypes
  <2>5. \/ overtaken' = overtaken /\ (Closed' <=> Closed)
        \/ Closed' /\ ~overtaken /\ overtaken' = \E c \in Clients : at[c] # "idle"
    BY Zenon, <2>2 DEF ModesInv, Quiet, Closed
  <2>6. Quiet'
    <3>1. CASE overtaken' = overtaken /\ (Closed' <=> Closed)
      BY Zenon, <2>1, <3>1 DEF ModesInv, Quiet
    <3>2. CASE Closed' /\ overtaken' = \E c \in Clients : at[c] # "idle"
      BY <2>1, <3>2 DEF Quiet
    <3> QED BY Zenon, <2>5, <3>1, <3>2
  <2>7. Fresh' /\ \A c \in Clients : Carries(c)' <=> Carries(c)
    BY Zenon, <1>1, <2>1 DEF ModesInv, Fresh, Carries
  <2>8. (closing' = "done" => closing = "done") /\ (~overtaken' => ~overtaken)
    <3>1. closing' = "done" => closing = "done"
      BY <2>2
    <3>2. overtaken' = overtaken \/ ~overtaken
      BY Zenon, <2>5
    <3> QED BY <3>1, <3>2
  <2>9. MapsKept'
    BY Zenon, <1>1, <2>1, <2>3, <2>7, <2>8 DEF ModesInv, MapsKept
  <2> QED BY Zenon, <2>3, <2>4, <2>6, <2>7, <2>9 DEF ModesInv
<1> QED BY Zenon, <1>2, <1>3, <1>4

-----------------------------------------------------------------------------
(* Every mode.                                                             *)

Inv == IF Pooled THEN PoolInv ELSE ModesInv

\* NewManager.
LEMMA InvInit ==
  ASSUME SetFacts, Init
  PROVE  Inv
<1>1. /\ setup \in Setup /\ closing = "open" /\ overtaken = FALSE
      /\ at = [c \in Clients |-> "idle"] /\ mine = [c \in Clients |-> None]
      /\ conn = [s \in Sessions |-> FALSE] /\ evict = NoEvict /\ tracked = {}
      /\ idle = <<>> /\ inUse = {} /\ pending = 0
      /\ sessions = [v \in VUs |-> None] /\ toVU = [s \in Sessions |-> None]
  BY SetupsAssumption DEF Init, NewManager, PoolInit, ModesInit
<1>2. ClientTypes /\ Hands /\ Quiet /\ Waiting = {}
  BY Zenon, <1>1 DEF ClientTypes, Hands, Quiet, Closed, Waiting, Without
<1>3. idle \in Seq(Sessions) /\ IsInjective(idle) /\ Range(idle) = {}
  BY <1>1 DEF IsInjective, Range
<1>4. PoolTypes /\ Awake
  BY <1>1, <1>2, <1>3 DEF PoolTypes, Awake, NoEvict, SetFacts
<1>5. PoolLists
  BY <1>1, <1>3 DEF PoolLists, Apart, OnTheWay, OpenPool, PoolKept, Without, Holding
<1>6. MapTypes /\ Maps /\ Fresh /\ MapsKept
  BY <1>1 DEF MapTypes, Maps, Fresh, MapsKept
<1> QED BY Zenon, <1>2, <1>4, <1>5, <1>6 DEF Inv, PoolInv, ModesInv

\* Nothing changes the configuration.
LEMMA SameSetup ==
  ASSUME [Next]_vars
  PROVE  setup' = setup
<1>1. ASSUME NEW c \in Clients, PoolClientStep(c) \/ ContextDone(c) PROVE setup' = setup
  BY Zenon, <1>1 DEF PoolClientStep, Acquire, Borrow, WatchContext, createSession, AddBegin, Add, ReleaseCheck,
                     Release, Park, ContextDone
<1>2. ASSUME NEW c \in Clients, ModeClientStep(c) PROVE setup' = setup
  BY Zenon, <1>2 DEF ModeClientStep, Look, Check, Invalidate, Take, Connect, Store, Track, Touch, Reject,
                     ModeRelease
<1>3. ASSUME PoolStep \/ ModesStep PROVE setup' = setup
  BY Zenon, <1>1, <1>2, <1>3 DEF PoolStep, ModesStep, removeSession, Close, TimerFires, TimerExpires,
                                 onEviction, ModeClose
<1>4. ASSUME NEW c \in Clients, AcquireBegin(c) \/ ReleaseBegin(c) PROVE setup' = setup
  BY Zenon, <1>4 DEF AcquireBegin, ReleaseBegin
<1>5. ASSUME NEW s \in Sessions, Expire(s) \/ checkEvictions(s) PROVE setup' = setup
  BY Zenon, <1>5 DEF Expire, checkEvictions
<1>6. ASSUME evictSession \/ CloseBegin \/ StopEvictor \/ UNCHANGED vars PROVE setup' = setup
  BY Zenon, <1>6 DEF evictSession, CloseBegin, StopEvictor, vars
<1> QED BY Zenon, <1>3, <1>4, <1>5, <1>6 DEF Next, Finished

\* A step of nobody.
LEMMA InvStays ==
  ASSUME Inv, UNCHANGED vars
  PROVE  Inv'
<1>1. /\ UNCHANGED <<setup, at, mine, conn, tracked, evict, closing, overtaken>>
      /\ UNCHANGED <<idle, inUse, pending, sessions, toVU, lost>>
  BY DEF vars, clientVars, sessionVars, evictorVars, closeVars, poolVars, modeVars
<1>2. ASSUME PoolInv PROVE PoolInv'
  <2>1. (ClientTypes /\ PoolTypes /\ Hands /\ Quiet /\ Awake)'
    BY Zenon, <1>1, <1>2 DEF PoolInv, ClientTypes, PoolTypes, Hands, Quiet, Closed, Awake, Waiting, Woken, Holders
  <2>2. PoolLists'
    BY Zenon, <1>1, <1>2 DEF PoolInv, Closed, PoolLists, Apart, OnTheWay, OpenPool, PoolKept
  <2> QED BY Zenon, <2>1, <2>2 DEF PoolInv
<1>3. ASSUME ModesInv PROVE ModesInv'
  BY <1>1, <1>3 DEF ModesInv, Pooled, ClientTypes, MapTypes, Hands, Quiet, Closed, Waiting, Maps, Fresh,
                    MapsKept, Mapped, Carries
<1> QED BY <1>1, <1>2, <1>3 DEF Inv, Pooled

\* Every step of the manager.
LEMMA InvKept ==
  ASSUME SetFacts, Inv, [Next]_vars
  PROVE  Inv'
<1>1. Pooled' <=> Pooled
  BY SameSetup DEF Pooled
<1>2. CASE UNCHANGED vars
  BY Zenon, <1>2, InvStays
<1>3. CASE Next /\ Pooled
  <2>1. PoolInv
    BY Zenon, <1>3 DEF Inv
  <2>2. ASSUME UNCHANGED <<poolVars, modeVars>> PROVE UNCHANGED poolVars
    BY <2>2
  <2>3. PoolInv' \/ UNCHANGED vars
    BY Zenon, <1>3, <2>1, <2>2, PoolKeeps, BeginKeeps, BesideKeeps DEF Next, Finished
  <2> QED BY Zenon, <1>1, <1>2, <1>3, <2>3 DEF Inv
<1>4. CASE Next /\ ~Pooled
  <2>1. ModesInv
    BY Zenon, <1>4 DEF Inv
  <2>2. ASSUME UNCHANGED <<poolVars, modeVars>> PROVE UNCHANGED modeVars
    BY <2>2
  <2>3. ModesInv' \/ UNCHANGED vars
    BY Zenon, <1>4, <2>1, <2>2, ModesKeep, ManagerKeeps DEF Next, Finished
  <2> QED BY Zenon, <1>1, <1>2, <1>4, <2>3 DEF Inv
<1> QED BY Zenon, <1>2, <1>3, <1>4

-----------------------------------------------------------------------------
(* What follows.                                                           *)

INSTANCE FiniteSetTheorems

\* The facts on finite sets and on sets of naturals that the lemmas took as given.
LEMMA SetFactsHold == SetFacts
<1>1. IsFiniteSet({}) /\ Cardinality({}) = 0
  BY FS_EmptySet
<1>2. ASSUME NEW S, IsFiniteSet(S) PROVE Cardinality(S) \in Nat
  BY <1>2, FS_CardinalityType
<1>3. ASSUME NEW S, IsFiniteSet(S), NEW R \in SUBSET S PROVE IsFiniteSet(R)
  BY <1>3, FS_Subset
<1>4. ASSUME NEW S, IsFiniteSet(S), NEW x
      PROVE  /\ IsFiniteSet(S \cup {x}) /\ IsFiniteSet(S \ {x})
             /\ Cardinality(S \cup {x}) = IF x \in S THEN Cardinality(S) ELSE Cardinality(S) + 1
             /\ Cardinality(S \ {x}) = IF x \in S THEN Cardinality(S) - 1 ELSE Cardinality(S)
  BY <1>4, FS_AddElement, FS_RemoveElement
<1>5. ASSUME NEW I \in SUBSET Nat, I # {} PROVE Min(I) \in I /\ \A y \in I : Min(I) <= y
  <2>1. PICK m \in I : \A y \in I : ~ (<<y, m>> \in OpToRel(<, Nat))
    BY <1>5, NatLessThanWellFounded, WFMin
  <2>2. \A y \in I : ~ (y < m)
    BY Zenon, <2>1 DEF OpToRel
  <2>3. \A y \in I : m <= y
    BY <2>2
  <2> QED BY Zenon, <2>3 DEF Min
<1> QED BY Zenon, <1>1, <1>2, <1>3, <1>4, <1>5 DEF SetFacts

\* The inductive invariant holds in every mode (Manager, its four modes, the evictor
\* and Close).
THEOREM SessionsInv == Spec => []Inv
<1>1. Init => Inv
  BY SetFactsHold, InvInit
<1>2. Inv /\ [Next]_vars => Inv'
  BY SetFactsHold, InvKept
<1> QED BY <1>1, <1>2, PTL DEF Spec

\* A session of the pool is in one client's hands or in the list, never in two
\* places, however Acquire, Release, eviction and Close interleave.
THEOREM PoolExclusive == Spec => []Exclusive
<1>1. Inv => Exclusive
  BY DEF Inv, Pooled, PoolInv, PoolLists, Apart, Exclusive
<1> QED BY <1>1, SessionsInv, PTL

\* As long as the pool is open, removeSession closes no connection that a client
\* was given, even if evictSession marked it expired in the middle of the Acquire
\* that handed it out or of the Release before.
THEOREM PoolUsedStaysOpen == Spec => []UsedStaysOpen
<1>1. Inv => UsedStaysOpen
  BY DEF Inv, Pooled, PoolInv, PoolLists, OpenPool, UsedStaysOpen
<1> QED BY <1>1, SessionsInv, PTL

\* No wakeup of the pool's condition variable is lost: when p.mu is free, clients
\* wait and none is on its way to look, there is neither a session nor room.
THEOREM PoolNoLostWakeup == Spec => []NoLostWakeup
<1>1. ASSUME Inv, ~Locked, Waiting # {}, Woken = {} PROVE idle = <<>> /\ ~HasRoom
  <2>1. PoolInv
    BY Zenon, <1>1 DEF Inv, ModesInv
  <2>2. Cardinality(Woken) = 0 /\ Cardinality(Holders) = 0
    BY Zenon, <1>1, SetFactsHold DEF SetFacts, Locked
  <2>3. /\ Len(idle) <= 0 /\ setup.maxSize - Cardinality(inUse) - pending <= 0 + 0
    BY Zenon, <1>1, <2>1, <2>2 DEF PoolInv, Awake
  <2>4. idle \in Seq(Sessions) /\ pending \in Nat /\ setup.maxSize \in Nat /\ Cardinality(inUse) \in Nat
    BY <2>1, SetFactsHold, Count DEF PoolInv, ClientTypes, PoolTypes, Setup
  <2> QED BY <2>3, <2>4 DEF HasRoom
<1>2. Inv => NoLostWakeup
  BY Zenon, <1>1 DEF NoLostWakeup
<1> QED BY <1>2, SessionsInv, PTL

\* No connection is left behind by any mode: Close closes it, unless a client crossed
\* Close with it or, in churn mode, a second session of the same virtual user put it
\* out of the map.
THEOREM SessionsNoLeak == Spec => []NoLeak
<1>1. ASSUME Inv, NEW s \in Sessions, conn[s], ~overtaken
      PROVE  \/ closing # "done" /\ s \in Mapped \cup Range(idle) \cup inUse \cup {mine[c] : c \in Clients}
             \/ setup.mode = "churn" /\ s \in lost
  <2>1. CASE Pooled
    BY <1>1, <2>1 DEF Inv, PoolInv, PoolLists, PoolKept
  <2>2. CASE ~Pooled
    BY <1>1, <2>2 DEF Inv, ModesInv, MapsKept
  <2> QED BY <2>1, <2>2
<1>2. Inv => NoLeak
  BY Zenon, <1>1 DEF NoLeak
<1> QED BY <1>2, SessionsInv, PTL
=============================================================================
