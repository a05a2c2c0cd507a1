--------------------------- MODULE MCSessionManager ---------------------------
(***************************************************************************)
(* A pool of one session: two clients and Close; two clients and a second  *)
(* identity, for the session that follows one on its way out; three        *)
(* clients, of which two wait.  The other modes: two clients of one        *)
(* virtual user and two identities, with and without Close.                *)
(***************************************************************************)
EXTENDS SessionManager

CONSTANTS c1, c2, c3, s1, s2, u1

OneVU == [c \in Clients |-> u1]

PoolSetup(clients, sessions_, deadlines, closes) ==
  [mode |-> "pool", policy |-> "strict", maxSize |-> 1, interval |-> 0,
   deadlines |-> deadlines, vu |-> OneVU,
   clients |-> clients, sessions |-> sessions_, closes |-> closes, acquires |-> [c \in Clients |-> 0]]

Acquires(n1, n2) == [c \in Clients |-> IF c = c1 THEN n1 ELSE n2]

ModeSetup(mode, policy, interval, deadlines, acquires, closes) ==
  [mode |-> mode, policy |-> policy, maxSize |-> 0, interval |-> interval,
   deadlines |-> deadlines, vu |-> OneVU, clients |-> {c1, c2}, sessions |-> {s1, s2},
   acquires |-> acquires, closes |-> closes]

MCSetups ==
  {PoolSetup({c1, c2}, {s1}, {"ttl", "idle"}, TRUE),
   PoolSetup({c1, c2}, {s1, s2}, {"idle"}, FALSE),
   PoolSetup({c1, c2, c3}, {s1}, {"ttl"}, FALSE),
   ModeSetup("reuse", "strict", 0, {"ttl"}, Acquires(2, 1), FALSE),
   ModeSetup("reuse", "strict", 0, {"idle"}, Acquires(1, 1), TRUE),
   ModeSetup("churn", "supported", 1, {}, Acquires(2, 2), TRUE),
   ModeSetup("churn", "none", 0, {"ttl"}, Acquires(2, 1), TRUE),
   ModeSetup("per_request", "none", 0, {}, Acquires(2, 2), TRUE)}
==============================================================================
