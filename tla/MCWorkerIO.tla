---------------------------- MODULE MCWorkerIO ----------------------------
(***************************************************************************)
(* The worker's input and output: the telemetry queue and the connection   *)
(* to the MCP server.  A behaviour is one part's; the other stays as it    *)
(* starts.                                                                 *)
(*                                                                         *)
(* The queue holds two records: two producers and the collector, or a      *)
(* producer and two consumers that block.  The connection's plans are the  *)
(* framing of events, the messages they hold, events that follow each      *)
(* other, calls with JSON answers and faults, and redirects.               *)
(***************************************************************************)
EXTENDS TelemetryQueue, Transport

CONSTANTS p1, p2, c1, c2

VARIABLE part

MCSetups ==
  {[batchSize |-> 1, producers |-> {p1, p2}, consumers |-> {}, records |-> 4],
   [batchSize |-> 2, producers |-> {p1}, consumers |-> {c1, c2}, records |-> 3]}

D(v) == Line("data", v)
Framing == {Blank, Line(":", ""), Line("event", "m"), D("result"), D("half1"), D("half2")}
Messages == {Blank, D("")} \cup {D(v) : v \in Answers \cup {"other", "note", "oddnote", "bad"}}
Sequels == {Blank, Line("id", "evt_1"), Line("id", "x"), D("note"), D("result")}

Deny == [mode |-> "deny", max |-> 0, allowlist |-> {}]
Quiet == [ops |-> {"tools/call"}, calls |-> 1, sessions |-> {""}, statuses |-> {},
          bodies |-> {}, faults |-> {}, redirects |-> FALSE, cancels |-> FALSE,
          policy |-> Deny, private |-> {}, lines |-> 3, kinds |-> Framing]

Redirecting ==
  {[Quiet EXCEPT !.ops = {"ping"}, !.redirects = TRUE, !.lines = 0, !.statuses = {200},
                 !.bodies = {"result"}, !.private = p,
                 !.policy = [mode |-> m, max |-> x, allowlist |-> {"friend"}]] :
     m \in {"deny", "same_origin", "allowlist_only"}, x \in {0, 1, 4}, p \in {{}, {"10.0.0.1"}}}

MCPlans ==
  {Quiet,
   [Quiet EXCEPT !.ops = {"tools/call", "ping"}, !.cancels = TRUE, !.lines = 2, !.kinds = Messages],
   [Quiet EXCEPT !.kinds = Sequels],
   [Quiet EXCEPT !.ops = {"initialize", "tools/call"}, !.calls = 2, !.cancels = TRUE,
                 !.sessions = {"", "s1"}, !.lines = 1, !.kinds = {D("result")},
                 !.statuses = {200, 204, 404, 429, 503},
                 !.bodies = Answers \cup {"other", "note", "bad", "lost", "huge"},
                 !.faults = NetworkFaults]} \cup Redirecting

U(s, h) == [scheme |-> s, host |-> h]
MCOrigin == U("https", "origin")
MCLocations == {U("https", "origin"), U("http", "origin"), U("https", "sub"), U("https", "far"),
                U("https", "inside")}
MCSubdomains == {<<"sub", "friend">>, <<"inside", "friend">>}
MCAddresses == [h \in {"origin", "sub", "far", "inside"} |->
                  IF h = "inside" THEN {"10.0.0.1", "192.0.2.1"} ELSE {"192.0.2.1"}]

Some(S) == CHOOSE s \in S : TRUE

ioVars == <<part, queueVars, transportVars>>

MCInit ==
  /\ part \in {"queue", "transport"}
  /\ QueueInit /\ (part # "queue" => setup = Some(Setups))
  /\ TransportInit /\ (part # "transport" => plan = Some(Plans))

MCNext ==
  /\ \/ part = "queue" /\ QueueNext /\ UNCHANGED transportVars
     \/ part = "transport" /\ TransportNext /\ UNCHANGED queueVars
  /\ UNCHANGED part

MCSpec == MCInit /\ [][MCNext]_ioVars /\ (part = "transport" => TransportFairness)
=============================================================================
