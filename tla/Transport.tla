----------------------------- MODULE Transport -----------------------------
(***************************************************************************)
(* The worker's connection to an MCP server (internal/transport:           *)
(* streamable_http.go, mcp_operations.go): a request or a notification is  *)
(* posted, redirected as the policy allows, and its response is judged,    *)
(* whether it comes as one JSON body or as a stream of events.             *)
(*                                                                         *)
(* The HTTP client is external.  What it can report is the set of faults   *)
(* below, each with the Go error it arrives as.                            *)
(***************************************************************************)
EXTENDS SSEStream

CONSTANTS
  Locations,      \* [scheme, host] of the redirects
  Subdomains,     \* pairs of a host and a host it lies under
  Addresses,      \* host |-> the set of addresses it resolves to
  BlockedRanges,  \* addresses in the dialer's blocked ranges
  Origin,         \* the endpoint
  Plans           \* bounds of a behaviour: its operations (at most `calls`), the
                  \* statuses, bodies, sessions ("" for none) and faults it
                  \* meets, whether it may be cancelled, whether it is
                  \* redirected and by which policy [mode, max, allowlist],
                  \* the private addresses it may dial, and the lines of its
                  \* streams (at most `lines`)

VARIABLES
  plan,
  conn,           \* [sessionID, requestCount, closed]
  request,        \* the operation under way, its ID and headers, or none
  at,             \* where the request was posted last, after `hops` redirects
  hops,
  fault,          \* history: what the client met, "" for nothing
  outcome         \* the outcome of the last operation

callVars == <<plan, conn, request, at, hops, fault, outcome>>
transportVars == <<callVars, ctx, streamVars>>

NoRequest == [op |-> "", id |-> 0, session |-> ""]
NoOutcome == [op |-> "", ok |-> FALSE, error |-> Error("", "")]

Ok == [NoOutcome EXCEPT !.ok = TRUE]
Failed(error) == [NoOutcome EXCEPT !.error = error]

\* How net/http reports a fault.
Reported(f) ==
  CASE f = "canceled"    -> <<"url", "canceled">>
    [] f = "deadline"    -> <<"url", "deadline">>
    [] f = "no such host" -> <<"url", "dns">>
    [] f = "slow DNS"    -> <<"url", "dnsTimeout">>
    [] f = "refused"     -> <<"url", "dial", "ECONNREFUSED">>
    [] f = "unreachable" -> <<"url", "dial", "ENETUNREACH">>
    [] f = "slow dial"   -> <<"url", "dial", "dialTimeout">>
    [] f = "no reply"    -> <<"url", "dial", "ETIMEDOUT">>
    [] f = "slow TLS"    -> <<"url", "ioTimeout">>
    [] f = "certificate" -> <<"url", "verification", "unknownAuthority">>
    [] f = "not TLS"     -> <<"url", "tlsText">>
    [] f = "plain HTTP"  -> <<"url", "text">>
    [] f = "reset"       -> <<"url", "read", "ECONNRESET">>
    [] f = "broken pipe" -> <<"url", "write", "EPIPE">>
    [] f = "blocked"     -> <<"url", "text">>
    [] f = "EOF"         -> <<"url", "io.EOF">>

NetworkFaults == {"no such host", "slow DNS", "refused", "unreachable", "slow dial", "no reply",
                  "slow TLS", "certificate", "not TLS", "plain HTTP", "reset", "broken pipe", "EOF"}

\* What a reader of the outcome may conclude from it: whom to blame.  Of a server that
\* answers https in plain HTTP, net/http says so in words that name no TLS.
BlameFor(f) ==
  CASE f = "canceled" -> "cancelled"
    [] f \in {"deadline", "slow dial", "no reply", "slow TLS"} -> "timeout"
    [] f \in {"no such host", "slow DNS"} -> "dns_error"
    [] f \in {"certificate", "not TLS"} -> "tls_error"
    [] f \in {"refused", "unreachable", "reset", "broken pipe"} -> "connect_error"
    [] OTHER -> "unknown"

TransportInit ==
  /\ StreamInit
  /\ plan \in Plans
  /\ conn = [sessionID |-> "", requestCount |-> 0, closed |-> FALSE]
  /\ request = NoRequest /\ at = Origin /\ hops = 0 /\ fault = ""
  /\ outcome = NoOutcome

(* Redirects and dialling *)

\* isIPBlocked, for the first address that is.
Blocked(host) == Addresses[host] \cap (BlockedRanges \ plan.private) # {}

\* buildCheckRedirect's closure; `via` holds the first request and the
\* redirects followed so far.
CheckRedirect(loc) ==
  LET via == hops + 1
      max == IF plan.policy.max > 3 THEN 3 ELSE plan.policy.max
  IN /\ plan.policy.mode \in {"same_origin", "allowlist_only"}
     /\ via <= max
     /\ ~(Origin.scheme = "https" /\ loc.scheme = "http")
     /\ plan.policy.mode = "same_origin" => loc.host = Origin.host
     /\ plan.policy.mode = "allowlist_only" =>
          \E allowed \in plan.policy.allowlist :
            loc.host = allowed \/ <<loc.host, allowed>> \in Subdomains

(* The verdict on a response *)

ValidateJSONRPCResponse(msg) ==
  CASE msg = "version" -> {Error("protocol_error", "INVALID_JSONRPC")}
    [] msg \in {"note", "oddnote"} -> {Error("protocol_error", "MISSING_ID")}
    [] msg = "other" -> {Error("protocol_error", "ID_MISMATCH")}
    [] OTHER -> {}

\* What handleJSONResponse and handleSSEResponse share: only a tools/call reads
\* the result it was given.
Judge(op, msg) ==
  IF ValidateJSONRPCResponse(msg) # {} THEN Failed(CHOOSE e \in ValidateJSONRPCResponse(msg) : TRUE)
  ELSE IF msg = "error" THEN Failed(MapJSONRPCError(-32601))
  ELSE IF op # "tools/call" THEN Ok
  ELSE IF msg \in {"neither", "unreadable"} THEN Failed(MapProtocolError)
  ELSE IF msg = "isError" THEN Failed(MapToolError)
  ELSE Ok

handleJSONResponse(op, body) ==
  CASE body = "lost" -> Failed(MapError(<<"read", "ECONNRESET">>))
    [] body = "huge" -> Failed(Error("protocol_error", "RESPONSE_TOO_LARGE"))
    [] body = "bad"  -> Failed(MapProtocolError)
    [] OTHER         -> Judge(op, body)

\* The error of a stream, as the handler returns it.
StreamError(error) ==
  CASE error = <<"stall">>      -> NewStreamStallError
    [] error = <<"disconnect">> -> NewSSEDisconnectError
    [] error = <<"reset">>      -> MapError(<<"read", "ECONNRESET">>)
    [] OTHER                    -> MapError(error)

handleSSEResponse(op) ==
  IF result.error # <<>> THEN Failed(StreamError(result.error)) ELSE Judge(op, result.answer)

(* One operation at a time *)

InFlight == request # NoRequest
Idle == ~InFlight /\ ~conn.closed
Posting == InFlight /\ caller = "post"
Notifying == request.op = "notifications/initialized"

\* The session header; Last-Event-ID is never set (nobody calls SetLastEventID).
setHeaders == conn.sessionID

\* The constructors of the requests; a notification has no ID.
NewRequest(op, id) == [op |-> op, id |-> id, session |-> setHeaders]

\* The operation's own method, nextRequestID, the timeout and the posting.
Begin(op) ==
  /\ Idle /\ op \in plan.ops /\ conn.requestCount < plan.calls
  /\ conn' = [conn EXCEPT !.requestCount = @ + 1]
  /\ request' = NewRequest(op, conn.requestCount + 1)
  /\ NewStream("off", "post") /\ ctx' = "live" /\ at' = Origin /\ hops' = 0 /\ fault' = ""
  /\ outcome' = NoOutcome
  /\ UNCHANGED plan

\* SendInitialized, after an initialize that went well.
Notify ==
  /\ Idle /\ outcome.ok /\ outcome.op = "initialize"
  /\ request' = NewRequest("notifications/initialized", 0)
  /\ NewStream("off", "post") /\ ctx' = "live" /\ at' = Origin /\ hops' = 0 /\ fault' = ""
  /\ outcome' = NoOutcome
  /\ UNCHANGED <<plan, conn>>

\* The operation returns; its context is cancelled on the way out.
Finish(o) ==
  /\ outcome' = [o EXCEPT !.op = request.op]
  /\ request' = NoRequest
  /\ caller' = "out"

NotStreaming == UNCHANGED <<sent, bodyEnd, fetched, reader, hand, lineCh, event, lastEventID, eventsCount, result, used>>

\* client.Do fails.
DoFails(f) ==
  /\ Posting
  /\ IF Blocked(at.host) THEN f = "blocked" ELSE f = ctx \/ (f \in plan.faults)
  /\ fault' = f
  /\ Finish(Failed(MapError(Reported(f))))
  /\ UNCHANGED <<plan, conn, ctx, at, hops>> /\ NotStreaming

\* The session of a response, unless it answers a notification.
KeepSession(id) == conn' = IF id = "" \/ Notifying THEN conn ELSE [conn EXCEPT !.sessionID = id]

\* A redirect is followed, or its own response is the answer.
Redirected(loc, id) ==
  /\ Posting /\ plan.redirects /\ ~Blocked(at.host)
  /\ IF CheckRedirect(loc)
       THEN at' = loc /\ hops' = hops + 1 /\ UNCHANGED <<conn, request, caller, outcome>>
       ELSE Finish(Failed(MapHTTPStatusWithBody(302))) /\ KeepSession(id) /\ UNCHANGED <<at, hops>>
  /\ UNCHANGED <<plan, ctx, fault>> /\ NotStreaming

\* doNotification from the response on.
Notified(status) ==
  IF status \in {200, 202, 204} THEN Ok ELSE Failed(MapHTTPStatusWithBody(status))

\* doRequest from the response on, when it is no stream.  The body is read in one step: a
\* context that ends meanwhile gives the outcome that it gives in DoFails.
Respond(status, body, id) ==
  /\ Posting /\ ~Blocked(at.host)
  /\ KeepSession(id)
  /\ Finish(IF Notifying THEN Notified(status)
              ELSE IF status \notin 200 .. 299 THEN Failed(MapHTTPStatusWithBody(status))
              ELSE handleJSONResponse(request.op, body))
  /\ fault' = IF ~Notifying /\ status \in 200 .. 299 /\ body = "lost" THEN "reset" ELSE ""
  /\ UNCHANGED <<plan, ctx, at, hops>> /\ NotStreaming

RespondStream(id) ==
  /\ Posting /\ ~Notifying /\ ~Blocked(at.host) /\ plan.lines > 0
  /\ KeepSession(id)
  /\ NewSSEDecoder
  /\ UNCHANGED <<plan, ctx, request, at, hops, fault, outcome>>

\* The deferred decoder.Close waits for the reader before doRequest goes on.
EndStream ==
  /\ caller = "closing" /\ reader = "gone"
  /\ Finish(handleSSEResponse(request.op))
  /\ hand' = [line |-> Blank, err |-> ""] /\ lineCh' = <<>> /\ event' = NoEvent
  /\ UNCHANGED <<plan, conn, ctx, at, hops, fault, sent, bodyEnd, fetched, reader, lastEventID, eventsCount, result, used>>

CloseConnection ==
  /\ ~InFlight /\ ~conn.closed
  /\ conn' = [conn EXCEPT !.closed = TRUE]
  /\ UNCHANGED <<plan, request, at, hops, fault, outcome, ctx, streamVars>>

\* The connection is closed and nobody uses it any more.
TransportDone == ~InFlight /\ conn.closed /\ UNCHANGED transportVars

Server ==
  /\ \/ \E l \in plan.kinds : Len(sent) < plan.lines /\ Write(l)
     \/ EndBody
  /\ UNCHANGED callVars

Reader == (readerLoop_read \/ readerLoop_send) /\ UNCHANGED callVars
Caller == (CheckContext \/ ReceiveLine) /\ UNCHANGED callVars
StallTimer == Stall /\ UNCHANGED callVars
Timeout == EndContext("deadline") /\ UNCHANGED callVars
Cancel == plan.cancels /\ EndContext("canceled") /\ UNCHANGED callVars

ClientReports == \E f \in NetworkFaults \cup {"canceled", "deadline", "blocked"} : DoFails(f)

Posted ==
  \/ ClientReports
  \/ \E loc \in Locations, id \in plan.sessions : Redirected(loc, id)
  \/ \E status \in plan.statuses, body \in plan.bodies, id \in plan.sessions : Respond(status, body, id)
  \/ \E id \in plan.sessions : RespondStream(id)

TransportNext ==
  \/ \E op \in plan.ops : Begin(op)
  \/ Notify \/ Posted \/ EndStream \/ CloseConnection
  \/ Server \/ Reader \/ Caller \/ StallTimer \/ Timeout \/ Cancel \/ TransportDone

\* Goroutines run, and the request timeout passes; the server owes nothing,
\* and neither does the stall timer.
TransportFairness ==
  /\ WF_transportVars(Reader) /\ WF_transportVars(Caller) /\ WF_transportVars(EndStream)
  /\ WF_transportVars(Timeout) /\ WF_transportVars(ClientReports)

(* Properties *)

\* The events of a body, read off its lines at once: those between two blank
\* lines, and the rest of the body if it ended.
EventsOf(lines, ended) ==
  LET blanks == {i \in DOMAIN lines : lines[i] = Blank}
      stops == SetToSortSeq(blanks \cup (IF ended THEN {Len(lines) + 1} ELSE {}), <)
      Between(k) == SubSeq(lines, IF k = 1 THEN 1 ELSE stops[k - 1] + 1, stops[k] - 1)
      Values(k, f) == LET with == SelectSeq(Between(k), LAMBDA l : l.field = f)
                      IN [i \in DOMAIN with |-> with[i].value]
      LastOf(values) == IF values = <<>> THEN "" ELSE Last(values)
  IN SelectSeq([k \in DOMAIN stops |-> [data |-> Values(k, "data"),
                                        event |-> LastOf(Values(k, "event")),
                                        id |-> LastOf(Values(k, "id"))]], IsEvent)

Concludes(e) == e.data \notin {<<>>, <<"">>} /\ Message(e.data) \in Answers \cup {"bad"}

\* What HandleSSEStream (sse_decoder.go) makes of a stream is what its body
\* says.  A request that gave up on silence or with its context had received no
\* whole answer.  Any other takes the first event that answers it or does not
\* parse, after counting the events before it, and fails if there is none; a
\* broken stream reports the last valid event ID.
StreamVerdict ==
  (~InFlight /\ reader = "gone") =>
    IF result.error \in {<<"stall">>, <<"canceled">>, <<"deadline">>}
    THEN \A k \in DOMAIN EventsOf(SubSeq(sent, 1, used), FALSE) :
           ~Concludes(EventsOf(SubSeq(sent, 1, used), FALSE)[k])
    ELSE LET tail == bodyEnd = "eof" \/ (bodyEnd = "cut" /\ Last(sent).field # ":")
             events == EventsOf(sent, tail)
             ends == {k \in DOMAIN events : Concludes(events[k])}
             n == IF ends = {} THEN Len(events) ELSE CHOOSE k \in ends : \A j \in ends : k <= j
             ids == SelectSeq(SubSeq(events, 1, n), LAMBDA e : e.id \in ValidIDs)
         IN /\ eventsCount = n
            /\ lastEventID = IF ids = <<>> THEN "" ELSE Last(ids).id
            /\ IF ends = {} THEN result.error = (IF bodyEnd \in {"eof", "cut"} THEN <<"disconnect">> ELSE <<bodyEnd>>)
               ELSE IF Message(events[n].data) = "bad" THEN result.error = <<"invalidJSON">>
               ELSE /\ result = [Nothing EXCEPT !.answer = Message(events[n].data)]
                    /\ outcome.ok <=> \/ result.answer = "result"
                                      \/ /\ outcome.op # "tools/call"
                                         /\ result.answer \in {"isError", "neither", "unreadable"}

\* An outcome's error type (MapError, error_mapping.go) names what went wrong,
\* whichever of several causes came first: what the client met while posting;
\* and a cancellation, a timeout, silence or a lost connection only if there
\* was one.  It has no name for few causes: the texts of net/http above, a body cut within
\* a chunk, and an event that does not parse.
BlameExact ==
  (~InFlight /\ outcome.op # "" /\ ~outcome.ok) =>
    /\ fault # "" => outcome.error.type = BlameFor(fault)
    /\ outcome.error.type = "cancelled" => ctx = "canceled"
    /\ outcome.error.type = "timeout" => ctx = "deadline" \/ BlameFor(fault) = "timeout"
    /\ outcome.error.type = "stream_stall" => result.stalled
    /\ outcome.error.type = "connect_error" =>
         BlameFor(fault) = "connect_error" \/ bodyEnd \in {"eof", "cut", "reset"}
    /\ outcome.error.type = "unknown" =>
         \/ fault # "" /\ BlameFor(fault) = "unknown"
         \/ bodyEnd = "unexpectedEOF" \/ result.error = <<"invalidJSON">>

\* Every operation returns, and its stream's reader is gone when it does, even
\* when the server says nothing more (SSEDecoder.Close and readerLoop,
\* sse_decoder.go: "Single reader goroutine pattern to prevent goroutine leaks").
RequestEnds == InFlight ~> (~InFlight /\ reader \in {"off", "gone"})

=============================================================================
