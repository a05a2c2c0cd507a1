----------------------------- MODULE SSEStream -----------------------------
(***************************************************************************)
(* A streamed answer of an MCP server (internal/transport: sse_decoder.go).*)
(* One goroutine reads lines from the response body into a channel that    *)
(* holds one; the caller's goroutine assembles them into events, looks for *)
(* its answer, and gives up on silence, on the end of the body or of its   *)
(* context.  Then it closes the decoder and waits for the reader.          *)
(*                                                                         *)
(* A line is a record of its field and value.  The text of a data field is *)
(* a name for the message it holds.                                        *)
(***************************************************************************)
EXTENDS ErrorMapping

CONSTANTS
  ValidIDs        \* event IDs that match ^evt_[0-9a-f]+$

VARIABLES
  sent,           \* the lines of the body, the last one possibly cut short
  bodyEnd,        \* "open", or how the body ended: "eof", "cut", "reset" or "unexpectedEOF"
  fetched,          \* how many lines the reader has read
  reader,         \* "off", "read", "send" or "gone"
  hand,           \* the line and the error the reader is about to pass on
  lineCh,         \* the channel of one line
  ctx,            \* the request's context: "live", "canceled" or "deadline"
  caller,         \* "out", "post" (in client.Do), "head", "wait" or "closing"
  event,          \* the event under assembly
  lastEventID,
  eventsCount,
  result,         \* what HandleSSEStream will return
  used            \* history: how many lines of the body the caller has received

streamVars == <<sent, bodyEnd, fetched, reader, hand, lineCh, caller, event,
                lastEventID, eventsCount, result, used>>

Blank == [field |-> "", value |-> ""]
Line(f, v) == [field |-> f, value |-> v]

NoEvent == [data |-> <<>>, event |-> "", id |-> ""]

\* The data lines of an event are joined by newlines, which mean nothing to
\* JSON: a message may come in two halves, and empty lines add nothing.
Message(data) ==
  LET text == SelectSeq(data, LAMBDA d : d # "") IN
  IF text = <<"half1", "half2">> THEN "result"
  ELSE IF Len(text) = 1 /\ text[1] \notin {"half1", "half2"} THEN text[1]
  ELSE "bad"

\* Messages that name the request in their id, and those that are no answer.
Answers == {"result", "isError", "error", "neither", "unreadable", "version"}

Nothing == [answer |-> "none", error |-> <<>>, stalled |-> FALSE]

StreamInit ==
  /\ sent = <<>> /\ bodyEnd = "open" /\ fetched = 0
  /\ reader = "off" /\ hand = [line |-> Blank, err |-> ""] /\ lineCh = <<>>
  /\ ctx = "live" /\ caller = "out"
  /\ event = NoEvent /\ lastEventID = "" /\ eventsCount = 0
  /\ result = Nothing /\ used = 0

\* The stream's part of a request that starts, without a body yet.
NewStream(r, c) ==
  /\ sent' = <<>> /\ bodyEnd' = "open" /\ fetched' = 0
  /\ reader' = r /\ hand' = [line |-> Blank, err |-> ""] /\ lineCh' = <<>>
  /\ caller' = c
  /\ event' = NoEvent /\ lastEventID' = "" /\ eventsCount' = 0
  /\ result' = Nothing /\ used' = 0

\* The reader starts with the caller's first look at its context.
NewSSEDecoder == NewStream("read", "head")

(* The server *)

Streaming == caller \in {"head", "wait"}

\* Bound: one line is under way at a time.
Write(l) ==
  /\ Streaming /\ bodyEnd = "open" /\ ctx = "live"
  /\ fetched = Len(sent)
  /\ sent' = Append(sent, l)
  /\ UNCHANGED <<bodyEnd, fetched, reader, hand, lineCh, ctx, caller, event, lastEventID, eventsCount, result, used>>

\* The body ends: after a whole line, within one, with the connection, or within a chunk of
\* the HTTP framing.  A line that the last two interrupt counts as not sent.
EndBody ==
  /\ Streaming /\ bodyEnd = "open" /\ ctx = "live"
  /\ bodyEnd' \in {"eof", "reset", "unexpectedEOF"}
                 \cup (IF sent # <<>> /\ fetched < Len(sent) /\ Last(sent) # Blank THEN {"cut"} ELSE {})
  /\ UNCHANGED <<sent, fetched, reader, hand, lineCh, ctx, caller, event, lastEventID, eventsCount, result, used>>

\* The run is stopped ("canceled"), or the request timeout passes ("deadline").
EndContext(how) ==
  /\ ctx = "live" /\ caller \in {"post", "head", "wait"}
  /\ ctx' = how
  /\ UNCHANGED streamVars

(* The reader *)

\* What a read of the body can return.  Without a whole line it blocks until
\* the body ends, the context does, or the decoder closes the body.
Reads ==
  LET whole == IF bodyEnd = "cut" THEN Len(sent) - 1 ELSE Len(sent)
      drained == fetched = whole
  IN (IF fetched < whole THEN {[line |-> sent[fetched + 1], err |-> ""]} ELSE {})
     \cup (IF drained /\ bodyEnd = "eof" THEN {[line |-> Blank, err |-> "eof"]} ELSE {})
     \cup (IF drained /\ bodyEnd = "cut" THEN {[line |-> Last(sent), err |-> "eof"]} ELSE {})
     \cup (IF drained /\ bodyEnd \in {"reset", "unexpectedEOF"} THEN {[line |-> Blank, err |-> bodyEnd]} ELSE {})
     \cup (IF ctx # "live" THEN {[line |-> Blank, err |-> ctx]} ELSE {})
     \cup (IF caller = "closing" THEN {[line |-> Blank, err |-> "closed"]} ELSE {})

readerLoop_read ==
  /\ reader = "read"
  /\ hand' \in Reads
  /\ fetched' = IF hand'.err = "" \/ hand'.line # Blank THEN fetched + 1 ELSE fetched
  /\ reader' = "send"
  /\ UNCHANGED <<sent, bodyEnd, lineCh, ctx, caller, event, lastEventID, eventsCount, result, used>>

\* Slip: at the end of its context the reader breaks out of the select only.
readerLoop_send_Break ==
  /\ reader = "send"
  /\ \/ /\ lineCh = <<>> /\ lineCh' = <<hand>>
        /\ reader' = IF hand.err = "" THEN "read" ELSE "gone"
     \/ /\ caller = "closing" /\ reader' = "read"
        /\ UNCHANGED lineCh
  /\ UNCHANGED <<sent, bodyEnd, fetched, hand, ctx, caller, event, lastEventID, eventsCount, result, used>>

\* The decoder's own context ends when the decoder is closed.
readerLoop_send ==
  /\ reader = "send"
  /\ \/ /\ lineCh = <<>> /\ lineCh' = <<hand>>
        /\ reader' = IF hand.err = "" THEN "read" ELSE "gone"
     \/ /\ caller = "closing" /\ reader' = "gone"
        /\ UNCHANGED lineCh
  /\ UNCHANGED <<sent, bodyEnd, fetched, hand, ctx, caller, event, lastEventID, eventsCount, result, used>>

(* The caller *)

Return(answer, error, stalled) ==
  /\ result' = [answer |-> answer, error |-> error, stalled |-> stalled]
  /\ caller' = "closing"

\* The head of HandleSSEStream's loop.
CheckContext ==
  /\ caller = "head"
  /\ IF ctx = "live"
       THEN caller' = "wait" /\ UNCHANGED result
       ELSE Return("none", <<ctx>>, FALSE)
  /\ UNCHANGED <<sent, bodyEnd, fetched, reader, hand, lineCh, ctx, event, lastEventID, eventsCount, used>>

\* The fields of the event after a line that is neither blank nor a comment.
WithField(e, l) ==
  CASE l.field = "data"  -> [e EXCEPT !.data = Append(@, l.value)]
    [] l.field = "event" -> [e EXCEPT !.event = l.value]
    [] l.field = "id"    -> [e EXCEPT !.id = l.value]
    [] OTHER             -> e

IsEvent(e) == e.data # <<>> \/ e.event # "" \/ e.id # ""

\* ReadEvent returns an event, and HandleSSEStream takes it in.
Dispatch(e) ==
  LET msg == Message(e.data) IN
  /\ event' = NoEvent
  /\ lastEventID' = IF e.id \in ValidIDs THEN e.id ELSE lastEventID
  /\ eventsCount' = eventsCount + 1
  /\ IF e.data \in {<<>>, <<"">>} THEN caller' = "head" /\ UNCHANGED result
     ELSE IF msg = "bad" THEN Return("none", <<"invalidJSON">>, FALSE)
     ELSE IF msg \in Answers THEN Return(msg, <<>>, FALSE)
     ELSE caller' = "head" /\ UNCHANGED result

\* The stream ended without an answer.
Disconnected ==
  /\ Return("none", <<"disconnect">>, FALSE)
  /\ UNCHANGED <<event, lastEventID, eventsCount>>

\* Slip: an event that the end of the body cuts short is dropped.
ReadEvent_DropsTail(r) ==
  LET e == IF r.line = Blank THEN event ELSE WithField(event, r.line) IN
  IF r.err \notin {"", "eof"}
    THEN Return("none", <<r.err>>, FALSE) /\ UNCHANGED <<event, lastEventID, eventsCount>>
  ELSE IF r.err = "eof" THEN Disconnected
  ELSE IF r.line = Blank /\ IsEvent(e) THEN Dispatch(e)
  ELSE event' = e /\ UNCHANGED <<caller, result, lastEventID, eventsCount>>

\* One turn of ReadEvent's loop, for what came out of the channel.
ReadEvent(r) ==
  LET e == IF r.line = Blank \/ r.line.field = ":" THEN event ELSE WithField(event, r.line)
  IN
  IF r.err \notin {"", "eof"}
    THEN Return("none", <<r.err>>, FALSE) /\ UNCHANGED <<event, lastEventID, eventsCount>>
  ELSE IF (r.line = Blank \/ (r.err = "eof" /\ r.line.field # ":")) /\ IsEvent(e) THEN Dispatch(e)
  ELSE IF r.err = "eof" THEN Disconnected
  ELSE event' = e /\ UNCHANGED <<caller, result, lastEventID, eventsCount>>

\* readLineWithTimeout; a closed channel reads as the end of the body.
ReceiveLine ==
  /\ caller = "wait"
  /\ \/ /\ lineCh # <<>>
        /\ ReadEvent(lineCh[1])
        /\ used' = used + (IF lineCh[1].err = "" \/ lineCh[1].line # Blank THEN 1 ELSE 0)
     \/ /\ lineCh = <<>> /\ reader = "gone"
        /\ ReadEvent([line |-> Blank, err |-> "eof"])
        /\ UNCHANGED used
  /\ lineCh' = <<>>
  /\ UNCHANGED <<sent, bodyEnd, fetched, reader, hand, ctx>>

\* The stall timer, started for every line, fires while none has come, or
\* together with one.
Stall ==
  /\ caller = "wait"
  /\ Return("none", <<"stall">>, TRUE)
  /\ UNCHANGED <<sent, bodyEnd, fetched, reader, hand, lineCh, ctx, event, lastEventID, eventsCount, used>>

=============================================================================
