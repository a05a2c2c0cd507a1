----------------------------- MODULE EventStream ------------------------------
(***************************************************************************)
(* The event log of a run (controlplane/runmanager/event_log.go) and the   *)
(* server-sent events that handleStreamEvents (controlplane/api/           *)
(* handlers.go) makes of it, to the readers of web/log-explorer.  They     *)
(* come back with the identifier of the last event they saw: after a lost  *)
(* connection the EventSource of the browser by itself, and the hook       *)
(* useRunEvents, which no page uses yet, also whenever that identifier has *)
(* changed.  That a page leaves when the run is over is left out.          *)
(***************************************************************************)
EXTENDS Integers, Sequences

CONSTANTS
  Readers,
  maxEvents,     \* of the log
  batchLimit,    \* sseEventBatchLimit
  MaxAppends,    \* bound: events of the run
  MaxDrops       \* bound: connections lost, for each reader

ASSUME StreamAssumption ==
  maxEvents \in Nat /\ batchLimit \in Nat \ {0} /\ MaxAppends \in Nat /\ MaxDrops \in Nat

VARIABLES
  log,           \* el.events; an event is its number, which is its identifier
  appended,      \* events made so far
  truncated,
  cursor,        \* of the handler that serves a reader; -1 without one
  wire,          \* written and not yet read
  received,      \* what a reader has seen
  origin,        \* the lastEventId that a reader connected with, 0 for none
  drops

streamVars == <<log, appended, truncated, cursor, wire, received, origin, drops>>

StreamInit ==
  /\ log = <<>> /\ appended = 0 /\ truncated = FALSE
  /\ cursor = [r \in Readers |-> -1]
  /\ wire = [r \in Readers |-> <<>>]
  /\ received = [r \in Readers |-> <<>>]
  /\ origin = [r \in Readers |-> 0]
  /\ drops = [r \in Readers |-> 0]

\* Slip: a full log makes room by forgetting its oldest event.
Append_Ring(full) ==
  log' = IF full THEN Append(Tail(log), appended + 1) ELSE Append(log, appended + 1)

Append_(full) == log' = IF full THEN log ELSE Append(log, appended + 1)

\* generateEventID, and Append under el.mu.  A log at its limit drops the event,
\* says so once, and reports success.
AppendEvent ==
  LET full == maxEvents > 0 /\ Len(log) >= maxEvents
  IN  /\ appended < MaxAppends
      /\ appended' = appended + 1
      /\ truncated' = (truncated \/ full)
      /\ Append_(full)
      /\ UNCHANGED <<cursor, wire, received, origin, drops>>

\* 0-based, as in the code.
FindEventIndex(e) == IF \E i \in 1 .. Len(log) : log[i] = e
                     THEN (CHOOSE i \in 1 .. Len(log) : log[i] = e) - 1 ELSE -1

EventTail(c) == SubSeq(log, c + 1, IF c + batchLimit > Len(log) THEN Len(log) ELSE c + batchLimit)

lastEventId(r) == IF received[r] = <<>> THEN 0 ELSE received[r][Len(received[r])]

\* A request for the stream carries lastEventId, as Last-Event-ID or as the cursor, or
\* nothing the first time; an identifier that is not in the log is refused.
Serve(r) ==
  LET idx == FindEventIndex(lastEventId(r))
  IN  /\ lastEventId(r) # 0 => idx >= 0
      /\ cursor' = [cursor EXCEPT ![r] = IF lastEventId(r) = 0 THEN 0 ELSE idx + 1]
      /\ wire' = [wire EXCEPT ![r] = <<>>]
      /\ origin' = [origin EXCEPT ![r] = lastEventId(r)]
      /\ UNCHANGED <<log, appended, truncated, received, drops>>

\* The first connection, or one after another was lost.
Connect(r) == cursor[r] = -1 /\ Serve(r)

\* connect depends on lastEventId, so the effect of useRunEvents closes the connection and
\* opens another once an event has been taken in; what was on its way is dropped.
Rerender(r) == cursor[r] >= 0 /\ origin[r] # lastEventId(r) /\ Serve(r)

\* A tick of the poll timer: write what is new and move the cursor by as much.
PollEvents(r) ==
  /\ cursor[r] >= 0 /\ EventTail(cursor[r]) # <<>>
  /\ wire' = [wire EXCEPT ![r] = @ \o EventTail(cursor[r])]
  /\ cursor' = [cursor EXCEPT ![r] = @ + Len(EventTail(cursor[r]))]
  /\ UNCHANGED <<log, appended, truncated, received, origin, drops>>

\* The connection ends, by either side, with what was on its way.
Disconnect(r) ==
  /\ cursor[r] >= 0 /\ drops[r] < MaxDrops
  /\ drops' = [drops EXCEPT ![r] = @ + 1]
  /\ cursor' = [cursor EXCEPT ![r] = -1]
  /\ wire' = [wire EXCEPT ![r] = <<>>]
  /\ UNCHANGED <<log, appended, truncated, received, origin>>

\* handleEvent.
ReadEvent(r) ==
  /\ wire[r] # <<>>
  /\ received' = [received EXCEPT ![r] = Append(@, Head(wire[r]))]
  /\ wire' = [wire EXCEPT ![r] = Tail(@)]
  /\ UNCHANGED <<log, appended, truncated, cursor, origin, drops>>

ReaderStep(r) == Connect(r) \/ Rerender(r) \/ PollEvents(r) \/ ReadEvent(r)

StreamNext == AppendEvent \/ \E r \in Readers : ReaderStep(r) \/ Disconnect(r)

\* The timers of a handler fire, readers read and come back.
StreamFairness == \A r \in Readers : WF_streamVars(ReaderStep(r))

Feed == INSTANCE EventFeed WITH
          FeedReaders <- Readers, FeedEvents <- 1 .. MaxAppends,
          feed <- log, views <- received

-----------------------------------------------------------------------------
(* Properties.                                                             *)

\* The stream implements the feed: through lost connections, events lost on the
\* way and a log at its limit, a reader of handleStreamEvents sees the events of
\* the log in order, without gap or repetition, and in the end all of them.
ImplementsFeed == Feed!Spec
===============================================================================
