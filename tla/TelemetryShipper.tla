--------------------------- MODULE TelemetryShipper ---------------------------
(***************************************************************************)
(* The way of an operation's outcome from a virtual user to the server     *)
(* (internal/worker/telemetry_shipper.go, retry_client.go, collectResults  *)
(* of assignment_executor.go, the shutdown of cmd/worker/main.go and       *)
(* handleWorkerTelemetry of controlplane/api/worker_handlers.go).          *)
(*                                                                         *)
(* Ship is one section under sendMu.  The goroutine run() is followed      *)
(* through its select, its flush and each attempt of a POST.  The counts   *)
(* that main logs at its end are left out.                                 *)
(***************************************************************************)
EXTENDS Integers, Sequences, FiniteSets, Functions

CONSTANTS
  N,           \* bound: outcomes 1 .. N, in the order in which they are shipped
  Runs,        \* runs of the worker
  NoRun,       \* no run
  RunOf,       \* the run of each outcome
  BufferSize,  \* capacity of s.buffer
  BatchSize,   \* s.batchSize
  MaxRetries   \* config.MaxRetries

ASSUME ShipperAssumption ==
  /\ N \in Nat /\ BufferSize \in Nat \ {0} /\ BatchSize \in Nat \ {0} /\ MaxRetries \in Nat
  /\ NoRun \notin Runs /\ RunOf \in [1 .. N -> Runs]

Outcomes == 1 .. N

VARIABLES
  next,      \* the next outcome of the virtual users
  buffer,    \* s.buffer
  batches,   \* batches of run(), by run
  shipLoop,  \* where run() is: "select", "flush", "drain", "last" (flush), "done"
  posting,   \* the run whose batch is being posted, or NoRun
  attempt,   \* attempt of Do
  worker,    \* "up", "cancelled" (the context), "closing" (Close), "exited"
  arrived,   \* what the server stored, in order
  unheard    \* history: for each outcome, stored batches whose answer was lost

shipVars == <<buffer, batches, shipLoop, posting, attempt>>
shipperVars == <<next, shipVars, worker, arrived, unheard>>

Closed == worker \in {"closing", "exited"}
Cancelled == worker # "up"

ShipInit ==
  /\ next = 1 /\ buffer = <<>> /\ batches = [r \in Runs |-> <<>>]
  /\ shipLoop = "select" /\ posting = NoRun /\ attempt = 0
  /\ worker = "up" /\ arrived = <<>>
  /\ unheard = [o \in Outcomes |-> 0]

-----------------------------------------------------------------------------
(* Ship, from collectResults and drainResults.                             *)

Ship ==
  /\ next <= N /\ worker # "exited" /\ next' = next + 1
  /\ IF Closed \/ Len(buffer) >= BufferSize
     THEN UNCHANGED buffer
     ELSE buffer' = Append(buffer, next)
  /\ UNCHANGED <<batches, shipLoop, posting, attempt, worker, arrived, unheard>>

-----------------------------------------------------------------------------
(* run().                                                                  *)

BeginPost(r) == posting' = r /\ attempt' = 0

\* An item goes to its batch; a full batch is posted at once.
Take ==
  /\ posting = NoRun /\ shipLoop \in {"select", "drain"} /\ buffer # <<>>
  /\ LET r == RunOf[Head(buffer)]
     IN  /\ batches' = [batches EXCEPT ![r] = Append(@, Head(buffer))]
         /\ IF Len(batches'[r]) >= BatchSize THEN BeginPost(r) ELSE UNCHANGED <<posting, attempt>>
  /\ buffer' = Tail(buffer)
  /\ UNCHANGED <<next, shipLoop, worker, arrived, unheard>>

\* The buffer is closed and empty, or found empty by drainBuffer.
EndOfBuffer ==
  /\ posting = NoRun /\ buffer = <<>>
  /\ shipLoop = "drain" \/ (shipLoop = "select" /\ Closed)
  /\ shipLoop' = "last"
  /\ UNCHANGED <<next, buffer, batches, posting, attempt, worker, arrived, unheard>>

FlushTick ==
  /\ posting = NoRun /\ shipLoop = "select" /\ \E r \in Runs : batches[r] # <<>>
  /\ shipLoop' = "flush"
  /\ UNCHANGED <<next, buffer, batches, posting, attempt, worker, arrived, unheard>>

ShipContextDone ==
  /\ posting = NoRun /\ shipLoop = "select" /\ Cancelled
  /\ shipLoop' = "drain"
  /\ UNCHANGED <<next, buffer, batches, posting, attempt, worker, arrived, unheard>>

\* flush posts one batch after the other.
flush ==
  /\ posting = NoRun /\ shipLoop \in {"flush", "last"}
  /\ \/ \E r \in Runs : batches[r] # <<>> /\ BeginPost(r) /\ UNCHANGED shipLoop
     \/ /\ \A r \in Runs : batches[r] = <<>>
        /\ shipLoop' = IF shipLoop = "flush" THEN "select" ELSE "done"
        /\ UNCHANGED <<posting, attempt>>
  /\ UNCHANGED <<next, buffer, batches, worker, arrived, unheard>>

-----------------------------------------------------------------------------
(* shipBatch, Do, and handleWorkerTelemetry on the other side.             *)

EndPost ==
  /\ batches' = [batches EXCEPT ![posting] = <<>>]
  /\ posting' = NoRun /\ attempt' = 0
  /\ UNCHANGED buffer

\* An error, or an answer other than 200: the batch is logged and forgotten.
GiveUp == EndPost

\* Slip: the last attempt is repeated until it succeeds.
Retry_Forever ==
  /\ attempt' = IF attempt < MaxRetries THEN attempt + 1 ELSE attempt
  /\ UNCHANGED <<batches, buffer, posting>>

Retry ==
  IF attempt < MaxRetries /\ ~Cancelled
  THEN attempt' = attempt + 1 /\ UNCHANGED <<batches, buffer, posting>>
  ELSE GiveUp

\* The server appends the batch, whether or not it has it already.
Stored == arrived' = arrived \o batches[posting]

\* Slip: the answer of a server that has stored the batch is taken for an error.
Acknowledged_Retried == Stored /\ Retry /\ UNCHANGED unheard

Acknowledged ==
  /\ Stored /\ EndPost
  /\ UNCHANGED unheard

AnswerLost ==
  /\ Stored /\ Retry
  /\ unheard' = [o \in Outcomes |-> IF o \in Range(batches[posting]) THEN unheard[o] + 1 ELSE unheard[o]]

RequestLost == Retry /\ UNCHANGED <<arrived, unheard>>

\* 400, 404 or 429: not retried.
Refused == GiveUp /\ UNCHANGED <<arrived, unheard>>

\* A request with a cancelled context does not leave.
Attempt ==
  /\ posting # NoRun
  /\ \/ ~Cancelled /\ Acknowledged
     \/ ~Cancelled /\ AnswerLost
     \/ RequestLost
     \/ ~Cancelled /\ Refused
  /\ UNCHANGED <<next, shipLoop, worker>>

-----------------------------------------------------------------------------
(* The shutdown of the worker.                                             *)

CancelWorker ==
  /\ worker = "up" /\ worker' = "cancelled"
  /\ UNCHANGED <<next, shipVars, arrived, unheard>>

\* The assignments are over, or the 30 seconds are.
Close ==
  /\ worker = "cancelled" /\ worker' = "closing"
  /\ UNCHANGED <<next, shipVars, arrived, unheard>>

Exit ==
  /\ worker = "closing" /\ shipLoop = "done" /\ worker' = "exited"
  /\ UNCHANGED <<next, shipVars, arrived, unheard>>

ShipFinished == worker = "exited" /\ UNCHANGED shipperVars

RunStep == Take \/ EndOfBuffer \/ FlushTick \/ ShipContextDone \/ flush \/ Attempt

ShipNext == Ship \/ RunStep \/ CancelWorker \/ Close \/ Exit \/ ShipFinished

\* Goroutines are scheduled.  A POST has no timeout, only the context of the
\* worker, so run() is sure to go on only once that is cancelled.
ShipFairness == WF_shipperVars(Cancelled /\ RunStep) /\ WF_shipperVars(Close) /\ WF_shipperVars(Exit)

-----------------------------------------------------------------------------
(* Properties.                                                             *)

Copies(o) == Cardinality({i \in DOMAIN arrived : arrived[i] = o})

\* The server has an outcome twice only if an answer was lost: each lost answer
\* explains one copy.
CopiesExplained == \A o \in Outcomes : Copies(o) <= 1 + unheard[o]

\* A worker that was told to stop exits, whatever the server does.
ShutdownEnds == (worker = "cancelled") ~> (worker = "exited")
===============================================================================
