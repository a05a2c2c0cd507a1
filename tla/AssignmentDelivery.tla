------------------------- MODULE AssignmentDelivery -------------------------
(***************************************************************************)
(* One worker and one run: how assignments reach the worker, and how the   *)
(* word that the run stops does.  The server queues assignments, moves     *)
(* them to the unacknowledged deliveries when the worker polls, and queues *)
(* them again when no acknowledgement comes (controlplane/api/server.go,   *)
(* worker_handlers.go).  The worker polls, executes, acknowledges          *)
(* (cmd/worker/main.go, worker/assignment_executor.go) and, in another     *)
(* loop, sends heartbeats whose replies name the runs to stop.  A worker   *)
(* whose heartbeats stay away is taken out of the registry                 *)
(* (scheduler/heartbeat_monitor.go); it goes on but never registers again. *)
(*                                                                         *)
(* Requests and replies may be lost, and take as long as they please.      *)
(***************************************************************************)
EXTENDS Integers, Sequences, FiniteSets

CONSTANTS
  Leases,    \* lease identities
  Setups,    \* the instances considered
  MaxLate    \* bound: redeliveries of one lease that are told apart

Setup ==
  [leases : SUBSET Leases,   \* bound: the leases that are issued
   limit : Nat \ {0},        \* maxPendingAssignmentsPerWorker
   stops : BOOLEAN]          \* bound: whether the run may stop, leases end, the worker be lost

ASSUME SetupsAssumption == Setups \subseteq Setup
ASSUME LateAssumption == MaxLate \in Nat

VARIABLES
  setup,
  run,         \* the run's state, those before a stop taken together
  immediate,   \* record.immediateStop
  lease,       \* of each lease: "none", "active" or "ended"
  monitor,     \* the heartbeat monitor: "watching", or has "revoked" or "removed" the worker
  pending,     \* pendingAssignments[worker]
  pendingAck,  \* pendingAck[worker]: [lease, old], old past the ack timeout
  poll,        \* the worker's polling loop: where, the batch left, the started
  exec,        \* the worker's executor, per lease
  urgent,      \* runningAssignment.immediateStop
  grace,       \* stopTimeout of the execution that ends
  beat,        \* the heartbeat loop: where, and what the handler read
  starts,      \* history: executions begun per lease, capped
  late,        \* history: redeliveries per lease for want of an ack, capped
  queued,      \* history: assignments ever queued
  dropped      \* history: assignments that fell out of a full queue

serverVars == <<setup, run, immediate, lease, monitor>>
queueVars == <<pending, pendingAck, late, queued, dropped>>
execVars == <<exec, urgent, grace, starts>>
vars == <<serverVars, queueVars, poll, beat, execVars>>

NoPoll == [at |-> "idle", batch |-> <<>>, started |-> {}]
NoBeat == [at |-> "idle", leased |-> FALSE, stop |-> FALSE, now |-> FALSE]

Elements(s) == {s[i] : i \in DOMAIN s}
Unacked == {d.lease : d \in Elements(pendingAck)}
Queue == Elements(pending)
Capped(n, cap) == IF n < cap THEN n ELSE cap
Leased == \E l \in Leases : lease[l] = "active"

\* registry.GetWorker: the handlers answer 404 to a worker they do not find.
Registered == monitor # "removed"

Init ==
  /\ setup \in Setups
  /\ run = "running" /\ immediate = FALSE
  /\ lease = [l \in Leases |-> "none"] /\ monitor = "watching"
  /\ pending = <<>> /\ pendingAck = <<>>
  /\ poll = NoPoll /\ beat = NoBeat
  /\ exec = [l \in Leases |-> "none"]
  /\ urgent = [l \in Leases |-> FALSE]
  /\ grace = [l \in Leases |-> "none"]
  /\ starts = [l \in Leases |-> 0]
  /\ late = [l \in Leases |-> 0]
  /\ queued = {} /\ dropped = {}

-----------------------------------------------------------------------------
(* The run and its leases, as far as the worker can tell.                  *)

\* StopRun, EmergencyStop of a run not yet stopping, and the end of the run.
\* Whatever the mode, only the escalation below sets immediateStop.
RequestStop ==
  /\ run = "running" /\ run' = "stopping"
  /\ UNCHANGED <<setup, immediate, lease, monitor, queueVars, poll, beat, execVars>>

\* EmergencyStop while stopping.
Escalate ==
  /\ run = "stopping" /\ ~immediate
  /\ immediate' = TRUE
  /\ UNCHANGED <<setup, run, lease, monitor, queueVars, poll, beat, execVars>>

FinishRun ==
  /\ \/ run = "stopping" /\ run' \in {"analyzing", "over"}
     \/ run = "analyzing" /\ run' = "over"
     \/ run = "running" /\ run' = "over"      \* a failed dispatch
  /\ UNCHANGED <<setup, immediate, lease, monitor, queueVars, poll, beat, execVars>>

\* IssueLease, by any dispatcher; none of them looks at the run again.
IssueLease(l) ==
  /\ lease[l] = "none" /\ l \in setup.leases
  /\ lease' = [lease EXCEPT ![l] = "active"]
  /\ UNCHANGED <<setup, run, immediate, monitor, queueVars, poll, beat, execVars>>

NoLease == [l \in Leases |-> IF lease[l] = "active" THEN "ended" ELSE lease[l]]

\* The dispatch of a stage, or expiry, ends the leases.
EndLeases ==
  /\ Leased
  /\ lease' = NoLease
  /\ UNCHANGED <<setup, run, immediate, monitor, queueVars, poll, beat, execVars>>

\* handleDeadWorker, for want of heartbeats: it revokes the leases first.  A dispatcher
\* that has chosen the worker by then issues its lease none the less.
RevokeWorkerLeases ==
  /\ monitor = "watching" /\ monitor' = "revoked"
  /\ lease' = NoLease
  /\ UNCHANGED <<setup, run, immediate, queueVars, poll, beat, execVars>>

\* What is queued for the worker stays where it is.
RemoveWorker ==
  /\ monitor = "revoked" /\ monitor' = "removed"
  /\ UNCHANGED <<setup, run, immediate, lease, queueVars, poll, beat, execVars>>

-----------------------------------------------------------------------------
(* The server's queues.                                                    *)

\* addAssignmentLocked: a full queue loses its oldest entries.
Enqueue(q, l) ==
  LET dropCount == IF Len(q) >= setup.limit THEN Len(q) - setup.limit + 1 ELSE 0
  IN  Append(SubSeq(q, dropCount + 1, Len(q)), l)

AddAssignment(l) ==
  /\ lease[l] # "none" /\ l \notin queued
  /\ pending' = Enqueue(pending, l)
  /\ queued' = queued \cup {l}
  /\ dropped' = dropped \cup (Queue \ Elements(pending'))
  /\ UNCHANGED <<serverVars, pendingAck, late, poll, beat, execVars>>

\* pendingAckTimeout passes for the deliveries made so far.
AckOverdue ==
  /\ \E d \in Elements(pendingAck) : ~d.old
  /\ pendingAck' = [i \in DOMAIN pendingAck |-> [pendingAck[i] EXCEPT !.old = TRUE]]
  /\ UNCHANGED <<serverVars, pending, late, queued, dropped, poll, beat, execVars>>

\* Slip: milliseconds are compared with seconds, and no delivery is ever overdue.
Expired_Seconds(d) == FALSE

Expired(d) == d.old

\* The loop over the deliveries s that builds `remaining`: those of `gone` are left out.
Remaining(s, gone) ==
  LET remaining[i \in 0 .. Len(s)] ==
        IF i = 0 THEN <<>>
        ELSE IF s[i] \in gone THEN remaining[i - 1]
        ELSE Append(remaining[i - 1], s[i])
  IN  remaining[Len(s)]

\* The same loop's calls of addAssignmentLocked, for the deliveries of `gone`.
Requeued(q, s, gone) ==
  LET queue[i \in 0 .. Len(s)] ==
        IF i = 0 THEN q
        ELSE IF s[i] \in gone THEN Enqueue(queue[i - 1], s[i].lease)
        ELSE queue[i - 1]
  IN  queue[Len(s)]

\* Slip: the expired deliveries are forgotten.
requeueExpiredPendingAcks_Lost ==
  LET expired == {d \in Elements(pendingAck) : Expired(d)}
  IN  /\ expired # {}
      /\ pendingAck' = Remaining(pendingAck, expired)
      /\ UNCHANGED <<serverVars, pending, late, queued, dropped, poll, beat, execVars>>

requeueExpiredPendingAcks ==
  LET expired == {d \in Elements(pendingAck) : Expired(d)}
      again == {d.lease : d \in expired}
  IN  /\ expired # {}
      /\ pending' = Requeued(pending, pendingAck, expired)
      /\ pendingAck' = Remaining(pendingAck, expired)
      /\ late' = [l \in Leases |->
                    IF l \in again THEN Capped(late[l] + 1, MaxLate) ELSE late[l]]
      /\ dropped' = dropped \cup ((Queue \cup again) \ Elements(pending'))
      /\ UNCHANGED <<serverVars, queued, poll, beat, execVars>>

-----------------------------------------------------------------------------
(* The worker's polling loop.                                              *)

\* The poll reaches the server; one that finds nothing, or is answered 404, changes nothing.
getAssignmentsForWorker ==
  /\ Registered
  /\ poll.at = "idle" /\ pending # <<>>
  /\ pendingAck' = pendingAck \o
       [i \in DOMAIN pending |-> [lease |-> pending[i], old |-> FALSE]]
  /\ pending' = <<>>
  /\ poll' = [NoPoll EXCEPT !.at = "reply", !.batch = pending]
  /\ UNCHANGED <<serverVars, late, queued, dropped, beat, execVars>>

ReceiveAssignments ==
  /\ poll.at = "reply"
  /\ poll' = [poll EXCEPT !.at = "execute"]
  /\ UNCHANGED <<serverVars, queueVars, beat, execVars>>

LoseAssignments ==
  /\ poll.at = "reply"
  /\ poll' = NoPoll
  /\ UNCHANGED <<serverVars, queueVars, beat, execVars>>

\* The goroutine that Execute starts, with its entry in e.active.
Start(l) ==
  /\ exec' = [exec EXCEPT ![l] = "running"]
  /\ starts' = [starts EXCEPT ![l] = Capped(@ + 1, MaxLate + 1)]
  /\ UNCHANGED <<urgent, grace>>

\* Execute of the next assignment: nothing if that lease is executing.
Execute ==
  LET l == Head(poll.batch)
  IN  /\ poll.at = "execute" /\ poll.batch # <<>>
      /\ IF exec[l] # "none" THEN UNCHANGED execVars ELSE Start(l)
      /\ poll' = [poll EXCEPT !.batch = Tail(@), !.started = @ \cup {l}]
      /\ UNCHANGED <<serverVars, queueVars, beat>>

\* ackAssignmentsForWorker: of the unacknowledged deliveries only.  The worker
\* goes back to polling whether or not it hears the answer.
ackAssignmentsForWorker ==
  /\ Registered
  /\ poll.at = "execute" /\ poll.batch = <<>>
  /\ pendingAck' = Remaining(pendingAck, {d \in Elements(pendingAck) : d.lease \in poll.started})
  /\ poll' = NoPoll
  /\ UNCHANGED <<serverVars, pending, late, queued, dropped, beat, execVars>>

\* Slip: a failed acknowledgement sends the worker through the batch again.
LoseAck_Retry ==
  /\ poll.at = "execute" /\ poll.batch = <<>>
  /\ \E l \in poll.started : poll' = [poll EXCEPT !.batch = <<l>>]
  /\ UNCHANGED <<serverVars, queueVars, beat, execVars>>

\* The request is lost, or answered 404.
LoseAck ==
  /\ poll.at = "execute" /\ poll.batch = <<>>
  /\ poll' = NoPoll
  /\ UNCHANGED <<serverVars, queueVars, beat, execVars>>

-----------------------------------------------------------------------------
(* An execution.                                                           *)

\* executeAssignment leaves its wait and chooses the time it gives the engine.
StopEngine(l) ==
  /\ exec' = [exec EXCEPT ![l] = "draining"]
  /\ grace' = [grace EXCEPT ![l] = IF urgent[l] THEN "short" ELSE "long"]
  /\ UNCHANGED <<serverVars, queueVars, poll, beat, urgent, starts>>

DurationExpires(l) == exec[l] = "running" /\ StopEngine(l)

ContextDone(l) == exec[l] = "cancelled" /\ StopEngine(l)

\* The entry goes once the engine and the sessions are closed.
Cleanup(l) ==
  /\ exec' = [exec EXCEPT ![l] = "none"]
  /\ urgent' = [urgent EXCEPT ![l] = FALSE]
  /\ grace' = [grace EXCEPT ![l] = "none"]
  /\ UNCHANGED <<serverVars, queueVars, poll, beat, starts>>

cleanupAssignment(l) == exec[l] = "draining" /\ Cleanup(l)

\* The session manager or the engine cannot be made or started.
FailExecution(l) == exec[l] \in {"running", "cancelled"} /\ Cleanup(l)

-----------------------------------------------------------------------------
(* The heartbeat loop.  The handler reads the worker's leases and the      *)
(* run's state under different locks, and does so once per list, after it  *)
(* found the worker in the registry.                                       *)

ListWorkerRunIDs ==
  /\ \/ beat.at = "idle" /\ Registered
     \/ beat.at = "stopping"
  /\ beat' = [beat EXCEPT !.at = IF @ = "idle" THEN "leases" ELSE "again",
                          !.leased = Leased]
  /\ UNCHANGED <<serverVars, queueVars, poll, execVars>>

\* Slip: runs that are over are left out.
StopStates_Unfinished == {"stopping"}

\* The states in which a run's workers are told to stop.  Analyzing is not one.
StopStates == {"stopping", "over"}

ListStoppingRunsForWorker ==
  /\ beat.at = "leases"
  /\ beat' = [beat EXCEPT !.at = "stopping",
                          !.stop = beat.leased /\ run \in StopStates]
  /\ UNCHANGED <<serverVars, queueVars, poll, execVars>>

ListImmediateStopRunsForWorker ==
  /\ beat.at = "again"
  /\ beat' = [beat EXCEPT !.at = "reply", !.now = beat.leased /\ immediate]
  /\ UNCHANGED <<serverVars, queueVars, poll, execVars>>

LoseReply ==
  /\ beat.at = "reply"
  /\ beat' = NoBeat
  /\ UNCHANGED <<serverVars, queueVars, poll, execVars>>

\* StopRun(runID, now) cancels the contexts of the run's executions.
Cancel(now) ==
  /\ exec' = [l \in Leases |-> IF exec[l] = "running" THEN "cancelled" ELSE exec[l]]
  /\ urgent' = [l \in Leases |-> urgent[l] \/ (now /\ exec[l] # "none")]
  /\ UNCHANGED <<grace, starts>>

\* heartbeatLoop goes through StopRunIDs first, ...
StopRun ==
  /\ beat.at = "reply"
  /\ IF beat.stop THEN Cancel(FALSE) ELSE UNCHANGED execVars
  /\ beat' = IF beat.now THEN [beat EXCEPT !.at = "immediate"] ELSE NoBeat
  /\ UNCHANGED <<serverVars, queueVars, poll>>

\* ... and through ImmediateStopRunIDs after that.
StopRunImmediate ==
  /\ beat.at = "immediate"
  /\ Cancel(TRUE)
  /\ beat' = NoBeat
  /\ UNCHANGED <<serverVars, queueVars, poll>>

-----------------------------------------------------------------------------
Run ==
  /\ setup.stops
  /\ \/ RequestStop \/ Escalate \/ FinishRun
     \/ EndLeases \/ RevokeWorkerLeases \/ RemoveWorker

Queues ==
  \/ \E l \in Leases : IssueLease(l) \/ AddAssignment(l)
  \/ AckOverdue \/ requeueExpiredPendingAcks

Polling ==
  \/ getAssignmentsForWorker \/ ReceiveAssignments \/ LoseAssignments
  \/ Execute \/ ackAssignmentsForWorker \/ LoseAck

Executing ==
  \E l \in Leases :
    DurationExpires(l) \/ ContextDone(l) \/ cleanupAssignment(l) \/ FailExecution(l)

\* A heartbeat of a run that cannot stop, and one answered 404, tells the worker nothing.
Heartbeats ==
  \/ ~(setup.stops /\ Registered) /\ UNCHANGED vars
  \/ /\ setup.stops
     /\ \/ ListWorkerRunIDs \/ ListStoppingRunsForWorker \/ ListImmediateStopRunsForWorker
        \/ LoseReply \/ StopRun \/ StopRunImmediate

Next == Run \/ Queues \/ Polling \/ Executing \/ Heartbeats

Spec == Init /\ [][Next]_vars

\* The loops run on tickers, the goroutines are scheduled, and of infinitely
\* many replies that carry the same assignment some arrive.
Fairness ==
  /\ \A l \in Leases : SF_vars(ReceiveAssignments /\ l \in Elements(poll.batch))
  /\ WF_vars(getAssignmentsForWorker) /\ WF_vars(Execute)
  /\ WF_vars(ackAssignmentsForWorker \/ LoseAck)
  /\ WF_vars(setup.stops /\ ListWorkerRunIDs) /\ WF_vars(ListStoppingRunsForWorker)
  /\ WF_vars(ListImmediateStopRunsForWorker) /\ SF_vars(StopRun) /\ WF_vars(StopRunImmediate)
  /\ WF_vars(AckOverdue) /\ WF_vars(requeueExpiredPendingAcks)

FairSpec == Spec /\ Fairness

-----------------------------------------------------------------------------
(* Properties.                                                             *)

\* Whatever requests and replies are lost, an assignment that was queued waits
\* in a queue, waits for its acknowledgement, was executed, or fell out of a
\* full queue: getAssignmentsForWorker, ackAssignmentsForWorker and
\* requeueExpiredPendingAcks never lose one between them.
Accounted ==
  \A l \in queued : l \in Queue \cup Unacked \cup dropped \/ starts[l] > 0

\* The worker executes a lease a further time only if an acknowledgement was
\* overdue once more (Execute forgets a lease at its cleanup).
RepeatsExplained == \A l \in Leases : starts[l] <= 1 + late[l]

\* An assignment that waits is executed in the end, unless it is dropped or the worker is
\* removed: then handleGetAssignments answers 404, nothing empties the queue of the worker,
\* which never registers again, and what waits there is neither executed nor dropped.
Delivered ==
  \A l \in Leases : (l \in Queue) ~> (starts[l] > 0 \/ l \in dropped \/ ~Registered)

\* A worker that executes an assignment of a run that is over hears of it, if
\* only its lease lasts and the registry knows it: stop signals repeat, so none
\* can be lost for good.
StopReaches ==
  \A l \in Leases :
    (run = "over" /\ exec[l] = "running" /\ lease[l] = "active")
       ~> (exec[l] # "running" \/ lease[l] # "active" \/ ~Registered)
=============================================================================
