---------------------------- MODULE TelemetryQueue ----------------------------
(***************************************************************************)
(* The bounded queue with its three tiers and the collector that empties   *)
(* it (internal/telemetry/queue.go, collector.go).                         *)
(*                                                                         *)
(* Sections under q.mu are one action, except that a consumer holds q.mu   *)
(* from its look at the closed flag to Wait: Close does not take q.mu.     *)
(***************************************************************************)
EXTENDS Integers, Sequences, FiniteSets, Functions

CONSTANTS
  Capacity,    \* q.capacity
  Producers,   \* goroutines that record
  Consumers,   \* goroutines in DequeueBatch
  Setups,      \* the instances considered
  MaxRecords   \* bound: records made

Setup ==
  [batchSize : Nat \ {0},            \* config.BatchSize
   producers : SUBSET Producers,     \* bound: those there are
   consumers : SUBSET Consumers,     \* none: the collector, which never blocks
   records : 0 .. MaxRecords]        \* bound: records made

ASSUME QueueAssumption ==
  Capacity \in Nat \ {0} /\ MaxRecords \in Nat /\ Setups \subseteq Setup

Tiers == 0 .. 2

VARIABLES
  setup,
  records,    \* q.records; a record is its number and tier
  made,       \* records made so far
  recording,  \* what each producer has in hand: it has passed c.closed
  consumer,   \* "idle", "checked" (with q.mu), "waiting", "woken", "done"
  queueOpen,  \* ~q.closed
  loop,       \* processLoop: "select", "drain", "done"
  stop,       \* Stop: "none", "closed", "cancelled", "waiting" (for loop), "done"
  taken,      \* history: records dequeued, in order
  accepted,   \* history: records Enqueue returned true for
  shed,       \* history: accepted records that were dropped later
  unjust      \* history: records refused or shed out of turn

queueVars == <<setup, records, made, recording, consumer, queueOpen, loop, stop, taken, accepted, shed, unjust>>

NoRecord == [n |-> 0, tier |-> 0]
Record == [n : Nat, tier : Tiers]
Free == \A c \in setup.consumers : consumer[c] # "checked"
Waiting == {c \in setup.consumers : consumer[c] = "waiting"}

QueueInit ==
  /\ setup \in Setups
  /\ records = <<>> /\ made = 0 /\ recording = [p \in Producers |-> NoRecord]
  /\ consumer = [c \in Consumers |-> "idle"]
  /\ queueOpen = TRUE /\ loop = "select" /\ stop = "none"
  /\ taken = <<>> /\ accepted = {} /\ shed = {} /\ unjust = {}

-----------------------------------------------------------------------------
(* Recording.                                                              *)

\* RecordOperation, RecordLifecycleEvent, RecordWorkerHealth up to Enqueue.
RecordOperation(p) ==
  /\ recording[p] = NoRecord /\ stop = "none" /\ made < setup.records
  /\ \E t \in Tiers : recording' = [recording EXCEPT ![p] = [n |-> made + 1, tier |-> t]]
  /\ made' = made + 1
  /\ UNCHANGED <<setup, records, consumer, queueOpen, loop, stop, taken, accepted, shed, unjust>>

Signal ==
  \/ Waiting = {} /\ UNCHANGED consumer
  \/ \E c \in Waiting : consumer' = [consumer EXCEPT ![c] = "woken"]

OfTier(t) == {i \in DOMAIN records : records[i].tier = t}
First(S) == CHOOSE i \in S : \A j \in S : i <= j

\* Slip: the oldest record makes way, whatever its tier.
Victim_Oldest(r) == IF r.tier = 0 \/ Len(records) < Capacity THEN 0 ELSE 1

\* The record that is shed for r, 0 if none has to be or none can be.
Victim(r) ==
  IF r.tier = 0 \/ Len(records) < Capacity THEN 0
  ELSE IF OfTier(2) # {} THEN First(OfTier(2))
  ELSE IF r.tier = 1 /\ OfTier(1) # {} THEN First(OfTier(1))
  ELSE 0

\* The records but the one at v.
Without(v) == SubSeq(records, 1, v - 1) \o SubSeq(records, v + 1, Len(records))

\* Of the records in `lost`, those that should not have been: a lifecycle record, or one
\* of a tier that counts for more than one that q keeps.
Unjust(lost, q) == {x \in lost : x.tier = 0 \/ \E y \in Range(q) : y.tier > x.tier}

Fits(r) == r.tier = 0 \/ Len(records) < Capacity \/ Victim(r) # 0

Enqueue(p) ==
  LET r == recording[p]
      v == Victim(r)
  IN  /\ r # NoRecord /\ Free
      /\ recording' = [recording EXCEPT ![p] = NoRecord]
      /\ IF queueOpen /\ Fits(r)
         THEN /\ records' = Append(IF v = 0 THEN records ELSE Without(v), r)
              /\ shed' = IF v = 0 THEN shed ELSE shed \cup {records[v]}
              /\ unjust' = IF v = 0 THEN unjust ELSE unjust \cup Unjust({records[v]}, records')
              /\ accepted' = accepted \cup {r}
              /\ Signal
         ELSE /\ unjust' = IF queueOpen THEN unjust \cup Unjust({r}, records) ELSE unjust
              /\ UNCHANGED <<records, shed, accepted, consumer>>
      /\ UNCHANGED <<setup, made, queueOpen, loop, stop, taken>>

-----------------------------------------------------------------------------
(* Dequeueing.                                                             *)

Count == IF setup.batchSize > Len(records) THEN Len(records) ELSE setup.batchSize

TakeBatch ==
  /\ taken' = taken \o SubSeq(records, 1, Count)
  /\ records' = SubSeq(records, Count + 1, Len(records))

\* DequeueBatch: with the lock, a batch, nil, or on to Wait.
DequeueBatch(c) ==
  /\ consumer[c] \in {"idle", "woken"} /\ Free
  /\ \/ /\ records # <<>> /\ TakeBatch
        /\ consumer' = [consumer EXCEPT ![c] = "idle"]
     \/ /\ records = <<>> /\ UNCHANGED <<records, taken>>
        /\ consumer' = [consumer EXCEPT ![c] = IF queueOpen THEN "checked" ELSE "done"]
  /\ UNCHANGED <<setup, made, recording, queueOpen, loop, stop, accepted, shed, unjust>>

Wait(c) ==
  /\ consumer[c] = "checked"
  /\ consumer' = [consumer EXCEPT ![c] = "waiting"]
  /\ UNCHANGED <<setup, records, made, recording, queueOpen, loop, stop, taken, accepted, shed, unjust>>

-----------------------------------------------------------------------------
(* The collector.                                                          *)

processBatch ==
  /\ setup.consumers = {} /\ loop = "select" /\ records # <<>> /\ TakeBatch
  /\ UNCHANGED <<setup, made, recording, consumer, queueOpen, loop, stop, accepted, shed, unjust>>

ContextDone ==
  /\ setup.consumers = {} /\ loop = "select" /\ stop \in {"cancelled", "waiting"} /\ loop' = "drain"
  /\ UNCHANGED <<setup, records, made, recording, consumer, queueOpen, stop, taken, accepted, shed, unjust>>

drainQueue ==
  /\ loop = "drain"
  /\ IF records # <<>> THEN TakeBatch /\ UNCHANGED loop
     ELSE loop' = "done" /\ UNCHANGED <<records, taken>>
  /\ UNCHANGED <<setup, made, recording, consumer, queueOpen, stop, accepted, shed, unjust>>

StopCollector ==
  /\ stop = "none" /\ stop' = "closed"
  /\ UNCHANGED <<setup, records, made, recording, consumer, queueOpen, loop, taken, accepted, shed, unjust>>

CancelLoop ==
  /\ stop = "closed" /\ stop' = "cancelled"
  /\ UNCHANGED <<setup, records, made, recording, consumer, queueOpen, loop, taken, accepted, shed, unjust>>

\* queue.Close stores the flag and broadcasts, without q.mu.
CloseQueue ==
  /\ stop = "cancelled" /\ stop' = "waiting" /\ queueOpen' = FALSE
  /\ consumer' = [c \in Consumers |-> IF consumer[c] = "waiting" THEN "woken" ELSE consumer[c]]
  /\ UNCHANGED <<setup, records, made, recording, loop, taken, accepted, shed, unjust>>

\* Stop returns.  Its other way out, when its own context ends first, leaves the loop to
\* finish alone and changes nothing here.
Stopped ==
  /\ stop = "waiting" /\ (loop = "done" \/ setup.consumers # {}) /\ stop' = "done"
  /\ UNCHANGED <<setup, records, made, recording, consumer, queueOpen, loop, taken, accepted, shed, unjust>>

QueueFinished ==
  /\ stop = "done" /\ \A p \in setup.producers : recording[p] = NoRecord
  /\ \A c \in setup.consumers : consumer[c] \in {"done", "waiting"}
  /\ UNCHANGED queueVars

CollectorStep == processBatch \/ ContextDone \/ drainQueue
StopStep == CancelLoop \/ CloseQueue \/ Stopped

QueueNext ==
  \/ \E p \in setup.producers : RecordOperation(p) \/ Enqueue(p)
  \/ \E c \in setup.consumers : DequeueBatch(c) \/ Wait(c)
  \/ CollectorStep \/ StopCollector \/ StopStep \/ QueueFinished

QueueSpec == QueueInit /\ [][QueueNext]_queueVars

-----------------------------------------------------------------------------
(* Properties.                                                             *)

\* Enqueue's promise: of the records it accepted, only those it shed are lost; everything
\* else is in the queue or was taken, once.  While the queue is open no lifecycle record
\* is shed or refused, and no record is for one of a higher tier that stays: tier 2 goes
\* before tier 1.  Only lifecycle records go beyond the capacity.
OnlyShedLost ==
  /\ Cardinality({r \in Range(records) : r.tier # 0}) <= Capacity
  /\ unjust = {}
  /\ \A r \in shed : r.tier # 0
  /\ IsInjective(taken \o records)
  /\ accepted = Range(taken \o records) \cup shed
  /\ shed \cap Range(taken \o records) = {}
===============================================================================
