------------------------------ MODULE AuditStore ------------------------------
(***************************************************************************)
(* The audit store (app/audit/store.py, class AuditStore): record() puts   *)
(* entries on a bounded queue without blocking, a background task flushes  *)
(* the queue to the database in batches, stop() ends the task and flushes  *)
(* once more.                                                              *)
(*                                                                         *)
(* The suspension points are the consumer's sleep and the commit.  What    *)
(* precedes a commit (taking the batch off the queue) and what follows it  *)
(* (dropping the batch) are single steps; record() runs between any two.   *)
(* An audit entry is its number in the order of the calls of record().     *)
(***************************************************************************)
EXTENDS Naturals, Sequences, Functions

CONSTANTS
  QueueSize,   \* maxsize of _queue
  Batch,       \* _BATCH
  MaxRecords,  \* bound: calls of record() in a behaviour
  MaxFaults    \* bound: failed commits and crashes in a behaviour

ASSUME AuditAssumption ==
  /\ QueueSize  \in Nat \ {0}
  /\ Batch      \in Nat \ {0}
  /\ MaxRecords \in Nat
  /\ MaxFaults  \in Nat

VARIABLES
  phase,     \* where the store is in its life cycle
  queue,     \* _queue
  batch,     \* the local batch of each task that is inside _flush
  db,        \* the rows of audit_log, in the order they were committed
  recorded,  \* number of calls of record()
  dropped,   \* entries refused by a full queue
  lost,      \* entries taken off the queue, or still on it at a crash, that
             \* never reached the database
  faults,    \* failed commits and crashes so far
  atStop     \* history: the value of recorded when stop() was called

vars == <<phase, queue, batch, db, recorded, dropped, lost, faults, atStop>>

Flushers == {"consumer", "stop"}

Phases == {"running",      \* the consumer task is alive
           "cancelling",   \* stop() awaits the cancelled consumer
           "flushing",     \* stop() is in its own _flush
           "stopped",      \* stop() returned
           "crashed"}      \* the process died

TypeOK ==
  /\ phase \in Phases
  /\ queue \in Seq(1..recorded) /\ Len(queue) <= QueueSize
  /\ batch \in [Flushers -> Seq(1..recorded)]
  /\ \A t \in Flushers : Len(batch[t]) <= Batch
  /\ db \in Seq(1..recorded)
  /\ recorded \in 0..MaxRecords
  /\ dropped \subseteq 1..recorded
  /\ lost \subseteq 1..recorded
  /\ faults \in 0..MaxFaults
  /\ atStop \in 0..recorded

Init ==
  /\ phase = "running"
  /\ queue = <<>>
  /\ batch = [t \in Flushers |-> <<>>]
  /\ db = <<>>
  /\ recorded = 0
  /\ dropped = {} /\ lost = {}
  /\ faults = 0
  /\ atStop = 0

-------------------------------------------------------------------------------
(***************************************************************************)
(* The entries being committed (by at most one task: stop() awaits the     *)
(* consumer before it flushes), and all the entries held in memory.        *)
(***************************************************************************)
InFlush == batch["consumer"] \o batch["stop"]

Pending == InFlush \o queue

(***************************************************************************)
(* record() is called for as long as the process lives: a streamed call    *)
(* outlives its connection, so its entry may come during or after stop().  *)
(***************************************************************************)
Record ==
  /\ phase # "crashed"
  /\ recorded < MaxRecords
  /\ recorded' = recorded + 1
  /\ IF Len(queue) < QueueSize
     THEN queue' = Append(queue, recorded') /\ UNCHANGED dropped
     ELSE dropped' = dropped \union {recorded'} /\ UNCHANGED queue
  /\ UNCHANGED <<phase, batch, db, lost, faults, atStop>>

BatchLen == IF Len(queue) < Batch THEN Len(queue) ELSE Batch

\* Plausible fault: the size is tested after the entry was taken off the queue.
TakeBatch_LosesOne(t) ==
  /\ batch' = [batch EXCEPT ![t] = SubSeq(queue, 1, BatchLen)]
  /\ queue' = SubSeq(queue, BatchLen + 2, Len(queue))

TakeBatch(t) ==
  /\ batch' = [batch EXCEPT ![t] = SubSeq(queue, 1, BatchLen)]
  /\ queue' = SubSeq(queue, BatchLen + 1, Len(queue))

\* Plausible fault: the consumer waits for a full batch.
ConsumerFlush_FullBatches ==
  /\ phase = "running"
  /\ batch["consumer"] = <<>>
  /\ Len(queue) >= Batch
  /\ TakeBatch("consumer")
  /\ UNCHANGED <<phase, db, recorded, dropped, lost, faults, atStop>>

(***************************************************************************)
(* The consumer wakes up and takes a batch.  On an empty queue _flush      *)
(* returns at once, which changes nothing.                                 *)
(***************************************************************************)
ConsumerFlush ==
  /\ phase = "running"
  /\ batch["consumer"] = <<>>
  /\ queue # <<>>
  /\ TakeBatch("consumer")
  /\ UNCHANGED <<phase, db, recorded, dropped, lost, faults, atStop>>

(***************************************************************************)
(* The commit that t awaits returns.  A cancelled consumer is not resumed  *)
(* by its commit but by the cancellation.  After its flush stop() disposes *)
(* of the engine and returns.                                              *)
(***************************************************************************)
Commit(t) ==
  /\ batch[t] # <<>>
  /\ t = "consumer" => phase # "cancelling"
  /\ db' = db \o batch[t]
  /\ batch' = [batch EXCEPT ![t] = <<>>]
  /\ phase' = IF t = "stop" THEN "stopped" ELSE phase
  /\ UNCHANGED <<queue, recorded, dropped, lost, faults, atStop>>

(***************************************************************************)
(* Entries b are abandoned inside a commit: the connection failed, the     *)
(* task was cancelled or the process died.  Whether the transaction took   *)
(* effect is unknown.                                                      *)
(***************************************************************************)
Abandon(b) ==
  \/ db' = db \o b /\ UNCHANGED lost
  \/ lost' = lost \union Range(b) /\ UNCHANGED db

(***************************************************************************)
(* The commit raises; _flush logs the error and drops the batch.           *)
(***************************************************************************)
CommitFails(t) ==
  /\ faults < MaxFaults
  /\ batch[t] # <<>>
  /\ t = "consumer" => phase # "cancelling"
  /\ Abandon(batch[t])
  /\ batch' = [batch EXCEPT ![t] = <<>>]
  /\ phase' = IF t = "stop" THEN "stopped" ELSE phase
  /\ faults' = faults + 1
  /\ UNCHANGED <<queue, recorded, dropped, atStop>>

Stop ==
  /\ phase = "running"
  /\ phase' = "cancelling"
  /\ atStop' = recorded
  /\ UNCHANGED <<queue, batch, db, recorded, dropped, lost, faults>>

(***************************************************************************)
(* The consumer ends by CancelledError, in its sleep or in its commit.     *)
(***************************************************************************)
ConsumerCancelled ==
  /\ phase = "cancelling"
  /\ phase' = "flushing"
  /\ Abandon(batch["consumer"])
  /\ batch' = [batch EXCEPT !["consumer"] = <<>>]
  /\ UNCHANGED <<queue, recorded, dropped, faults, atStop>>

(***************************************************************************)
(* The single _flush of stop().                                            *)
(***************************************************************************)
StopFlush ==
  /\ phase = "flushing"
  /\ batch["stop"] = <<>>
  /\ TakeBatch("stop")
  /\ phase' = IF queue = <<>> THEN "stopped" ELSE phase
  /\ UNCHANGED <<db, recorded, dropped, lost, faults, atStop>>

(***************************************************************************)
(* The process dies, or exits after stop(); the queue and the batches are  *)
(* in its memory only.                                                     *)
(***************************************************************************)
Crash ==
  /\ faults < MaxFaults
  /\ phase # "crashed"
  /\ \/ db' = db \o InFlush /\ lost' = lost \union Range(queue)
     \/ UNCHANGED db /\ lost' = lost \union Range(Pending)
  /\ queue' = <<>>
  /\ batch' = [t \in Flushers |-> <<>>]
  /\ phase' = "crashed"
  /\ faults' = faults + 1
  /\ UNCHANGED <<recorded, dropped, atStop>>

\* Plausible fault: start() recreates the tables.
Start_RecreatesTables ==
  /\ phase = "crashed"
  /\ phase' = "running"
  /\ db' = <<>>
  /\ lost' = lost \union Range(db)
  /\ UNCHANGED <<queue, batch, recorded, dropped, faults, atStop>>

(***************************************************************************)
(* A new process starts the store; create_all keeps the existing table.    *)
(***************************************************************************)
Start ==
  /\ phase = "crashed"
  /\ phase' = "running"
  /\ UNCHANGED <<queue, batch, db, recorded, dropped, lost, faults, atStop>>

Next ==
  \/ Record
  \/ ConsumerFlush
  \/ \E t \in Flushers : Commit(t) \/ CommitFails(t)
  \/ Stop \/ ConsumerCancelled \/ StopFlush
  \/ Crash \/ Start

Spec == Init /\ [][Next]_vars

(***************************************************************************)
(* The consumer's sleep ends and its commits return or raise.              *)
(***************************************************************************)
FairSpec == Spec /\ WF_vars(ConsumerFlush) /\ WF_vars(Commit("consumer"))

-------------------------------------------------------------------------------
(***************************************************************************)
(* Every entry passed to record() is in exactly one place: refused, lost   *)
(* with its batch or its process, queued, being committed, or stored, and  *)
(* stored once.  A batch whose commit had an unknown outcome is not        *)
(* written a second time.                                                  *)
(***************************************************************************)
Accounted ==
  LET all == db \o Pending
  IN  /\ IsInjective(all)
      /\ dropped \union lost \union Range(all) = 1..recorded
      /\ dropped \intersect lost = {}
      /\ (dropped \union lost) \intersect Range(all) = {}

(***************************************************************************)
(* Rows are committed in the order their entries were recorded, across     *)
(* batches, failed commits, the final flush of stop() and restarts.        *)
(***************************************************************************)
InOrder ==
  LET all == db \o Pending
  IN  \A i, j \in 1..Len(all) : i < j => all[i] < all[j]

(***************************************************************************)
(* While the store runs, a queued entry does not stay on the queue: it is  *)
(* stored, or lost with a batch whose commit failed.                       *)
(***************************************************************************)
QueueDrains ==
  \A e \in 1..MaxRecords :
    e \in Range(queue) ~> e \in Range(db) \union lost \/ phase # "running"

(***************************************************************************)
(* The table is an append-only log of what was recorded ("Append-only      *)
(* audit record ... must never be updated or deleted", models.py, line     *)
(* 16): the store implements LossyLog.                                     *)
(***************************************************************************)
Log == INSTANCE LossyLog
         WITH log       <- db,
              pending   <- Pending,
              submitted <- recorded

LogSpec == Log!Spec

(***************************************************************************)
(* "Append-only audit record for every tool invocation attempt"            *)
(* (models.py, line 16): when stop() returns, after no failed or           *)
(* interrupted commit, no crash and no full queue, every entry recorded    *)
(* before stop() was called is stored.                                     *)
(***************************************************************************)
CleanStopStoresAll ==
  phase = "stopped" /\ faults = 0 /\ dropped = {} /\ lost = {}
    => 1..atStop \subseteq Range(db)
===============================================================================
