-------------------------- MODULE RequestLogWriter --------------------------
(***************************************************************************)
(* RequestLogWriter of utils/request_logger.py: a bounded queue in memory  *)
(* and one task that inserts its records in batches.                       *)
(*                                                                         *)
(* Records are numbered in the order of their enqueue calls.  Their        *)
(* contents do not matter here.                                            *)
(***************************************************************************)
EXTENDS Naturals, Sequences

CONSTANTS
    MaxQueue,   \* _MAX_QUEUE
    BatchSize,  \* _BATCH
    MaxRecords  \* bound on records

ASSUME WriterConstants ==
    MaxQueue \in Nat \ {0} /\ BatchSize \in Nat \ {0} /\ MaxRecords \in Nat

VARIABLES
    made,     \* records given to enqueue so far
    queue,    \* _queue
    batch,    \* records the task has taken and not flushed
    rest,     \* records _drain_remaining has taken and not flushed
    task,     \* where the writer's task stands
    stop,     \* _stop
    rows,     \* rows[i]: rows of record i in request_logs
    drops,    \* drops[i]: times record i was counted as dropped
    lost      \* history: records that went down with their process

writer == <<made, queue, batch, rest, task, stop, rows, drops, lost>>
results == <<rows, drops, lost>>

Record == 1..MaxRecords

WriterTypes ==
    /\ made \in 0..MaxRecords
    /\ queue \in Seq(Record) /\ batch \in Seq(Record) /\ rest \in Seq(Record)
    /\ Len(queue) <= MaxQueue /\ Len(batch) <= BatchSize
    /\ task \in {"off", "loop", "collect", "flush"} /\ stop \in BOOLEAN
    /\ rows \in [Record -> Nat] /\ drops \in [Record -> Nat] /\ lost \subseteq Record

WriterInit ==
    /\ made = 0 /\ queue = <<>> /\ batch = <<>> /\ rest = <<>>
    /\ task = "off" /\ stop = FALSE
    /\ rows = [i \in Record |-> 0] /\ drops = [i \in Record |-> 0] /\ lost = {}

-----------------------------------------------------------------------------
In(s) == {s[i] : i \in 1..Len(s)}

AddTo(f, s) == [i \in Record |-> IF i \in In(s) THEN f[i] + 1 ELSE f[i]]

(* Mutant: a failed insert is not counted. *)
FailedSilent(s) == UNCHANGED results

(* The except branch of _flush, when the insert had no effect, *)
Failed(s) == drops' = AddTo(drops, s) /\ UNCHANGED <<rows, lost>>

(* ... and when it had: only the reply to the commit is missing. *)
Unknown(s) == rows' = AddTo(rows, s) /\ drops' = AddTo(drops, s) /\ UNCHANGED lost

(* _flush: one transaction, never repeated. *)
Inserted(s) == rows' = AddTo(rows, s) /\ UNCHANGED <<drops, lost>>

(* enqueue, called when a response with a log record leaves the network    *)
(* detector.  A full queue counts the record and drops it.                 *)
Enqueue ==
    /\ made < MaxRecords /\ made' = made + 1
    /\ \/ /\ Len(queue) < MaxQueue
          /\ queue' = Append(queue, made + 1)
          /\ UNCHANGED results
       \/ /\ Len(queue) >= MaxQueue
          /\ Failed(<<made + 1>>)
          /\ UNCHANGED queue
    /\ UNCHANGED <<batch, rest, task, stop>>

(* start *)
StartWriter == task = "off" /\ task' = "loop" /\ stop' = FALSE

(* Mutant: the loop has no condition. *)
LoopForEver ==
    /\ task = "loop" /\ task' = "collect"
    /\ UNCHANGED <<made, queue, batch, rest, stop, results>>

(* run: the loop's condition *)
Loop ==
    /\ task = "loop"
    /\ task' = IF stop THEN "off" ELSE "collect"
    /\ UNCHANGED <<made, queue, batch, rest, stop, results>>

(* Mutant: the newest records are taken first. *)
CollectBatchLast ==
    /\ task = "collect"
    /\ \/ /\ queue # <<>>
          /\ LET n == IF Len(queue) < BatchSize THEN 0 ELSE Len(queue) - BatchSize IN
             /\ batch' = SubSeq(queue, n + 1, Len(queue))
             /\ queue' = SubSeq(queue, 1, n)
          /\ task' = "flush"
       \/ /\ queue = <<>>
          /\ task' = "loop" /\ UNCHANGED <<queue, batch>>
    /\ UNCHANGED <<made, rest, stop, results>>

(* _collect_batch: the first record, and those queued behind it up to the  *)
(* size of a batch; nothing when none came within the flush interval.      *)
CollectBatch ==
    /\ task = "collect"
    /\ \/ /\ queue # <<>>
          /\ LET n == IF Len(queue) < BatchSize THEN Len(queue) ELSE BatchSize IN
             /\ batch' = SubSeq(queue, 1, n)
             /\ queue' = SubSeq(queue, n + 1, Len(queue))
          /\ task' = "flush"
       \/ /\ queue = <<>>
          /\ task' = "loop" /\ UNCHANGED <<queue, batch>>
    /\ UNCHANGED <<made, rest, stop, results>>

(* Mutant: an error of the database ends the task. *)
FlushDies(faulty) ==
    /\ task = "flush" /\ batch' = <<>>
    /\ \/ ~faulty /\ Inserted(batch) /\ task' = "loop"
       \/ faulty /\ (Failed(batch) \/ Unknown(batch)) /\ task' = "off"
    /\ UNCHANGED <<made, queue, rest, stop>>

(* _flush of the task's batch; the loop goes on whatever happened. *)
Flush(faulty) ==
    /\ task = "flush" /\ task' = "loop"
    /\ batch' = <<>>
    /\ \/ ~faulty /\ Inserted(batch)
       \/ faulty /\ (Failed(batch) \/ Unknown(batch))
    /\ UNCHANGED <<made, queue, rest, stop>>

(* Mutant: stop() leaves the queue alone. *)
DrainNothing ==
    /\ stop /\ task = "off"
    /\ UNCHANGED writer

(* stop, once its task has ended, and _drain_remaining: takes all that is  *)
(* left,                                                                   *)
Drain ==
    /\ stop /\ task = "off"
    /\ rest' = queue /\ queue' = <<>>
    /\ UNCHANGED <<made, batch, task, stop, results>>

(* ... and flushes it as one batch. *)
FlushRest(faulty) ==
    /\ rest' = <<>>
    /\ IF rest = <<>> THEN ~faulty /\ UNCHANGED results
       ELSE \/ ~faulty /\ Inserted(rest)
            \/ faulty /\ (Failed(rest) \/ Unknown(rest))
    /\ UNCHANGED <<made, queue, batch, task, stop>>

(* The process dies.  A transaction in flight may have been committed. *)
WriterCrash ==
    /\ queue' = <<>> /\ batch' = <<>> /\ rest' = <<>>
    /\ task' = "off" /\ stop' = FALSE
    /\ \E flying \in {<<>>, batch \o rest} :
        /\ rows' = AddTo(rows, flying)
        /\ lost' = lost \cup (In(batch \o rest \o queue) \ In(flying))
    /\ UNCHANGED <<made, drops>>

-----------------------------------------------------------------------------
Held == batch \o rest \o queue

Settled(i) == rows[i] + drops[i] > 0

(* No record is forgotten and none is written twice: each one is held in   *)
(* exactly one place, or its row was inserted or counted as dropped at     *)
(* most once each, or it went down with its process.                       *)
Accounted ==
    \A i \in 1..made :
        /\ rows[i] <= 1 /\ drops[i] <= 1
        /\ ~(Settled(i) /\ i \in lost)
        /\ (~Settled(i) /\ i \notin lost) <=> i \in In(Held)
        /\ \A j, k \in 1..Len(Held) : Held[j] = i /\ Held[k] = i => j = k

(* Rows are written in the order of the requests: when a record's row is   *)
(* in the table, no earlier record is still waiting.  The drain of stop()  *)
(* must not overtake the batch the task still holds.                       *)
InOrder == \A i, j \in 1..made : i < j /\ rows[j] > 0 => i \notin In(Held)

-----------------------------------------------------------------------------
(* The inductive strengthening that the proofs use *)

Ascending(s) == \A i, j \in 1..Len(s) : i < j => s[i] < s[j]

(* Every number of s is less than every number of t. *)
Before(s, t) == \A i \in In(s), j \in In(t) : i < j

InMemory == In(batch) \cup In(rest) \cup In(queue)

(* The three containers hold records in the order of their numbers; only   *)
(* the batch and the queue may both hold some.                             *)
OrderInv ==
    /\ Ascending(batch) /\ Ascending(rest) /\ Ascending(queue)
    /\ Before(batch, queue)
    /\ rest # <<>> => batch = <<>> /\ queue = <<>>
    /\ task # "flush" => batch = <<>>

(* What is in memory is what was made and neither settled nor lost, and no *)
(* row overtakes a record in memory.                                       *)
RecordInv ==
    \A i \in Record :
        /\ rows[i] <= 1 /\ drops[i] <= 1
        /\ i > made => ~Settled(i) /\ i \notin lost
        /\ ~(Settled(i) /\ i \in lost)
        /\ i \in InMemory <=> (i <= made /\ ~Settled(i) /\ i \notin lost)
        /\ rows[i] > 0 => \A j \in InMemory : i < j
=============================================================================
