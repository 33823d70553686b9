------------------------------ MODULE Lifespan ------------------------------
(***************************************************************************)
(* The life of a gateway process: lifespan of main.py starts and stops the *)
(* queue worker, the request log writer, the background refreshes and the  *)
(* clients of Redis, PostgreSQL and the upstreams that all of them share.  *)
(*                                                                         *)
(* A process may crash at any time; another one then starts.  get_redis    *)
(* and the engine of SQLAlchemy connect again when they are used after     *)
(* having been closed, and nothing would close them a second time.         *)
(***************************************************************************)
EXTENDS RequestLogWriter

CONSTANTS
    MaxBusy,   \* bound on requests in progress
    Task,      \* names of background refreshes
    MaxFaults  \* bound on failed inserts and crashes

ASSUME LifespanConstants == MaxBusy \in Nat /\ MaxFaults \in Nat

VARIABLES
    app,     \* where lifespan stands
    open,    \* clients with open connections
    busy,    \* requests in progress
    worker,  \* does the task of SyncWorker run?
    tasks,   \* _background_tasks
    faults

vars == <<writer, app, open, busy, worker, tasks, faults>>

Client == {"http", "redis", "db"}

(* Mutant: the clients are closed before the refreshes have ended. *)
OrderEager == <<"worker", "writer", "drain", "flush", "http", "redis", "tasks", "db", "down">>

(* The finally block: what is awaited one after the other, stop() of the   *)
(* log writer being three steps of it.                                     *)
Order == <<"worker", "writer", "drain", "flush", "tasks", "http", "redis", "db", "down">>

Stopping == In(Order) \ {"down"}

TypeOK ==
    /\ WriterTypes
    /\ app \in {"start", "up"} \cup In(Order)
    /\ open \subseteq Client /\ busy \in 0..MaxBusy /\ worker \in BOOLEAN
    /\ tasks \subseteq Task /\ faults \in 0..MaxFaults

Init ==
    /\ WriterInit
    /\ app = "start" /\ open = {} /\ busy = 0 /\ worker = FALSE
    /\ tasks = {} /\ faults = 0

-----------------------------------------------------------------------------
Fault == faults < MaxFaults /\ faults' = faults + 1

(* A step of the finally block is over. *)
After(step) ==
    \E i \in 1..Len(Order) - 1 : app = step /\ Order[i] = step /\ app' = Order[i + 1]

(* Everything before the yield.  A failure of init_models is only logged. *)
Startup ==
    /\ app = "start" /\ app' = "up"
    /\ open' = Client /\ worker' = TRUE /\ StartWriter
    /\ UNCHANGED <<made, queue, batch, rest, results, busy, tasks, faults>>

(* Requests. *)
Arrive ==
    /\ app = "up" /\ busy < MaxBusy /\ busy' = busy + 1
    /\ UNCHANGED <<writer, app, open, worker, tasks, faults>>

(* A stale answer spawns a refresh, which outlives the request. *)
Spawn(t) ==
    /\ busy > 0 /\ t \notin tasks
    /\ tasks' = tasks \cup {t}
    /\ UNCHANGED <<writer, app, open, busy, worker, faults>>

(* The response leaves; most answers of the proxy carry a log record. *)
Leave ==
    /\ busy > 0 /\ busy' = busy - 1
    /\ \/ Enqueue
       \/ UNCHANGED writer
    /\ UNCHANGED <<app, open, worker, tasks, faults>>

(* A refresh ends, of itself or cancelled; its finally block uses Redis. *)
EndTask(t) ==
    /\ t \in tasks /\ tasks' = tasks \ {t}
    /\ open' = open \cup {"redis"}
    /\ UNCHANGED <<writer, app, busy, worker, faults>>

-----------------------------------------------------------------------------
(* The log writer's task *)

RunWriter ==
    /\ \/ Loop /\ UNCHANGED <<open, faults>>
       \/ CollectBatch /\ UNCHANGED <<open, faults>>
       \/ Flush(FALSE) /\ open' = open \cup {"db"} /\ UNCHANGED faults
       \/ Flush(TRUE) /\ open' = open \cup {"db"} /\ Fault
    /\ UNCHANGED <<app, busy, worker, tasks>>

-----------------------------------------------------------------------------
(* The finally block *)

(* The server ends the lifespan once no request is in progress. *)
Shutdown ==
    /\ app = "up" /\ busy = 0
    /\ app' = Order[1]
    /\ UNCHANGED <<writer, open, busy, worker, tasks, faults>>

(* worker.stop(): its task is cancelled and awaited. *)
StopWorker ==
    /\ After("worker") /\ worker' = FALSE
    /\ UNCHANGED <<writer, open, busy, tasks, faults>>

(* log_writer.stop(), *)
StopWriter ==
    /\ After("writer") /\ stop' = TRUE
    /\ UNCHANGED <<made, queue, batch, rest, task, results, open, busy, worker, tasks, faults>>

DrainWriter ==
    /\ After("drain") /\ Drain
    /\ UNCHANGED <<open, busy, worker, tasks, faults>>

FlushWriter ==
    /\ After("flush")
    /\ open' = IF rest = <<>> THEN open ELSE open \cup {"db"}
    /\ \/ FlushRest(FALSE) /\ UNCHANGED faults
       \/ FlushRest(TRUE) /\ Fault
    /\ UNCHANGED <<busy, worker, tasks>>

(* stop_background_tasks: all are cancelled and awaited. *)
StopTasks ==
    /\ After("tasks") /\ tasks = {}
    /\ UNCHANGED <<writer, open, busy, worker, tasks, faults>>

(* http_client.aclose(), close_redis(), engine.dispose() *)
Close(c) ==
    /\ After(c) /\ open' = open \ {c}
    /\ UNCHANGED <<writer, busy, worker, tasks, faults>>

(* Another process starts. *)
Restart ==
    /\ app = "down" /\ app' = "start"
    /\ stop' = FALSE
    /\ UNCHANGED <<made, queue, batch, rest, task, results, open, busy, worker, tasks, faults>>

Crash ==
    /\ app \notin {"start", "down"} /\ Fault
    /\ WriterCrash
    /\ app' = "start" /\ open' = {} /\ busy' = 0 /\ worker' = FALSE /\ tasks' = {}

Lifecycle ==
    \/ Startup \/ StopWorker \/ StopWriter \/ DrainWriter \/ FlushWriter \/ StopTasks
    \/ \E c \in Client : Close(c)

Next ==
    \/ Lifecycle \/ Shutdown \/ Restart \/ Crash
    \/ Arrive \/ Leave \/ \E t \in Task : Spawn(t) \/ EndTask(t)
    \/ RunWriter

Spec == Init /\ [][Next]_vars

(* The event loop runs every task; each of their awaits ends. *)
FairSpec ==
    /\ Spec /\ WF_vars(Lifecycle) /\ WF_vars(RunWriter)
    /\ \A t \in Task : WF_vars(EndTask(t))

-----------------------------------------------------------------------------
(* Properties *)

(* No client is closed while something may still use it: requests use all, *)
(* the worker Redis and the database, a refresh the upstream client and    *)
(* Redis, and a flush the database.                                        *)
OpenWhileUsed ==
    /\ busy > 0 => open = Client
    /\ worker => {"redis", "db"} \subseteq open
    /\ tasks # {} => {"http", "redis"} \subseteq open
    /\ batch \o rest # <<>> => "db" \in open

(* After an orderly shutdown nothing runs, nothing is open and every       *)
(* record has been inserted or counted: stop() "flushes whatever is still  *)
(* queued".                                                                *)
CleanShutdown ==
    app = "down" =>
        /\ open = {} /\ ~worker /\ tasks = {} /\ task = "off"
        /\ \A i \in 1..made : Settled(i) \/ i \in lost

(* A record that was enqueued is written or counted as dropped, unless its *)
(* process crashes; no failed insert stops the writer.                     *)
RecordsSettle == \A i \in Record : i \in In(Held) ~> (Settled(i) \/ i \in lost)

(* A shutdown that has begun ends, unless the process crashes. *)
ShutdownEnds == app \in Stopping ~> app \in {"down", "start"}

-----------------------------------------------------------------------------
(* The inductive strengthening that the proofs use *)

(* Steps of lifespan that the log writer's task may outlive *)
WriterMayRun == {"up", "worker", "writer", "drain"}

(* What is still in use, and therefore open, when lifespan stands at app. *)
AppInv ==
    /\ app # "up" => busy = 0
    /\ worker => app \in {"up", "worker"}
    /\ tasks # {} => app \in WriterMayRun \cup {"flush", "tasks"}
    /\ app \notin WriterMayRun => task = "off" /\ queue = <<>>
    /\ app # "flush" => rest = <<>>
    /\ app \in WriterMayRun \cup {"flush", "tasks", "http"} => open = Client
    /\ app = "redis" => open = {"redis", "db"}
    /\ app = "db" => open = {"db"}
    /\ app \in {"start", "down"} => open = {}

LifespanInv == TypeOK /\ OrderInv /\ RecordInv /\ AppInv
=============================================================================
