---------------------------- MODULE OfflineQueue ----------------------------
(***************************************************************************)
(* The offline write queue of gateway/offline_queue/sync_worker.py: a      *)
(* Redis stream with one consumer group, two companion hashes (attempts    *)
(* and due times), one expiring lease per entry, and the SyncWorker of     *)
(* every gateway process, which replays entries against the upstream.      *)
(*                                                                         *)
(* Every Redis command, every database commit and every upstream call is   *)
(* a step of its own, because each is an await at which other processes    *)
(* run, a command may fail, and the process may die.  Entries are numbered *)
(* in stream order.  Time is relative: idle times, leases, backoffs and    *)
(* call deadlines are counters that Tick moves and that saturate.          *)
(***************************************************************************)
EXTENDS Naturals, Sequences, FiniteSets

CONSTANTS
    Worker,           \* gateway processes; each runs one SyncWorker
    MaxWrites,        \* bound on the number of entries ever appended
    MaxDepth,         \* queue_max_depth
    NewCount,         \* COUNT of XREADGROUP (16)
    ClaimCount,       \* COUNT of XAUTOCLAIM (64)
    ScanCount,        \* entries one XAUTOCLAIM looks at (Redis: 10 * COUNT)
    MaxRetries,       \* queue_max_retries
    Backoff,          \* queue_backoff_schedule, a non-empty sequence
    ClaimIdle,        \* queue_claim_idle_seconds: idle threshold and lease TTL
    UpstreamTimeout,  \* upstream_timeout_seconds
    PrepTime,         \* time the Redis calls between lease and send may take
    RedisPrompt,      \* are the other Redis calls answered within a tick?
    ReadTimesOut,     \* does the BLOCK of XREADGROUP outlast the socket timeout?
    Malformed,        \* entries some other producer wrote with bad headers
    Unstorable,       \* entries the failed_requests table refuses
    MaxFaults,        \* bound on failures, crashes and restarts
    MaxReloads,       \* bound on route configuration reloads
    NoOne,            \* "the lock key does not exist"
    Orphan            \* a lock whose token no running process knows

Id == 1..MaxWrites

MaxAttempts == MaxRetries + 1

(* config.py, Settings.validate_boundaries, and the constants of _tick. *)
ASSUME QueueConstants ==
    /\ MaxWrites \in Nat /\ MaxDepth \in Nat \ {0}
    /\ NewCount \in Nat \ {0} /\ ClaimCount \in Nat \ {0} /\ ScanCount \in Nat \ {0}
    /\ MaxRetries \in Nat
    /\ Backoff \in Seq(Nat \ {0}) /\ Len(Backoff) > 0
    /\ UpstreamTimeout \in Nat \ {0} /\ ClaimIdle \in Nat
    /\ ClaimIdle > UpstreamTimeout
    /\ PrepTime \in Nat /\ RedisPrompt \in BOOLEAN /\ ReadTimesOut \in BOOLEAN
    /\ Malformed \subseteq Id /\ Unstorable \subseteq Id
    /\ MaxFaults \in Nat /\ MaxReloads \in Nat
    /\ NoOne \notin Worker /\ Orphan \notin Worker /\ NoOne # Orphan

(* The lease outlives the commands that precede the send and the send      *)
(* itself.  The default settings give 60 s against 4 Redis timeouts of 1 s *)
(* and 10 s of upstream timeout; validate_boundaries alone does not.       *)
LeaseMargin == PrepTime + UpstreamTimeout < ClaimIdle

VARIABLES
    \* Redis
    stream,     \* entries in the stream
    lastId,     \* id of the newest entry ever appended
    lastRead,   \* the group's last-delivered id
    pel,        \* the group's pending entries list
    idle,       \* idle[m]: time since a pending m was last delivered; else 0
    holder,     \* holder[m]: who owns lock:replay:m
    ttl,        \* ttl[m]: time left of that lock
    attempts,   \* ATTEMPTS_HASH; 0 when the field is absent
    due,        \* DUE_HASH as time left; 0 when absent or past
    expired,    \* entries found older than queue_max_age_seconds
    \* PostgreSQL
    dead,       \* entries with at least one failed_requests row
    \* each gateway process
    pc,         \* where the SyncWorker is
    phase,      \* which loop of _tick the batch belongs to
    batch,      \* entries of that loop not yet handled
    cursor,     \* _claim_cursor; 0 for "0-0"
    cur,        \* the entry in _handle; 0 for none
    tries,      \* the local variable attempts of _deliver
    timer,      \* time left of the step the lease must outlive
    queueable,  \* get_route_rule(service).queue_writes in this process
    \* history and bounds
    promised,   \* entries whose client was answered 202
    confirmed,  \* entries for which a 2xx was seen
    sends,      \* sends[m]: replays of m so far
    faults, reloads

log     == <<stream, lastId, lastRead, pel, idle>>
locks   == <<holder, ttl>>
hashes  == <<attempts, due>>
local   == <<phase, batch, cursor, cur, tries, timer>>
history == <<promised, confirmed, sends>>
vars    == <<log, locks, hashes, expired, dead, pc, local, queueable, history,
             faults, reloads>>

(* Between the grant of the lease and the answer of the upstream. *)
Prep == {"due", "budget", "setAttempts", "setDue"}
Timed == Prep \cup {"sending"}

(* The steps of _ack. *)
Acking == {"xack", "xdel", "hdelAttempts", "hdelDue"}

(* Inside the try block of _handle. *)
Handling == Timed \cup {"deadLetter"} \cup Acking

LogType ==
    /\ stream \subseteq Id /\ pel \subseteq Id
    /\ lastId \in 0..MaxWrites /\ lastRead \in 0..MaxWrites
    /\ idle \in [Id -> 0..ClaimIdle]

LockType ==
    /\ holder \in [Id -> Worker \cup {NoOne, Orphan}]
    /\ ttl \in [Id -> 0..ClaimIdle]

HashType == attempts \in [Id -> Nat] /\ due \in [Id -> Nat] /\ sends \in [Id -> Nat]

ControlType ==
    /\ pc \in [Worker -> {"read", "claim", "lease", "release"} \cup Handling]
    /\ phase \in [Worker -> {"new", "claimed"}]
    /\ batch \in [Worker -> SUBSET Id]
    /\ cursor \in [Worker -> 0..MaxWrites] /\ cur \in [Worker -> 0..MaxWrites]

LocalType == tries \in [Worker -> Nat] /\ timer \in [Worker -> Nat]

SettledType ==
    /\ expired \subseteq Id /\ dead \subseteq Id
    /\ promised \subseteq Id /\ confirmed \subseteq Id

EnvType ==
    /\ queueable \in [Worker -> BOOLEAN]
    /\ faults \in 0..MaxFaults /\ reloads \in 0..MaxReloads

TypeOK ==
    /\ LogType /\ LockType /\ HashType
    /\ ControlType /\ LocalType /\ SettledType /\ EnvType

Init ==
    /\ stream = {} /\ lastId = 0 /\ lastRead = 0 /\ pel = {}
    /\ idle = [m \in Id |-> 0]
    /\ holder = [m \in Id |-> NoOne] /\ ttl = [m \in Id |-> 0]
    /\ attempts = [m \in Id |-> 0] /\ due = [m \in Id |-> 0]
    /\ expired = {} /\ dead = {}
    /\ pc = [w \in Worker |-> "read"] /\ phase = [w \in Worker |-> "claimed"]
    /\ batch = [w \in Worker |-> {}] /\ cursor = [w \in Worker |-> 0]
    /\ cur = [w \in Worker |-> 0] /\ tries = [w \in Worker |-> 0]
    /\ timer = [w \in Worker |-> 0] /\ queueable = [w \in Worker |-> TRUE]
    /\ promised = {} /\ confirmed = {} /\ sends = [m \in Id |-> 0]
    /\ faults = 0 /\ reloads = 0

-----------------------------------------------------------------------------
(* Helpers *)

Goto(w, label) == pc' = [pc EXCEPT ![w] = label]

Fault == faults < MaxFaults /\ faults' = faults + 1

(* The first k elements of a set of entries, in stream order. *)
Oldest(S, k) == {m \in S : Cardinality({j \in S : j < m}) < k}

(* _backoff_seconds *)
BackoffSeconds(n) ==
    Backoff[IF n < 1 THEN 1 ELSE IF n > Len(Backoff) THEN Len(Backoff) ELSE n]

(* An exception leaves _deliver and _handle: the finally block releases    *)
(* the lease, and run() abandons the rest of the tick.                     *)
Raise(w) ==
    /\ Goto(w, "release")
    /\ phase' = [phase EXCEPT ![w] = "claimed"]
    /\ batch' = [batch EXCEPT ![w] = {}]
    /\ timer' = [timer EXCEPT ![w] = 0]
    /\ UNCHANGED <<cursor, cur, tries>>

(* A command that took effect: its reply arrives and the worker goes on,   *)
(* or the reply is lost and the client library raises.                     *)
Answered(w, label) ==
    \/ Goto(w, label) /\ UNCHANGED <<local, faults>>
    \/ Raise(w) /\ Fault

(* What the worker does after the entry at hand. *)
AfterEntry(w) ==
    IF batch[w] # {} THEN "lease" ELSE IF phase[w] = "new" THEN "claim" ELSE "read"

-----------------------------------------------------------------------------
(* The producers *)

XAdd ==
    /\ lastId < MaxWrites
    /\ lastId' = lastId + 1
    /\ stream' = stream \cup {lastId + 1}
    /\ UNCHANGED <<lastRead, pel, idle>>

(* enqueue_write, called by proxy._handle_write after an ambiguous failure *)
(* of the first attempt: the Lua script checks XLEN and appends.  The      *)
(* reply may be lost after the append; the client is then answered 503.    *)
EnqueueWrite(w) ==
    /\ queueable[w]
    /\ lastId + 1 \notin Malformed
    /\ Cardinality(stream) < MaxDepth
    /\ XAdd
    /\ \/ promised' = promised \cup {lastId + 1} /\ UNCHANGED faults
       \/ UNCHANGED promised /\ Fault
    /\ UNCHANGED <<locks, hashes, expired, dead, pc, local, queueable, confirmed,
                   sends, reloads>>

(* An entry that enqueue_write did not write. *)
ForeignAppend ==
    /\ lastId + 1 \in Malformed
    /\ XAdd
    /\ UNCHANGED <<locks, hashes, expired, dead, pc, local, queueable, history,
                   faults, reloads>>

-----------------------------------------------------------------------------
(* SyncWorker._tick *)

(* XREADGROUP with ">": the oldest undelivered entries become pending.  It *)
(* blocks for poll_interval (2 s) while there are none.  The socket timeout *)
(* of the client is redis_socket_timeout_seconds (1 s by default): when    *)
(* BLOCK outlasts it, the client library raises before Redis answers "no   *)
(* entries", and run() abandons the tick before XAUTOCLAIM.                *)
ReadNew(w) ==
    LET new == Oldest({m \in stream : m > lastRead}, NewCount)
    IN  /\ pc[w] = "read"
        /\ \E top \in 0..MaxWrites :
              /\ IF new = {} THEN top = lastRead
                 ELSE top \in new /\ \A m \in new : m <= top
              /\ lastRead' = top
        /\ pel' = pel \cup new
        /\ idle' = [m \in Id |-> IF m \in new THEN 0 ELSE idle[m]]
        /\ \/ /\ new = {} => ~ReadTimesOut
              /\ Goto(w, IF new = {} THEN "claim" ELSE "lease")
              /\ phase' = [phase EXCEPT ![w] = "new"]
              /\ batch' = [batch EXCEPT ![w] = new]
              /\ UNCHANGED faults
           \/ new # {} /\ Fault /\ UNCHANGED <<pc, phase, batch>>
           \/ new = {} /\ ReadTimesOut /\ UNCHANGED <<pc, phase, batch, faults>>
        /\ UNCHANGED <<stream, lastId, locks, hashes, expired, dead, cursor, cur,
                       tries, timer, queueable, history, reloads>>

(* XAUTOCLAIM from the cursor: pending entries idle for ClaimIdle or more  *)
(* are delivered again and their idle time restarts.  The cursor moves to  *)
(* the first pending entry not looked at, or back to the start.            *)
AutoClaim(w) ==
    LET scanned == Oldest({m \in pel : m >= cursor[w]}, ScanCount)
        claimed == Oldest({m \in scanned : idle[m] >= ClaimIdle}, ClaimCount)
        examined == IF Cardinality(claimed) < ClaimCount THEN scanned
                    ELSE {m \in scanned : \E k \in claimed : m <= k}
        left == {m \in pel : m >= cursor[w]} \ examined
    IN  /\ pc[w] = "claim"
        /\ idle' = [m \in Id |-> IF m \in claimed THEN 0 ELSE idle[m]]
        /\ \/ /\ \E c \in 0..MaxWrites :
                    /\ IF left = {} THEN c = 0
                       ELSE c \in left /\ \A m \in left : c <= m
                    /\ cursor' = [cursor EXCEPT ![w] = c]
              /\ Goto(w, IF claimed = {} THEN "read" ELSE "lease")
              /\ phase' = [phase EXCEPT ![w] = "claimed"]
              /\ batch' = [batch EXCEPT ![w] = claimed]
              /\ UNCHANGED faults
           \/ /\ claimed # {} /\ Fault
              /\ Goto(w, "read")
              /\ UNCHANGED <<cursor, phase, batch>>
        /\ UNCHANGED <<stream, lastId, lastRead, pel, locks, hashes, expired, dead,
                       cur, tries, timer, queueable, history, reloads>>

-----------------------------------------------------------------------------
(* SyncWorker._handle: take the lease, deliver, release *)

(* _handle passes queue_claim_idle_seconds as the TTL of its lock. *)
LeaseTtl == ClaimIdle

(* acquire_lock on the next entry of the batch.  A held lock, and a Redis  *)
(* error, both skip the entry; a SET whose reply is lost leaves a lock     *)
(* that nobody can release.                                                *)
AcquireLease(w) ==
    /\ pc[w] = "lease"
    /\ \E m \in batch[w] :
          LET rest == batch[w] \ {m}
          IN  /\ \A k \in batch[w] : m <= k
              /\ batch' = [batch EXCEPT ![w] = rest]
              /\ \/ /\ holder[m] = NoOne
                    /\ holder' = [holder EXCEPT ![m] = w]
                    /\ ttl' = [ttl EXCEPT ![m] = LeaseTtl]
                    /\ Goto(w, "due")
                    /\ cur' = [cur EXCEPT ![w] = m]
                    /\ timer' = [timer EXCEPT ![w] = PrepTime]
                    /\ UNCHANGED faults
                 \/ /\ \/ holder[m] # NoOne /\ UNCHANGED <<locks, faults>>
                       \/ /\ Fault
                          /\ holder[m] = NoOne
                          /\ holder' = [holder EXCEPT ![m] = Orphan]
                          /\ ttl' = [ttl EXCEPT ![m] = LeaseTtl]
                       \/ Fault /\ UNCHANGED locks
                    /\ Goto(w, IF rest # {} THEN "lease"
                               ELSE IF phase[w] = "new" THEN "claim" ELSE "read")
                    /\ UNCHANGED <<cur, timer>>
    /\ UNCHANGED <<log, hashes, expired, dead, phase, cursor, tries, queueable,
                   history, reloads>>

(* Mutant: delete the lock without comparing the token. *)
ReleaseAnyLease(w) ==
    /\ pc[w] = "release"
    /\ holder' = [holder EXCEPT ![cur[w]] = NoOne]
    /\ ttl' = [ttl EXCEPT ![cur[w]] = 0]
    /\ Goto(w, AfterEntry(w))
    /\ cur' = [cur EXCEPT ![w] = 0]
    /\ tries' = [tries EXCEPT ![w] = 0]
    /\ UNCHANGED <<log, hashes, expired, dead, phase, batch, cursor, timer, queueable,
                   history, faults, reloads>>

(* release_lock: a compare-and-delete on the token.  When the script does  *)
(* not run, the lock stays until its TTL and its token is forgotten.       *)
ReleaseLease(w) ==
    /\ pc[w] = "release"
    /\ \/ /\ IF holder[cur[w]] = w
             THEN /\ holder' = [holder EXCEPT ![cur[w]] = NoOne]
                  /\ ttl' = [ttl EXCEPT ![cur[w]] = 0]
             ELSE UNCHANGED locks
          /\ UNCHANGED faults
       \/ /\ holder[cur[w]] = w /\ Fault
          /\ holder' = [holder EXCEPT ![cur[w]] = Orphan]
          /\ UNCHANGED ttl
    /\ Goto(w, AfterEntry(w))
    /\ cur' = [cur EXCEPT ![w] = 0]
    /\ tries' = [tries EXCEPT ![w] = 0]
    /\ UNCHANGED <<log, hashes, expired, dead, phase, batch, cursor, timer,
                   queueable, history, reloads>>

-----------------------------------------------------------------------------
(* SyncWorker._deliver *)

(* Mutants: the due time is ignored; the comparison is turned round. *)
CheckNoDue(w) ==
    /\ pc[w] = "due"
    /\ Goto(w, "budget")
    /\ UNCHANGED <<log, locks, hashes, expired, dead, local, queueable, history, faults,
                   reloads>>
CheckDueInverted(w) ==
    /\ pc[w] = "due"
    /\ IF due[cur[w]] = 0
       THEN Goto(w, "release") /\ timer' = [timer EXCEPT ![w] = 0]
       ELSE Goto(w, "budget") /\ UNCHANGED timer
    /\ UNCHANGED <<log, locks, hashes, expired, dead, phase, batch, cursor, cur,
                   tries, queueable, history, faults, reloads>>

(* HGET of the due time; an entry still backing off is left alone. *)
CheckDue(w) ==
    /\ pc[w] = "due"
    /\ IF due[cur[w]] > 0
       THEN /\ Goto(w, "release")
            /\ timer' = [timer EXCEPT ![w] = 0]
       ELSE Goto(w, "budget") /\ UNCHANGED timer
    /\ UNCHANGED <<log, locks, hashes, expired, dead, phase, batch, cursor, cur,
                   tries, queueable, history, faults, reloads>>

(* Mutant: the budget is compared one too high. *)
ReplayableOneMore(w, m, n) == m \notin Malformed /\ queueable[w] /\ n <= MaxAttempts + 1

(* May entry m be replayed for the n-th time, its age apart? *)
Replayable(w, m, n) == m \notin Malformed /\ queueable[w] /\ n <= MaxAttempts

(* HGET of the attempts, then the checks made without an await: malformed, *)
(* ineligible, expired and exhausted entries are dead-lettered unsent.     *)
(* Whether queue_max_age_seconds have passed shows only here; once they    *)
(* have, they have.                                                        *)
CheckBudget(w) ==
    LET m == cur[w]
        n == attempts[m] + 1
    IN  /\ pc[w] = "budget"
        /\ expired' \in {expired, expired \cup {m}}
        /\ IF m \notin expired' /\ Replayable(w, m, n)
           THEN /\ Goto(w, "setAttempts")
                /\ tries' = [tries EXCEPT ![w] = n]
                /\ UNCHANGED timer
           ELSE /\ Goto(w, "deadLetter")
                /\ timer' = [timer EXCEPT ![w] = 0]
                /\ UNCHANGED tries
        /\ UNCHANGED <<log, locks, hashes, dead, phase, batch, cursor, cur, queueable,
                       history, faults, reloads>>

(* Mutant: the attempts are not persisted before the send. *)
SetNoAttempts(w) ==
    /\ pc[w] = "setAttempts"
    /\ Answered(w, "setDue")
    /\ UNCHANGED <<log, locks, hashes, expired, dead, queueable, history, reloads>>

(* HSET of the attempts, before the send. *)
SetAttempts(w) ==
    /\ pc[w] = "setAttempts"
    /\ attempts' = [attempts EXCEPT ![cur[w]] = tries[w]]
    /\ Answered(w, "setDue")
    /\ UNCHANGED <<log, locks, due, expired, dead, queueable, history, reloads>>

(* HSET of the due time; once Redis has answered, bounded_request sends.   *)
SetDue(w) ==
    /\ pc[w] = "setDue"
    /\ due' = [due EXCEPT ![cur[w]] = BackoffSeconds(tries[w])]
    /\ \/ /\ Goto(w, "sending")
          /\ timer' = [timer EXCEPT ![w] = UpstreamTimeout]
          /\ sends' = [sends EXCEPT ![cur[w]] = @ + 1]
          /\ UNCHANGED <<phase, batch, cursor, cur, tries, faults>>
       \/ Raise(w) /\ Fault /\ UNCHANGED sends
    /\ UNCHANGED <<log, locks, attempts, expired, dead, queueable, promised,
                   confirmed, reloads>>

(* The upstream's answer: a 2xx; a 408, 429, 5xx, transport error or       *)
(* timeout; or any other status.                                           *)
Reply(w, answer) ==
    /\ pc[w] = "sending"
    /\ CASE answer = "success" -> Goto(w, "xack")
         [] answer = "retryable" /\ tries[w] < MaxAttempts -> Goto(w, "release")
         [] OTHER -> Goto(w, "deadLetter")
    /\ confirmed' = IF answer = "success" THEN confirmed \cup {cur[w]} ELSE confirmed
    /\ timer' = [timer EXCEPT ![w] = 0]
    /\ UNCHANGED <<log, locks, hashes, expired, dead, phase, batch, cursor, cur,
                   tries, queueable, promised, sends, faults, reloads>>

(* Mutant: the row is never committed, the entry acknowledged all the same. *)
DeadLetterUncommitted(w) ==
    /\ pc[w] = "deadLetter"
    /\ Answered(w, "xack")
    /\ UNCHANGED <<log, locks, hashes, expired, dead, queueable, history, reloads>>

(* _dead_letter: the row is committed before the entry is acknowledged.    *)
(* A row PostgreSQL refuses makes the commit raise, every time.            *)
DeadLetter(w) ==
    /\ pc[w] = "deadLetter"
    /\ IF cur[w] \in Unstorable
       THEN Raise(w) /\ UNCHANGED <<dead, faults>>
       ELSE dead' = dead \cup {cur[w]} /\ Answered(w, "xack")
    /\ UNCHANGED <<log, locks, hashes, expired, queueable, history, reloads>>

(* Mutant: the entry is deleted before it is acknowledged. *)
XDelFirst(w) ==
    /\ pc[w] = "xack"
    /\ stream' = stream \ {cur[w]}
    /\ Answered(w, "xdel")
    /\ UNCHANGED <<lastId, lastRead, pel, idle, locks, hashes, expired, dead, queueable,
                   history, reloads>>

(* _ack: XACK, XDEL, HDEL attempts, HDEL due. *)
XAck(w) ==
    /\ pc[w] = "xack"
    /\ pel' = pel \ {cur[w]}
    /\ idle' = [idle EXCEPT ![cur[w]] = 0]
    /\ Answered(w, "xdel")
    /\ UNCHANGED <<stream, lastId, lastRead, locks, hashes, expired, dead,
                   queueable, history, reloads>>

XDel(w) ==
    /\ pc[w] = "xdel"
    /\ stream' = stream \ {cur[w]}
    /\ Answered(w, "hdelAttempts")
    /\ UNCHANGED <<lastId, lastRead, pel, idle, locks, hashes, expired, dead,
                   queueable, history, reloads>>

HdelAttempts(w) ==
    /\ pc[w] = "hdelAttempts"
    /\ attempts' = [attempts EXCEPT ![cur[w]] = 0]
    /\ Answered(w, "hdelDue")
    /\ UNCHANGED <<log, locks, due, expired, dead, queueable, history, reloads>>

HdelDue(w) ==
    /\ pc[w] = "hdelDue"
    /\ due' = [due EXCEPT ![cur[w]] = 0]
    /\ Answered(w, "release")
    /\ UNCHANGED <<log, locks, attempts, expired, dead, queueable, history, reloads>>

-----------------------------------------------------------------------------
(* Failures, restarts, reloads and time *)

(* A Redis command or a database commit fails without effect. *)
StoreError(w) ==
    /\ Fault
    /\ \/ /\ pc[w] = "claim"
          /\ Goto(w, "read")
          /\ UNCHANGED local
       \/ pc[w] \in Handling \ {"sending"} /\ Raise(w)
    /\ UNCHANGED <<log, locks, hashes, expired, dead, queueable, history, reloads>>

(* The process dies and is started again; its lease, if any, stays. *)
Crash(w) ==
    /\ Fault
    /\ Goto(w, "read")
    /\ phase' = [phase EXCEPT ![w] = "claimed"]
    /\ batch' = [batch EXCEPT ![w] = {}]
    /\ cursor' = [cursor EXCEPT ![w] = 0]
    /\ cur' = [cur EXCEPT ![w] = 0]
    /\ tries' = [tries EXCEPT ![w] = 0]
    /\ timer' = [timer EXCEPT ![w] = 0]
    /\ holder' = [m \in Id |-> IF holder[m] = w THEN Orphan ELSE holder[m]]
    /\ UNCHANGED <<log, ttl, hashes, expired, dead, queueable, history, reloads>>

(* stop() cancels the task: _handle's finally block still releases the     *)
(* lease.  The process is then started again with a fresh cursor.          *)
Stop(w) ==
    /\ Fault
    /\ pc[w] \in Handling
    /\ Goto(w, "release")
    /\ phase' = [phase EXCEPT ![w] = "claimed"]
    /\ batch' = [batch EXCEPT ![w] = {}]
    /\ cursor' = [cursor EXCEPT ![w] = 0]
    /\ timer' = [timer EXCEPT ![w] = 0]
    /\ UNCHANGED <<log, locks, hashes, expired, dead, cur, tries, queueable, history,
                   reloads>>

(* An administrator reloads gateway.yaml, which sets queue_writes in the   *)
(* one process that serves the request.                                    *)
ReloadConfig(w) ==
    /\ reloads < MaxReloads
    /\ reloads' = reloads + 1
    /\ queueable' = [queueable EXCEPT ![w] = ~@]
    /\ UNCHANGED <<log, locks, hashes, expired, dead, pc, local, history, faults>>

(* One unit of time.  The commands between lease and send, and the send,   *)
(* end within their timeouts.  A database commit has no deadline; neither  *)
(* has any other Redis command unless RedisPrompt.                         *)
Tick ==
    /\ \A w \in Worker : pc[w] \in Timed => timer[w] > 0
    /\ RedisPrompt => \A w \in Worker : pc[w] \notin {"lease", "release"} \cup Acking
    /\ timer' = [w \in Worker |-> IF pc[w] \in Timed THEN timer[w] - 1 ELSE timer[w]]
    /\ idle' = [m \in Id |-> IF m \in pel /\ idle[m] < ClaimIdle
                             THEN idle[m] + 1 ELSE idle[m]]
    /\ ttl' = [m \in Id |-> IF ttl[m] > 0 THEN ttl[m] - 1 ELSE 0]
    /\ holder' = [m \in Id |-> IF ttl[m] <= 1 THEN NoOne ELSE holder[m]]
    /\ due' = [m \in Id |-> IF due[m] > 0 THEN due[m] - 1 ELSE 0]
    /\ UNCHANGED <<stream, lastId, lastRead, pel, attempts, expired, dead, pc, phase,
                   batch, cursor, cur, tries, queueable, history, faults, reloads>>

-----------------------------------------------------------------------------
(* Specification *)

Answer == {"success", "retryable", "rejected"}

WorkerStep(w) ==
    \/ ReadNew(w) \/ AutoClaim(w) \/ AcquireLease(w) \/ ReleaseLease(w)
    \/ CheckDue(w) \/ CheckBudget(w) \/ SetAttempts(w) \/ SetDue(w)
    \/ \E a \in Answer : Reply(w, a)
    \/ DeadLetter(w) \/ XAck(w) \/ XDel(w) \/ HdelAttempts(w) \/ HdelDue(w)

Next ==
    \/ \E w \in Worker : WorkerStep(w)
    \/ \E w \in Worker : EnqueueWrite(w)
    \/ ForeignAppend
    \/ \E w \in Worker : StoreError(w)
    \/ \E w \in Worker : Crash(w)
    \/ \E w \in Worker : Stop(w)
    \/ \E w \in Worker : ReloadConfig(w)
    \/ Tick

Spec == Init /\ [][Next]_vars

(* run() loops for ever and each of its awaits ends; the clock advances. *)
FairSpec == Spec /\ (\A w \in Worker : WF_vars(WorkerStep(w))) /\ WF_vars(Tick)

-----------------------------------------------------------------------------
(* Properties *)

(* What the queue still holds: entries not yet delivered, and pending ones. *)
Held == {m \in stream : m > lastRead} \cup pel

Resolved == confirmed \cup dead

(* A write whose client was told "write queued for retry" (202) stays in   *)
(* the queue until a 2xx was seen for it or its failed_requests row is     *)
(* committed, whatever fails in between (_deliver, _dead_letter, _ack).    *)
NoSilentLoss == promised \subseteq Held \cup Resolved

(* The queue as its clients see it. *)
Contract == INSTANCE DeliveryContract
                WITH Write <- Id, accepted <- promised, held <- Held, settled <- Resolved

(* Every step of the queue is a step of the delivery contract or none: in  *)
(* particular an entry leaves the consumer group only after it settled.    *)
ImplementsContract == Contract!Spec

(* Under fairness the contract's own fairness holds too, provided that     *)
(* BLOCK ends before the socket timeout (~ReadTimesOut, which the default  *)
(* settings are not): what is held is eventually settled and, once         *)
(* settled, eventually let go.                                             *)
ImplementsFairContract == Contract!FairSpec

(* The per-entry lease of _handle keeps two workers from replaying the     *)
(* same entry at the same time, whoever read or claimed it.                *)
ExclusiveSend ==
    \A v, w \in Worker :
        pc[v] = "sending" /\ pc[w] = "sending" /\ cur[v] = cur[w] => v = w

(* While an entry is pending, the attempts persisted before each send      *)
(* account for every replay made and never pass the budget.                *)
BudgetWhilePending ==
    \A m \in pel : sends[m] <= attempts[m] /\ attempts[m] <= MaxAttempts

(* XACK precedes XDEL, so XAUTOCLAIM never returns an entry without fields *)
(* and the test "if fields" of _tick never skips a pending write.          *)
PendingInStream == pel \subseteq stream

(* Workers that still hold an entry in a batch when another acknowledges   *)
(* it find no attempts and replay it again, but only once each.            *)
SendsBounded == \A m \in Id : sends[m] < MaxAttempts + Cardinality(Worker)

(* An entry is replayed only when the backoff that its previous replay     *)
(* left in DUE_HASH is over: the check and the send are three commands     *)
(* apart, and only the lease keeps another worker out in between.          *)
BackoffRespected ==
    [][\A m \in Id : sends'[m] > sends[m] => due[m] = 0]_vars

(* Every write promised to a client is eventually confirmed by the         *)
(* upstream or dead-lettered, unless its own row cannot be stored.  It     *)
(* fails behind an entry whose row cannot be stored, and, when             *)
(* ReadTimesOut, for a retry after which no further write arrives.         *)
PromisesSettle == \A m \in Id \ Unstorable : m \in promised ~> m \in Resolved

(* Every entry eventually leaves the stream, whose length queue_depth      *)
(* reports and enqueue_write bounds.                                       *)
QueueDrains == \A m \in Id : m \in stream ~> m \notin stream
-----------------------------------------------------------------------------
(* The inductive strengthening that the proofs use *)

(* Stream order: what is pending was read, what was read was appended. *)
LogOrder ==
    /\ lastRead <= lastId
    /\ stream \subseteq 1..lastId
    /\ \A m \in pel : m <= lastRead

(* A worker handles entries that were read; _handle always has one. *)
InHand ==
    \A w \in Worker :
        /\ \A m \in batch[w] : m <= lastRead
        /\ cur[w] <= lastRead
        /\ pc[w] \in Handling \cup {"release"} => cur[w] \in Id

(* _ack runs only on settled entries, and XACK is over after its step. *)
AckOrder ==
    \A w \in Worker :
        /\ pc[w] \in Acking => cur[w] \in Resolved
        /\ pc[w] \in Acking \ {"xack"} => cur[w] \notin pel

(* Nothing appended is lost, nothing unread is settled. *)
Accounted ==
    /\ \A m \in 1..lastId : m \in Held \cup Resolved
    /\ promised \subseteq 1..lastId
    /\ Resolved \subseteq 1..lastRead

QueueInv == PendingInStream /\ LogOrder /\ InHand /\ AckOrder /\ Accounted

(* From the grant of the lease to the upstream's answer, the worker owns a *)
(* lock that will outlive the steps it still has to make.                  *)
LeaseInv ==
    \A w \in Worker :
        /\ pc[w] \in Prep => /\ holder[cur[w]] = w
                             /\ ttl[cur[w]] + PrepTime >= timer[w] + ClaimIdle
        /\ pc[w] = "sending" => /\ holder[cur[w]] = w
                                /\ ttl[cur[w]] > timer[w]

(* Between the two HSETs and the send, the hashes agree with the locals. *)
BudgetInv ==
    /\ \A m \in Id : m > lastRead => sends[m] = 0 /\ attempts[m] = 0
    /\ \A w \in Worker :
          cur[w] \in pel =>
            /\ pc[w] = "setAttempts" => /\ tries[w] = attempts[cur[w]] + 1
                                        /\ tries[w] <= MaxAttempts
            /\ pc[w] = "setDue" => sends[cur[w]] < attempts[cur[w]]

(* Workers that may yet replay entry m: it is in their batch, or at hand   *)
(* and not yet sent.                                                       *)
Rivals(m) == {w \in Worker : m \in batch[w] \/ (cur[w] = m /\ pc[w] \in Prep)}

(* An entry is taken out of the batch before it is handled. *)
OneHand ==
    \A w \in Worker :
        /\ pc[w] \in {"read", "claim", "lease"} => cur[w] = 0
        /\ cur[w] \notin batch[w]

(* Once an entry has been acknowledged, each replay uses up a rival. *)
RivalsInv ==
    \A m \in Id :
        m <= lastRead /\ m \notin pel =>
            sends[m] + Cardinality(Rivals(m)) < MaxAttempts + Cardinality(Worker)

(* The due time a worker found past stays past until it sends. *)
DueInv ==
    \A w \in Worker :
        pc[w] \in Prep \ {"due"} => due[cur[w]] = 0
=============================================================================
