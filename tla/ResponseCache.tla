--------------------------- MODULE ResponseCache ---------------------------
(***************************************************************************)
(* The stale-while-revalidate cache of routes/proxy.py (_handle_get and    *)
(* _refresh_cache) and cache/redis_client.py, for one cache key.  Keys do  *)
(* not interact: the key hashes target, query and forwarded headers.       *)
(*                                                                         *)
(* Requests and background refreshes, of any gateway process, are actors;  *)
(* each await of the code is a step.  A response body is abstracted to the *)
(* time since the upstream produced it.  Time is relative and Tick moves   *)
(* all counters.                                                           *)
(***************************************************************************)
EXTENDS Naturals, FiniteSets

CONSTANTS
    Request,          \* concurrent GETs for the key
    Task,             \* concurrent refresh tasks for the key
    FreshFor,         \* values the route's cache_ttl may have
    Grace,            \* STALE_GRACE_SECONDS
    UpstreamTimeout,  \* rule.upstream_timeout or upstream_timeout_seconds
    StoreTime,        \* time the SET of cache_set may take
    SpawnTime,        \* time from the grant of the lock to the refresh's start
    LockTtl,          \* max(revalidate_lock_ttl_seconds, int(timeout) + 5)
    MaxFaults,        \* bound on Redis failures, crashes and cancellations
    NoOne,            \* "the lock key does not exist"
    Orphan            \* a lock whose token no running task knows

Actor == Request \cup Task

ASSUME CacheConstants ==
    /\ FreshFor \subseteq Nat \ {0} /\ FreshFor # {}
    /\ Grace \in Nat /\ UpstreamTimeout \in Nat \ {0}
    /\ StoreTime \in Nat /\ SpawnTime \in Nat /\ LockTtl \in Nat \ {0}
    /\ MaxFaults \in Nat
    /\ Request \cap Task = {}
    /\ NoOne \notin Task /\ Orphan \notin Task /\ NoOne # Orphan

(* int(timeout) + 5 seconds against the timeout and two Redis calls of one *)
(* second each.                                                            *)
LockMargin == SpawnTime + UpstreamTimeout + StoreTime < LockTtl

VARIABLES
    \* Redis
    physical,  \* time left of the key's TTL; 0 when the key does not exist
    born,      \* time since the upstream produced the envelope's body
    age,       \* age_seconds: time since its stored_at
    fresh,     \* its fresh_for
    holder,    \* who owns lock:revalidate:{key}
    ttl,       \* time left of that lock
    \* requests and refreshes
    pc,
    shared,    \* shared[r]: may request r use the cache?
    reply,     \* reply[r]: X-Cache-Status of r's answer, or "503"
    body,      \* body[a]: time since the upstream produced a's answer
    made,      \* made[a]: time since a built its envelope
    timer,     \* timer[a]: time left of a's timed step
    faults

copy == <<physical, born, age, fresh>>
lock == <<holder, ttl>>
vars == <<copy, lock, pc, shared, reply, body, made, timer, faults>>

Timed == {"spawned", "call", "answer", "store"}
Status == {"none", "HIT", "STALE", "MISS", "BYPASS", "503"}

TypeOK ==
    /\ physical \in Nat /\ born \in Nat /\ age \in Nat /\ fresh \in Nat
    /\ holder \in Task \cup {NoOne, Orphan} /\ ttl \in 0..LockTtl
    /\ pc \in [Actor -> {"idle", "lookup", "lock", "release"} \cup Timed]
    /\ shared \in [Request -> BOOLEAN] /\ reply \in [Request -> Status]
    /\ body \in [Actor -> Nat] /\ made \in [Actor -> Nat] /\ timer \in [Actor -> Nat]
    /\ faults \in 0..MaxFaults

Init ==
    /\ physical = 0 /\ born = 0 /\ age = 0 /\ fresh = 0
    /\ holder = NoOne /\ ttl = 0
    /\ pc = [a \in Actor |-> "idle"]
    /\ shared = [r \in Request |-> FALSE] /\ reply = [r \in Request |-> "none"]
    /\ body = [a \in Actor |-> 0] /\ made = [a \in Actor |-> 0]
    /\ timer = [a \in Actor |-> 0]
    /\ faults = 0

-----------------------------------------------------------------------------
(* Helpers *)

Fault == faults < MaxFaults /\ faults' = faults + 1

Present == physical > 0

(* Mutant: an entry is still fresh at the end of its time. *)
IsStaleLate == age > fresh

(* CachedResponse.is_stale *)
IsStale == age >= fresh

UsesCache(a) == IF a \in Task THEN TRUE ELSE shared[a]

(* Actor a starts an upstream call. *)
Call(a) ==
    /\ pc' = [pc EXCEPT ![a] = "call"]
    /\ timer' = [timer EXCEPT ![a] = UpstreamTimeout]

(* A request is answered; a refresh goes on to its finally block. *)
Finish(a, status) ==
    /\ pc' = [pc EXCEPT ![a] = IF a \in Task THEN "release" ELSE "idle"]
    /\ reply' = [r \in Request |-> IF r = a THEN status ELSE reply[r]]
    /\ body' = [body EXCEPT ![a] = 0]
    /\ made' = [made EXCEPT ![a] = 0]
    /\ timer' = [timer EXCEPT ![a] = 0]

-----------------------------------------------------------------------------
(* _handle_get *)

(* A GET arrives; rule.cacheable and _cache_allowed decide whether it may  *)
(* use the cache.                                                          *)
Begin(r) ==
    /\ pc[r] = "idle"
    /\ \E c \in BOOLEAN : shared' = [shared EXCEPT ![r] = c]
    /\ reply' = [reply EXCEPT ![r] = "none"]
    /\ IF shared'[r]
       THEN pc' = [pc EXCEPT ![r] = "lookup"] /\ UNCHANGED timer
       ELSE Call(r)
    /\ UNCHANGED <<copy, lock, body, made, faults>>

(* cache_get.  A Redis error, and an envelope that does not decode, are    *)
(* misses.                                                                 *)
Lookup(r) ==
    /\ pc[r] = "lookup"
    /\ \/ /\ \/ ~Present /\ UNCHANGED faults
             \/ Fault
          /\ Call(r) /\ UNCHANGED <<reply, body, made>>
       \/ /\ Present /\ ~IsStale
          /\ Finish(r, "HIT")
          /\ UNCHANGED faults
       \/ /\ Present /\ IsStale
          /\ pc' = [pc EXCEPT ![r] = "lock"]
          /\ UNCHANGED <<reply, body, made, timer, faults>>
    /\ UNCHANGED <<copy, lock, shared>>

(* Mutant: the lock is set without an expiry. *)
TakeForEver(t) == holder' = t /\ ttl' = 0

(* SET NX EX *)
Take(t) == holder' = t /\ ttl' = LockTtl

(* acquire_lock; its winner spawns a refresh, and every request serves the *)
(* stale copy it read.  A SET whose reply is lost leaves a lock without an *)
(* owner.                                                                  *)
TryLock(r) ==
    /\ pc[r] = "lock"
    /\ \/ /\ holder = NoOne
          /\ \E t \in Task :
                /\ pc[t] = "idle"
                /\ Take(t)
                /\ pc' = [pc EXCEPT ![r] = "idle", ![t] = "spawned"]
                /\ timer' = [timer EXCEPT ![t] = SpawnTime]
          /\ UNCHANGED faults
       \/ /\ \/ holder # NoOne /\ UNCHANGED <<lock, faults>>
             \/ Fault /\ UNCHANGED lock
             \/ Fault /\ holder = NoOne /\ Take(Orphan)
          /\ pc' = [pc EXCEPT ![r] = "idle"]
          /\ UNCHANGED timer
    /\ reply' = [reply EXCEPT ![r] = "STALE"]
    /\ UNCHANGED <<copy, shared, body, made>>

-----------------------------------------------------------------------------
(* Upstream calls and stores, of requests and refreshes alike *)

(* _refresh_cache starts to run. *)
StartRefresh(t) ==
    /\ pc[t] = "spawned"
    /\ Call(t)
    /\ UNCHANGED <<copy, lock, shared, reply, body, made, faults>>

(* The upstream produces its answer, some time before it is received. *)
Produce(a) ==
    /\ pc[a] = "call"
    /\ pc' = [pc EXCEPT ![a] = "answer"]
    /\ UNCHANGED <<copy, lock, shared, reply, body, made, timer, faults>>

(* _call_upstream returns.  An answer that _response_cacheable accepts is  *)
(* put in an envelope and stored; any other is passed on.                  *)
Receive(a) ==
    /\ pc[a] = "answer"
    /\ \/ /\ UsesCache(a)
          /\ pc' = [pc EXCEPT ![a] = "store"]
          /\ timer' = [timer EXCEPT ![a] = StoreTime]
          /\ UNCHANGED <<reply, body, made>>
       \/ Finish(a, IF UsesCache(a) THEN "MISS" ELSE "BYPASS")
    /\ UNCHANGED <<copy, lock, shared, faults>>

(* Mutant: a failed refresh forgets its lock. *)
FailUnlocked(a) ==
    /\ pc[a] \in {"call", "answer"}
    /\ pc' = [pc EXCEPT ![a] = "idle"]
    /\ reply' = [r \in Request |-> IF r = a THEN "503" ELSE reply[r]]
    /\ body' = [body EXCEPT ![a] = 0]
    /\ made' = [made EXCEPT ![a] = 0]
    /\ timer' = [timer EXCEPT ![a] = 0]
    /\ UNCHANGED <<copy, lock, shared, faults>>

(* The call times out, fails or exceeds the size limit: 503 to a client; a *)
(* refresh leaves the copy as it is.                                       *)
Fail(a) ==
    /\ pc[a] \in {"call", "answer"}
    /\ Finish(a, "503")
    /\ UNCHANGED <<copy, lock, shared, faults>>

(* Mutant: the TTL of the key is fresh_for alone. *)
StoreNoGrace(a) ==
    /\ pc[a] = "store"
    /\ born' = body[a] /\ age' = made[a]
    /\ fresh' \in FreshFor /\ physical' = fresh'
    /\ Finish(a, "MISS")
    /\ UNCHANGED <<lock, shared, faults>>

(* cache_set: the envelope replaces whatever is there; an error is ignored. *)
Store(a) ==
    /\ pc[a] = "store"
    /\ \/ /\ born' = body[a] /\ age' = made[a]
          /\ fresh' \in FreshFor
          /\ physical' = fresh' + Grace
          /\ UNCHANGED faults
       \/ Fault /\ UNCHANGED copy
    /\ Finish(a, "MISS")
    /\ UNCHANGED <<lock, shared>>

(* Mutant: the lock is deleted without comparing the token. *)
ReleaseAny(t) ==
    /\ pc[t] = "release"
    /\ holder' = NoOne /\ ttl' = 0
    /\ pc' = [pc EXCEPT ![t] = "idle"]
    /\ UNCHANGED <<copy, shared, reply, body, made, timer, faults>>

(* release_lock: compare and delete; on an error the lock stays. *)
Release(t) ==
    /\ pc[t] = "release"
    /\ \/ /\ holder = t
          /\ \/ holder' = NoOne /\ ttl' = 0 /\ UNCHANGED faults
             \/ holder' = Orphan /\ UNCHANGED ttl /\ Fault
       \/ holder # t /\ UNCHANGED <<lock, faults>>
    /\ pc' = [pc EXCEPT ![t] = "idle"]
    /\ UNCHANGED <<copy, shared, reply, body, made, timer>>

-----------------------------------------------------------------------------
(* Flush, failures and time *)

(* flush_cache deletes the key; fetches under way are not affected. *)
Flush ==
    /\ Present
    /\ physical' = 0 /\ born' = 0 /\ age' = 0 /\ fresh' = 0
    /\ UNCHANGED <<lock, pc, shared, reply, body, made, timer, faults>>

(* The actor's process dies, or its request is abandoned; a task's lock    *)
(* stays.  So it does when stop_background_tasks cancels a task that has   *)
(* not begun to run.                                                       *)
Vanish(a) ==
    /\ Fault
    /\ pc[a] # "idle"
    /\ pc' = [pc EXCEPT ![a] = "idle"]
    /\ body' = [body EXCEPT ![a] = 0]
    /\ made' = [made EXCEPT ![a] = 0]
    /\ timer' = [timer EXCEPT ![a] = 0]
    /\ holder' = IF holder = a THEN Orphan ELSE holder
    /\ UNCHANGED <<copy, ttl, shared, reply>>

(* stop_background_tasks cancels a running refresh: finally still runs. *)
Cancel(t) ==
    /\ Fault
    /\ pc[t] \in Timed \ {"spawned"}
    /\ Finish(t, "none")
    /\ UNCHANGED <<copy, lock, shared>>

(* One unit of time.  Timed steps end within their timeouts. *)
Tick ==
    /\ \A a \in Actor : pc[a] \in Timed => timer[a] > 0
    /\ timer' = [a \in Actor |-> IF pc[a] \in Timed THEN timer[a] - 1 ELSE timer[a]]
    /\ body' = [a \in Actor |-> IF pc[a] \in {"answer", "store"} THEN body[a] + 1
                                ELSE body[a]]
    /\ made' = [a \in Actor |-> IF pc[a] = "store" THEN made[a] + 1 ELSE made[a]]
    /\ IF physical > 1
       THEN /\ physical' = physical - 1 /\ born' = born + 1 /\ age' = age + 1
            /\ UNCHANGED fresh
       ELSE physical' = 0 /\ born' = 0 /\ age' = 0 /\ fresh' = 0
    /\ ttl' = IF ttl > 0 THEN ttl - 1 ELSE 0
    /\ holder' = IF ttl = 1 THEN NoOne ELSE holder
    /\ UNCHANGED <<pc, shared, reply, faults>>

-----------------------------------------------------------------------------
(* Specification *)

ActorStep(a) == Produce(a) \/ Receive(a) \/ Fail(a) \/ Store(a)

RequestStep(r) == Lookup(r) \/ TryLock(r) \/ ActorStep(r)

TaskStep(t) == StartRefresh(t) \/ ActorStep(t) \/ Release(t)

Next ==
    \/ \E r \in Request : Begin(r) \/ RequestStep(r)
    \/ \E t \in Task : TaskStep(t)
    \/ \E t \in Task : Cancel(t)
    \/ \E a \in Actor : Vanish(a)
    \/ Flush
    \/ Tick

Spec == Init /\ [][Next]_vars

(* Handlers and tasks run to their end, and the clock advances. *)
FairSpec ==
    /\ Spec
    /\ \A r \in Request : WF_vars(RequestStep(r))
    /\ \A t \in Task : WF_vars(TaskStep(t))
    /\ WF_vars(Tick)

-----------------------------------------------------------------------------
(* Properties *)

(* Single flight: at most one refresh of the key calls the upstream or     *)
(* stores its answer, however slow the release of an earlier lock was.     *)
SingleFlight ==
    \A s, t \in Task :
        pc[s] \in {"call", "answer", "store"} /\ pc[t] \in {"call", "answer", "store"}
            => s = t

(* A HIT serves a body the upstream produced less than fresh_for and one   *)
(* upstream timeout ago, even when slow or concurrent fetches store their  *)
(* answers out of order or after a flush.                                  *)
HitIsRecent ==
    [][\A r \in Request :
          reply[r] # "HIT" /\ reply'[r] = "HIT" => born < fresh + UpstreamTimeout]_vars

(* The physical TTL covers the grace period and no more than the delay of  *)
(* the SET beyond it: a copy is neither lost early nor served for ever.    *)
CopyLifetime ==
    Present => /\ age + physical >= fresh + Grace
               /\ age + physical <= fresh + Grace + StoreTime

(* A lock belongs to a refresh that will still release it, or expires. *)
LockOwned == holder \in Task => pc[holder] \in Timed \cup {"release"}

(* acquire_lock: "a holder that dies never blocks future refreshes         *)
(* forever".                                                               *)
LockFreed == (holder # NoOne) ~> (holder = NoOne)

-----------------------------------------------------------------------------
(* The inductive strengthening that the proofs use *)

(* A fetched body is at most one upstream timeout older than its envelope, *)
(* and an envelope is stored within StoreTime.                             *)
FetchInv ==
    \A a \in Actor :
        /\ pc[a] \notin {"answer", "store"} => body[a] = 0
        /\ pc[a] # "store" => made[a] = 0
        /\ pc[a] = "call" => timer[a] <= UpstreamTimeout
        /\ pc[a] = "answer" => body[a] + timer[a] <= UpstreamTimeout
        /\ pc[a] = "store" => /\ body[a] <= made[a] + UpstreamTimeout
                              /\ made[a] + timer[a] <= StoreTime

CopyInv == Present => born <= age + UpstreamTimeout

(* A running refresh owns the lock, for longer than its steps may take. *)
FlightInv ==
    \A t \in Task :
        /\ pc[t] \in Timed => holder = t
        /\ pc[t] = "spawned" => ttl > timer[t] + UpstreamTimeout + StoreTime
        /\ pc[t] \in {"call", "answer"} => ttl > timer[t] + StoreTime
        /\ pc[t] = "store" => ttl > timer[t]
=============================================================================
