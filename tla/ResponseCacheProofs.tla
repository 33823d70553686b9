------------------------ MODULE ResponseCacheProofs ------------------------
(***************************************************************************)
(* Proofs about ResponseCache, for any number of requests and refreshes    *)
(* and for all times: types, the lifetime of a copy, the age of a HIT, and *)
(* single flight when the lock outlives the refresh (LockMargin).          *)
(***************************************************************************)
EXTENDS ResponseCache, TLAPS

(* The step relation with one disjunct per action. *)
LEMMA Steps ==
    ASSUME Next
    PROVE  \/ \E r \in Request : Begin(r) \/ Lookup(r) \/ TryLock(r)
           \/ \E t \in Task : StartRefresh(t) \/ Release(t) \/ Cancel(t)
           \/ \E a \in Actor : Produce(a) \/ Receive(a) \/ Fail(a) \/ Store(a) \/ Vanish(a)
           \/ Flush
           \/ Tick
  BY Zenon DEF Next, RequestStep, TaskStep, ActorStep, Actor

(* Finish keeps the types and leaves the actor out of its timed steps. *)
LEMMA FinishType ==
    ASSUME TypeOK, NEW a \in Actor, NEW s \in Status, Finish(a, s)
    PROVE  /\ pc' \in [Actor -> {"idle", "lookup", "lock", "release"} \cup Timed]
           /\ reply' \in [Request -> Status]
           /\ body' \in [Actor -> Nat] /\ made' \in [Actor -> Nat]
           /\ timer' \in [Actor -> Nat]
  BY DEF TypeOK, Finish

(* Each action keeps the types. *)
LEMMA TypeStep ==
    ASSUME TypeOK, [Next]_vars
    PROVE  TypeOK'
<1> USE CacheConstants
<1>1. ASSUME NEW r \in Request, Begin(r)
      PROVE  TypeOK'
  BY <1>1 DEF TypeOK, Begin, Call, copy, lock, Actor, Status, Timed
<1>2. ASSUME NEW r \in Request, Lookup(r)
      PROVE  TypeOK'
  <2>1. r \in Actor /\ "HIT" \in Status
    BY DEF Actor, Status
  <2>2. CASE Finish(r, "HIT")
    BY <1>2, <2>1, <2>2, FinishType DEF TypeOK, Lookup, Fault, copy, lock
  <2> QED
    BY <1>2, <2>1, <2>2 DEF TypeOK, Lookup, Fault, Call, copy, lock, Timed
<1>3. ASSUME NEW r \in Request, TryLock(r)
      PROVE  TypeOK'
  BY <1>3 DEF TypeOK, TryLock, Take, Fault, copy, lock, Actor, Status, Timed
<1>4. ASSUME NEW t \in Task, StartRefresh(t)
      PROVE  TypeOK'
  BY <1>4 DEF TypeOK, StartRefresh, Call, copy, lock, Actor, Timed
<1>5. ASSUME NEW t \in Task, Release(t)
      PROVE  TypeOK'
  BY <1>5 DEF TypeOK, Release, Fault, copy, lock, Actor
<1>6. ASSUME NEW t \in Task, Cancel(t)
      PROVE  TypeOK'
  <2>1. t \in Actor /\ "none" \in Status
    BY DEF Actor, Status
  <2> QED
    BY <1>6, <2>1, FinishType DEF TypeOK, Cancel, Fault, copy, lock
<1>7. ASSUME NEW a \in Actor, Produce(a)
      PROVE  TypeOK'
  BY <1>7 DEF TypeOK, Produce, copy, lock, Timed
<1>8. ASSUME NEW a \in Actor, Receive(a)
      PROVE  TypeOK'
  <2>1. "MISS" \in Status /\ "BYPASS" \in Status
    BY DEF Status
  <2>2. ASSUME NEW s \in Status, Finish(a, s)
        PROVE  TypeOK'
    BY <1>8, <2>2, FinishType DEF TypeOK, Receive, copy, lock
  <2> QED
    BY <1>8, <2>1, <2>2 DEF TypeOK, Receive, copy, lock, Timed
<1>9. ASSUME NEW a \in Actor, Fail(a)
      PROVE  TypeOK'
  <2>1. "503" \in Status
    BY DEF Status
  <2> QED
    BY <1>9, <2>1, FinishType DEF TypeOK, Fail, copy, lock
<1>10. ASSUME NEW a \in Actor, Store(a)
       PROVE  TypeOK'
  <2>1. "MISS" \in Status
    BY DEF Status
  <2>2. Finish(a, "MISS") /\ UNCHANGED <<lock, shared>>
    BY <1>10 DEF Store
  <2>3. physical' \in Nat /\ born' \in Nat /\ age' \in Nat /\ fresh' \in Nat
    <3>1. CASE /\ born' = body[a] /\ age' = made[a]
               /\ fresh' \in FreshFor /\ physical' = fresh' + Grace
      <4>1. fresh' \in Nat /\ Grace \in Nat
        BY <3>1
      <4>2. body[a] \in Nat /\ made[a] \in Nat
        BY DEF TypeOK
      <4>3. physical' \in Nat
        <5>1. \A m, n \in Nat : m + n \in Nat
          OBVIOUS
        <5> QED
          BY <3>1, <4>1, <5>1, Zenon
      <4>4. born' \in Nat /\ age' \in Nat
        BY <3>1, <4>2
      <4> QED
        BY <4>1, <4>3, <4>4
    <3>2. CASE UNCHANGED copy
      BY <3>2 DEF TypeOK, copy
    <3> QED
      BY <1>10, <3>1, <3>2 DEF Store
  <2>4. faults' \in 0..MaxFaults
    BY <1>10 DEF TypeOK, Store, Fault
  <2> QED
    BY <2>1, <2>2, <2>3, <2>4, FinishType DEF TypeOK, lock
<1>11. ASSUME NEW a \in Actor, Vanish(a)
       PROVE  TypeOK'
  BY <1>11 DEF TypeOK, Vanish, Fault, copy
<1>12. CASE Flush
  BY <1>12 DEF TypeOK, Flush, lock
<1>13. CASE Tick
  BY <1>13 DEF TypeOK, Tick
<1>14. CASE UNCHANGED vars
  BY <1>14 DEF TypeOK, vars, copy, lock
<1> QED
  BY <1>1, <1>2, <1>3, <1>4, <1>5, <1>6, <1>7, <1>8, <1>9, <1>10, <1>11, <1>12, <1>13,
     <1>14, Steps

(* Type correctness. *)
THEOREM CacheTypes == Spec => []TypeOK
<1>1. Init => TypeOK
  BY CacheConstants DEF Init, TypeOK, Status
<1> QED
  BY <1>1, TypeStep, PTL DEF Spec
-----------------------------------------------------------------------------
(* The age of a copy *)

(* What Finish does to the fetch of its actor and of the others. *)
LEMMA FinishFetch ==
    ASSUME TypeOK, FetchInv, NEW a \in Actor, NEW s, Finish(a, s)
    PROVE  FetchInv'
<1> SUFFICES ASSUME NEW b \in Actor
             PROVE  /\ (pc[b] \notin {"answer", "store"} => body[b] = 0)'
                    /\ (pc[b] # "store" => made[b] = 0)'
                    /\ (pc[b] = "call" => timer[b] <= UpstreamTimeout)'
                    /\ (pc[b] = "answer" => body[b] + timer[b] <= UpstreamTimeout)'
                    /\ (pc[b] = "store" => /\ body[b] <= made[b] + UpstreamTimeout
                                           /\ made[b] + timer[b] <= StoreTime)'
  BY DEF FetchInv
<1>1. CASE b = a
  BY <1>1 DEF TypeOK, Finish
<1>2. CASE b # a
  BY <1>2 DEF TypeOK, Finish, FetchInv
<1> QED
  BY <1>1, <1>2

(* Timeouts bound the age of what a fetch holds. *)
LEMMA FetchStep ==
    ASSUME TypeOK, FetchInv, [Next]_vars
    PROVE  FetchInv'
<1> USE CacheConstants
<1>1. ASSUME NEW r \in Request, Begin(r)
      PROVE  FetchInv'
  BY <1>1 DEF TypeOK, FetchInv, Begin, Call, Actor
<1>2. ASSUME NEW r \in Request, Lookup(r)
      PROVE  FetchInv'
  <2>1. r \in Actor
    BY DEF Actor
  <2>2. CASE Finish(r, "HIT")
    BY <2>1, <2>2, FinishFetch
  <2> QED
    BY <1>2, <2>1, <2>2 DEF TypeOK, FetchInv, Lookup, Call
<1>3. ASSUME NEW r \in Request, TryLock(r)
      PROVE  FetchInv'
  BY <1>3 DEF TypeOK, FetchInv, TryLock, Actor
<1>4. ASSUME NEW t \in Task, StartRefresh(t)
      PROVE  FetchInv'
  BY <1>4 DEF TypeOK, FetchInv, StartRefresh, Call, Actor
<1>5. ASSUME NEW t \in Task, Release(t)
      PROVE  FetchInv'
  BY <1>5 DEF TypeOK, FetchInv, Release, Actor
<1>6. ASSUME NEW t \in Task, Cancel(t)
      PROVE  FetchInv'
  BY <1>6, FinishFetch DEF Cancel, Actor
<1>7. ASSUME NEW a \in Actor, Produce(a)
      PROVE  FetchInv'
  BY <1>7 DEF TypeOK, FetchInv, Produce
<1>8. ASSUME NEW a \in Actor, Receive(a)
      PROVE  FetchInv'
  <2>1. ASSUME NEW s, Finish(a, s)
        PROVE  FetchInv'
    BY <2>1, FinishFetch
  <2> QED
    BY <1>8, <2>1 DEF TypeOK, FetchInv, Receive
<1>9. ASSUME NEW a \in Actor, Fail(a)
      PROVE  FetchInv'
  BY <1>9, FinishFetch DEF Fail
<1>10. ASSUME NEW a \in Actor, Store(a)
       PROVE  FetchInv'
  BY <1>10, FinishFetch DEF Store
<1>11. ASSUME NEW a \in Actor, Vanish(a)
       PROVE  FetchInv'
  BY <1>11 DEF TypeOK, FetchInv, Vanish
<1>12. CASE Flush
  BY <1>12 DEF FetchInv, Flush
<1>13. CASE Tick
  BY <1>13 DEF TypeOK, FetchInv, Tick, Timed
<1>14. CASE UNCHANGED vars
  BY <1>14 DEF FetchInv, vars
<1> QED
  BY <1>1, <1>2, <1>3, <1>4, <1>5, <1>6, <1>7, <1>8, <1>9, <1>10, <1>11, <1>12, <1>13,
     <1>14, Steps

(* The copy in Redis changes only by Store, Flush and the passing of time. *)
LEMMA CopyChanges ==
    ASSUME [Next]_vars
    PROVE  UNCHANGED copy \/ (\E a \in Actor : Store(a)) \/ Flush \/ Tick
<1>1. CASE UNCHANGED vars
  BY <1>1 DEF vars
<1>2. CASE Next
  BY <1>2, Steps, Zenon DEF Begin, Lookup, TryLock, StartRefresh, Release, Cancel, Produce,
     Receive, Fail, Vanish
<1> QED
  BY <1>1, <1>2

(* A stored copy inherits the bounds of the fetch that stored it. *)
LEMMA CopyStep ==
    ASSUME TypeOK, FetchInv, CopyInv, CopyLifetime, [Next]_vars
    PROVE  CopyInv' /\ CopyLifetime'
<1> USE CacheConstants
<1>1. CASE UNCHANGED copy
  BY <1>1 DEF CopyInv, CopyLifetime, Present, copy
<1>2. ASSUME NEW a \in Actor, Store(a)
      PROVE  CopyInv' /\ CopyLifetime'
  <2>1. body[a] <= made[a] + UpstreamTimeout /\ made[a] <= StoreTime
    BY <1>2 DEF TypeOK, FetchInv, Store
  <2>2. CASE UNCHANGED copy
    BY <1>1, <2>2
  <2>3. CASE /\ born' = body[a] /\ age' = made[a]
             /\ fresh' \in FreshFor /\ physical' = fresh' + Grace
    BY <2>1, <2>3 DEF TypeOK, CopyInv, CopyLifetime
  <2> QED
    BY <1>2, <2>2, <2>3 DEF Store
<1>3. CASE Flush
  BY <1>3 DEF Flush, CopyInv, CopyLifetime, Present
<1>4. CASE Tick
  BY <1>4 DEF TypeOK, Tick, CopyInv, CopyLifetime, Present
<1> QED
  BY <1>1, <1>2, <1>3, <1>4, CopyChanges

(* The invariants of this section together. *)
LEMMA CopyInvariant == Spec => [](TypeOK /\ FetchInv /\ CopyInv /\ CopyLifetime)
<1>1. Init => TypeOK /\ FetchInv /\ CopyInv /\ CopyLifetime
  BY CacheConstants DEF Init, TypeOK, Status, FetchInv, CopyInv, CopyLifetime, Present
<1> QED
  BY <1>1, TypeStep, FetchStep, CopyStep, PTL DEF Spec

(* A copy lives at least until the end of its grace period, and at most    *)
(* the delay of its SET longer, for all settings and interleavings.        *)
THEOREM CopyLives == Spec => []CopyLifetime
  BY CopyInvariant, PTL

(* No HIT is older than fresh_for plus one upstream timeout, whatever      *)
(* slow, concurrent or late fetches stored the copy.                       *)
THEOREM HitsAreRecent == Spec => HitIsRecent
<1>1. ASSUME TypeOK, CopyInv, [Next]_vars
      PROVE  [\A r \in Request : reply[r] # "HIT" /\ reply'[r] = "HIT"
                                   => born < fresh + UpstreamTimeout]_vars
  <2> SUFFICES ASSUME Next, NEW r \in Request, reply[r] # "HIT", reply'[r] = "HIT"
               PROVE  born < fresh + UpstreamTimeout
    BY <1>1
  <2>1. Lookup(r) /\ Present /\ ~IsStale
    <3>1. ASSUME NEW q \in Request, Begin(q) \/ TryLock(q)
          PROVE  FALSE
      BY <1>1, <3>1 DEF TypeOK, Begin, TryLock
    <3>2. ASSUME NEW q \in Request, Lookup(q)
          PROVE  Lookup(r) /\ Present /\ ~IsStale
      BY <1>1, <3>2 DEF TypeOK, Lookup, Finish
    <3>3. ASSUME NEW t \in Task, StartRefresh(t) \/ Release(t) \/ Cancel(t)
          PROVE  FALSE
      BY <1>1, <3>3 DEF StartRefresh, Release, Cancel, Finish
    <3>4. ASSUME NEW a \in Actor,
                 Produce(a) \/ Receive(a) \/ Fail(a) \/ Store(a) \/ Vanish(a)
          PROVE  FALSE
      BY <1>1, <3>4 DEF Produce, Receive, Fail, Store, Vanish, Finish
    <3>5. ~Flush /\ ~Tick
      BY <1>1 DEF Flush, Tick
    <3> QED
      BY <3>1, <3>2, <3>3, <3>4, <3>5, Steps
  <2> QED
    BY <1>1, <2>1, CacheConstants DEF TypeOK, CopyInv, IsStale
<1> QED
  BY <1>1, CopyInvariant, PTL DEF Spec, HitIsRecent
-----------------------------------------------------------------------------
(* Single flight *)

(* A lock is owned by a running refresh, or by none. *)
LEMMA OwnedStep ==
    ASSUME TypeOK, LockOwned, [Next]_vars
    PROVE  LockOwned'
<1> USE CacheConstants
<1>1. ASSUME NEW r \in Request, Begin(r) \/ Lookup(r)
      PROVE  LockOwned'
  BY <1>1 DEF TypeOK, LockOwned, Begin, Lookup, Call, Finish, lock, Actor
<1>2. ASSUME NEW r \in Request, TryLock(r)
      PROVE  LockOwned'
  BY <1>2 DEF TypeOK, LockOwned, TryLock, Take, lock, Actor, Timed
<1>3. ASSUME NEW t \in Task, StartRefresh(t) \/ Release(t)
      PROVE  LockOwned'
  BY <1>3 DEF TypeOK, LockOwned, StartRefresh, Call, Release, lock, Actor, Timed
<1>4. ASSUME NEW t \in Task, Cancel(t)
      PROVE  LockOwned'
  BY <1>4 DEF TypeOK, LockOwned, Cancel, Finish, lock, Actor
<1>5. ASSUME NEW a \in Actor, Produce(a) \/ Receive(a)
      PROVE  LockOwned'
  BY <1>5 DEF TypeOK, LockOwned, Produce, Receive, Finish, lock, Actor, Timed
<1>6. ASSUME NEW a \in Actor, Fail(a) \/ Store(a)
      PROVE  LockOwned'
  BY <1>6 DEF TypeOK, LockOwned, Fail, Store, Finish, lock, Actor, Timed
<1>7. ASSUME NEW a \in Actor, Vanish(a)
      PROVE  LockOwned'
  BY <1>7 DEF TypeOK, LockOwned, Vanish, Actor
<1>8. CASE Flush \/ Tick
  BY <1>8 DEF TypeOK, LockOwned, Flush, Tick, lock
<1>9. CASE UNCHANGED vars
  BY <1>9 DEF LockOwned, vars, lock
<1> QED
  BY <1>1, <1>2, <1>3, <1>4, <1>5, <1>6, <1>7, <1>8, <1>9, Steps

(* Without any margin between the two timeouts: a lock that a refresh      *)
(* holds is held by one that is still running and will release it, however *)
(* often tasks are cancelled, time out or lose the lock to its expiry.     *)
THEOREM LockStaysOwned == Spec => []LockOwned
<1>1. Init => LockOwned
  BY CacheConstants DEF Init, LockOwned, Actor
<1> QED
  BY <1>1, OwnedStep, CopyInvariant, PTL DEF Spec

(* The lock outlives every step of the refresh that owns it. *)
LEMMA FlightStep ==
    ASSUME LockMargin, TypeOK, LockOwned, FetchInv, FlightInv, [Next]_vars
    PROVE  FlightInv'
<1> USE CacheConstants
<1> SUFFICES ASSUME NEW s \in Task
             PROVE  /\ (pc[s] \in Timed => holder = s)'
                    /\ (pc[s] = "spawned" => ttl > timer[s] + UpstreamTimeout + StoreTime)'
                    /\ (pc[s] \in {"call", "answer"} => ttl > timer[s] + StoreTime)'
                    /\ (pc[s] = "store" => ttl > timer[s])'
  BY DEF FlightInv
<1>a. s \in Actor /\ s \notin Request
  BY DEF Actor
<1>1. ASSUME NEW r \in Request, Begin(r) \/ Lookup(r)
      PROVE  UNCHANGED <<lock, pc[s], timer[s]>>
  BY <1>1, <1>a DEF TypeOK, Begin, Lookup, Call, Finish, lock, Actor
<1>2. ASSUME NEW r \in Request, TryLock(r)
      PROVE  \/ UNCHANGED <<lock, pc[s], timer[s]>>
             \/ holder = NoOne /\ UNCHANGED <<pc[s], timer[s]>>
             \/ /\ pc'[s] = "spawned" /\ timer'[s] = SpawnTime
                /\ holder' = s /\ ttl' = LockTtl
  BY <1>2, <1>a DEF TypeOK, TryLock, Take, lock, Actor
<1>3. ASSUME NEW t \in Task, StartRefresh(t), t = s
      PROVE  /\ pc[s] = "spawned" /\ pc'[s] = "call"
             /\ timer'[s] = UpstreamTimeout /\ UNCHANGED lock
  BY <1>3, <1>a DEF TypeOK, StartRefresh, Call
<1>4. ASSUME NEW t \in Task, StartRefresh(t), t # s
      PROVE  UNCHANGED <<lock, pc[s], timer[s]>>
  BY <1>4, <1>a DEF TypeOK, StartRefresh, Call, lock, Actor
<1>5. ASSUME NEW t \in Task, Release(t)
      PROVE  \/ pc'[s] = "idle"
             \/ UNCHANGED <<pc[s], timer[s]>> /\ (holder = s => UNCHANGED lock)
  BY <1>5, <1>a DEF TypeOK, Release, lock, Actor
<1>6. ASSUME NEW a \in Actor, Cancel(a) \/ Fail(a) \/ Store(a)
      PROVE  pc'[s] = "release" \/ UNCHANGED <<lock, pc[s], timer[s]>>
  BY <1>6, <1>a DEF TypeOK, Cancel, Fail, Store, Finish, lock, Actor
<1>7. ASSUME NEW a \in Actor, Produce(a)
      PROVE  /\ UNCHANGED <<lock, timer[s]>>
             /\ \/ pc'[s] = pc[s]
                \/ pc[s] = "call" /\ pc'[s] = "answer"
  BY <1>7, <1>a DEF TypeOK, Produce, lock
<1>8. ASSUME NEW a \in Actor, Receive(a)
      PROVE  \/ UNCHANGED <<lock, pc[s], timer[s]>>
             \/ pc'[s] = "release"
             \/ /\ pc[s] = "answer" /\ pc'[s] = "store"
                /\ timer'[s] = StoreTime /\ UNCHANGED lock
  BY <1>8, <1>a DEF TypeOK, Receive, Finish, lock
<1>9. ASSUME NEW a \in Actor, Vanish(a)
      PROVE  \/ pc'[s] = "idle"
             \/ /\ UNCHANGED <<ttl, pc[s], timer[s]>>
                /\ holder = s => holder' = s
  BY <1>9, <1>a DEF TypeOK, Vanish
<1>10. CASE Flush
  BY <1>10 DEF Flush, FlightInv, lock
<1>11. CASE Tick
  BY <1>11, <1>a DEF TypeOK, Tick, FlightInv, Timed
<1>12. CASE UNCHANGED vars
  BY <1>12 DEF FlightInv, vars, lock
<1> QED
  BY <1>1, <1>2, <1>3, <1>4, <1>5, <1>6, <1>7, <1>8, <1>9, <1>10, <1>11, <1>12, Steps, <1>a
     DEF FlightInv, LockMargin, TypeOK, Timed, lock, Actor

(* If the lock outlives spawning, the upstream timeout and the store, then *)
(* at most one refresh of a key is under way.                              *)
THEOREM OneRefresh == ASSUME LockMargin PROVE Spec => []SingleFlight
<1>1. Init => FlightInv
  BY CacheConstants DEF Init, FlightInv, Timed, Actor
<1>2. TypeOK /\ FlightInv => SingleFlight
  BY DEF FlightInv, SingleFlight, Timed
<1>3. TypeOK /\ LockOwned /\ FetchInv /\ FlightInv /\ [Next]_vars => FlightInv'
  BY FlightStep, LockMargin
<1> QED
  BY <1>1, <1>2, <1>3, CopyInvariant, LockStaysOwned, PTL DEF Spec
=============================================================================
