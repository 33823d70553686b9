------------------------- MODULE OfflineQueueProofs -------------------------
(***************************************************************************)
(* Proofs about OfflineQueue for any number of workers, entries, faults    *)
(* and reloads, and any settings that QueueConstants allows.               *)
(***************************************************************************)
EXTENDS OfflineQueue, FiniteSetTheorems, TLAPS

(* Oldest takes a prefix: whatever precedes one of its elements is in it. *)
LEMMA OldestPrefix ==
    ASSUME NEW S \in SUBSET Id, NEW k \in Nat,
           NEW a \in Oldest(S, k), NEW b \in S, b <= a
    PROVE  b \in Oldest(S, k)
<1> DEFINE Below(x) == {j \in S : j < x}
<1>1. IsFiniteSet(Id)
  BY FS_Interval, QueueConstants DEF Id
<1>2. IsFiniteSet(Below(a)) /\ IsFiniteSet(Below(b))
  BY <1>1, FS_Subset
<1>0. S \subseteq Nat /\ a \in Nat /\ b \in Nat
  BY QueueConstants DEF Id, Oldest
<1>3. Below(b) \subseteq Below(a)
  <2>1. \A j \in S : j < b => j < a
    BY <1>0
  <2> QED
    BY <2>1
<1>4. Cardinality(Below(b)) <= Cardinality(Below(a))
  BY <1>2, <1>3, FS_Subset
<1>5. Cardinality(Below(a)) \in Nat /\ Cardinality(Below(b)) \in Nat
  BY <1>2, FS_CardinalityType
<1>6. Cardinality(Below(a)) < k
  BY DEF Oldest
<1> QED
  BY <1>4, <1>5, <1>6 DEF Oldest

LEMMA OldestSubset ==
    ASSUME NEW S, NEW k
    PROVE  Oldest(S, k) \subseteq S
  BY DEF Oldest

LEMMA BackoffType ==
    ASSUME NEW n \in Nat
    PROVE  BackoffSeconds(n) \in Nat
<1>1. Backoff \in Seq(Nat) /\ Len(Backoff) \in Nat /\ Len(Backoff) > 0
  BY QueueConstants
<1>2. \A i \in 1..Len(Backoff) : Backoff[i] \in Nat
  BY <1>1
<1> QED
  BY <1>1, <1>2 DEF BackoffSeconds
LEMMA Bounds ==
    /\ MaxWrites \in Nat /\ ClaimIdle \in Nat /\ PrepTime \in Nat
    /\ UpstreamTimeout \in Nat /\ MaxFaults \in Nat /\ MaxReloads \in Nat
    /\ NoOne \notin Worker /\ Orphan \notin Worker /\ NoOne # Orphan
    /\ Malformed \subseteq Id
  BY QueueConstants

-----------------------------------------------------------------------------
(* Which actions touch which part of the state *)

LEMMA LogChanges ==
    ASSUME [Next]_vars
    PROVE  \/ UNCHANGED log
           \/ \E w \in Worker : ReadNew(w) \/ AutoClaim(w) \/ XAck(w) \/ XDel(w)
           \/ \E w \in Worker : EnqueueWrite(w)
           \/ ForeignAppend \/ Tick
  BY Zenon DEF Next, WorkerStep, vars, AcquireLease, ReleaseLease, CheckDue, CheckBudget,
     SetAttempts, SetDue, Reply, DeadLetter, HdelAttempts, HdelDue, StoreError,
     Crash, Stop, ReloadConfig

LEMMA LockChanges ==
    ASSUME [Next]_vars
    PROVE  \/ UNCHANGED locks
           \/ \E w \in Worker : AcquireLease(w) \/ ReleaseLease(w) \/ Crash(w)
           \/ Tick
  BY Zenon DEF Next, WorkerStep, vars, ReadNew, AutoClaim, CheckDue, CheckBudget,
     SetAttempts, SetDue, Reply, DeadLetter, XAck, XDel, HdelAttempts, HdelDue,
     EnqueueWrite, ForeignAppend, StoreError, Stop, ReloadConfig

LEMMA HashChanges ==
    ASSUME [Next]_vars
    PROVE  \/ UNCHANGED <<hashes, sends>>
           \/ \E w \in Worker : SetAttempts(w) \/ SetDue(w)
           \/ \E w \in Worker : HdelAttempts(w) \/ HdelDue(w)
           \/ Tick
  BY Zenon DEF Next, WorkerStep, vars, history, ReadNew, AutoClaim, AcquireLease, ReleaseLease,
     CheckDue, CheckBudget, Reply, DeadLetter, XAck, XDel, EnqueueWrite, ForeignAppend,
     StoreError, Crash, Stop, ReloadConfig

LEMMA WorkerChanges ==
    ASSUME [Next]_vars
    PROVE  \/ UNCHANGED <<pc, local>>
           \/ \E w \in Worker : WorkerStep(w) \/ StoreError(w) \/ Crash(w) \/ Stop(w)
           \/ Tick
  BY Zenon DEF Next, vars, EnqueueWrite, ForeignAppend, ReloadConfig

LEMMA SettledChanges ==
    ASSUME [Next]_vars
    PROVE  \/ UNCHANGED <<expired, dead, promised, confirmed>>
           \/ \E w \in Worker : CheckBudget(w) \/ DeadLetter(w) \/ EnqueueWrite(w)
           \/ \E w \in Worker, a \in Answer : Reply(w, a)
  BY Zenon DEF Next, WorkerStep, vars, history, ReadNew, AutoClaim, AcquireLease, ReleaseLease,
     CheckDue, SetAttempts, SetDue, XAck, XDel, HdelAttempts, HdelDue, ForeignAppend,
     StoreError, Crash, Stop, ReloadConfig, Tick

-----------------------------------------------------------------------------
(* Type correctness *)

LEMMA LogTypeStep ==
    ASSUME TypeOK, [Next]_vars
    PROVE  LogType'
<1> USE Bounds DEF LogType
<1>0. LogType
  BY DEF TypeOK
<1>1. CASE UNCHANGED log
  BY <1>0, <1>1 DEF log
<1>2. ASSUME NEW w \in Worker, ReadNew(w) PROVE LogType'
  <2> DEFINE new == Oldest({m \in stream : m > lastRead}, NewCount)
  <2>1. new \subseteq Id
    BY <1>0, OldestSubset
  <2>2. /\ lastRead' \in 0..MaxWrites /\ pel' = pel \cup new
        /\ idle' = [m \in Id |-> IF m \in new THEN 0 ELSE idle[m]]
        /\ UNCHANGED <<stream, lastId>>
    BY <1>2 DEF ReadNew
  <2> HIDE DEF new
  <2> QED
    BY <1>0, <2>1, <2>2
<1>3. ASSUME NEW w \in Worker, AutoClaim(w) PROVE LogType'
  BY <1>0, <1>3 DEF AutoClaim
<1>4. ASSUME NEW w \in Worker, XAck(w) PROVE LogType'
  <2>1. /\ pel' = pel \ {cur[w]} /\ idle' = [idle EXCEPT ![cur[w]] = 0]
        /\ UNCHANGED <<stream, lastId, lastRead>>
    BY <1>4 DEF XAck
  <2>2. 0 \in 0..ClaimIdle
    OBVIOUS
  <2>3. idle' \in [Id -> 0..ClaimIdle]
    BY <1>0, <2>1, <2>2
  <2> QED
    BY <1>0, <2>1, <2>3
<1>5. ASSUME NEW w \in Worker, XDel(w) PROVE LogType'
  BY <1>0, <1>5 DEF XDel
<1>6. ASSUME XAdd PROVE LogType'
  BY <1>0, <1>6 DEF XAdd, Id
<1>7. ASSUME Tick PROVE LogType'
  BY <1>0, <1>7 DEF Tick
<1> QED
  BY <1>1, <1>2, <1>3, <1>4, <1>5, <1>6, <1>7, LogChanges DEF EnqueueWrite, ForeignAppend

LEMMA LockTypeStep ==
    ASSUME TypeOK, [Next]_vars
    PROVE  LockType'
<1> USE Bounds DEF LockType
<1>0. LockType /\ ControlType
  BY DEF TypeOK
<1>1. CASE UNCHANGED locks
  BY <1>0, <1>1 DEF locks
<1>2. ASSUME NEW w \in Worker, AcquireLease(w) PROVE LockType'
  BY <1>0, <1>2 DEF AcquireLease, LeaseTtl, locks
<1>3. ASSUME NEW w \in Worker, ReleaseLease(w) PROVE LockType'
  BY <1>0, <1>3 DEF ReleaseLease, locks
<1>4. ASSUME NEW w \in Worker, Crash(w) PROVE LockType'
  BY <1>0, <1>4 DEF Crash
<1>5. ASSUME Tick PROVE LockType'
  BY <1>0, <1>5 DEF Tick
<1> QED
  BY <1>1, <1>2, <1>3, <1>4, <1>5, LockChanges

LEMMA HashTypeStep ==
    ASSUME TypeOK, InHand, [Next]_vars
    PROVE  HashType'
<1> USE DEF HashType
<1>0. HashType /\ LocalType
  BY DEF TypeOK
<1>1. CASE UNCHANGED <<hashes, sends>>
  BY <1>0, <1>1 DEF hashes
<1>2. ASSUME NEW w \in Worker, SetAttempts(w) PROVE HashType'
  BY <1>0, <1>2 DEF SetAttempts, LocalType, history
<1>3. ASSUME NEW w \in Worker, SetDue(w) PROVE HashType'
  <2>1. BackoffSeconds(tries[w]) \in Nat
    BY <1>0, BackoffType DEF LocalType
  <2>2. /\ due' = [due EXCEPT ![cur[w]] = BackoffSeconds(tries[w])]
        /\ sends' = [sends EXCEPT ![cur[w]] = @ + 1] \/ sends' = sends
        /\ UNCHANGED attempts
    BY <1>3 DEF SetDue
  <2>3. cur[w] \in Id
    BY <1>3 DEF SetDue, InHand, Handling, Timed, Prep
  <2> QED
    BY <1>0, <2>1, <2>2, <2>3
<1>4. ASSUME NEW w \in Worker, HdelAttempts(w) PROVE HashType'
  BY <1>0, <1>4 DEF HdelAttempts, history
<1>5. ASSUME NEW w \in Worker, HdelDue(w) PROVE HashType'
  BY <1>0, <1>5 DEF HdelDue, history
<1>6. ASSUME Tick PROVE HashType'
  BY <1>0, <1>6 DEF Tick, history
<1> QED
  BY <1>1, <1>2, <1>3, <1>4, <1>5, <1>6, HashChanges

LEMMA ControlTypeStep ==
    ASSUME TypeOK, [Next]_vars
    PROVE  ControlType'
<1> USE Bounds DEF ControlType
<1>0. ControlType /\ LogType
  BY DEF TypeOK
<1>1. CASE UNCHANGED <<pc, local>>
  BY <1>0, <1>1 DEF local
<1>2. ASSUME NEW w \in Worker, ReadNew(w) PROVE ControlType'
  <2> DEFINE new == Oldest({m \in stream : m > lastRead}, NewCount)
  <2>1. new \subseteq Id
    BY <1>0, OldestSubset DEF LogType
  <2>2. /\ \/ /\ \/ pc' = [pc EXCEPT ![w] = "claim"] \/ pc' = [pc EXCEPT ![w] = "lease"]
              /\ phase' = [phase EXCEPT ![w] = "new"]
              /\ batch' = [batch EXCEPT ![w] = new]
           \/ UNCHANGED <<pc, phase, batch>>
        /\ UNCHANGED <<cursor, cur>>
    BY <1>2 DEF ReadNew, Goto
  <2> HIDE DEF new
  <2> QED
    BY <1>0, <2>1, <2>2
<1>3. ASSUME NEW w \in Worker, AutoClaim(w) PROVE ControlType'
  <2> DEFINE scanned == Oldest({m \in pel : m >= cursor[w]}, ScanCount)
             claimed == Oldest({m \in scanned : idle[m] >= ClaimIdle}, ClaimCount)
  <2>1. claimed \subseteq Id
    BY <1>0, OldestSubset DEF LogType
  <2>2. /\ \/ /\ \E c \in 0..MaxWrites : cursor' = [cursor EXCEPT ![w] = c]
              /\ \/ pc' = [pc EXCEPT ![w] = "read"] \/ pc' = [pc EXCEPT ![w] = "lease"]
              /\ phase' = [phase EXCEPT ![w] = "claimed"]
              /\ batch' = [batch EXCEPT ![w] = claimed]
           \/ pc' = [pc EXCEPT ![w] = "read"] /\ UNCHANGED <<cursor, phase, batch>>
        /\ UNCHANGED cur
    BY <1>3 DEF AutoClaim, Goto
  <2> HIDE DEF scanned, claimed
  <2> QED
    BY <1>0, <2>1, <2>2
<1>4. ASSUME NEW w \in Worker, AcquireLease(w) PROVE ControlType'
  <2>1. PICK m \in batch[w] :
          /\ batch' = [batch EXCEPT ![w] = batch[w] \ {m}]
          /\ \/ /\ pc' = [pc EXCEPT ![w] = "due"]
                /\ cur' = [cur EXCEPT ![w] = m]
             \/ /\ \/ pc' = [pc EXCEPT ![w] = "lease"] \/ pc' = [pc EXCEPT ![w] = "claim"]
                   \/ pc' = [pc EXCEPT ![w] = "read"]
                /\ UNCHANGED cur
          /\ UNCHANGED <<phase, cursor>>
    BY <1>4 DEF AcquireLease, Goto
  <2>2. m \in 0..MaxWrites
    BY <1>0 DEF Id
  <2> QED
    BY <1>0, <2>1, <2>2 DEF Handling, Timed, Prep
<1>5. ASSUME NEW w \in Worker, ReleaseLease(w) PROVE ControlType'
  BY <1>0, <1>5 DEF ReleaseLease, Goto, AfterEntry, Handling, Timed, Prep,
       Acking
<1>6. ASSUME NEW w \in Worker, CheckDue(w) PROVE ControlType'
  BY <1>0, <1>6 DEF CheckDue, Goto, Handling, Timed, Prep, Acking
<1>7. ASSUME NEW w \in Worker, CheckBudget(w) PROVE ControlType'
  BY <1>0, <1>7 DEF CheckBudget, Goto, Handling, Timed, Prep, Acking
<1>8. ASSUME NEW w \in Worker, SetAttempts(w) PROVE ControlType'
  BY <1>0, <1>8 DEF SetAttempts, Goto, Answered, Raise, Fault, local, Handling,
       Timed, Prep, Acking
<1>9. ASSUME NEW w \in Worker, SetDue(w) PROVE ControlType'
  BY <1>0, <1>9 DEF SetDue, Goto, Raise, Handling, Timed, Prep, Acking
<1>10. ASSUME NEW w \in Worker, NEW a \in Answer, Reply(w, a) PROVE ControlType'
  BY <1>0, <1>10 DEF Reply, Goto, Handling, Timed, Prep, Acking
<1>11. ASSUME NEW w \in Worker, DeadLetter(w) PROVE ControlType'
  BY <1>0, <1>11 DEF DeadLetter, Goto, Answered, Raise, Fault, local, Handling,
       Timed, Prep, Acking
<1>12. ASSUME NEW w \in Worker, XAck(w) PROVE ControlType'
  BY <1>0, <1>12 DEF XAck, Goto, Answered, Raise, Fault, local, Handling, Timed,
       Prep, Acking
<1>13. ASSUME NEW w \in Worker, XDel(w) PROVE ControlType'
  BY <1>0, <1>13 DEF XDel, Goto, Answered, Raise, Fault, local, Handling, Timed,
       Prep, Acking
<1>14. ASSUME NEW w \in Worker, HdelAttempts(w) PROVE ControlType'
  BY <1>0, <1>14 DEF HdelAttempts, Goto, Answered, Raise, Fault, local,
       Handling, Timed, Prep, Acking
<1>15. ASSUME NEW w \in Worker, HdelDue(w) PROVE ControlType'
  BY <1>0, <1>15 DEF HdelDue, Goto, Answered, Raise, Fault, local, Handling,
       Timed, Prep, Acking
<1>16. ASSUME NEW w \in Worker, StoreError(w) PROVE ControlType'
  BY <1>0, <1>16 DEF StoreError, Goto, Raise, local, Handling, Timed, Prep,
       Acking
<1>17. ASSUME NEW w \in Worker, Crash(w) PROVE ControlType'
  BY <1>0, <1>17 DEF Crash, Goto, Handling, Timed, Prep, Acking
<1>18. ASSUME NEW w \in Worker, Stop(w) PROVE ControlType'
  BY <1>0, <1>18 DEF Stop, Goto, Handling, Timed, Prep, Acking
<1>19. ASSUME Tick PROVE ControlType'
  BY <1>0, <1>19 DEF Tick
<1> QED
  BY <1>1, <1>2, <1>3, <1>4, <1>5, <1>6, <1>7, <1>8, <1>9, <1>10, <1>11, <1>12,
       <1>13, <1>14, <1>15, <1>16, <1>17, <1>18, <1>19, WorkerChanges DEF
       WorkerStep

LEMMA LocalTypeStep ==
    ASSUME TypeOK, InHand, [Next]_vars
    PROVE  LocalType'
<1> USE Bounds DEF LocalType
<1>0. LocalType /\ HashType
  BY DEF TypeOK
<1>1. CASE UNCHANGED <<pc, local>>
  BY <1>0, <1>1 DEF local
<1>2. ASSUME NEW w \in Worker, ReadNew(w) PROVE LocalType'
  BY <1>0, <1>2 DEF ReadNew
<1>3. ASSUME NEW w \in Worker, AutoClaim(w) PROVE LocalType'
  BY <1>0, <1>3 DEF AutoClaim
<1>4. ASSUME NEW w \in Worker, AcquireLease(w) PROVE LocalType'
  BY <1>0, <1>4 DEF AcquireLease
<1>5. ASSUME NEW w \in Worker, ReleaseLease(w) PROVE LocalType'
  BY <1>0, <1>5 DEF ReleaseLease
<1>6. ASSUME NEW w \in Worker, CheckDue(w) PROVE LocalType'
  BY <1>0, <1>6 DEF CheckDue
<1>7. ASSUME NEW w \in Worker, CheckBudget(w) PROVE LocalType'
  <2>1. cur[w] \in Id
    BY <1>7 DEF CheckBudget, InHand, Handling, Timed, Prep
  <2> QED
    BY <1>0, <1>7, <2>1 DEF CheckBudget, HashType
<1>8. ASSUME NEW w \in Worker, SetAttempts(w) PROVE LocalType'
  BY <1>0, <1>8 DEF SetAttempts, Goto, Answered, Raise, Fault, local
<1>9. ASSUME NEW w \in Worker, SetDue(w) PROVE LocalType'
  BY <1>0, <1>9 DEF SetDue, Goto, Raise
<1>10. ASSUME NEW w \in Worker, NEW a \in Answer, Reply(w, a) PROVE LocalType'
  BY <1>0, <1>10 DEF Reply, Goto
<1>11. ASSUME NEW w \in Worker, DeadLetter(w) PROVE LocalType'
  BY <1>0, <1>11 DEF DeadLetter, Goto, Answered, Raise, Fault, local
<1>12. ASSUME NEW w \in Worker, XAck(w) PROVE LocalType'
  BY <1>0, <1>12 DEF XAck, Goto, Answered, Raise, Fault, local
<1>13. ASSUME NEW w \in Worker, XDel(w) PROVE LocalType'
  BY <1>0, <1>13 DEF XDel, Goto, Answered, Raise, Fault, local
<1>14. ASSUME NEW w \in Worker, HdelAttempts(w) PROVE LocalType'
  BY <1>0, <1>14 DEF HdelAttempts, Goto, Answered, Raise, Fault, local
<1>15. ASSUME NEW w \in Worker, HdelDue(w) PROVE LocalType'
  BY <1>0, <1>15 DEF HdelDue, Goto, Answered, Raise, Fault, local
<1>16. ASSUME NEW w \in Worker, StoreError(w) PROVE LocalType'
  BY <1>0, <1>16 DEF StoreError, Raise, local
<1>17. ASSUME NEW w \in Worker, Crash(w) PROVE LocalType'
  BY <1>0, <1>17 DEF Crash
<1>18. ASSUME NEW w \in Worker, Stop(w) PROVE LocalType'
  BY <1>0, <1>18 DEF Stop
<1>19. ASSUME Tick PROVE LocalType'
  BY <1>0, <1>19 DEF Tick
<1> QED
  BY <1>1, <1>2, <1>3, <1>4, <1>5, <1>6, <1>7, <1>8, <1>9, <1>10, <1>11, <1>12,
       <1>13, <1>14, <1>15, <1>16, <1>17, <1>18, <1>19, WorkerChanges DEF
       WorkerStep

LEMMA SettledTypeStep ==
    ASSUME TypeOK, InHand, [Next]_vars
    PROVE  SettledType'
<1> USE Bounds DEF SettledType
<1>0. SettledType /\ LogType
  BY DEF TypeOK
<1>1. CASE UNCHANGED <<expired, dead, promised, confirmed>>
  BY <1>0, <1>1
<1>2. ASSUME NEW w \in Worker, CheckBudget(w) PROVE SettledType'
  BY <1>0, <1>2 DEF CheckBudget, history, InHand, Handling, Timed, Prep
<1>3. ASSUME NEW w \in Worker, DeadLetter(w) PROVE SettledType'
  BY <1>0, <1>3 DEF DeadLetter, history, InHand, Handling
<1>4. ASSUME NEW w \in Worker, NEW a \in Answer, Reply(w, a) PROVE SettledType'
  BY <1>0, <1>4 DEF Reply, InHand, Handling, Timed
<1>5. ASSUME NEW w \in Worker, EnqueueWrite(w) PROVE SettledType'
  <2>1. lastId + 1 \in Id
    BY <1>0, <1>5 DEF EnqueueWrite, XAdd, LogType, Id
  <2> QED
    BY <1>0, <1>5, <2>1 DEF EnqueueWrite
<1> QED
  BY <1>1, <1>2, <1>3, <1>4, <1>5, SettledChanges

LEMMA EnvTypeStep ==
    ASSUME TypeOK, [Next]_vars
    PROVE  EnvType'
<1>0. EnvType
  BY DEF TypeOK
<1>1. faults' = faults \/ Fault
  BY Zenon DEF Next, WorkerStep, vars, ReadNew, AutoClaim, AcquireLease, ReleaseLease,
     CheckDue, CheckBudget, SetAttempts, SetDue, Reply, DeadLetter, XAck, XDel,
     HdelAttempts, HdelDue, Answered, EnqueueWrite, ForeignAppend, StoreError, Crash,
     Stop, ReloadConfig, Tick
<1>2. UNCHANGED <<queueable, reloads>> \/ \E w \in Worker : ReloadConfig(w)
  BY Zenon DEF Next, WorkerStep, vars, ReadNew, AutoClaim, AcquireLease, ReleaseLease,
     CheckDue, CheckBudget, SetAttempts, SetDue, Reply, DeadLetter, XAck, XDel,
     HdelAttempts, HdelDue, EnqueueWrite, ForeignAppend, StoreError, Crash, Stop, Tick
<1>3. faults' \in 0..MaxFaults
  BY <1>0, <1>1, Bounds DEF EnvType, Fault
<1>4. reloads' \in 0..MaxReloads
  BY <1>0, <1>2, Bounds DEF EnvType, ReloadConfig
<1>5. queueable' \in [Worker -> BOOLEAN]
  <2>1. CASE UNCHANGED queueable
    BY <1>0, <2>1 DEF EnvType
  <2>2. ASSUME NEW w \in Worker, ReloadConfig(w) PROVE queueable' \in [Worker -> BOOLEAN]
    BY <1>0, <2>2 DEF EnvType, ReloadConfig
  <2> QED
    BY <1>2, <2>1, <2>2
<1> QED
  BY <1>3, <1>4, <1>5 DEF EnvType

LEMMA TypeStep ==
    ASSUME TypeOK, InHand, [Next]_vars
    PROVE  TypeOK'
  BY LogTypeStep, LockTypeStep, HashTypeStep, ControlTypeStep, LocalTypeStep,
     SettledTypeStep, EnvTypeStep DEF TypeOK

LEMMA TypeInit ==
    ASSUME Init
    PROVE  TypeOK
  BY Bounds DEF Init, TypeOK, LogType, LockType, HashType, ControlType, LocalType,
     SettledType, EnvType, Id

-----------------------------------------------------------------------------
(* Nothing that was appended is lost *)

(* XREADGROUP moves entries from undelivered to pending; none gets lost. *)
LEMMA ReadKeepsHeld ==
    ASSUME TypeOK, NEW w \in Worker, ReadNew(w)
    PROVE  /\ Held' = Held
           /\ lastRead <= lastRead'
           /\ \A m \in pel' : m \in pel \/ (m \in stream /\ lastRead < m /\ m <= lastRead')
           /\ pel \subseteq pel'
           /\ \A m \in batch'[w] : m \in batch[w] \/ m \in pel'
           /\ \A v \in Worker : v # w => batch'[v] = batch[v]
<1> DEFINE unread == {m \in stream : m > lastRead}
           new == Oldest(unread, NewCount)
<1>0. LogType /\ ControlType /\ stream \subseteq Nat /\ lastRead \in Nat
  BY Bounds DEF TypeOK, LogType, Id
<1>1. new \subseteq unread
  BY OldestSubset
<1>2. PICK top \in 0..MaxWrites :
        /\ IF new = {} THEN top = lastRead ELSE top \in new /\ \A m \in new : m <= top
        /\ lastRead' = top
  BY DEF ReadNew
<1>3. /\ pel' = pel \cup new /\ stream' = stream
      /\ batch' = [batch EXCEPT ![w] = new] \/ batch' = batch
  BY DEF ReadNew
<1>4. \A m \in unread : m \in new <=> m <= top
  <2>1. CASE new = {}
    <3>1. top = lastRead
      BY <1>2, <2>1
    <3> QED
      BY <3>1, <2>1, <1>0
  <2>2. CASE new # {}
    <3>1. top \in new /\ \A m \in new : m <= top
      BY <1>2, <2>2
    <3>2. ASSUME NEW m \in unread, m <= top PROVE m \in new
      <4>1. unread \in SUBSET Id /\ NewCount \in Nat
        BY <1>0, QueueConstants DEF LogType
      <4> HIDE DEF unread
      <4> QED
        BY <3>1, <3>2, <4>1, OldestPrefix
    <3> QED
      BY <3>1, <3>2
  <2> QED
    BY <2>1, <2>2
<1>5. lastRead <= top
  BY <1>0, <1>1, <1>2
<1>6. Held' = {m \in stream : m > top} \cup pel \cup new
  BY <1>2, <1>3 DEF Held
<1> HIDE DEF new
<1>7. {m \in stream : m > top} \cup new = unread
  <2>1. \A m \in stream : m > top => m \in unread
    BY <1>0, <1>5
  <2>2. \A m \in unread : m > top \/ m \in new
    BY <1>0, <1>4
  <2> QED
    BY <1>1, <2>1, <2>2
<1>8. Held' = Held
  BY <1>6, <1>7 DEF Held
<1>9. \A m \in new : m \in stream /\ lastRead < m /\ m <= top
  BY <1>0, <1>1, <1>4
<1> QED
  BY <1>0, <1>2, <1>3, <1>5, <1>8, <1>9 DEF ControlType

(* Outside the three steps that fetch entries, a worker only gives up      *)
(* entries, and it stays with the one at hand until it has released it.    *)
KeepsHand ==
    /\ lastRead' = lastRead
    /\ \A v \in Worker :
          /\ batch'[v] \subseteq batch[v]
          /\ cur'[v] \in {cur[v], 0}
          /\ pc'[v] \in Handling \cup {"release"} =>
                /\ pc[v] \in Handling \cup {"release"}
                /\ cur'[v] = cur[v]
          /\ pc'[v] \in Prep => pc[v] \in Prep
          /\ pc'[v] \notin Handling \cup {"release"} =>
                \/ cur'[v] = 0
                \/ cur'[v] = cur[v] /\ pc[v] \notin Handling \cup {"release"}

LEMMA KeepsHandStep ==
    ASSUME TypeOK, [Next]_vars
    PROVE  \/ KeepsHand
           \/ \E w \in Worker : ReadNew(w) \/ AutoClaim(w) \/ AcquireLease(w)
<1> USE DEF KeepsHand
<1>0. ControlType
  BY DEF TypeOK
<1>1. CASE UNCHANGED <<pc, local, lastRead>>
  BY <1>1 DEF local
<1>2. ASSUME NEW w \in Worker, ReleaseLease(w) PROVE KeepsHand
  BY <1>0, <1>2 DEF ReleaseLease, Goto, AfterEntry, log, ControlType, Handling,
       Timed, Prep, Acking
<1>3. ASSUME NEW w \in Worker, CheckDue(w) PROVE KeepsHand
  BY <1>0, <1>3 DEF CheckDue, Goto, log, ControlType, Handling, Timed, Prep,
       Acking
<1>4. ASSUME NEW w \in Worker, CheckBudget(w) PROVE KeepsHand
  BY <1>0, <1>4 DEF CheckBudget, Goto, log, ControlType, Handling, Timed, Prep,
       Acking
<1>5. ASSUME NEW w \in Worker, SetAttempts(w) PROVE KeepsHand
  BY <1>0, <1>5 DEF SetAttempts, Goto, Answered, Raise, local, log, ControlType,
       Handling, Timed, Prep, Acking
<1>6. ASSUME NEW w \in Worker, SetDue(w) PROVE KeepsHand
  BY <1>0, <1>6 DEF SetDue, Goto, Raise, log, ControlType, Handling, Timed,
       Prep, Acking
<1>7. ASSUME NEW w \in Worker, NEW a \in Answer, Reply(w, a) PROVE KeepsHand
  BY <1>0, <1>7 DEF Reply, Goto, log, ControlType, Handling, Timed, Prep, Acking
<1>8. ASSUME NEW w \in Worker, DeadLetter(w) PROVE KeepsHand
  BY <1>0, <1>8 DEF DeadLetter, Goto, Answered, Raise, local, log, ControlType,
       Handling, Timed, Prep, Acking
<1>9. ASSUME NEW w \in Worker, XAck(w) PROVE KeepsHand
  BY <1>0, <1>9 DEF XAck, Goto, Answered, Raise, local, log, ControlType,
       Handling, Timed, Prep, Acking
<1>10. ASSUME NEW w \in Worker, XDel(w) PROVE KeepsHand
  BY <1>0, <1>10 DEF XDel, Goto, Answered, Raise, local, log, ControlType,
       Handling, Timed, Prep, Acking
<1>11. ASSUME NEW w \in Worker, HdelAttempts(w) PROVE KeepsHand
  BY <1>0, <1>11 DEF HdelAttempts, Goto, Answered, Raise, local, log,
       ControlType, Handling, Timed, Prep, Acking
<1>12. ASSUME NEW w \in Worker, HdelDue(w) PROVE KeepsHand
  BY <1>0, <1>12 DEF HdelDue, Goto, Answered, Raise, local, log, ControlType,
       Handling, Timed, Prep, Acking
<1>13. ASSUME NEW w \in Worker, StoreError(w) PROVE KeepsHand
  BY <1>0, <1>13 DEF StoreError, Goto, Raise, local, log, ControlType, Handling,
       Timed, Prep, Acking
<1>14. ASSUME NEW w \in Worker, Crash(w) PROVE KeepsHand
  BY <1>0, <1>14 DEF Crash, Goto, log, ControlType, Handling, Timed, Prep,
       Acking
<1>15. ASSUME NEW w \in Worker, Stop(w) PROVE KeepsHand
  BY <1>0, <1>15 DEF Stop, Goto, log, ControlType, Handling, Timed, Prep, Acking
<1>16. ASSUME Tick PROVE KeepsHand
  BY <1>16 DEF Tick
<1>17. ASSUME NEW w \in Worker, EnqueueWrite(w) \/ ReloadConfig(w) PROVE UNCHANGED <<pc, local, lastRead>>
  BY <1>17 DEF EnqueueWrite, XAdd, ReloadConfig, log
<1>18. ASSUME ForeignAppend PROVE UNCHANGED <<pc, local, lastRead>>
  BY <1>18 DEF ForeignAppend, XAdd
<1>19. UNCHANGED vars => UNCHANGED <<pc, local, lastRead>>
  BY DEF vars, log
<1> QED
  BY <1>1, <1>2, <1>3, <1>4, <1>5, <1>6, <1>7, <1>8, <1>9, <1>10, <1>11, <1>12,
       <1>13, <1>14, <1>15, <1>16, <1>17, <1>18, <1>19 DEF Next, WorkerStep

LEMMA InHandStep ==
    ASSUME TypeOK, LogOrder, InHand, [Next]_vars
    PROVE  InHand'
<1> USE Bounds
<1>0. LogType /\ ControlType /\ LogType' /\ ControlType'
  BY LogTypeStep, ControlTypeStep DEF TypeOK
<1>1. CASE KeepsHand
  BY <1>0, <1>1 DEF KeepsHand, InHand, LogType, ControlType
<1>2. ASSUME NEW w \in Worker, ReadNew(w) PROVE InHand'
  <2>1. /\ \A m \in batch'[w] : m \in batch[w] \/ m \in pel'
        /\ \A v \in Worker : v # w => batch'[v] = batch[v]
        /\ \A m \in pel' : m \in pel \/ m <= lastRead'
        /\ lastRead <= lastRead'
    BY <1>2, ReadKeepsHeld
  <2>2. cur' = cur /\ (pc' = pc \/ pc' = [pc EXCEPT ![w] = "claim"]
                                \/ pc' = [pc EXCEPT ![w] = "lease"])
    BY <1>2 DEF ReadNew, Goto
  <2>3. \A m \in pel' : m <= lastRead'
    BY <2>1, <1>0 DEF LogOrder, LogType, Id
  <2>4. ASSUME NEW v \in Worker PROVE \A m \in batch'[v] : m <= lastRead'
    <3>1. \A m \in batch[v] : m <= lastRead'
      <4>1. batch[v] \subseteq Nat /\ lastRead \in Nat /\ lastRead' \in Nat
        BY <1>0 DEF LogType, ControlType, Id
      <4>2. \A m \in batch[v] : m <= lastRead
        BY DEF InHand
      <4> QED
        BY <4>1, <4>2, <2>1
    <3> QED
      BY <3>1, <2>1, <2>3
  <2>5. ASSUME NEW v \in Worker PROVE cur'[v] <= lastRead'
    BY <2>1, <2>2, <1>0 DEF InHand, LogType, ControlType
  <2>6. ASSUME NEW v \in Worker, pc'[v] \in Handling \cup {"release"} PROVE cur'[v] \in Id
    BY <2>2, <2>6, <1>0 DEF InHand, ControlType, Handling, Timed, Prep, Acking
  <2> QED
    BY <2>4, <2>5, <2>6 DEF InHand
<1>3. ASSUME NEW w \in Worker, AutoClaim(w) PROVE InHand'
  <2> DEFINE scanned == Oldest({m \in pel : m >= cursor[w]}, ScanCount)
             claimed == Oldest({m \in scanned : idle[m] >= ClaimIdle}, ClaimCount)
  <2>1. claimed \subseteq pel
    BY OldestSubset
  <2>2. /\ batch' = [batch EXCEPT ![w] = claimed] \/ batch' = batch
        /\ UNCHANGED <<lastRead, cur>>
        /\ pc' = [pc EXCEPT ![w] = "read"] \/ pc' = [pc EXCEPT ![w] = "lease"]
    BY <1>3 DEF AutoClaim, Goto
  <2> HIDE DEF claimed
  <2> QED
    BY <1>0, <2>1, <2>2 DEF InHand, LogOrder, ControlType, Handling, Timed, Prep, Acking
<1>4. ASSUME NEW w \in Worker, AcquireLease(w) PROVE InHand'
  <2>1. PICK m \in batch[w] :
          /\ batch' = [batch EXCEPT ![w] = batch[w] \ {m}]
          /\ \/ pc' = [pc EXCEPT ![w] = "due"] /\ cur' = [cur EXCEPT ![w] = m]
             \/ /\ \/ pc' = [pc EXCEPT ![w] = "lease"] \/ pc' = [pc EXCEPT ![w] = "claim"]
                   \/ pc' = [pc EXCEPT ![w] = "read"]
                /\ UNCHANGED cur
          /\ UNCHANGED lastRead
    BY <1>4 DEF AcquireLease, Goto, log
  <2>2. m \in Id /\ m <= lastRead
    BY <1>0 DEF InHand, ControlType
  <2> QED
    BY <1>0, <2>1, <2>2 DEF InHand, ControlType, Handling, Timed, Prep, Acking
<1> QED
  BY <1>1, <1>2, <1>3, <1>4, KeepsHandStep

(* Resolved only grows, and what was read and is not pending stays so. *)
LEMMA Monotone ==
    ASSUME TypeOK, LogOrder, [Next]_vars
    PROVE  /\ Resolved \subseteq Resolved'
           /\ \A m \in Id : m <= lastRead /\ m \notin pel => m \notin pel'
<1>1. Resolved \subseteq Resolved'
  BY SettledChanges DEF Resolved, CheckBudget, DeadLetter, EnqueueWrite, Reply, history
<1>2. \A m \in Id : m <= lastRead /\ m \notin pel => m \notin pel'
  <2>1. CASE UNCHANGED pel
    BY <2>1
  <2>2. ASSUME NEW w \in Worker, ReadNew(w)
        PROVE  \A m \in Id : m <= lastRead /\ m \notin pel => m \notin pel'
    BY <2>2, ReadKeepsHeld, Bounds DEF TypeOK, LogType, Id
  <2>3. ASSUME NEW w \in Worker, XAck(w) PROVE pel' \subseteq pel
    BY <2>3 DEF XAck
  <2> QED
    BY <2>1, <2>2, <2>3, LogChanges
       DEF log, AutoClaim, XDel, EnqueueWrite, ForeignAppend, XAdd, Tick
<1> QED
  BY <1>1, <1>2

LEMMA AckOrderStep ==
    ASSUME TypeOK, LogOrder, InHand, AckOrder, [Next]_vars
    PROVE  AckOrder'
<1>0. ControlType
  BY DEF TypeOK
<1> DEFINE Kept(v) == /\ pc'[v] \in Acking => pc[v] \in Acking /\ cur'[v] = cur[v]
                      /\ pc'[v] \in Acking \ {"xack"} => pc[v] \in Acking \ {"xack"}
<1>1. ASSUME NEW v \in Worker, Kept(v)
      PROVE  /\ pc'[v] \in Acking => cur'[v] \in Resolved'
             /\ pc'[v] \in Acking \ {"xack"} => cur'[v] \notin pel'
  <2>1. pc[v] \in Acking => cur[v] \in Id /\ cur[v] <= lastRead
    BY DEF InHand, Handling
  <2> QED
    BY <1>1, <2>1, Monotone DEF AckOrder
<1>2. CASE UNCHANGED <<pc, local>>
  BY <1>1, <1>2 DEF AckOrder, local
<1>3. ASSUME NEW w \in Worker, ReadNew(w) PROVE \A v \in Worker : Kept(v)
  BY <1>0, <1>3 DEF ReadNew, Goto, ControlType, Acking
<1>4. ASSUME NEW w \in Worker, AutoClaim(w) PROVE \A v \in Worker : Kept(v)
  BY <1>0, <1>4 DEF AutoClaim, Goto, ControlType, Acking
<1>5. ASSUME NEW w \in Worker, AcquireLease(w) PROVE \A v \in Worker : Kept(v)
  BY <1>0, <1>5 DEF AcquireLease, Goto, ControlType, Acking
<1>6. ASSUME NEW w \in Worker, ReleaseLease(w) PROVE \A v \in Worker : Kept(v)
  BY <1>0, <1>6 DEF ReleaseLease, Goto, AfterEntry, ControlType, Acking
<1>7. ASSUME NEW w \in Worker, CheckDue(w) PROVE \A v \in Worker : Kept(v)
  BY <1>0, <1>7 DEF CheckDue, Goto, ControlType, Acking
<1>8. ASSUME NEW w \in Worker, CheckBudget(w) PROVE \A v \in Worker : Kept(v)
  BY <1>0, <1>8 DEF CheckBudget, Goto, ControlType, Acking
<1>9. ASSUME NEW w \in Worker, SetAttempts(w) PROVE \A v \in Worker : Kept(v)
  BY <1>0, <1>9 DEF SetAttempts, Goto, Answered, Raise, local, ControlType,
       Acking
<1>10. ASSUME NEW w \in Worker, SetDue(w) PROVE \A v \in Worker : Kept(v)
  BY <1>0, <1>10 DEF SetDue, Goto, Raise, ControlType, Acking
<1>11. ASSUME NEW w \in Worker, XDel(w) PROVE \A v \in Worker : Kept(v)
  BY <1>0, <1>11 DEF XDel, Goto, Answered, Raise, local, ControlType, Acking
<1>12. ASSUME NEW w \in Worker, HdelAttempts(w) PROVE \A v \in Worker : Kept(v)
  BY <1>0, <1>12 DEF HdelAttempts, Goto, Answered, Raise, local, ControlType,
       Acking
<1>13. ASSUME NEW w \in Worker, HdelDue(w) PROVE \A v \in Worker : Kept(v)
  BY <1>0, <1>13 DEF HdelDue, Goto, Answered, Raise, local, ControlType, Acking
<1>14. ASSUME NEW w \in Worker, StoreError(w) PROVE \A v \in Worker : Kept(v)
  BY <1>0, <1>14 DEF StoreError, Goto, Raise, local, ControlType, Acking
<1>15. ASSUME NEW w \in Worker, Crash(w) PROVE \A v \in Worker : Kept(v)
  BY <1>0, <1>15 DEF Crash, Goto, ControlType, Acking
<1>16. ASSUME NEW w \in Worker, Stop(w) PROVE \A v \in Worker : Kept(v)
  BY <1>0, <1>16 DEF Stop, Goto, ControlType, Acking
<1>17. ASSUME Tick PROVE \A v \in Worker : Kept(v)
  BY <1>17 DEF Tick
<1>18. ASSUME NEW w \in Worker, NEW a \in Answer, Reply(w, a) PROVE AckOrder'
  <2>1. \A v \in Worker : v # w => Kept(v)
    BY <1>0, <1>18 DEF Reply, Goto, ControlType
  <2>2. pc'[w] \in Acking => pc'[w] = "xack" /\ cur'[w] \in Resolved'
    BY <1>0, <1>18 DEF Reply, Goto, ControlType, Acking, Resolved
  <2> QED
    BY <1>1, <2>1, <2>2 DEF AckOrder
<1>19. ASSUME NEW w \in Worker, DeadLetter(w) PROVE AckOrder'
  <2>1. \A v \in Worker : v # w => Kept(v)
    BY <1>0, <1>19 DEF DeadLetter, Goto, Answered, Raise, local, ControlType
  <2>2. pc'[w] \in Acking => pc'[w] = "xack" /\ cur'[w] \in Resolved'
    BY <1>0, <1>19 DEF DeadLetter, Goto, Answered, Raise, local, ControlType, Acking, Resolved, history
  <2> QED
    BY <1>1, <2>1, <2>2 DEF AckOrder
<1>20. ASSUME NEW w \in Worker, XAck(w) PROVE AckOrder'
  <2>1. \A v \in Worker : v # w => Kept(v)
    BY <1>0, <1>20 DEF XAck, Goto, Answered, Raise, local, ControlType
  <2>2. pc'[w] \in Acking => cur'[w] \in Resolved' /\ cur'[w] \notin pel'
    BY <1>0, <1>20, Monotone DEF XAck, Goto, Answered, Raise, local, ControlType, Acking, AckOrder
  <2> QED
    BY <1>1, <2>1, <2>2 DEF AckOrder
<1> HIDE DEF Kept
<1> QED
  BY <1>1, <1>2, <1>3, <1>4, <1>5, <1>6, <1>7, <1>8, <1>9, <1>10, <1>11, <1>12,
       <1>13, <1>14, <1>15, <1>16, <1>17, <1>18, <1>19, <1>20, WorkerChanges DEF
       WorkerStep, AckOrder

(* How a step changes what the queue holds. *)
LEMMA HeldStep ==
    ASSUME TypeOK, LogOrder, InHand, [Next]_vars
    PROVE  \/ Held' = Held /\ UNCHANGED lastId
           \/ /\ \E w \in Worker : XAck(w) /\ Held' = Held \ {cur[w]}
              /\ UNCHANGED lastId
           \/ /\ Held' = Held \cup {lastId + 1}
              /\ lastId' = lastId + 1
              /\ ForeignAppend \/ \E w \in Worker : EnqueueWrite(w)
<1>0. LogType /\ stream \subseteq Nat /\ lastRead \in Nat /\ lastId \in Nat
  BY Bounds DEF TypeOK, LogType, Id
<1>1. CASE UNCHANGED <<stream, lastId, lastRead, pel>>
  BY <1>1 DEF Held
<1>2. ASSUME NEW w \in Worker, ReadNew(w) PROVE Held' = Held /\ UNCHANGED lastId
  <2>1. UNCHANGED lastId
    BY <1>2 DEF ReadNew
  <2> QED
    BY <1>2, <2>1, ReadKeepsHeld
<1>3. ASSUME NEW w \in Worker, XAck(w) PROVE Held' = Held \ {cur[w]} /\ UNCHANGED lastId
  <2>1. cur[w] \in Nat /\ cur[w] <= lastRead
    BY <1>3, Bounds DEF XAck, InHand, Handling, Acking, Id
  <2>2. pel' = pel \ {cur[w]} /\ UNCHANGED <<stream, lastId, lastRead>>
    BY <1>3 DEF XAck
  <2>3. cur[w] \notin {m \in stream : m > lastRead}
    BY <2>1, <1>0
  <2> QED
    BY <2>2, <2>3 DEF Held
<1>4. ASSUME NEW w \in Worker, XDel(w) PROVE Held' = Held /\ UNCHANGED lastId
  <2>1. cur[w] \in Nat /\ cur[w] <= lastRead
    BY <1>4, Bounds DEF XDel, InHand, Handling, Acking, Id
  <2>2. stream' = stream \ {cur[w]} /\ UNCHANGED <<pel, lastId, lastRead>>
    BY <1>4 DEF XDel
  <2>3. cur[w] \notin {m \in stream : m > lastRead}
    BY <2>1, <1>0
  <2>4. {m \in stream' : m > lastRead'} = {m \in stream : m > lastRead}
    BY <2>2, <2>3
  <2> QED
    BY <2>2, <2>4 DEF Held
<1>5. ASSUME XAdd PROVE Held' = Held \cup {lastId + 1} /\ lastId' = lastId + 1
  <2>1. stream' = stream \cup {lastId + 1} /\ lastId' = lastId + 1 /\ UNCHANGED <<pel, lastRead>>
    BY <1>5 DEF XAdd
  <2>2. lastId + 1 > lastRead
    BY <1>0 DEF LogOrder
  <2> QED
    BY <2>1, <2>2 DEF Held
<1> QED
  BY <1>1, <1>2, <1>3, <1>4, <1>5, LogChanges
     DEF log, AutoClaim, EnqueueWrite, ForeignAppend, Tick

LEMMA LogOrderStep ==
    ASSUME TypeOK, PendingInStream, LogOrder, InHand, AckOrder, [Next]_vars
    PROVE  PendingInStream' /\ LogOrder'
<1> USE DEF PendingInStream, LogOrder
<1>0. /\ LogType /\ stream \subseteq Nat /\ pel \subseteq Nat
      /\ lastRead \in Nat /\ lastId \in Nat /\ lastRead' \in Nat
  BY LogTypeStep, Bounds DEF TypeOK, LogType, Id
<1>1. CASE UNCHANGED <<stream, lastId, lastRead, pel>>
  BY <1>1
<1>2. ASSUME NEW w \in Worker, ReadNew(w) PROVE PendingInStream' /\ LogOrder'
  <2>1. UNCHANGED <<stream, lastId>> /\ (lastRead' = lastRead \/ lastRead' \in stream)
    <3>1. Oldest({m \in stream : m > lastRead}, NewCount) \subseteq stream
      BY OldestSubset
    <3> QED
      BY <1>2, <3>1 DEF ReadNew
  <2>2. /\ lastRead <= lastRead'
        /\ \A m \in pel' : m \in pel \/ (m \in stream /\ m <= lastRead')
    BY <1>2, ReadKeepsHeld
  <2>3. \A m \in pel : m <= lastRead'
    BY <1>0, <2>2
  <2>4. lastRead' <= lastId'
    BY <1>0, <2>1
  <2>5. \A m \in pel' : m \in stream' /\ m <= lastRead'
    BY <2>1, <2>2, <2>3
  <2>6. stream' \subseteq 1..lastId'
    BY <2>1
  <2> QED
    BY <2>4, <2>5, <2>6
<1>3. ASSUME NEW w \in Worker, XAck(w) PROVE PendingInStream' /\ LogOrder'
  BY <1>3 DEF XAck
<1>4. ASSUME NEW w \in Worker, XDel(w) PROVE PendingInStream' /\ LogOrder'
  <2>1. cur[w] \notin pel
    BY <1>4 DEF XDel, AckOrder, Acking
  <2> QED
    BY <1>4, <2>1 DEF XDel
<1>5. ASSUME XAdd PROVE PendingInStream' /\ LogOrder'
  BY <1>0, <1>5 DEF XAdd
<1> QED
  BY <1>1, <1>2, <1>3, <1>4, <1>5, LogChanges
     DEF log, AutoClaim, EnqueueWrite, ForeignAppend, Tick

LEMMA AccountedStep ==
    ASSUME TypeOK, QueueInv, [Next]_vars
    PROVE  Accounted'
<1> USE Bounds
<1>0. /\ LogType /\ PendingInStream /\ LogOrder /\ InHand /\ AckOrder /\ Accounted
      /\ lastId \in Nat /\ lastRead \in Nat /\ lastRead' \in Nat /\ lastId' \in Nat
  BY LogTypeStep DEF TypeOK, QueueInv, LogType
<1>1. \A m \in 1..lastId' : m \in (Held \cup Resolved)'
  <2>1. CASE Held' = Held /\ UNCHANGED lastId
    BY <1>0, <2>1, Monotone DEF Accounted
  <2>2. ASSUME NEW w \in Worker, XAck(w), Held' = Held \ {cur[w]}, UNCHANGED lastId
        PROVE  \A m \in 1..lastId' : m \in (Held \cup Resolved)'
    <3>1. cur[w] \in Resolved
      BY <1>0, <2>2 DEF XAck, AckOrder, Acking
    <3> QED
      BY <1>0, <2>2, <3>1, Monotone DEF Accounted
  <2>3. CASE Held' = Held \cup {lastId + 1} /\ lastId' = lastId + 1
    <3>1. \A m \in 1..lastId' : m \in 1..lastId \/ m = lastId + 1
      BY <1>0, <2>3
    <3> QED
      BY <1>0, <2>3, <3>1, Monotone DEF Accounted
  <2> QED
    BY <1>0, <2>1, <2>2, <2>3, HeldStep
<1>2. lastId <= lastId' /\ lastRead <= lastRead'
  <2>1. lastId <= lastId'
    BY <1>0, HeldStep
  <2>2. ASSUME NEW w \in Worker, ReadNew(w) PROVE lastRead <= lastRead'
    BY <2>2, ReadKeepsHeld
  <2>3. UNCHANGED lastRead \/ \E w \in Worker : ReadNew(w)
    BY LogChanges DEF log, AutoClaim, XAck, XDel, EnqueueWrite, ForeignAppend, XAdd, Tick
  <2> QED
    BY <1>0, <2>1, <2>2, <2>3
<1>3. promised' \subseteq 1..lastId'
  <2>1. promised' = promised \/ (promised' = promised \cup {lastId + 1} /\ lastId' = lastId + 1)
    BY SettledChanges DEF CheckBudget, DeadLetter, EnqueueWrite, XAdd, Reply, history
  <2>2. 1..lastId \subseteq 1..lastId'
    BY <1>0, <1>2
  <2>3. lastId' = lastId + 1 => lastId + 1 \in 1..lastId'
    BY <1>0
  <2> QED
    BY <1>0, <2>1, <2>2, <2>3 DEF Accounted
<1>4. Resolved' \subseteq 1..lastRead'
  <2>1. Resolved' = Resolved \/ \E w \in Worker : /\ pc[w] \in {"sending", "deadLetter"}
                                                  /\ Resolved' = Resolved \cup {cur[w]}
    <3>1. ASSUME NEW w \in Worker, NEW a \in Answer, Reply(w, a)
          PROVE  Resolved' = Resolved \/ Resolved' = Resolved \cup {cur[w]}
      BY <3>1 DEF Reply, Resolved
    <3>2. ASSUME NEW w \in Worker, DeadLetter(w)
          PROVE  Resolved' = Resolved \/ Resolved' = Resolved \cup {cur[w]}
      BY <3>2 DEF DeadLetter, Resolved, history
    <3>3. ASSUME NEW w \in Worker, CheckBudget(w) \/ EnqueueWrite(w) PROVE Resolved' = Resolved
      BY <3>3 DEF CheckBudget, EnqueueWrite, Resolved, history
    <3>4. UNCHANGED <<expired, dead, promised, confirmed>> => Resolved' = Resolved
      BY DEF Resolved
    <3> QED
      BY <3>1, <3>2, <3>3, <3>4, SettledChanges DEF Reply, DeadLetter
  <2>2. ASSUME NEW w \in Worker, pc[w] \in {"sending", "deadLetter"}
        PROVE  cur[w] \in 1..lastRead
    BY <1>0, <2>2 DEF InHand, Handling, Timed, Id
  <2>3. Resolved' \subseteq 1..lastRead
    <3>1. Resolved \subseteq 1..lastRead
      BY <1>0 DEF Accounted
    <3> QED
      BY <2>1, <2>2, <3>1
  <2> QED
    BY <1>0, <1>2, <2>3
<1> QED
  BY <1>1, <1>3, <1>4 DEF Accounted

LEMMA QueueInvInit ==
    ASSUME Init
    PROVE  QueueInv
  BY DEF Init, QueueInv, PendingInStream, LogOrder, InHand, AckOrder, Accounted,
     Held, Resolved, Handling, Timed, Prep, Acking

LEMMA QueueInvStep ==
    ASSUME TypeOK, QueueInv, [Next]_vars
    PROVE  QueueInv'
<1>1. PendingInStream /\ LogOrder /\ InHand /\ AckOrder
  BY DEF QueueInv
<1> QED
  BY <1>1, LogOrderStep, InHandStep, AckOrderStep, AccountedStep DEF QueueInv

(* The types of the model, together with the queue invariant: stream       *)
(* order, entries at hand, the order of _ack and the account of entries.   *)
THEOREM TypeCorrect == Spec => [](TypeOK /\ QueueInv)
<1>1. Init => TypeOK /\ QueueInv
  BY TypeInit, QueueInvInit
<1>2. TypeOK /\ QueueInv /\ [Next]_vars => (TypeOK /\ QueueInv)'
  <2> SUFFICES ASSUME TypeOK, QueueInv, [Next]_vars PROVE (TypeOK /\ QueueInv)'
    OBVIOUS
  <2>1. InHand
    BY DEF QueueInv
  <2> QED
    BY <2>1, TypeStep, QueueInvStep
<1> QED
  BY <1>1, <1>2, PTL DEF Spec

(* A write answered with 202 is in the queue, or confirmed, or in          *)
(* failed_requests, for any number of workers, crashes, lost replies and   *)
(* reloads, and whatever the timing.                                       *)
THEOREM NothingLost == Spec => []NoSilentLoss
<1>1. TypeOK /\ QueueInv => NoSilentLoss
  BY DEF QueueInv, Accounted, NoSilentLoss
<1> QED
  BY <1>1, TypeCorrect, PTL

(* XAUTOCLAIM never meets an entry whose fields XDEL already removed. *)
THEOREM PendingHasFields == Spec => []PendingInStream
<1>1. TypeOK /\ QueueInv => PendingInStream
  BY DEF QueueInv
<1> QED
  BY <1>1, TypeCorrect, PTL

-----------------------------------------------------------------------------
(* The queue implements the delivery contract *)

LEMMA ContractInit ==
    ASSUME Init
    PROVE  Contract!Init
  BY DEF Init, Contract!Init, Held, Resolved

LEMMA ContractStep ==
    ASSUME TypeOK, QueueInv, [Next]_vars
    PROVE  [Contract!Next]_(Contract!cvars)
<1> USE Bounds
<1>0. /\ LogType /\ PendingInStream /\ LogOrder /\ InHand /\ AckOrder /\ Accounted
      /\ lastId \in Nat /\ lastRead \in Nat
  BY DEF TypeOK, QueueInv, LogType
<1>1. CASE UNCHANGED <<expired, dead, promised, confirmed>> /\ Held' = Held
  BY <1>1 DEF Contract!cvars, Resolved
<1>2. ASSUME NEW w \in Worker, XAck(w), Held' = Held \ {cur[w]}
      PROVE  [Contract!Next]_(Contract!cvars)
  <2>1. cur[w] \in Id /\ cur[w] \in Resolved
    BY <1>0, <1>2 DEF XAck, AckOrder, InHand, Handling, Acking
  <2>2. UNCHANGED <<promised, Resolved>>
    BY <1>2 DEF XAck, history, Resolved
  <2>3. CASE cur[w] \in Held
    BY <1>2, <2>1, <2>2, <2>3 DEF Contract!Next, Contract!Forget
  <2>4. CASE cur[w] \notin Held
    BY <1>2, <2>2, <2>4 DEF Contract!cvars
  <2> QED
    BY <2>3, <2>4
<1>3. ASSUME ForeignAppend \/ \E w \in Worker : EnqueueWrite(w),
             Held' = Held \cup {lastId + 1}
      PROVE  [Contract!Next]_(Contract!cvars)
  <2>1. lastId + 1 \in Id
    BY <1>0, <1>3 DEF EnqueueWrite, ForeignAppend, XAdd, Id
  <2>2. lastId + 1 \notin promised \cup Held \cup Resolved
    <3>1. lastId + 1 \notin 1..lastId /\ lastId + 1 \notin 1..lastRead
      BY <1>0 DEF LogOrder
    <3> QED
      BY <3>1, <1>0 DEF Accounted, Held, LogOrder, PendingInStream
  <2>3. promised' \in {promised, promised \cup {lastId + 1}} /\ Resolved' = Resolved
    BY <1>3 DEF EnqueueWrite, ForeignAppend, history, Resolved
  <2> QED
    BY <1>3, <2>1, <2>2, <2>3 DEF Contract!Next, Contract!Accept
<1>4. ASSUME NEW w \in Worker, pc[w] \in {"sending", "deadLetter"}, Held' = Held,
             UNCHANGED promised, Resolved' \in {Resolved, Resolved \cup {cur[w]}}
      PROVE  [Contract!Next]_(Contract!cvars)
  <2>1. cur[w] \in Id /\ cur[w] \in Held \cup Resolved
    BY <1>0, <1>4 DEF InHand, Accounted, Handling, Timed, Id, LogOrder
  <2>2. CASE Resolved' = Resolved
    BY <1>4, <2>2 DEF Contract!cvars
  <2>3. CASE Resolved' = Resolved \cup {cur[w]} /\ cur[w] \in Held
    BY <1>4, <2>1, <2>3 DEF Contract!Next, Contract!Settle
  <2>4. CASE Resolved' = Resolved \cup {cur[w]} /\ cur[w] \in Resolved
    <3>1. Resolved' = Resolved
      BY <2>4
    <3> QED
      BY <1>4, <3>1 DEF Contract!cvars
  <2> QED
    BY <1>4, <2>1, <2>2, <2>3, <2>4
<1>5. ASSUME NEW w \in Worker, NEW a \in Answer, Reply(w, a) PROVE [Contract!Next]_(Contract!cvars)
  BY <1>4, <1>5 DEF Reply, Held, Resolved, log
<1>6. ASSUME NEW w \in Worker, DeadLetter(w) PROVE [Contract!Next]_(Contract!cvars)
  BY <1>4, <1>6 DEF DeadLetter, Held, Resolved, log, history
<1>7. ASSUME NEW w \in Worker, CheckBudget(w) PROVE [Contract!Next]_(Contract!cvars)
  BY <1>7 DEF CheckBudget, Held, Resolved, log, history, Contract!cvars
<1>8. \/ UNCHANGED <<expired, dead, promised, confirmed>>
      \/ \E w \in Worker : CheckBudget(w) \/ DeadLetter(w) \/ EnqueueWrite(w)
      \/ \E w \in Worker, a \in Answer : Reply(w, a)
  BY SettledChanges
<1>9. \/ Held' = Held
      \/ \E w \in Worker : XAck(w) /\ Held' = Held \ {cur[w]}
      \/ /\ Held' = Held \cup {lastId + 1}
         /\ ForeignAppend \/ \E w \in Worker : EnqueueWrite(w)
  BY <1>0, HeldStep
<1>10. ASSUME NEW w \in Worker, EnqueueWrite(w) PROVE Held' = Held \cup {lastId + 1}
  <2>1. stream' = stream \cup {lastId + 1} /\ UNCHANGED <<pel, lastRead>> /\ lastId + 1 > lastRead
    BY <1>0, <1>10 DEF EnqueueWrite, XAdd, LogOrder
  <2> QED
    BY <2>1 DEF Held
<1> QED
  BY <1>1, <1>2, <1>3, <1>5, <1>6, <1>7, <1>8, <1>9, <1>10

(* Every behaviour of the queue is one of the delivery contract, under the *)
(* mapping that reads "held" off the stream and the pending entries list.  *)
THEOREM QueueImplementsContract == Spec => ImplementsContract
<1>1. Init => Contract!Init
  BY ContractInit
<1>2. TypeOK /\ QueueInv /\ [Next]_vars => [Contract!Next]_(Contract!cvars)
  BY ContractStep
<1> QED
  BY <1>1, <1>2, TypeCorrect, PTL DEF Spec, ImplementsContract, Contract!Spec

-----------------------------------------------------------------------------
(* The lease excludes *)

(* A worker's step leaves the locals of the others alone. *)
LEMMA OthersKeep ==
    ASSUME TypeOK, NEW w \in Worker, NEW v \in Worker, v # w,
           WorkerStep(w) \/ StoreError(w) \/ Crash(w) \/ Stop(w)
    PROVE  pc'[v] = pc[v] /\ cur'[v] = cur[v] /\ tries'[v] = tries[v] /\ timer'[v] = timer[v]
<1> DEFINE Keep == pc'[v] = pc[v] /\ cur'[v] = cur[v] /\ tries'[v] = tries[v] /\ timer'[v] = timer[v]
<1>0. ControlType /\ LocalType
  BY DEF TypeOK
<1>1. CASE ReadNew(w)
  BY <1>0, <1>1 DEF ReadNew, Goto, ControlType, LocalType
<1>2. CASE AutoClaim(w)
  BY <1>0, <1>2 DEF AutoClaim, Goto, ControlType, LocalType
<1>3. CASE AcquireLease(w)
  BY <1>0, <1>3 DEF AcquireLease, Goto, ControlType, LocalType
<1>4. CASE ReleaseLease(w)
  BY <1>0, <1>4 DEF ReleaseLease, Goto, ControlType, LocalType
<1>5. CASE CheckDue(w)
  BY <1>0, <1>5 DEF CheckDue, Goto, ControlType, LocalType
<1>6. CASE CheckBudget(w)
  BY <1>0, <1>6 DEF CheckBudget, Goto, ControlType, LocalType
<1>7. CASE SetAttempts(w)
  BY <1>0, <1>7 DEF SetAttempts, Goto, Answered, Raise, local, ControlType,
       LocalType
<1>8. CASE SetDue(w)
  BY <1>0, <1>8 DEF SetDue, Goto, Raise, ControlType, LocalType
<1>9. ASSUME NEW a \in Answer, Reply(w, a) PROVE Keep
  BY <1>0, <1>9 DEF Reply, Goto, ControlType, LocalType
<1>10. CASE DeadLetter(w)
  BY <1>0, <1>10 DEF DeadLetter, Goto, Answered, Raise, local, ControlType,
       LocalType
<1>11. CASE XAck(w)
  BY <1>0, <1>11 DEF XAck, Goto, Answered, Raise, local, ControlType, LocalType
<1>12. CASE XDel(w)
  BY <1>0, <1>12 DEF XDel, Goto, Answered, Raise, local, ControlType, LocalType
<1>13. CASE HdelAttempts(w)
  BY <1>0, <1>13 DEF HdelAttempts, Goto, Answered, Raise, local, ControlType,
       LocalType
<1>14. CASE HdelDue(w)
  BY <1>0, <1>14 DEF HdelDue, Goto, Answered, Raise, local, ControlType,
       LocalType
<1>15. CASE StoreError(w)
  BY <1>0, <1>15 DEF StoreError, Goto, Raise, local, ControlType, LocalType
<1>16. CASE Crash(w)
  BY <1>0, <1>16 DEF Crash, Goto, ControlType, LocalType
<1>17. CASE Stop(w)
  BY <1>0, <1>17 DEF Stop, Goto, ControlType, LocalType
<1> QED
  BY <1>1, <1>2, <1>3, <1>4, <1>5, <1>6, <1>7, <1>8, <1>9, <1>10, <1>11, <1>12,
       <1>13, <1>14, <1>15, <1>16, <1>17 DEF WorkerStep

LEMMA LeaseInvStep ==
    ASSUME LeaseMargin, TypeOK, InHand, LeaseInv, [Next]_vars
    PROVE  LeaseInv'
<1> USE Bounds
<1> DEFINE Covered(v) ==
        /\ pc[v] \in Prep => /\ holder[cur[v]] = v
                             /\ ttl[cur[v]] + PrepTime >= timer[v] + ClaimIdle
        /\ pc[v] = "sending" => /\ holder[cur[v]] = v
                                /\ ttl[cur[v]] > timer[v]
<1>0. ControlType /\ LocalType /\ LockType /\ \A v \in Worker : Covered(v)
  BY DEF TypeOK, LeaseInv
<1>a. \A v \in Worker : pc[v] \in Timed => cur[v] \in Id
  BY DEF InHand, Handling
<1>1. ASSUME UNCHANGED <<pc, local, locks>> PROVE \A v \in Worker : Covered(v)'
  BY <1>0, <1>1 DEF local, locks
<1>2. ASSUME NEW w \in Worker, WorkerStep(w) \/ StoreError(w) \/ Stop(w), UNCHANGED locks
      PROVE  \A v \in Worker : v # w => Covered(v)'
  BY <1>0, <1>2, OthersKeep DEF locks
<1>3. ASSUME NEW w \in Worker, AcquireLease(w) PROVE \A v \in Worker : Covered(v)'
  <2>1. PICK m \in batch[w] :
          \/ /\ holder[m] = NoOne
             /\ holder' = [holder EXCEPT ![m] = w]
             /\ ttl' = [ttl EXCEPT ![m] = ClaimIdle]
             /\ pc' = [pc EXCEPT ![w] = "due"]
             /\ cur' = [cur EXCEPT ![w] = m]
             /\ timer' = [timer EXCEPT ![w] = PrepTime]
          \/ /\ \/ UNCHANGED locks
                \/ /\ holder[m] = NoOne
                   /\ holder' = [holder EXCEPT ![m] = Orphan]
                   /\ ttl' = [ttl EXCEPT ![m] = ClaimIdle]
             /\ \/ pc' = [pc EXCEPT ![w] = "lease"] \/ pc' = [pc EXCEPT ![w] = "claim"]
                \/ pc' = [pc EXCEPT ![w] = "read"]
    BY <1>3 DEF AcquireLease, LeaseTtl, Goto
  <2>2. m \in Id
    BY <1>0 DEF ControlType
  <2>3. Covered(w)'
    BY <1>0, <2>1, <2>2 DEF ControlType, LocalType, LockType, Prep
  <2>4. ASSUME NEW v \in Worker, v # w PROVE Covered(v)'
    <3>1. pc'[v] = pc[v] /\ cur'[v] = cur[v] /\ timer'[v] = timer[v]
      BY <1>3, <2>4, OthersKeep DEF WorkerStep
    <3>2. pc[v] \in Timed => /\ cur[v] # m \/ UNCHANGED locks
      BY <1>0, <2>1 DEF Timed
    <3>3. pc[v] \in Timed => holder'[cur[v]] = holder[cur[v]] /\ ttl'[cur[v]] = ttl[cur[v]]
      BY <1>0, <1>a, <2>1, <2>2, <3>2 DEF LockType, locks
    <3> QED
      BY <1>0, <3>1, <3>3 DEF Timed
  <2> QED
    BY <2>3, <2>4
<1>4. ASSUME NEW w \in Worker, ReleaseLease(w) PROVE \A v \in Worker : Covered(v)'
  <2>1. Covered(w)'
    BY <1>0, <1>4 DEF ReleaseLease, Goto, AfterEntry, ControlType, Prep
  <2>2. ASSUME NEW v \in Worker, v # w PROVE Covered(v)'
    <3>1. pc'[v] = pc[v] /\ cur'[v] = cur[v] /\ timer'[v] = timer[v]
      BY <1>4, <2>2, OthersKeep DEF WorkerStep
    <3>2. pc[v] \in Timed => holder'[cur[v]] = holder[cur[v]] /\ ttl'[cur[v]] = ttl[cur[v]]
      BY <1>0, <1>4, <1>a, <2>2 DEF ReleaseLease, LockType, locks, Timed
    <3> QED
      BY <1>0, <3>1, <3>2 DEF Timed
  <2> QED
    BY <2>1, <2>2
<1>5. ASSUME NEW w \in Worker, Crash(w) PROVE \A v \in Worker : Covered(v)'
  <2>1. Covered(w)'
    BY <1>0, <1>5 DEF Crash, Goto, ControlType, Prep
  <2>2. ASSUME NEW v \in Worker, v # w PROVE Covered(v)'
    <3>1. pc'[v] = pc[v] /\ cur'[v] = cur[v] /\ timer'[v] = timer[v]
      BY <1>5, <2>2, OthersKeep
    <3>2. pc[v] \in Timed => holder'[cur[v]] = holder[cur[v]] /\ ttl'[cur[v]] = ttl[cur[v]]
      BY <1>0, <1>5, <1>a, <2>2 DEF Crash, LockType, Timed
    <3> QED
      BY <1>0, <3>1, <3>2 DEF Timed
  <2> QED
    BY <2>1, <2>2
<1>6. ASSUME NEW w \in Worker, CheckDue(w) PROVE UNCHANGED locks /\ Covered(w)'
  BY <1>0, <1>6 DEF CheckDue, Goto, ControlType, LocalType, Prep, locks
<1>7. ASSUME NEW w \in Worker, CheckBudget(w) PROVE UNCHANGED locks /\ Covered(w)'
  BY <1>0, <1>7 DEF CheckBudget, Goto, ControlType, LocalType, Prep, locks
<1>8. ASSUME NEW w \in Worker, SetAttempts(w) PROVE UNCHANGED locks /\ Covered(w)'
  BY <1>0, <1>8 DEF SetAttempts, Goto, Answered, Raise, local, ControlType, LocalType, Prep, locks
<1>9. ASSUME NEW w \in Worker, SetDue(w) PROVE UNCHANGED locks /\ Covered(w)'
  <2>1. cur[w] \in Id /\ holder[cur[w]] = w /\ ttl[cur[w]] + PrepTime >= timer[w] + ClaimIdle
    BY <1>0, <1>9, <1>a DEF SetDue, Prep, Timed
  <2>2. ttl[cur[w]] \in Nat /\ timer[w] \in Nat
    BY <1>0, <2>1 DEF LockType, LocalType
  <2>3. ttl[cur[w]] > UpstreamTimeout
    BY <2>1, <2>2 DEF LeaseMargin
  <2>4. /\ UNCHANGED <<locks, cur>>
        /\ \/ pc' = [pc EXCEPT ![w] = "sending"] /\ timer' = [timer EXCEPT ![w] = UpstreamTimeout]
           \/ pc' = [pc EXCEPT ![w] = "release"]
    BY <1>9 DEF SetDue, Goto, Raise
  <2> QED
    BY <1>0, <2>1, <2>3, <2>4 DEF ControlType, LocalType, Prep, locks
<1>10. ASSUME NEW w \in Worker, ReadNew(w) PROVE UNCHANGED locks /\ Covered(w)'
  BY <1>0, <1>10 DEF ReadNew, Goto, ControlType, Prep, locks
<1>11. ASSUME NEW w \in Worker, AutoClaim(w) PROVE UNCHANGED locks /\ Covered(w)'
  BY <1>0, <1>11 DEF AutoClaim, Goto, ControlType, Prep, locks
<1>12. ASSUME NEW w \in Worker, NEW a \in Answer, Reply(w, a) PROVE UNCHANGED locks /\ Covered(w)'
  BY <1>0, <1>12 DEF Reply, Goto, ControlType, Prep, locks
<1>13. ASSUME NEW w \in Worker, DeadLetter(w) PROVE UNCHANGED locks /\ Covered(w)'
  BY <1>0, <1>13 DEF DeadLetter, Goto, Answered, Raise, local, ControlType,
       Prep, locks
<1>14. ASSUME NEW w \in Worker, XAck(w) PROVE UNCHANGED locks /\ Covered(w)'
  BY <1>0, <1>14 DEF XAck, Goto, Answered, Raise, local, ControlType, Prep,
       locks
<1>15. ASSUME NEW w \in Worker, XDel(w) PROVE UNCHANGED locks /\ Covered(w)'
  BY <1>0, <1>15 DEF XDel, Goto, Answered, Raise, local, ControlType, Prep,
       locks
<1>16. ASSUME NEW w \in Worker, HdelAttempts(w) PROVE UNCHANGED locks /\ Covered(w)'
  BY <1>0, <1>16 DEF HdelAttempts, Goto, Answered, Raise, local, ControlType,
       Prep, locks
<1>17. ASSUME NEW w \in Worker, HdelDue(w) PROVE UNCHANGED locks /\ Covered(w)'
  BY <1>0, <1>17 DEF HdelDue, Goto, Answered, Raise, local, ControlType, Prep,
       locks
<1>18. ASSUME NEW w \in Worker, StoreError(w) PROVE UNCHANGED locks /\ Covered(w)'
  BY <1>0, <1>18 DEF StoreError, Goto, Raise, local, ControlType, Prep, locks
<1>19. ASSUME NEW w \in Worker, Stop(w) PROVE UNCHANGED locks /\ Covered(w)'
  BY <1>0, <1>19 DEF Stop, Goto, ControlType, Prep, locks
<1>20. ASSUME Tick PROVE \A v \in Worker : Covered(v)'
  <2> SUFFICES ASSUME NEW v \in Worker, pc[v] \in Timed PROVE Covered(v)'
    BY <1>20 DEF Tick, Timed
  <2>1. timer[v] \in Nat /\ timer[v] > 0 /\ timer'[v] = timer[v] - 1 /\ pc' = pc /\ cur' = cur
    BY <1>0, <1>20 DEF Tick, LocalType
  <2>2. cur[v] \in Id /\ holder[cur[v]] = v /\ ttl[cur[v]] \in Nat /\ ttl[cur[v]] > 1
    <3>1. cur[v] \in Id /\ holder[cur[v]] = v /\ ttl[cur[v]] \in Nat
      BY <1>0, <1>a DEF Timed, LockType
    <3> QED
      BY <1>0, <2>1, <3>1 DEF Timed, LeaseMargin
  <2>3. holder'[cur[v]] = v /\ ttl'[cur[v]] = ttl[cur[v]] - 1
    BY <1>20, <2>2 DEF Tick
  <2> QED
    BY <1>0, <2>1, <2>2, <2>3
<1> HIDE DEF Covered
<1>21. ASSUME NEW w \in Worker, WorkerStep(w) \/ StoreError(w) \/ Stop(w)
      PROVE  \A v \in Worker : Covered(v)'
  BY <1>2, <1>3, <1>4, <1>6, <1>7, <1>8, <1>9, <1>10, <1>11, <1>12, <1>13,
       <1>14, <1>15, <1>16, <1>17, <1>18, <1>19, <1>20, <1>21 DEF WorkerStep
<1>22. \A v \in Worker : Covered(v)'
  <2>1. CASE UNCHANGED locks
    BY <1>1, <1>5, <1>20, <1>21, <2>1, WorkerChanges
  <2> QED
    BY <1>3, <1>4, <1>5, <1>20, <2>1, LockChanges
<1> QED
  BY <1>22 DEF LeaseInv, Covered

(* If every lease outlives the commands before the send and the send, no   *)
(* two workers ever replay the same entry at the same time.                *)
THEOREM LeaseExcludes ==
    ASSUME LeaseMargin
    PROVE  Spec => []ExclusiveSend
<1>1. Init => LeaseInv
  BY DEF Init, LeaseInv, Prep
<1>2. TypeOK /\ QueueInv /\ LeaseInv /\ [Next]_vars => LeaseInv'
  BY LeaseInvStep DEF QueueInv
<1>3. LeaseInv => ExclusiveSend
  BY DEF LeaseInv, ExclusiveSend
<1> QED
  BY <1>1, <1>2, <1>3, TypeCorrect, PTL DEF Spec

-----------------------------------------------------------------------------
(* Retry budget and backoff *)

(* How a worker comes to be between the due check and the send. *)
LEMMA PrepEntered ==
    ASSUME TypeOK, [Next]_vars, NEW v \in Worker, pc'[v] \in Prep \ {"due"}
    PROVE  \/ pc'[v] = pc[v] /\ cur'[v] = cur[v] /\ tries'[v] = tries[v]
           \/ CheckDue(v) \/ CheckBudget(v) \/ SetAttempts(v)
<1> DEFINE Same == pc'[v] = pc[v] /\ cur'[v] = cur[v] /\ tries'[v] = tries[v]
<1>0. ControlType
  BY DEF TypeOK
<1>1. CASE UNCHANGED <<pc, local>>
  BY <1>1 DEF local
<1>2. CASE Tick
  BY <1>2 DEF Tick
<1>3. ASSUME NEW w \in Worker, w # v, WorkerStep(w) \/ StoreError(w) \/ Crash(w) \/ Stop(w)
      PROVE  Same
  BY <1>3, OthersKeep
<1>4. ASSUME ReadNew(v) PROVE FALSE
  BY <1>0, <1>4 DEF ReadNew, Goto, ControlType, Prep
<1>5. ASSUME AutoClaim(v) PROVE FALSE
  BY <1>0, <1>5 DEF AutoClaim, Goto, ControlType, Prep
<1>6. ASSUME AcquireLease(v) PROVE FALSE
  BY <1>0, <1>6 DEF AcquireLease, Goto, ControlType, Prep
<1>7. ASSUME ReleaseLease(v) PROVE FALSE
  BY <1>0, <1>7 DEF ReleaseLease, Goto, AfterEntry, ControlType, Prep
<1>8. ASSUME SetDue(v) PROVE FALSE
  BY <1>0, <1>8 DEF SetDue, Goto, Raise, ControlType, Prep
<1>9. ASSUME NEW a \in Answer, Reply(v, a) PROVE FALSE
  BY <1>0, <1>9 DEF Reply, Goto, ControlType, Prep
<1>10. ASSUME DeadLetter(v) PROVE FALSE
  BY <1>0, <1>10 DEF DeadLetter, Goto, Answered, Raise, local, ControlType, Prep
<1>11. ASSUME XAck(v) PROVE FALSE
  BY <1>0, <1>11 DEF XAck, Goto, Answered, Raise, local, ControlType, Prep
<1>12. ASSUME XDel(v) PROVE FALSE
  BY <1>0, <1>12 DEF XDel, Goto, Answered, Raise, local, ControlType, Prep
<1>13. ASSUME HdelAttempts(v) PROVE FALSE
  BY <1>0, <1>13 DEF HdelAttempts, Goto, Answered, Raise, local, ControlType,
       Prep
<1>14. ASSUME HdelDue(v) PROVE FALSE
  BY <1>0, <1>14 DEF HdelDue, Goto, Answered, Raise, local, ControlType, Prep
<1>15. ASSUME StoreError(v) PROVE FALSE
  BY <1>0, <1>15 DEF StoreError, Goto, Raise, local, ControlType, Prep
<1>16. ASSUME Crash(v) PROVE FALSE
  BY <1>0, <1>16 DEF Crash, Goto, ControlType, Prep
<1>17. ASSUME Stop(v) PROVE FALSE
  BY <1>0, <1>17 DEF Stop, Goto, ControlType, Prep
<1> QED
  BY <1>1, <1>2, <1>3, <1>4, <1>5, <1>6, <1>7, <1>8, <1>9, <1>10, <1>11, <1>12,
       <1>13, <1>14, <1>15, <1>16, <1>17, WorkerChanges DEF WorkerStep

(* Two workers between lease and answer are on different entries. *)
LEMMA Apart ==
    ASSUME LeaseInv, NEW v \in Worker, NEW w \in Worker, v # w,
           pc[v] \in Timed, pc[w] \in Timed
    PROVE  cur[v] # cur[w]
  BY DEF LeaseInv, Timed

LEMMA DueInvStep ==
    ASSUME TypeOK, InHand, LeaseInv, DueInv, [Next]_vars
    PROVE  DueInv'
<1> SUFFICES ASSUME NEW v \in Worker, pc'[v] \in Prep \ {"due"}
             PROVE  due'[cur'[v]] = 0
  BY DEF DueInv
<1>0. HashType /\ ControlType
  BY DEF TypeOK
<1>1. CASE CheckDue(v)
  <2>1. cur[v] \in Id
    BY <1>1 DEF CheckDue, InHand, Handling, Timed, Prep
  <2> QED
    BY <1>0, <1>1, <2>1 DEF CheckDue, Goto, hashes, HashType, ControlType, Prep
<1>2. CASE CheckBudget(v)
  BY <1>2 DEF CheckBudget, hashes, DueInv, Prep
<1>3. CASE SetAttempts(v)
  BY <1>3 DEF SetAttempts, Answered, Raise, local, DueInv, Prep
<1>4. CASE pc'[v] = pc[v] /\ cur'[v] = cur[v]
  <2>1. due[cur[v]] = 0 /\ cur[v] \in Id
    BY <1>4 DEF DueInv, InHand, Handling, Timed
  <2>2. CASE UNCHANGED due
    BY <1>4, <2>1, <2>2
  <2>3. ASSUME NEW w \in Worker, SetDue(w) PROVE due'[cur'[v]] = 0
    <3>1. w # v
      BY <1>0, <1>4, <2>3 DEF SetDue, Goto, Raise, ControlType
    <3>2. cur[v] # cur[w]
      BY <3>1, <1>4, <2>3, Apart DEF SetDue, Timed, Prep
    <3> QED
      BY <1>0, <1>4, <2>1, <2>3, <3>2 DEF SetDue, HashType
  <2>4. ASSUME NEW w \in Worker, HdelDue(w) PROVE due'[cur'[v]] = 0
    BY <1>0, <1>4, <2>1, <2>4 DEF HdelDue, HashType
  <2>5. CASE Tick
    BY <1>4, <2>1, <2>5 DEF Tick
  <2> QED
    BY <2>2, <2>3, <2>4, <2>5, HashChanges DEF hashes, SetAttempts, HdelAttempts
<1> QED
  BY <1>1, <1>2, <1>3, <1>4, PrepEntered

(* The lease invariant and the due-time invariant, in every behaviour. *)
LEMMA LeaseAndDue ==
    ASSUME LeaseMargin
    PROVE  Spec => [](TypeOK /\ QueueInv /\ LeaseInv /\ DueInv)
<1>1. Init => LeaseInv /\ DueInv
  BY DEF Init, LeaseInv, DueInv, Prep
<1>2. TypeOK /\ QueueInv /\ LeaseInv /\ DueInv /\ [Next]_vars => LeaseInv' /\ DueInv'
  BY LeaseInvStep, DueInvStep DEF QueueInv
<1> QED
  BY <1>1, <1>2, TypeCorrect, PTL DEF Spec

(* Under the same margin, no replay starts before the backoff of the       *)
(* previous one is over, whichever worker made it.                         *)
THEOREM BackoffHolds ==
    ASSUME LeaseMargin
    PROVE  Spec => BackoffRespected
<1>1. TypeOK /\ QueueInv /\ LeaseInv /\ DueInv /\ [Next]_vars
        => [\A m \in Id : sends'[m] > sends[m] => due[m] = 0]_vars
  <2> SUFFICES ASSUME TypeOK, QueueInv, LeaseInv, DueInv, [Next]_vars,
                      NEW m \in Id, sends'[m] > sends[m]
               PROVE  due[m] = 0
    OBVIOUS
  <2>1. sends \in [Id -> Nat]
    BY DEF TypeOK, HashType
  <2>2. ~ UNCHANGED sends
    BY <2>1
  <2>3. PICK w \in Worker : SetDue(w)
    BY <2>2, HashChanges DEF SetAttempts, HdelAttempts, HdelDue, Tick, history
  <2>4. m = cur[w]
    BY <2>1, <2>3 DEF SetDue
  <2> QED
    BY <2>3, <2>4 DEF SetDue, DueInv, Prep
<1> QED
  BY <1>1, LeaseAndDue, PTL DEF Spec, BackoffRespected

(* What a step does to the attempts hash and to the count of replays. *)
LEMMA CountChanges ==
    ASSUME [Next]_vars
    PROVE  \/ UNCHANGED <<attempts, sends>>
           \/ \E w \in Worker : SetAttempts(w) \/ SetDue(w) \/ HdelAttempts(w)
  BY HashChanges DEF hashes, history, HdelDue, Tick

LEMMA BudgetStep ==
    ASSUME TypeOK, QueueInv, LeaseInv, BudgetInv, BudgetWhilePending, [Next]_vars
    PROVE  BudgetWhilePending'
<1> SUFFICES ASSUME NEW m \in pel' PROVE sends'[m] <= attempts'[m] /\ attempts'[m] <= MaxAttempts
  BY DEF BudgetWhilePending
<1>0. /\ HashType /\ LogType /\ InHand /\ LogOrder /\ AckOrder /\ m \in Id
      /\ MaxAttempts \in Nat /\ lastRead \in Nat
  BY LogTypeStep, QueueConstants DEF TypeOK, QueueInv, LogType, MaxAttempts
<1>1. sends[m] \in Nat /\ attempts[m] \in Nat
  BY <1>0 DEF HashType
<1>2. sends[m] <= attempts[m] /\ attempts[m] <= MaxAttempts
  <2>1. CASE m \in pel
    BY <2>1 DEF BudgetWhilePending
  <2>2. CASE m \notin pel
    <3>1. m > lastRead
      BY <1>0, <2>2, Monotone, Bounds DEF Id
    <3> QED
      BY <1>0, <3>1 DEF BudgetInv
  <2> QED
    BY <2>1, <2>2
<1>3. CASE UNCHANGED <<attempts, sends>>
  BY <1>2, <1>3
<1>4. ASSUME NEW w \in Worker, SetAttempts(w)
      PROVE  sends'[m] <= attempts'[m] /\ attempts'[m] <= MaxAttempts
  <2>1. attempts' = [attempts EXCEPT ![cur[w]] = tries[w]] /\ UNCHANGED <<sends, pel>>
    BY <1>4 DEF SetAttempts, history, log
  <2>2. CASE m = cur[w]
    <3>1. tries[w] = attempts[m] + 1 /\ tries[w] <= MaxAttempts
      BY <1>4, <2>1, <2>2 DEF SetAttempts, BudgetInv
    <3> QED
      BY <1>0, <1>1, <1>2, <2>1, <2>2, <3>1 DEF HashType
  <2>3. CASE m # cur[w]
    BY <1>0, <1>2, <2>1, <2>3 DEF HashType
  <2> QED
    BY <2>2, <2>3
<1>5. ASSUME NEW w \in Worker, SetDue(w)
      PROVE  sends'[m] <= attempts'[m] /\ attempts'[m] <= MaxAttempts
  <2>1. /\ sends' = [sends EXCEPT ![cur[w]] = @ + 1] \/ sends' = sends
        /\ UNCHANGED <<attempts, pel>>
    BY <1>5 DEF SetDue, log
  <2>2. CASE m = cur[w]
    <3>1. sends[m] < attempts[m]
      BY <1>5, <2>1, <2>2 DEF SetDue, BudgetInv
    <3> QED
      BY <1>0, <1>1, <1>2, <2>1, <2>2, <3>1 DEF HashType
  <2>3. CASE m # cur[w]
    BY <1>0, <1>2, <2>1, <2>3 DEF HashType
  <2> QED
    BY <2>2, <2>3
<1>6. ASSUME NEW w \in Worker, HdelAttempts(w)
      PROVE  sends'[m] <= attempts'[m] /\ attempts'[m] <= MaxAttempts
  <2>1. attempts' = [attempts EXCEPT ![cur[w]] = 0] /\ UNCHANGED <<sends, pel>>
    BY <1>6 DEF HdelAttempts, history, log
  <2>2. m # cur[w]
    BY <1>0, <1>6, <2>1 DEF HdelAttempts, AckOrder, Acking
  <2> QED
    BY <1>0, <1>2, <2>1, <2>2 DEF HashType
<1> QED
  BY <1>3, <1>4, <1>5, <1>6, CountChanges

LEMMA BudgetInvStep ==
    ASSUME TypeOK, QueueInv, LeaseInv, BudgetInv, BudgetWhilePending, [Next]_vars
    PROVE  BudgetInv'
<1>0. /\ HashType /\ HashType' /\ ControlType /\ LocalType /\ LogType /\ LogType'
      /\ InHand /\ LogOrder /\ AckOrder
  BY HashTypeStep, LogTypeStep DEF TypeOK, QueueInv
<1>1. ASSUME NEW m \in Id, m > lastRead' PROVE sends'[m] = 0 /\ attempts'[m] = 0
  <2>1. lastRead <= lastRead' /\ lastRead \in Nat /\ lastRead' \in Nat /\ m \in Nat
    <3>1. ASSUME NEW w \in Worker, ReadNew(w) PROVE lastRead <= lastRead'
      BY <3>1, ReadKeepsHeld
    <3>2. UNCHANGED lastRead \/ \E w \in Worker : ReadNew(w)
      BY LogChanges DEF log, AutoClaim, XAck, XDel, EnqueueWrite, ForeignAppend, XAdd, Tick
    <3> QED
      BY <1>0, <3>1, <3>2, Bounds DEF LogType, Id
  <2>2. sends[m] = 0 /\ attempts[m] = 0 /\ m > lastRead
    BY <1>1, <2>1 DEF BudgetInv
  <2>3. ASSUME NEW w \in Worker PROVE m # cur[w]
    BY <1>0, <2>1, <2>2 DEF InHand, ControlType
  <2> QED
    BY <1>0, <2>2, <2>3, CountChanges DEF SetAttempts, SetDue, HdelAttempts, history, HashType
<1>2. ASSUME NEW v \in Worker, cur'[v] \in pel'
      PROVE  /\ pc'[v] = "setAttempts" => /\ tries'[v] = attempts'[cur'[v]] + 1
                                          /\ tries'[v] <= MaxAttempts
             /\ pc'[v] = "setDue" => sends'[cur'[v]] < attempts'[cur'[v]]
  <2>1. CASE CheckBudget(v)
    BY <1>0, <2>1 DEF CheckBudget, Replayable, Goto, hashes, history,
       ControlType, LocalType
  <2>2. CASE SetAttempts(v)
    <3>1. cur' = cur /\ tries' = tries /\ pel' = pel /\ sends' = sends /\ cur[v] \in Id
      BY <1>0, <2>2 DEF SetAttempts, Answered, Raise, local, log, history, InHand,
         Handling, Timed, Prep
    <3>2. attempts'[cur[v]] = tries[v] /\ pc'[v] # "setAttempts"
      BY <1>0, <2>2, <3>1 DEF SetAttempts, Answered, Raise, Goto, HashType, ControlType
    <3>3. tries[v] = attempts[cur[v]] + 1
      BY <1>2, <2>2, <3>1 DEF SetAttempts, BudgetInv
    <3>4. sends[cur[v]] <= attempts[cur[v]]
      BY <1>2, <3>1 DEF BudgetWhilePending
    <3>5. sends[cur[v]] \in Nat /\ attempts[cur[v]] \in Nat
      BY <1>0, <3>1 DEF HashType
    <3> QED
      BY <3>1, <3>2, <3>3, <3>4, <3>5
  <2>3. CASE pc'[v] = pc[v] /\ cur'[v] = cur[v] /\ tries'[v] = tries[v]
              /\ pc[v] \in {"setAttempts", "setDue"}
    <3>1. cur[v] \in Id /\ cur[v] <= lastRead
      BY <1>0, <2>3 DEF InHand, Handling, Timed, Prep
    <3>2. cur[v] \in pel
      BY <1>0, <1>2, <2>3, <3>1, Monotone
    <3>3. CASE UNCHANGED <<attempts, sends>>
      BY <2>3, <3>2, <3>3 DEF BudgetInv
    <3>4. ASSUME NEW w \in Worker, SetAttempts(w) \/ SetDue(w) \/ HdelAttempts(w)
          PROVE  attempts'[cur[v]] = attempts[cur[v]] /\ sends'[cur[v]] = sends[cur[v]]
      <4>1. CASE SetAttempts(w) \/ SetDue(w)
        <5>1. w # v
          BY <1>0, <2>3, <4>1 DEF SetAttempts, SetDue, Answered, Raise, Goto, ControlType
        <5>2. cur[v] # cur[w]
          BY <2>3, <4>1, <5>1, Apart DEF SetAttempts, SetDue, Timed, Prep
        <5> QED
          BY <1>0, <3>1, <4>1, <5>2 DEF SetAttempts, SetDue, HashType, history
      <4>2. CASE HdelAttempts(w)
        <5>1. cur[v] # cur[w]
          BY <1>0, <3>2, <4>2 DEF HdelAttempts, AckOrder, Acking
        <5> QED
          BY <1>0, <3>1, <4>2, <5>1 DEF HdelAttempts, HashType, history
      <4> QED
        BY <3>4, <4>1, <4>2
    <3> QED
      BY <2>3, <3>2, <3>3, <3>4, CountChanges DEF BudgetInv
  <2>4. CASE CheckDue(v)
    BY <1>0, <2>4 DEF CheckDue, Goto, ControlType
  <2> QED
    BY <2>1, <2>2, <2>3, <2>4, PrepEntered DEF Prep
<1> QED
  BY <1>1, <1>2 DEF BudgetInv

(* Under the same margin the attempts hash accounts for every replay of a  *)
(* pending entry and never passes queue_max_retries + 1.                   *)
THEOREM BudgetHolds ==
    ASSUME LeaseMargin
    PROVE  Spec => []BudgetWhilePending
<1>1. Init => BudgetInv /\ BudgetWhilePending
  BY DEF Init, BudgetInv, BudgetWhilePending
<1>2. TypeOK /\ QueueInv /\ LeaseInv /\ BudgetInv /\ BudgetWhilePending /\ [Next]_vars
        => BudgetInv' /\ BudgetWhilePending'
  BY BudgetStep, BudgetInvStep
<1> QED
  BY <1>1, <1>2, LeaseAndDue, PTL DEF Spec

-----------------------------------------------------------------------------
(* Replays of acknowledged entries *)

LEMMA OneHandStep ==
    ASSUME TypeOK, OneHand, [Next]_vars
    PROVE  OneHand'
<1>0. ControlType /\ LogType /\ 0 \notin Id
  BY Bounds DEF TypeOK, Id
<1>1. CASE KeepsHand
  <2> SUFFICES ASSUME NEW v \in Worker
               PROVE  /\ pc'[v] \in {"read", "claim", "lease"} => cur'[v] = 0
                      /\ cur'[v] \notin batch'[v]
    BY DEF OneHand
  <2>1. pc[v] \in {"read", "claim", "lease", "release"} \cup Handling /\ batch[v] \subseteq Id
    BY <1>0 DEF ControlType
  <2>2. pc'[v] \in {"read", "claim", "lease"} => pc'[v] \notin Handling \cup {"release"}
    BY DEF Handling, Timed, Prep, Acking
  <2> QED
    BY <1>0, <1>1, <2>1, <2>2 DEF KeepsHand, OneHand
<1>2. ASSUME NEW w \in Worker, ReadNew(w) PROVE OneHand'
  <2> DEFINE new == Oldest({m \in stream : m > lastRead}, NewCount)
  <2>1. new \subseteq Id
    BY <1>0, OldestSubset DEF LogType
  <2>2. /\ cur' = cur /\ pc[w] = "read"
        /\ batch' = [batch EXCEPT ![w] = new] \/ batch' = batch
        /\ \A v \in Worker : pc'[v] = pc[v] \/ v = w
    BY <1>0, <1>2 DEF ReadNew, Goto, ControlType
  <2> HIDE DEF new
  <2> QED
    BY <1>0, <2>1, <2>2 DEF OneHand, ControlType
<1>3. ASSUME NEW w \in Worker, AutoClaim(w) PROVE OneHand'
  <2> DEFINE scanned == Oldest({m \in pel : m >= cursor[w]}, ScanCount)
             claimed == Oldest({m \in scanned : idle[m] >= ClaimIdle}, ClaimCount)
  <2>1. claimed \subseteq Id
    BY <1>0, OldestSubset DEF LogType
  <2>2. /\ cur' = cur /\ pc[w] = "claim"
        /\ batch' = [batch EXCEPT ![w] = claimed] \/ batch' = batch
        /\ \A v \in Worker : pc'[v] = pc[v] \/ v = w
    BY <1>0, <1>3 DEF AutoClaim, Goto, ControlType
  <2> HIDE DEF claimed
  <2> QED
    BY <1>0, <2>1, <2>2 DEF OneHand, ControlType
<1>4. ASSUME NEW w \in Worker, AcquireLease(w) PROVE OneHand'
  <2>1. PICK m \in batch[w] :
          /\ batch' = [batch EXCEPT ![w] = batch[w] \ {m}]
          /\ \/ pc' = [pc EXCEPT ![w] = "due"] /\ cur' = [cur EXCEPT ![w] = m]
             \/ UNCHANGED cur
          /\ \A v \in Worker : pc'[v] = pc[v] \/ v = w
          /\ pc[w] = "lease"
    BY <1>0, <1>4 DEF AcquireLease, Goto, ControlType
  <2> QED
    BY <1>0, <2>1 DEF OneHand, ControlType
<1> QED
  BY <1>1, <1>2, <1>3, <1>4, KeepsHandStep

(* Nobody comes to hold an entry that was read and is not pending. *)
LEMMA RivalsShrink ==
    ASSUME TypeOK, LogOrder, [Next]_vars, NEW m \in Id, m <= lastRead, m \notin pel
    PROVE  Rivals(m)' \subseteq Rivals(m)
<1>0. ControlType /\ m # 0
  BY Bounds DEF TypeOK, Id
<1>1. CASE KeepsHand
  BY <1>0, <1>1 DEF KeepsHand, Rivals, Handling, Timed
<1>2. ASSUME NEW w \in Worker, ReadNew(w) PROVE Rivals(m)' \subseteq Rivals(m)
  <2>1. m \notin pel'
    BY Monotone
  <2>2. /\ \A k \in batch'[w] : k \in batch[w] \/ k \in pel'
        /\ \A v \in Worker : v # w => batch'[v] = batch[v]
    BY <1>2, ReadKeepsHeld
  <2>3. cur' = cur /\ \A v \in Worker : pc'[v] = pc[v] \/ pc'[v] \notin Prep
    BY <1>0, <1>2 DEF ReadNew, Goto, ControlType, Prep
  <2> QED
    BY <2>1, <2>2, <2>3 DEF Rivals
<1>3. ASSUME NEW w \in Worker, AutoClaim(w) PROVE Rivals(m)' \subseteq Rivals(m)
  <2> DEFINE scanned == Oldest({k \in pel : k >= cursor[w]}, ScanCount)
             claimed == Oldest({k \in scanned : idle[k] >= ClaimIdle}, ClaimCount)
  <2>1. m \notin claimed
    BY OldestSubset
  <2>2. /\ cur' = cur /\ \A v \in Worker : pc'[v] = pc[v] \/ pc'[v] \notin Prep
        /\ batch' = [batch EXCEPT ![w] = claimed] \/ batch' = batch
    BY <1>0, <1>3 DEF AutoClaim, Goto, ControlType, Prep
  <2> HIDE DEF claimed
  <2> QED
    BY <1>0, <2>1, <2>2 DEF Rivals, ControlType
<1>4. ASSUME NEW w \in Worker, AcquireLease(w) PROVE Rivals(m)' \subseteq Rivals(m)
  <2>1. PICK k \in batch[w] :
          /\ batch' = [batch EXCEPT ![w] = batch[w] \ {k}]
          /\ \/ cur' = [cur EXCEPT ![w] = k]
             \/ UNCHANGED cur /\ pc'[w] \notin Prep
          /\ \A v \in Worker : pc'[v] = pc[v] \/ v = w
    BY <1>0, <1>4 DEF AcquireLease, Goto, ControlType, Prep
  <2> QED
    BY <1>0, <2>1 DEF Rivals, ControlType
<1> QED
  BY <1>1, <1>2, <1>3, <1>4, KeepsHandStep

(* Counting workers. *)
LEMMA RivalsCount ==
    ASSUME IsFiniteSet(Worker), NEW m
    PROVE  /\ IsFiniteSet(Rivals(m)) /\ Cardinality(Rivals(m)) \in Nat
           /\ Cardinality(Worker) \in Nat /\ Cardinality(Rivals(m)) <= Cardinality(Worker)
  BY FS_Subset, FS_CardinalityType DEF Rivals

LEMMA RivalsInvStep ==
    ASSUME IsFiniteSet(Worker), TypeOK, QueueInv, OneHand, BudgetInv, BudgetWhilePending,
           RivalsInv, [Next]_vars
    PROVE  RivalsInv'
<1> SUFFICES ASSUME NEW m \in Id, m <= lastRead', m \notin pel'
             PROVE  sends'[m] + Cardinality(Rivals(m)') < MaxAttempts + Cardinality(Worker)
  BY DEF RivalsInv
<1>0. /\ HashType /\ ControlType /\ LogType /\ LogType' /\ InHand /\ LogOrder /\ AckOrder
      /\ Accounted /\ MaxAttempts \in Nat /\ m \in Nat /\ lastRead \in Nat
      /\ lastRead' \in Nat /\ lastId \in Nat
  <2>1. /\ HashType /\ ControlType /\ LogType /\ InHand /\ LogOrder /\ AckOrder /\ Accounted
    BY DEF TypeOK, QueueInv
  <2>2. LogType'
    BY LogTypeStep
  <2>3. MaxAttempts \in Nat /\ m \in Nat
    BY QueueConstants DEF MaxAttempts, Id
  <2>4. lastRead \in Nat /\ lastRead' \in Nat /\ lastId \in Nat
    BY <2>1, <2>2, Bounds DEF LogType
  <2> QED
    BY <2>1, <2>2, <2>3, <2>4
<1>1. sends[m] \in Nat
  BY <1>0 DEF HashType
<1>2. /\ IsFiniteSet(Rivals(m)) /\ Cardinality(Rivals(m)) \in Nat /\ Cardinality(Worker) \in Nat
  BY RivalsCount
<1>3. CASE m <= lastRead /\ m \notin pel
  <2>1. Rivals(m)' \subseteq Rivals(m)
    BY <1>3, <1>0, RivalsShrink
  <2>2. Cardinality(Rivals(m)') \in Nat /\ Cardinality(Rivals(m)') <= Cardinality(Rivals(m))
    BY <1>2, <2>1, FS_Subset, FS_CardinalityType
  <2>3. sends[m] + Cardinality(Rivals(m)) < MaxAttempts + Cardinality(Worker)
    BY <1>3 DEF RivalsInv
  <2>4. CASE sends'[m] = sends[m]
    BY <1>0, <1>1, <1>2, <2>2, <2>3, <2>4
  <2>5. CASE sends'[m] # sends[m]
    <3>1. PICK w \in Worker : SetDue(w)
      BY <2>5, CountChanges DEF SetAttempts, HdelAttempts, history
    <3>2. m = cur[w] /\ sends'[m] = sends[m] + 1 /\ Goto(w, "sending") /\ batch' = batch
      BY <1>0, <2>5, <3>1 DEF SetDue, HashType
    <3>3. w \in Rivals(m)
      BY <3>1, <3>2 DEF SetDue, Rivals, Prep
    <3>4. w \notin Rivals(m)'
      BY <1>0, <3>2 DEF Rivals, OneHand, Goto, ControlType, Prep
    <3>5. Rivals(m)' \subseteq Rivals(m) \ {w}
      BY <2>1, <3>4
    <3>6. /\ IsFiniteSet(Rivals(m) \ {w})
          /\ Cardinality(Rivals(m) \ {w}) = Cardinality(Rivals(m)) - 1
      BY <1>2, <3>3, FS_RemoveElement
    <3>7. Cardinality(Rivals(m)') <= Cardinality(Rivals(m)) - 1
      BY <3>5, <3>6, FS_Subset
    <3> QED
      BY <1>0, <1>1, <1>2, <2>2, <2>3, <3>2, <3>7
  <2> QED
    BY <2>4, <2>5
<1>4. CASE m \in pel
  <2>1. PICK w \in Worker : XAck(w)
    <3>1. ~ UNCHANGED pel
      BY <1>4
    <3>2. ASSUME NEW w \in Worker, ReadNew(w) PROVE FALSE
      BY <1>4, <3>2, ReadKeepsHeld
    <3> QED
      BY <3>1, <3>2, LogChanges DEF log, AutoClaim, XDel, EnqueueWrite, ForeignAppend, XAdd, Tick
  <2>2. m = cur[w] /\ sends' = sends
    BY <1>4, <2>1 DEF XAck, history
  <2>3. sends[m] <= MaxAttempts
    BY <1>0, <1>1, <1>4 DEF BudgetWhilePending, HashType
  <2>4. w \notin Rivals(m)'
    <3>1. pc'[w] \notin Prep /\ batch'[w] \subseteq batch[w]
      BY <1>0, <2>1 DEF XAck, Answered, Raise, Goto, local, ControlType, Prep
    <3> QED
      BY <2>2, <3>1 DEF Rivals, OneHand
  <2>5. Rivals(m)' \subseteq Worker \ {w}
    BY <2>4 DEF Rivals
  <2>6. IsFiniteSet(Worker \ {w}) /\ Cardinality(Worker \ {w}) = Cardinality(Worker) - 1
    BY FS_RemoveElement
  <2>7. /\ Cardinality(Rivals(m)') <= Cardinality(Worker) - 1
        /\ Cardinality(Rivals(m)') \in Nat
    BY <2>5, <2>6, FS_Subset, FS_CardinalityType
  <2> QED
    BY <1>0, <1>1, <1>2, <2>2, <2>3, <2>7
<1>5. CASE m > lastRead
  <2>1. PICK w \in Worker : ReadNew(w)
    <3>1. ~ UNCHANGED lastRead
      BY <1>0, <1>5
    <3> QED
      BY <3>1, LogChanges DEF log, AutoClaim, XAck, XDel, EnqueueWrite, ForeignAppend, XAdd, Tick
  <2>2. Held' = Held /\ lastId' = lastId
    BY <2>1, ReadKeepsHeld DEF ReadNew
  <2>3. lastRead' <= lastId'
    BY LogOrderStep DEF LogOrder, QueueInv
  <2>4. m \in 1..lastId
    BY <1>0, <1>5, <2>2, <2>3
  <2>5. m \in Held
    BY <1>0, <1>5, <2>4 DEF Accounted
  <2> QED
    BY <1>0, <2>2, <2>5 DEF Held
<1> QED
  BY <1>0, <1>3, <1>4, <1>5

(* Under the same margin, the replays of an entry exceed the budget by     *)
(* less than the number of gateway processes, whatever fails: a process    *)
(* that still holds an acknowledged entry in its batch replays it once.    *)
THEOREM ReplaysBounded ==
    ASSUME LeaseMargin, IsFiniteSet(Worker), Worker # {}
    PROVE  Spec => []SendsBounded
<1>1. Init => OneHand /\ BudgetInv /\ BudgetWhilePending /\ RivalsInv
  BY Bounds DEF Init, OneHand, BudgetInv, BudgetWhilePending, RivalsInv, Id
<1>2. TypeOK /\ QueueInv /\ LeaseInv /\ OneHand /\ BudgetInv /\ BudgetWhilePending
      /\ RivalsInv /\ [Next]_vars
        => OneHand' /\ BudgetInv' /\ BudgetWhilePending' /\ RivalsInv'
  BY BudgetStep, BudgetInvStep, OneHandStep, RivalsInvStep
<1>3. TypeOK /\ BudgetInv /\ BudgetWhilePending /\ RivalsInv => SendsBounded
  <2> SUFFICES ASSUME TypeOK, BudgetInv, BudgetWhilePending, RivalsInv, NEW m \in Id
               PROVE  sends[m] < MaxAttempts + Cardinality(Worker)
    BY DEF SendsBounded
  <2>1. /\ sends[m] \in Nat /\ attempts[m] \in Nat /\ m \in Nat /\ lastRead \in Nat
        /\ MaxAttempts \in Nat /\ MaxAttempts > 0
    BY QueueConstants, Bounds DEF TypeOK, HashType, LogType, MaxAttempts, Id
  <2>2. Cardinality(Worker) \in Nat /\ Cardinality(Worker) # 0
    BY FS_CardinalityType, FS_EmptySet
  <2>3. Cardinality(Rivals(m)) \in Nat
    BY RivalsCount
  <2>4. CASE m \in pel
    BY <2>1, <2>2, <2>4 DEF BudgetWhilePending
  <2>5. CASE m > lastRead
    BY <2>1, <2>2, <2>5 DEF BudgetInv
  <2>6. CASE m \notin pel /\ m <= lastRead
    BY <2>1, <2>2, <2>3, <2>6 DEF RivalsInv
  <2> QED
    BY <2>1, <2>4, <2>5, <2>6
<1> QED
  BY <1>1, <1>2, <1>3, LeaseAndDue, PTL DEF Spec
=============================================================================
