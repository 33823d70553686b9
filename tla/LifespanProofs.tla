--------------------------- MODULE LifespanProofs ---------------------------
(***************************************************************************)
(* Proofs about Lifespan and RequestLogWriter, for any queue, batch and    *)
(* number of records, requests, refreshes and failures: no log record is   *)
(* forgotten or written twice, rows are written in the order of the        *)
(* requests, and a shutdown closes every client after its last use.        *)
(***************************************************************************)
EXTENDS Lifespan, SequenceTheorems, TLAPS

-----------------------------------------------------------------------------
(* Sequences of records *)

LEMMA InEmpty == In(<<>>) = {}
  BY DEF In

LEMMA InAppend ==
  ASSUME NEW S, NEW s \in Seq(S), NEW x \in S
  PROVE  In(Append(s, x)) = In(s) \cup {x}
<1>1. /\ Append(s, x) \in Seq(S) /\ Len(Append(s, x)) = Len(s) + 1
      /\ \A i \in 1..Len(s) : Append(s, x)[i] = s[i]
      /\ Append(s, x)[Len(s) + 1] = x
  BY AppendProperties
<1>2. Len(s) \in Nat
  OBVIOUS
<1>3. 1..Len(s) + 1 = (1..Len(s)) \cup {Len(s) + 1}
  BY <1>2
<1>4. QED
  BY <1>1, <1>2, <1>3 DEF In

LEMMA InConcat ==
  ASSUME NEW S, NEW s \in Seq(S), NEW t \in Seq(S)
  PROVE  In(s \o t) = In(s) \cup In(t)
<1>1. /\ s \o t \in Seq(S) /\ Len(s \o t) = Len(s) + Len(t)
      /\ \A i \in 1..Len(s) + Len(t) :
            (s \o t)[i] = IF i <= Len(s) THEN s[i] ELSE t[i - Len(s)]
  BY ConcatProperties
<1>2. Len(s) \in Nat /\ Len(t) \in Nat
  OBVIOUS
<1>3. In(s \o t) \subseteq In(s) \cup In(t)
  BY <1>1, <1>2 DEF In
<1>4. ASSUME NEW x \in In(s) PROVE x \in In(s \o t)
  BY <1>1, <1>2 DEF In
<1>5. ASSUME NEW x \in In(t) PROVE x \in In(s \o t)
  <2>1. PICK i \in 1..Len(t) : x = t[i]
    BY DEF In
  <2>2. i + Len(s) \in 1..Len(s) + Len(t) /\ ~(i + Len(s) <= Len(s)) /\ (i + Len(s)) - Len(s) = i
    BY <1>2
  <2>3. (s \o t)[i + Len(s)] = x
    BY <1>1, <2>1, <2>2
  <2>4. QED
    BY <1>1, <2>2, <2>3 DEF In
<1>6. QED
  BY <1>3, <1>4, <1>5

(* A sequence cut after its first n elements. *)
LEMMA InSplit ==
  ASSUME NEW S, NEW s \in Seq(S), NEW n \in 0..Len(s)
  PROVE  /\ SubSeq(s, 1, n) \in Seq(S) /\ SubSeq(s, n + 1, Len(s)) \in Seq(S)
         /\ Len(SubSeq(s, 1, n)) = n /\ Len(SubSeq(s, n + 1, Len(s))) = Len(s) - n
         /\ \A i \in 1..n : SubSeq(s, 1, n)[i] = s[i]
         /\ \A i \in 1..Len(s) - n : SubSeq(s, n + 1, Len(s))[i] = s[n + i]
         /\ In(s) = In(SubSeq(s, 1, n)) \cup In(SubSeq(s, n + 1, Len(s)))
<1> DEFINE a == SubSeq(s, 1, n)
           b == SubSeq(s, n + 1, Len(s))
<1>1. Len(s) \in Nat /\ n \in Nat /\ n <= Len(s)
  OBVIOUS
<1>2. \A i \in 1..Len(s) : s[i] \in S
  BY ElementOfSeq
<1>3. a \in Seq(S) /\ Len(a) = n /\ \A i \in 1..n : a[i] = s[i]
  <2>1. \A i \in 1..n : s[i] \in S
    BY <1>1, <1>2
  <2>2. CASE n = 0
    BY <1>1, <2>2, SubSeqProperties
  <2>3. CASE n > 0
    BY <1>1, <2>1, <2>3, SubSeqProperties
  <2>4. QED
    BY <1>1, <2>2, <2>3
<1>4. b \in Seq(S) /\ Len(b) = Len(s) - n /\ \A i \in 1..Len(s) - n : b[i] = s[n + i]
  <2>1. CASE n = Len(s)
    BY <1>1, <2>1, SubSeqProperties
  <2>2. CASE n < Len(s)
    BY <1>1, <1>2, <2>2, SubSeqProperties
  <2>3. QED
    BY <1>1, <2>1, <2>2
<1>5. In(a) \subseteq In(s) /\ In(b) \subseteq In(s)
  <2>1. \A i \in 1..Len(s) - n : n + i \in 1..Len(s)
    BY <1>1
  <2>2. QED
    BY <1>1, <1>3, <1>4, <2>1 DEF In
<1>6. ASSUME NEW x \in In(s) PROVE x \in In(a) \cup In(b)
  <2>1. PICK i \in 1..Len(s) : x = s[i]
    BY DEF In
  <2>2. CASE i <= n
    BY <1>1, <1>3, <2>1, <2>2 DEF In
  <2>3. CASE i > n
    <3>1. i - n \in 1..Len(s) - n /\ n + (i - n) = i
      BY <1>1, <2>3
    <3>2. QED
      BY <1>4, <2>1, <3>1 DEF In
  <2>4. QED
    BY <1>1, <2>2, <2>3
<1>7. QED
  BY <1>3, <1>4, <1>5, <1>6

-----------------------------------------------------------------------------
(* The writer *)

WriterInv == WriterTypes /\ OrderInv /\ RecordInv

(* A record is in memory only where the invariant's containers say so. *)
LEMMA MemoryTypes ==
  ASSUME WriterTypes
  PROVE  /\ In(batch) \subseteq Record /\ In(rest) \subseteq Record
         /\ In(queue) \subseteq Record /\ Record \subseteq Nat /\ made \in Nat
<1>1. /\ \A i \in 1..Len(batch) : batch[i] \in Record
      /\ \A i \in 1..Len(rest) : rest[i] \in Record
      /\ \A i \in 1..Len(queue) : queue[i] \in Record
  BY ElementOfSeq DEF WriterTypes
<1>2. QED
  <2>1. Record \subseteq Nat /\ made \in Nat
    BY WriterConstants DEF WriterTypes, Record
  <2>2. QED
    BY <1>1, <2>1 DEF In

LEMMA AddToType ==
  ASSUME NEW f \in [Record -> Nat], NEW s
  PROVE  /\ AddTo(f, s) \in [Record -> Nat]
         /\ \A i \in Record : AddTo(f, s)[i] = IF i \in In(s) THEN f[i] + 1 ELSE f[i]
  BY DEF AddTo

(* The outcome of _flush settles every record of s, once, whatever the     *)
(* database did.                                                           *)
LEMMA SettleStep ==
  ASSUME WriterTypes, RecordInv, NEW s,
         In(s) \subseteq InMemory, InMemory' = InMemory \ In(s), UNCHANGED made,
         \A i \in In(s), j \in InMemory' : i < j,
         Inserted(s) \/ Failed(s) \/ Unknown(s)
  PROVE  /\ RecordInv'
         /\ rows' \in [Record -> Nat] /\ drops' \in [Record -> Nat] /\ lost' \subseteq Record
<1> DEFINE More(f, g) == \A i \in Record : g[i] = IF i \in In(s) THEN f[i] + 1 ELSE f[i]
<1>1. /\ rows' \in [Record -> Nat] /\ drops' \in [Record -> Nat] /\ lost' = lost
      /\ \/ More(rows, rows') /\ drops' = drops
         \/ More(drops, drops') /\ rows' = rows
         \/ More(rows, rows') /\ More(drops, drops')
  <2>1. rows \in [Record -> Nat] /\ drops \in [Record -> Nat]
    BY DEF WriterTypes
  <2>2. /\ AddTo(rows, s) \in [Record -> Nat] /\ More(rows, AddTo(rows, s))
        /\ AddTo(drops, s) \in [Record -> Nat] /\ More(drops, AddTo(drops, s))
    BY <2>1, AddToType
  <2> HIDE DEF More
  <2>3. CASE Inserted(s)
    BY <2>1, <2>2, <2>3 DEF Inserted
  <2>4. CASE Failed(s)
    BY <2>1, <2>2, <2>4 DEF Failed
  <2>5. CASE Unknown(s)
    BY <2>1, <2>2, <2>5 DEF Unknown
  <2>6. QED
    BY <2>3, <2>4, <2>5
<1>2. ASSUME NEW i \in Record
      PROVE /\ rows'[i] <= 1 /\ drops'[i] <= 1
            /\ i > made' => ~Settled(i)' /\ i \notin lost'
            /\ ~(Settled(i)' /\ i \in lost')
            /\ i \in InMemory' <=> (i <= made' /\ ~Settled(i)' /\ i \notin lost')
            /\ rows'[i] > 0 => \A j \in InMemory' : i < j
  <2>1. rows[i] \in Nat /\ drops[i] \in Nat /\ made \in Nat /\ i \in Nat
    BY MemoryTypes DEF WriterTypes
  <2>2. CASE i \in In(s)
    <3>1. i \in InMemory /\ rows[i] = 0 /\ drops[i] = 0 /\ i \notin lost /\ i <= made
      BY <2>1, <2>2 DEF RecordInv, Settled
    <3>2. rows'[i] \in {0, 1} /\ drops'[i] \in {0, 1} /\ rows'[i] + drops'[i] > 0
      BY <1>1, <2>2, <3>1
    <3>3. QED
      BY <1>1, <2>1, <2>2, <3>1, <3>2 DEF Settled
  <2>3. CASE i \notin In(s)
    BY <1>1, <2>1, <2>3 DEF RecordInv, Settled
  <2>4. QED
    BY <2>2, <2>3
<1>3. QED
  <2>1. lost' \subseteq Record
    BY <1>1 DEF WriterTypes
  <2>2. QED
    BY <1>1, <1>2, <2>1 DEF RecordInv

(* Steps that leave the records where they are. *)
LEMMA RecordFrame ==
  ASSUME RecordInv, InMemory' = InMemory, UNCHANGED <<made, results>>
  PROVE  RecordInv'
  BY DEF RecordInv, Settled, results

LEMMA EnqueueStep ==
  ASSUME WriterInv, rest = <<>>, Enqueue
  PROVE  WriterInv'
<1> USE DEF WriterInv
<1> DEFINE n == made + 1
<1>1. /\ made \in Nat /\ n \in Record /\ made' = n /\ n \in Nat
      /\ rows[n] = 0 /\ drops[n] = 0 /\ n \notin lost
      /\ UNCHANGED <<batch, rest, task, stop>>
  <2>1. made \in Nat /\ n \in Record /\ made' = n /\ UNCHANGED <<batch, rest, task, stop>>
    BY WriterConstants DEF Enqueue, WriterTypes, Record
  <2>2. ~Settled(n) /\ n \notin lost /\ rows[n] \in Nat /\ drops[n] \in Nat
    BY <2>1 DEF RecordInv, WriterTypes
  <2>3. QED
    BY <2>1, <2>2 DEF Settled
<1>2. ASSUME NEW i \in InMemory PROVE i \in Record /\ i \in Nat /\ i < n
  <2>1. i \in Record /\ i \in Nat
    BY MemoryTypes DEF InMemory
  <2>2. QED
    BY <1>1, <2>1 DEF RecordInv
<1>3. CASE Len(queue) < MaxQueue /\ queue' = Append(queue, n) /\ UNCHANGED results
  <2>1. /\ queue \in Seq(Record) /\ queue' \in Seq(Record) /\ Len(queue') = Len(queue) + 1
        /\ \A i \in 1..Len(queue) : queue'[i] = queue[i]
        /\ queue'[Len(queue) + 1] = n /\ Len(queue) \in Nat
    BY <1>1, <1>3, AppendProperties DEF WriterTypes
  <2>2. In(queue') = In(queue) \cup {n}
    BY <1>1, <1>3, <2>1, InAppend
  <2>3. InMemory' = InMemory \cup {n}
    BY <1>1, <2>2 DEF InMemory
  <2>4. WriterTypes'
    BY <1>1, <1>3, <2>1, WriterConstants DEF WriterTypes, results, Record
  <2>5. OrderInv'
    <3>1. \A i \in 1..Len(queue) : queue[i] \in InMemory
      BY DEF InMemory, In
    <3>2. Ascending(queue')
      BY <1>1, <1>2, <2>1, <3>1 DEF OrderInv, Ascending
    <3>3. Before(batch', queue')
      BY <1>1, <1>2, <2>2 DEF OrderInv, Before, InMemory
    <3>4. QED
      BY <1>1, <3>2, <3>3 DEF OrderInv
  <2>6. RecordInv'
    <3>1. ASSUME NEW i \in Record
          PROVE /\ rows'[i] <= 1 /\ drops'[i] <= 1
                /\ i > made' => ~Settled(i)' /\ i \notin lost'
                /\ ~(Settled(i)' /\ i \in lost')
                /\ i \in InMemory' <=> (i <= made' /\ ~Settled(i)' /\ i \notin lost')
                /\ rows'[i] > 0 => \A j \in InMemory' : i < j
      <4>1. i \in Nat /\ rows[i] \in Nat /\ drops[i] \in Nat
            /\ rows'[i] = rows[i] /\ drops'[i] = drops[i] /\ lost' = lost
        BY <1>3, MemoryTypes DEF WriterTypes, results
      <4>2. rows[i] > 0 => i <= made
        BY <1>1, <4>1 DEF RecordInv, Settled
      <4>3. QED
        BY <1>1, <2>3, <4>1, <4>2 DEF RecordInv, Settled
    <3>2. QED
      BY <3>1 DEF RecordInv
  <2>7. QED
    BY <2>4, <2>5, <2>6
<1>4. CASE Len(queue) >= MaxQueue /\ Failed(<<n>>) /\ UNCHANGED queue
  <2>1. In(<<n>>) = {n}
    BY DEF In
  <2>2. InMemory' = InMemory /\ OrderInv'
    BY <1>1, <1>4 DEF InMemory, OrderInv
  <2>3. /\ drops' \in [Record -> Nat] /\ rows' = rows /\ lost' = lost
        /\ \A i \in Record : drops'[i] = IF i = n THEN drops[i] + 1 ELSE drops[i]
    BY <1>4, <2>1, AddToType DEF Failed, WriterTypes
  <2>4. WriterTypes'
    <3>1. made' \in 0..MaxRecords
      BY <1>1, WriterConstants DEF Record
    <3>2. QED
      BY <1>1, <1>4, <2>3, <3>1 DEF WriterTypes
  <2>5. RecordInv'
    <3>1. ASSUME NEW i \in Record
          PROVE /\ rows'[i] <= 1 /\ drops'[i] <= 1
                /\ i > made' => ~Settled(i)' /\ i \notin lost'
                /\ ~(Settled(i)' /\ i \in lost')
                /\ i \in InMemory' <=> (i <= made' /\ ~Settled(i)' /\ i \notin lost')
                /\ rows'[i] > 0 => \A j \in InMemory' : i < j
      <4>1. i \in Nat /\ rows[i] \in Nat /\ drops[i] \in Nat
        BY MemoryTypes DEF WriterTypes
      <4>2. n \notin InMemory
        BY <1>1, <1>2
      <4>3. CASE i = n
        BY <1>1, <2>2, <2>3, <4>1, <4>2, <4>3 DEF Settled
      <4>4. CASE i # n
        BY <1>1, <2>2, <2>3, <4>1, <4>4 DEF RecordInv, Settled
      <4>5. QED
        BY <4>3, <4>4
    <3>2. QED
      BY <3>1 DEF RecordInv
  <2>6. QED
    BY <2>2, <2>4, <2>5
<1>5. QED
  BY <1>3, <1>4 DEF Enqueue

LEMMA LoopStep ==
  ASSUME WriterInv, Loop
  PROVE  WriterInv'
<1>1. InMemory' = InMemory /\ UNCHANGED <<made, queue, batch, rest, results>>
      /\ task = "loop" /\ task' \in {"off", "collect"} /\ stop' = stop
  BY DEF Loop, InMemory
<1>2. WriterTypes' /\ OrderInv'
  BY <1>1 DEF WriterInv, WriterTypes, OrderInv, results
<1>3. RecordInv'
  BY <1>1, RecordFrame DEF WriterInv
<1>4. QED
  BY <1>2, <1>3 DEF WriterInv

(* _collect_batch moves a prefix of the queue, which keeps the order. *)
LEMMA CollectStep ==
  ASSUME WriterInv, rest = <<>>, CollectBatch
  PROVE  WriterInv'
<1> USE DEF WriterInv
<1>1. task = "collect" /\ batch = <<>> /\ UNCHANGED <<made, rest, stop, results>>
  BY DEF CollectBatch, OrderInv
<1>2. CASE queue = <<>>
  <2>1. task' = "loop" /\ UNCHANGED <<queue, batch>>
    BY <1>2 DEF CollectBatch
  <2>2. InMemory' = InMemory
    BY <1>1, <2>1 DEF InMemory
  <2>3. WriterTypes' /\ OrderInv'
    BY <1>1, <2>1 DEF WriterTypes, OrderInv, results
  <2>4. QED
    BY <1>1, <2>2, <2>3, RecordFrame
<1>3. CASE queue # <<>>
  <2> DEFINE n == IF Len(queue) < BatchSize THEN Len(queue) ELSE BatchSize
             a == SubSeq(queue, 1, n)
             b == SubSeq(queue, n + 1, Len(queue))
  <2>1. batch' = a /\ queue' = b /\ task' = "flush"
    BY <1>3 DEF CollectBatch
  <2>2. /\ queue \in Seq(Record) /\ Len(queue) \in Nat /\ Len(queue) <= MaxQueue
        /\ n \in 0..Len(queue) /\ n <= BatchSize /\ n \in Nat
    BY WriterConstants DEF WriterTypes
  <2>3. /\ a \in Seq(Record) /\ b \in Seq(Record) /\ Len(a) = n /\ Len(b) = Len(queue) - n
        /\ \A i \in 1..n : a[i] = queue[i]
        /\ \A i \in 1..Len(queue) - n : b[i] = queue[n + i]
        /\ In(queue) = In(a) \cup In(b)
    <3> HIDE DEF n
    <3>1. QED
      BY <2>2, InSplit
  <2>4. \A i \in 1..Len(queue) : queue[i] \in Nat
    BY <2>2, ElementOfSeq, MemoryTypes
  <2>5. Ascending(queue)
    BY DEF OrderInv
  <2> HIDE DEF n, a, b
  <2>6. Ascending(a) /\ Ascending(b)
    <3>1. \A i \in 1..Len(queue) - n : n + i \in 1..Len(queue)
      BY <2>2
    <3>2. \A i \in 1..n : i \in 1..Len(queue)
      BY <2>2
    <3>3. ASSUME NEW i \in 1..Len(a), NEW j \in 1..Len(a), i < j PROVE a[i] < a[j]
      BY <2>3, <2>5, <3>2, <3>3 DEF Ascending
    <3>4. ASSUME NEW i \in 1..Len(b), NEW j \in 1..Len(b), i < j PROVE b[i] < b[j]
      <4>1. /\ b[i] = queue[n + i] /\ b[j] = queue[n + j] /\ n + i < n + j
            /\ n + i \in 1..Len(queue) /\ n + j \in 1..Len(queue)
        BY <2>2, <2>3, <3>1, <3>4
      <4>2. QED
        BY <2>5, <4>1 DEF Ascending
    <3>5. QED
      BY <3>3, <3>4 DEF Ascending
  <2>7. Before(a, b)
    <3>1. ASSUME NEW x \in In(a), NEW y \in In(b) PROVE x < y
      <4>1. PICK i \in 1..n : x = queue[i]
        BY <2>3 DEF In
      <4>2. PICK j \in 1..Len(queue) - n : y = queue[n + j]
        <5>1. PICK j \in 1..Len(b) : y = b[j]
          BY DEF In
        <5>2. QED
          BY <2>3, <5>1
      <4>3. i \in 1..Len(queue) /\ n + j \in 1..Len(queue) /\ i < n + j
        BY <2>2
      <4>4. QED
        BY <2>5, <4>1, <4>2, <4>3 DEF Ascending
    <3>2. QED
      BY <3>1 DEF Before
  <2>8. InMemory' = InMemory
    BY <1>1, <2>1, <2>3, InEmpty DEF InMemory
  <2>9. WriterTypes'
    BY <1>1, <2>1, <2>2, <2>3, WriterConstants DEF WriterTypes, results
  <2>10. OrderInv'
    BY <1>1, <2>1, <2>6, <2>7 DEF OrderInv
  <2>11. QED
    BY <1>1, <2>8, <2>9, <2>10, RecordFrame
<1>4. QED
  BY <1>2, <1>3

LEMMA EmptyFacts ==
  /\ <<>> \in Seq(Record) /\ Len(<<>>) = 0 /\ Ascending(<<>>)
  /\ \A s : Before(<<>>, s)
  BY EmptySeq, InEmpty DEF Ascending, Before

LEMMA FlushStep ==
  ASSUME WriterInv, NEW faulty \in BOOLEAN, rest = <<>>, Flush(faulty)
  PROVE  WriterInv'
<1> USE DEF WriterInv
<1>1. /\ task' = "loop" /\ batch' = <<>> /\ UNCHANGED <<made, queue, rest, stop>>
      /\ Inserted(batch) \/ Failed(batch) \/ Unknown(batch)
  BY DEF Flush
<1>2. \A i \in In(batch), j \in In(queue) : i < j
  BY DEF OrderInv, Before
<1>3. In(batch) \cap In(queue) = {}
  <2>1. \A i \in In(batch) : i \in Nat
    BY MemoryTypes
  <2>2. QED
    BY <1>2, <2>1
<1>4. InMemory = In(batch) \cup In(queue) /\ InMemory' = In(queue)
  BY <1>1, InEmpty DEF InMemory
<1>5. /\ RecordInv'
      /\ rows' \in [Record -> Nat] /\ drops' \in [Record -> Nat] /\ lost' \subseteq Record
  BY <1>1, <1>2, <1>3, <1>4, SettleStep
<1>6. WriterTypes'
  BY <1>1, <1>5, EmptyFacts, WriterConstants DEF WriterTypes
<1>7. OrderInv'
  BY <1>1, EmptyFacts DEF OrderInv
<1>8. QED
  BY <1>5, <1>6, <1>7

LEMMA DrainStep ==
  ASSUME WriterInv, rest = <<>>, Drain
  PROVE  WriterInv'
<1> USE DEF WriterInv
<1>1. /\ task = "off" /\ batch = <<>> /\ rest' = queue /\ queue' = <<>>
      /\ UNCHANGED <<made, batch, task, stop, results>>
  BY DEF Drain, OrderInv
<1>2. InMemory' = InMemory
  BY <1>1, InEmpty DEF InMemory
<1>3. WriterTypes'
  BY <1>1, EmptyFacts, WriterConstants DEF WriterTypes, results
<1>4. OrderInv'
  BY <1>1, EmptyFacts DEF OrderInv
<1>5. QED
  BY <1>1, <1>2, <1>3, <1>4, RecordFrame

LEMMA FlushRestStep ==
  ASSUME WriterInv, NEW faulty \in BOOLEAN, FlushRest(faulty)
  PROVE  WriterInv'
<1> USE DEF WriterInv
<1>1. rest' = <<>> /\ UNCHANGED <<made, queue, batch, task, stop>>
  BY DEF FlushRest
<1>2. OrderInv'
  BY <1>1, EmptyFacts DEF OrderInv
<1>3. CASE rest = <<>>
  <2>1. UNCHANGED results
    BY <1>3 DEF FlushRest
  <2>2. InMemory' = InMemory
    BY <1>1, <1>3 DEF InMemory
  <2>3. WriterTypes'
    BY <1>1, <2>1, EmptyFacts DEF WriterTypes, results
  <2>4. QED
    BY <1>1, <1>2, <2>1, <2>2, <2>3, RecordFrame
<1>4. CASE rest # <<>>
  <2>1. Inserted(rest) \/ Failed(rest) \/ Unknown(rest)
    BY <1>4 DEF FlushRest
  <2>2. InMemory = In(rest) /\ InMemory' = {}
    BY <1>1, <1>4, InEmpty DEF InMemory, OrderInv
  <2>3. /\ RecordInv'
        /\ rows' \in [Record -> Nat] /\ drops' \in [Record -> Nat] /\ lost' \subseteq Record
    BY <1>1, <2>1, <2>2, SettleStep
  <2>4. WriterTypes'
    BY <1>1, <2>3, EmptyFacts DEF WriterTypes
  <2>5. QED
    BY <1>2, <2>3, <2>4
<1>5. QED
  BY <1>3, <1>4

(* A crash empties the memory: what was in flight may have been committed, *)
(* everything else is lost.                                                *)
LEMMA CrashStep ==
  ASSUME WriterInv, WriterCrash
  PROVE  WriterInv'
<1> USE DEF WriterInv
<1> DEFINE fl == batch \o rest
<1>1. /\ queue' = <<>> /\ batch' = <<>> /\ rest' = <<>> /\ task' = "off" /\ stop' = FALSE
      /\ UNCHANGED <<made, drops>>
  BY DEF WriterCrash
<1>2. /\ batch \in Seq(Record) /\ rest \in Seq(Record) /\ queue \in Seq(Record)
      /\ rows \in [Record -> Nat] /\ drops \in [Record -> Nat] /\ lost \subseteq Record
  BY DEF WriterTypes
<1>3. In(fl) = In(batch) \cup In(rest) /\ In(fl \o queue) = InMemory
  <2>1. fl \in Seq(Record) /\ In(fl) = In(batch) \cup In(rest)
    BY <1>2, InConcat, ConcatProperties
  <2> HIDE DEF fl
  <2>2. In(fl \o queue) = In(fl) \cup In(queue)
    BY <1>2, <2>1, InConcat
  <2>3. QED
    BY <2>1, <2>2 DEF InMemory
<1>4. PICK flying \in {<<>>, fl} :
        rows' = AddTo(rows, flying) /\ lost' = lost \cup (In(fl \o queue) \ In(flying))
  BY DEF WriterCrash
<1>5. /\ rows' \in [Record -> Nat] /\ In(flying) \subseteq InMemory
      /\ \A i \in Record : rows'[i] = IF i \in In(flying) THEN rows[i] + 1 ELSE rows[i]
      /\ lost' = lost \cup (InMemory \ In(flying))
  BY <1>2, <1>3, <1>4, AddToType, InEmpty DEF InMemory
<1>6. InMemory \subseteq Record /\ InMemory' = {}
  BY <1>1, MemoryTypes, InEmpty DEF InMemory
<1>7. WriterTypes' /\ OrderInv'
  <2>1. lost' \subseteq Record
    BY <1>2, <1>5, <1>6
  <2>2. WriterTypes'
    <3>1. made' \in 0..MaxRecords /\ rows' \in [Record -> Nat] /\ drops' \in [Record -> Nat]
      BY <1>1, <1>2, <1>5 DEF WriterTypes
    <3>2. 0 <= MaxQueue /\ 0 <= BatchSize
      BY WriterConstants
    <3>3. QED
      BY <1>1, <2>1, <3>1, <3>2, EmptyFacts DEF WriterTypes
  <2>3. OrderInv'
    BY <1>1, EmptyFacts DEF OrderInv
  <2>4. QED
    BY <2>2, <2>3
<1>8. ASSUME NEW i \in Record
      PROVE /\ rows'[i] <= 1 /\ drops'[i] <= 1
            /\ i > made' => ~Settled(i)' /\ i \notin lost'
            /\ ~(Settled(i)' /\ i \in lost')
            /\ i \in InMemory' <=> (i <= made' /\ ~Settled(i)' /\ i \notin lost')
            /\ rows'[i] > 0 => \A j \in InMemory' : i < j
  <2>1. rows[i] \in Nat /\ drops[i] \in Nat /\ made \in Nat /\ i \in Nat
    BY <1>2, MemoryTypes
  <2>2. CASE i \in InMemory
    <3>1. rows[i] = 0 /\ drops[i] = 0 /\ i \notin lost /\ i <= made
      BY <2>1, <2>2 DEF RecordInv, Settled
    <3>2. QED
      BY <1>1, <1>5, <1>6, <2>1, <2>2, <3>1 DEF Settled
  <2>3. CASE i \notin InMemory
    BY <1>1, <1>5, <1>6, <2>1, <2>3 DEF RecordInv, Settled
  <2>4. QED
    BY <2>2, <2>3
<1>9. QED
  BY <1>7, <1>8 DEF RecordInv

-----------------------------------------------------------------------------
(* The process *)

AppTypes ==
    /\ app \in {"start", "up"} \cup In(Order)
    /\ open \subseteq Client /\ busy \in 0..MaxBusy /\ worker \in BOOLEAN
    /\ tasks \subseteq Task /\ faults \in 0..MaxFaults

LEMMA InvSplit == LifespanInv <=> WriterInv /\ AppTypes /\ AppInv
  BY DEF LifespanInv, TypeOK, WriterInv, AppTypes

LEMMA Steps ==
  /\ Len(Order) = 9
  /\ Order[1] = "worker" /\ Order[2] = "writer" /\ Order[3] = "drain" /\ Order[4] = "flush"
  /\ Order[5] = "tasks" /\ Order[6] = "http" /\ Order[7] = "redis" /\ Order[8] = "db"
  /\ Order[9] = "down"
  BY DEF Order

LEMMA StepsIn ==
  In(Order) = {"worker", "writer", "drain", "flush", "tasks", "http", "redis", "db", "down"}
<1>1. 1..9 = {1, 2, 3, 4, 5, 6, 7, 8, 9}
  OBVIOUS
<1>2. In(Order) = {Order[i] : i \in {1, 2, 3, 4, 5, 6, 7, 8, 9}}
  BY <1>1, Steps DEF In
<1>3. QED
  BY <1>2, Steps

(* What follows a step of the finally block. *)
LEMMA AfterStep ==
  ASSUME NEW step, After(step)
  PROVE  /\ app = step /\ app' \in In(Order)
         /\ step = "worker" => app' = "writer"
         /\ step = "writer" => app' = "drain"
         /\ step = "drain" => app' = "flush"
         /\ step = "flush" => app' = "tasks"
         /\ step = "tasks" => app' = "http"
         /\ step = "http" => app' = "redis"
         /\ step = "redis" => app' = "db"
         /\ step = "db" => app' = "down"
<1>1. PICK i \in 1..8 : app = step /\ Order[i] = step /\ app' = Order[i + 1]
  BY Steps DEF After
<1>2. i = 1 \/ i = 2 \/ i = 3 \/ i = 4 \/ i = 5 \/ i = 6 \/ i = 7 \/ i = 8
  OBVIOUS
<1>3. QED
  BY <1>1, <1>2, Steps, StepsIn

LEMMA FaultType ==
  ASSUME faults \in 0..MaxFaults, Fault
  PROVE  faults' \in 0..MaxFaults
  BY LifespanConstants DEF Fault

LEMMA WriterFrame ==
  ASSUME WriterInv, UNCHANGED <<made, queue, batch, rest, task, results>>, stop' \in BOOLEAN
  PROVE  WriterInv'
<1>1. InMemory' = InMemory
  BY DEF InMemory
<1>2. WriterTypes' /\ OrderInv'
  BY DEF WriterInv, WriterTypes, OrderInv, results
<1>3. RecordInv'
  BY <1>1, RecordFrame DEF WriterInv
<1>4. QED
  BY <1>2, <1>3 DEF WriterInv

LEMMA InitStep == Init => LifespanInv
<1> SUFFICES ASSUME Init PROVE LifespanInv
  OBVIOUS
<1>1. InMemory = {}
  BY InEmpty DEF Init, WriterInit, InMemory
<1>2. WriterTypes /\ OrderInv
  <2>1. 0 \in 0..MaxRecords /\ 0 <= MaxQueue /\ 0 <= BatchSize
    BY WriterConstants
  <2>2. WriterTypes
    BY <2>1, EmptyFacts DEF Init, WriterInit, WriterTypes
  <2>3. OrderInv
    BY EmptyFacts DEF Init, WriterInit, OrderInv
  <2>4. QED
    BY <2>2, <2>3
<1>3. RecordInv
  <2>1. ASSUME NEW i \in Record PROVE rows[i] = 0 /\ drops[i] = 0 /\ i \notin lost /\ i \in Nat /\ ~(i <= made) /\ i > made
    BY WriterConstants DEF Init, WriterInit, Record
  <2>2. QED
    BY <1>1, <2>1 DEF RecordInv, Settled
<1>4. AppTypes /\ AppInv
  <2>1. 0 \in 0..MaxBusy /\ 0 \in 0..MaxFaults
    BY LifespanConstants
  <2>2. AppTypes
    BY <2>1 DEF Init, AppTypes
  <2>3. AppInv
    BY DEF Init, WriterInit, AppInv, WriterMayRun
  <2>4. QED
    BY <2>2, <2>3
<1>5. QED
  BY <1>2, <1>3, <1>4, InvSplit DEF WriterInv

LEMMA RequestSteps ==
  ASSUME LifespanInv, Arrive \/ Leave \/ \E t \in Task : Spawn(t) \/ EndTask(t)
  PROVE  LifespanInv'
<1> USE InvSplit, LifespanConstants
<1>1. WriterInv /\ AppTypes /\ AppInv
  OBVIOUS
<1>2. CASE Arrive
  <2>1. WriterInv'
    BY <1>1, <1>2, WriterFrame DEF Arrive, writer, results, WriterInv, WriterTypes
  <2>2. AppTypes' /\ AppInv'
    BY <1>1, <1>2 DEF Arrive, writer, AppTypes, AppInv
  <2>3. QED
    BY <2>1, <2>2 DEF LifespanInv, TypeOK, WriterInv, AppTypes
<1>3. CASE Leave
  <2>1. busy > 0 /\ app = "up" /\ rest = <<>> /\ UNCHANGED <<app, open, worker, tasks, faults>>
        /\ busy' = busy - 1
    BY <1>1, <1>3 DEF Leave, AppInv, AppTypes
  <2>2. CASE Enqueue
    <3>1. WriterInv'
      BY <1>1, <2>1, <2>2, EnqueueStep
    <3>2. UNCHANGED <<task, rest>>
      BY <2>2 DEF Enqueue
    <3>3. AppTypes' /\ AppInv'
      BY <1>1, <2>1, <3>2 DEF AppTypes, AppInv, WriterMayRun
    <3>4. QED
      BY <3>1, <3>3 DEF LifespanInv, TypeOK, WriterInv, AppTypes
  <2>3. CASE UNCHANGED writer
    <3>1. WriterInv'
      BY <1>1, <2>3, WriterFrame DEF writer, results, WriterInv, WriterTypes
    <3>2. AppTypes' /\ AppInv'
      BY <1>1, <2>1, <2>3 DEF AppTypes, AppInv, writer
    <3>3. QED
      BY <3>1, <3>2 DEF LifespanInv, TypeOK, WriterInv, AppTypes
  <2>4. QED
    BY <1>3, <2>2, <2>3 DEF Leave
<1>4. ASSUME NEW t \in Task, Spawn(t) PROVE LifespanInv'
  <2>1. WriterInv'
    BY <1>1, <1>4, WriterFrame DEF Spawn, writer, results, WriterInv, WriterTypes
  <2>2. app = "up"
    BY <1>1, <1>4 DEF Spawn, AppInv, AppTypes
  <2>3. AppTypes' /\ AppInv'
    BY <1>1, <1>4, <2>2 DEF Spawn, writer, AppTypes, AppInv, WriterMayRun
  <2>4. QED
    BY <2>1, <2>3 DEF LifespanInv, TypeOK, WriterInv, AppTypes
<1>5. ASSUME NEW t \in Task, EndTask(t) PROVE LifespanInv'
  <2>1. WriterInv'
    BY <1>1, <1>5, WriterFrame DEF EndTask, writer, results, WriterInv, WriterTypes
  <2>2. app \in WriterMayRun \cup {"flush", "tasks"} /\ open = Client /\ "redis" \in Client
    BY <1>1, <1>5 DEF EndTask, AppInv, Client
  <2>3. open' = open /\ tasks' \subseteq tasks
    BY <1>5, <2>2 DEF EndTask
  <2>4. AppTypes' /\ AppInv'
    BY <1>1, <1>5, <2>2, <2>3 DEF EndTask, writer, AppTypes, AppInv
  <2>5. QED
    BY <2>1, <2>4 DEF LifespanInv, TypeOK, WriterInv, AppTypes
<1>6. QED
  BY <1>2, <1>3, <1>4, <1>5

LEMMA WriterSteps ==
  ASSUME LifespanInv, RunWriter
  PROVE  LifespanInv'
<1>1. WriterInv /\ AppTypes /\ AppInv
  BY InvSplit
<1>2. /\ UNCHANGED <<app, busy, worker, tasks>>
      /\ app \in WriterMayRun /\ rest = <<>> /\ open = Client /\ "db" \in Client
  BY <1>1 DEF RunWriter, Loop, CollectBatch, Flush, AppInv, WriterMayRun, Client
<1>3. open' = open /\ faults' \in 0..MaxFaults /\ WriterInv' /\ rest' = rest
  <2>1. CASE Loop /\ UNCHANGED <<open, faults>>
    BY <1>1, <2>1, LoopStep DEF AppTypes, Loop
  <2>2. CASE CollectBatch /\ UNCHANGED <<open, faults>>
    BY <1>1, <1>2, <2>2, CollectStep DEF AppTypes, CollectBatch
  <2>3. CASE Flush(FALSE) /\ open' = open \cup {"db"} /\ UNCHANGED faults
    BY <1>1, <1>2, <2>3, FlushStep DEF AppTypes, Flush
  <2>4. CASE Flush(TRUE) /\ open' = open \cup {"db"} /\ Fault
    BY <1>1, <1>2, <2>4, FlushStep, FaultType DEF AppTypes, Flush
  <2>5. QED
    BY <2>1, <2>2, <2>3, <2>4 DEF RunWriter
<1>4. AppTypes' /\ AppInv'
  BY <1>1, <1>2, <1>3 DEF AppTypes, AppInv, WriterMayRun
<1>5. QED
  BY <1>3, <1>4 DEF LifespanInv, TypeOK, WriterInv, AppTypes

LEMMA ShutdownSteps ==
  ASSUME LifespanInv,
         \/ Startup \/ Shutdown \/ StopWorker \/ StopWriter \/ StopTasks \/ Restart
         \/ \E c \in Client : Close(c)
  PROVE  LifespanInv'
<1>1. WriterInv /\ AppTypes /\ AppInv /\ stop \in BOOLEAN
  BY InvSplit DEF WriterInv, WriterTypes
<1>2. CASE Startup
  <2>1. /\ app = "start" /\ app' = "up" /\ open' = Client /\ worker' = TRUE
        /\ task = "off" /\ task' = "loop" /\ stop' = FALSE
        /\ UNCHANGED <<made, queue, batch, rest, results, busy, tasks, faults>>
    BY <1>2 DEF Startup, StartWriter
  <2>2. batch = <<>> /\ rest = <<>> /\ queue = <<>> /\ busy = 0 /\ tasks = {}
    BY <1>1, <2>1 DEF WriterInv, OrderInv, AppInv, WriterMayRun
  <2>3. WriterTypes' /\ OrderInv'
    BY <1>1, <2>1 DEF WriterInv, WriterTypes, OrderInv, results
  <2>4. RecordInv'
    BY <1>1, <2>1, RecordFrame DEF WriterInv, InMemory
  <2>5. AppTypes'
    BY <1>1, <2>1 DEF AppTypes
  <2>6. AppInv'
    BY <1>1, <2>1, <2>2 DEF AppInv, WriterMayRun
  <2>7. QED
    BY <2>3, <2>4, <2>5, <2>6 DEF LifespanInv, TypeOK, AppTypes
<1>3. CASE Shutdown
  <2>1. WriterInv'
    BY <1>1, <1>3, WriterFrame DEF Shutdown, writer, results
  <2>2. app = "up" /\ app' = "worker" /\ busy = 0
        /\ UNCHANGED <<task, queue, rest, open, busy, worker, tasks, faults>>
    BY <1>3, Steps DEF Shutdown, writer
  <2>3. AppTypes' /\ AppInv'
    BY <1>1, <2>2, StepsIn DEF AppTypes, AppInv, WriterMayRun
  <2>4. QED
    BY <2>1, <2>3 DEF LifespanInv, TypeOK, WriterInv, AppTypes
<1>4. CASE StopWorker
  <2>1. WriterInv'
    BY <1>1, <1>4, WriterFrame DEF StopWorker, writer, results
  <2>2. app = "worker" /\ app' = "writer" /\ worker' = FALSE
        /\ UNCHANGED <<task, queue, rest, open, busy, tasks, faults>>
    BY <1>4, AfterStep DEF StopWorker, writer
  <2>3. AppTypes' /\ AppInv'
    BY <1>1, <2>2, StepsIn DEF AppTypes, AppInv, WriterMayRun
  <2>4. QED
    BY <2>1, <2>3 DEF LifespanInv, TypeOK, WriterInv, AppTypes
<1>5. CASE StopWriter
  <2>1. WriterInv'
    BY <1>1, <1>5, WriterFrame DEF StopWriter, results
  <2>2. app = "writer" /\ app' = "drain"
        /\ UNCHANGED <<task, queue, rest, open, busy, worker, tasks, faults>>
    BY <1>5, AfterStep DEF StopWriter
  <2>3. AppTypes' /\ AppInv'
    BY <1>1, <2>2, StepsIn DEF AppTypes, AppInv, WriterMayRun
  <2>4. QED
    BY <2>1, <2>3 DEF LifespanInv, TypeOK, WriterInv, AppTypes
<1>6. CASE StopTasks
  <2>1. WriterInv'
    BY <1>1, <1>6, WriterFrame DEF StopTasks, writer, results
  <2>2. app = "tasks" /\ app' = "http" /\ tasks = {}
        /\ UNCHANGED <<task, queue, rest, open, busy, worker, tasks, faults>>
    BY <1>6, AfterStep DEF StopTasks, writer
  <2>3. AppTypes' /\ AppInv'
    BY <1>1, <2>2, StepsIn DEF AppTypes, AppInv, WriterMayRun
  <2>4. QED
    BY <2>1, <2>3 DEF LifespanInv, TypeOK, WriterInv, AppTypes
<1>7. CASE Restart
  <2>1. WriterInv'
    BY <1>1, <1>7, WriterFrame DEF Restart, results
  <2>2. app = "down" /\ app' = "start"
        /\ UNCHANGED <<task, queue, rest, open, busy, worker, tasks, faults>>
    BY <1>7 DEF Restart
  <2>3. AppTypes' /\ AppInv'
    BY <1>1, <2>2 DEF AppTypes, AppInv, WriterMayRun
  <2>4. QED
    BY <2>1, <2>3 DEF LifespanInv, TypeOK, WriterInv, AppTypes
<1>8. ASSUME NEW c \in Client, Close(c) PROVE LifespanInv'
  <2>1. WriterInv'
    BY <1>1, <1>8, WriterFrame DEF Close, writer, results
  <2>2. UNCHANGED <<task, queue, rest, busy, worker, tasks, faults>> /\ open' = open \ {c}
        /\ app = c /\ app' \in In(Order)
    BY <1>8, AfterStep DEF Close, writer
  <2>3. \/ c = "http" /\ app' = "redis" /\ open' = {"redis", "db"}
        \/ c = "redis" /\ app' = "db" /\ open' = {"db"}
        \/ c = "db" /\ app' = "down" /\ open' = {}
    <3>1. CASE c = "http"
      BY <1>1, <1>8, <2>2, <3>1, AfterStep DEF Close, AppInv, Client
    <3>2. CASE c = "redis"
      BY <1>1, <1>8, <2>2, <3>2, AfterStep DEF Close, AppInv
    <3>3. CASE c = "db"
      BY <1>1, <1>8, <2>2, <3>3, AfterStep DEF Close, AppInv
    <3>4. QED
      BY <3>1, <3>2, <3>3 DEF Client
  <2>4. AppTypes'
    BY <1>1, <2>2 DEF AppTypes
  <2>5. worker = FALSE /\ tasks = {} /\ busy = 0 /\ task = "off" /\ queue = <<>> /\ rest = <<>>
    BY <1>1, <2>2, <2>3 DEF AppInv, AppTypes, WriterMayRun
  <2>6. AppInv'
    BY <2>2, <2>3, <2>5 DEF AppInv, WriterMayRun
  <2>7. QED
    BY <2>1, <2>4, <2>6 DEF LifespanInv, TypeOK, WriterInv, AppTypes
<1>9. QED
  BY <1>2, <1>3, <1>4, <1>5, <1>6, <1>7, <1>8

LEMMA DrainSteps ==
  ASSUME LifespanInv, DrainWriter \/ FlushWriter \/ Crash
  PROVE  LifespanInv'
<1>1. WriterInv /\ AppTypes /\ AppInv
  BY InvSplit
<1>2. CASE DrainWriter
  <2>1. /\ app = "drain" /\ app' = "flush" /\ task = "off" /\ task' = task /\ queue' = <<>>
        /\ UNCHANGED <<open, busy, worker, tasks, faults>> /\ Drain
    BY <1>2, AfterStep DEF DrainWriter, Drain
  <2>2. WriterInv'
    BY <1>1, <2>1, DrainStep DEF AppInv
  <2>3. AppTypes' /\ AppInv'
    BY <1>1, <2>1, StepsIn DEF AppTypes, AppInv, WriterMayRun
  <2>4. QED
    BY <2>2, <2>3 DEF LifespanInv, TypeOK, WriterInv, AppTypes
<1>3. CASE FlushWriter
  <2>1. /\ app = "flush" /\ app' = "tasks" /\ UNCHANGED <<busy, worker, tasks>>
        /\ open' \in {open, open \cup {"db"}} /\ rest' = <<>> /\ UNCHANGED <<task, queue>>
    BY <1>3, AfterStep DEF FlushWriter, FlushRest
  <2>2. open = Client /\ open' = Client
    BY <1>1, <2>1 DEF AppInv, Client
  <2>3. WriterInv' /\ faults' \in 0..MaxFaults
    BY <1>1, <1>3, FlushRestStep, FaultType DEF FlushWriter, AppTypes
  <2>4. AppTypes' /\ AppInv'
    BY <1>1, <2>1, <2>2, <2>3, StepsIn DEF AppTypes, AppInv, WriterMayRun
  <2>5. QED
    BY <2>3, <2>4 DEF LifespanInv, TypeOK, WriterInv, AppTypes
<1>4. CASE Crash
  <2>1. /\ app' = "start" /\ open' = {} /\ busy' = 0 /\ worker' = FALSE /\ tasks' = {}
        /\ task' = "off" /\ queue' = <<>> /\ rest' = <<>>
    BY <1>4 DEF Crash, WriterCrash
  <2>2. WriterInv' /\ faults' \in 0..MaxFaults
    BY <1>1, <1>4, CrashStep, FaultType DEF Crash, AppTypes
  <2>3. 0 \in 0..MaxBusy
    BY LifespanConstants
  <2>4. AppTypes' /\ AppInv'
    BY <2>1, <2>2, <2>3 DEF AppTypes, AppInv, WriterMayRun
  <2>5. QED
    BY <2>2, <2>4 DEF LifespanInv, TypeOK, WriterInv, AppTypes
<1>5. QED
  BY <1>2, <1>3, <1>4

LEMMA StutterStep ==
  ASSUME LifespanInv, UNCHANGED vars
  PROVE  LifespanInv'
<1>1. WriterInv /\ AppTypes /\ AppInv
  BY InvSplit
<1>2. WriterInv'
  BY <1>1, WriterFrame DEF vars, writer, results, WriterInv, WriterTypes
<1>3. AppTypes' /\ AppInv'
  BY <1>1 DEF vars, writer, AppTypes, AppInv
<1>4. QED
  BY <1>2, <1>3 DEF LifespanInv, TypeOK, WriterInv, AppTypes

(* Every reachable state of a process satisfies LifespanInv. *)
THEOREM LifespanCorrect == Spec => []LifespanInv
<1>1. Init => LifespanInv
  BY InitStep
<1>2. LifespanInv /\ [Next]_vars => LifespanInv'
  <2> SUFFICES ASSUME LifespanInv, [Next]_vars PROVE LifespanInv'
    OBVIOUS
  <2>1. CASE Next
    BY <2>1, RequestSteps, WriterSteps, ShutdownSteps, DrainSteps DEF Next, Lifecycle
  <2>2. CASE UNCHANGED vars
    BY <2>2, StutterStep
  <2>3. QED
    BY <2>1, <2>2
<1>3. QED
  BY <1>1, <1>2, PTL DEF Spec

-----------------------------------------------------------------------------
(* What follows *)

(* The concatenation of the three containers has no record twice. *)
LEMMA HeldFacts ==
  ASSUME WriterInv
  PROVE  /\ In(Held) = InMemory
         /\ \A j, k \in 1..Len(Held) : Held[j] = Held[k] => j = k
<1> USE DEF WriterInv
<1>1. batch \in Seq(Record) /\ rest \in Seq(Record) /\ queue \in Seq(Record)
  BY DEF WriterTypes
<1> DEFINE c == batch \o rest
<1>2. c \in Seq(Record) /\ In(c) = In(batch) \cup In(rest)
  BY <1>1, InConcat, ConcatProperties
<1>3. Ascending(c) /\ Before(c, queue)
  <2>1. CASE rest = <<>>
    BY <1>1, <2>1, ConcatEmptySeq DEF OrderInv
  <2>2. CASE rest # <<>>
    <3>1. batch = <<>> /\ queue = <<>>
      BY <2>2 DEF OrderInv
    <3>2. c = rest
      BY <1>1, <3>1, ConcatEmptySeq
    <3>3. QED
      BY <3>1, <3>2, InEmpty DEF OrderInv, Before
  <2>3. QED
    BY <2>1, <2>2
<1>4. Held = c \o queue
  BY DEF Held
<1> HIDE DEF c
<1>5. /\ Len(Held) = Len(c) + Len(queue) /\ Len(c) \in Nat /\ Len(queue) \in Nat
      /\ \A i \in 1..Len(Held) : Held[i] = IF i <= Len(c) THEN c[i] ELSE queue[i - Len(c)]
  BY <1>1, <1>2, <1>4, ConcatProperties
<1>6. In(Held) = InMemory
  BY <1>1, <1>2, <1>4, InConcat DEF InMemory
<1>7. ASSUME NEW j \in 1..Len(Held), NEW k \in 1..Len(Held), j < k
      PROVE  Held[j] < Held[k]
  <2>1. CASE k <= Len(c)
    BY <1>3, <1>5, <1>7, <2>1 DEF Ascending
  <2>2. CASE j <= Len(c) /\ k > Len(c)
    <3>1. Held[j] = c[j] /\ Held[k] = queue[k - Len(c)]
          /\ j \in 1..Len(c) /\ k - Len(c) \in 1..Len(queue)
      BY <1>5, <2>2
    <3>2. QED
      BY <1>3, <3>1 DEF Before, In
  <2>3. CASE j > Len(c)
    <3>1. Held[j] = queue[j - Len(c)] /\ Held[k] = queue[k - Len(c)]
          /\ j - Len(c) \in 1..Len(queue) /\ k - Len(c) \in 1..Len(queue)
          /\ j - Len(c) < k - Len(c)
      BY <1>5, <1>7, <2>3
    <3>2. QED
      BY <3>1 DEF OrderInv, Ascending
  <2>4. QED
    BY <1>5, <2>1, <2>2, <2>3
<1>8. \A j, k \in 1..Len(Held) : Held[j] = Held[k] => j = k
  <2>1. \A j \in 1..Len(Held) : Held[j] \in Nat
    BY <1>6, MemoryTypes DEF In, InMemory
  <2>2. SUFFICES ASSUME NEW j \in 1..Len(Held), NEW k \in 1..Len(Held), Held[j] = Held[k], j # k
                 PROVE  FALSE
    OBVIOUS
  <2>3. j < k \/ k < j
    BY <1>5, <2>2
  <2>4. QED
    BY <1>7, <2>1, <2>2, <2>3
<1>9. QED
  BY <1>6, <1>8

(* Types, and the bounds on queue and batch, in every state. *)
THEOREM LifespanTypes == Spec => []TypeOK
  BY LifespanCorrect, PTL DEF LifespanInv

(* Conservation: enqueue, the batches, the drain of stop() and crashes     *)
(* never forget a record, duplicate one or write its row twice.            *)
THEOREM RecordsAccounted == Spec => []Accounted
<1>1. LifespanInv => Accounted
  <2> SUFFICES ASSUME LifespanInv, NEW i \in 1..made
               PROVE  /\ rows[i] <= 1 /\ drops[i] <= 1
                      /\ ~(Settled(i) /\ i \in lost)
                      /\ (~Settled(i) /\ i \notin lost) <=> i \in In(Held)
                      /\ \A j, k \in 1..Len(Held) : Held[j] = i /\ Held[k] = i => j = k
    BY DEF Accounted
  <2>1. WriterInv
    BY InvSplit
  <2>2. i \in Record /\ i <= made
    BY <2>1, WriterConstants DEF WriterInv, WriterTypes, Record
  <2>3. QED
    BY <2>1, <2>2, HeldFacts DEF WriterInv, RecordInv
<1>2. QED
  BY <1>1, LifespanCorrect, PTL

(* Rows appear in the order of the requests. *)
THEOREM RowsInOrder == Spec => []InOrder
<1>1. LifespanInv => InOrder
  <2> SUFFICES ASSUME LifespanInv, NEW i \in 1..made, NEW j \in 1..made, i < j, rows[j] > 0
               PROVE  i \notin In(Held)
    BY DEF InOrder
  <2>1. WriterInv
    BY InvSplit
  <2>2. j \in Record /\ i \in Nat /\ j \in Nat
    BY <2>1, WriterConstants DEF WriterInv, WriterTypes, Record
  <2>3. \A k \in InMemory : j < k
    BY <2>1, <2>2 DEF WriterInv, RecordInv
  <2>4. QED
    BY <2>1, <2>2, <2>3, HeldFacts
<1>2. QED
  BY <1>1, LifespanCorrect, PTL

(* The finally block closes no client that anything still uses. *)
THEOREM NothingClosedInUse == Spec => []OpenWhileUsed
<1>1. LifespanInv => OpenWhileUsed
  <2> SUFFICES ASSUME LifespanInv PROVE OpenWhileUsed
    OBVIOUS
  <2>1. WriterInv /\ AppTypes /\ AppInv
    BY InvSplit
  <2>2. busy > 0 => open = Client
    BY <2>1 DEF AppInv, AppTypes, WriterMayRun
  <2>3. worker => {"redis", "db"} \subseteq open
    BY <2>1 DEF AppInv, WriterMayRun, Client
  <2>4. tasks # {} => {"http", "redis"} \subseteq open
    BY <2>1 DEF AppInv, WriterMayRun, Client
  <2>5. batch \o rest # <<>> => "db" \in open
    <3>1. batch \in Seq(Record) /\ rest \in Seq(Record)
      BY <2>1 DEF WriterInv, WriterTypes
    <3>2. CASE batch = <<>> /\ rest = <<>>
      BY <3>1, <3>2, ConcatEmptySeq
    <3>3. CASE batch # <<>>
      BY <2>1, <3>3 DEF WriterInv, OrderInv, AppInv, WriterMayRun, Client
    <3>4. CASE rest # <<>>
      BY <2>1, <3>4 DEF AppInv, Client
    <3>5. QED
      BY <3>2, <3>3, <3>4
  <2>6. QED
    BY <2>2, <2>3, <2>4, <2>5 DEF OpenWhileUsed
<1>2. QED
  BY <1>1, LifespanCorrect, PTL

(* An orderly shutdown leaves nothing running, open or unwritten. *)
THEOREM ShutdownIsClean == Spec => []CleanShutdown
<1>1. LifespanInv => CleanShutdown
  <2> SUFFICES ASSUME LifespanInv, app = "down"
               PROVE  /\ open = {} /\ ~worker /\ tasks = {} /\ task = "off"
                      /\ \A i \in 1..made : Settled(i) \/ i \in lost
    BY DEF CleanShutdown
  <2>1. WriterInv /\ AppTypes /\ AppInv
    BY InvSplit
  <2>2. open = {} /\ ~worker /\ tasks = {} /\ task = "off" /\ queue = <<>> /\ rest = <<>>
    BY <2>1 DEF AppInv, WriterMayRun
  <2>3. InMemory = {}
    BY <2>1, <2>2, InEmpty DEF WriterInv, OrderInv, InMemory
  <2>4. ASSUME NEW i \in 1..made PROVE Settled(i) \/ i \in lost
    <3>1. i \in Record /\ i <= made
      BY <2>1, WriterConstants DEF WriterInv, WriterTypes, Record
    <3>2. QED
      BY <2>1, <2>3, <3>1 DEF WriterInv, RecordInv
  <2>5. QED
    BY <2>2, <2>4
<1>2. QED
  BY <1>1, LifespanCorrect, PTL
=============================================================================
