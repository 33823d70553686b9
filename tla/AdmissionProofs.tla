-------------------------- MODULE AdmissionProofs --------------------------
(***************************************************************************)
(* Proofs about Admission, for any number of requests, clients, proxies    *)
(* and keys: a client is counted under its own address, so the limit holds *)
(* for it, and a void credential is never acted upon.                      *)
(***************************************************************************)
EXTENDS Admission, SequenceTheorems, TLAPS

-----------------------------------------------------------------------------
(* client_ip *)

(* The walk ends at position k when that is the first untrusted hop. *)
LEMMA WalkEnds ==
  ASSUME NEW peer, NEW chain, Len(chain) \in Nat, Len(chain) <= MaxHops,
         NEW k \in 0..Len(chain), NEW a, a \notin Trusted, a # Garbage,
         a = IF k = 0 THEN peer ELSE chain[Len(chain) + 1 - k],
         \A j \in 0..k - 1 : (IF j = 0 THEN peer ELSE chain[Len(chain) + 1 - j]) \in Trusted
  PROVE  ClientIp(peer, chain) = a
<1> DEFINE n == Len(chain)
           hop(i) == IF i = 0 THEN peer ELSE chain[n + 1 - i]
           P(i) == /\ i = n \/ hop(i) \notin Trusted
                   /\ \A j \in 0..i - 1 : hop(j) \in Trusted
           end == CHOOSE i \in 0..n : P(i)
<1>1. P(k)
  OBVIOUS
<1>2. ASSUME NEW i \in 0..n, P(i) PROVE i = k
  <2>1. CASE i < k
    <3>1. i \in 0..k - 1
      BY <2>1
    <3>2. hop(i) \in Trusted /\ i # n
      BY <2>1, <3>1
    <3>3. QED
      BY <1>2, <3>2
  <2>2. CASE i > k
    <3>1. k \in 0..i - 1
      BY <2>2
    <3>2. hop(k) \in Trusted
      BY <1>2, <3>1
    <3>3. QED
      BY <3>2
  <2>3. QED
    BY <2>1, <2>2
<1>3. end = k
  <2> HIDE DEF P
  <2>1. end \in 0..n /\ P(end)
    BY <1>1
  <2>2. QED
    BY <1>2, <2>1
<1>4. ClientIp(peer, chain) = IF n > MaxHops \/ hop(end) = Garbage THEN peer ELSE hop(end)
  BY DEF ClientIp
<1>5. hop(end) = a
  <2>1. hop(k) = a
    OBVIOUS
  <2> HIDE DEF end, hop
  <2>2. QED
    BY <1>3, <2>1
<1>6. ~(n > MaxHops)
  BY LimiterConstants
<1>7. QED
  <2> HIDE DEF end, hop
  <2>1. QED
    BY <1>4, <1>5, <1>6

(* An untrusted peer is believed, whatever it sends. *)
LEMMA DirectPeer ==
  ASSUME NEW peer, NEW chain, Len(chain) \in Nat, peer \notin Trusted, peer # Garbage
  PROVE  ClientIp(peer, chain) = peer
<1>1. CASE Len(chain) <= MaxHops
  BY <1>1, WalkEnds
<1>2. CASE Len(chain) > MaxHops
  BY <1>2 DEF ClientIp
<1>3. QED
  BY <1>1, <1>2, LimiterConstants

(* However a request comes, as long as its chain is walked, it is counted  *)
(* for the client that sent it.                                            *)
LEMMA CountedForSender ==
  ASSUME NEW c \in Client, NEW way \in Seen(c), Sender(c, way) # {}
  PROVE  ClientIp(way[1], way[2]) = c
<1> DEFINE S == Address \cup {Garbage}
<1>1. c \in Address /\ c \notin Trusted /\ c # Garbage
  BY LimiterConstants, AdmissionConstants
<1>2. \A h \in Sent : h \in Seq(S) /\ Len(h) \in Nat
  <2>1. SUFFICES ASSUME NEW h \in Sent PROVE h \in Seq(S)
    BY LenProperties
  <2>2. PICK n \in 0..MaxSent : h \in [1..n -> S]
    BY DEF Sent
  <2>3. n \in Nat
    BY AdmissionConstants
  <2>4. QED
    BY <2>2, <2>3
<1>3. CASE way \in {c} \X Direct
  <2>1. way[1] = c /\ way[2] \in Direct
    BY <1>3
  <2>2. PICK h \in Sent : way[2] = IF h = <<>> THEN <<Garbage>> ELSE h
    BY <2>1 DEF Direct
  <2>3. Len(<<Garbage>>) = 1
    OBVIOUS
  <2>4. Len(way[2]) \in Nat
    BY <1>2, <2>2, <2>3
  <2>5. QED
    BY <1>1, <2>1, <2>4, DirectPeer
<1>4. CASE way \in Trusted \X {h \o v : h \in Sent, v \in Hops(c)}
  <2> DEFINE p == way[1]
             ch == way[2]
  <2>1. p \in Trusted /\ ch \in {h \o v : h \in Sent, v \in Hops(c)}
    BY <1>4
  <2>2. PICK h \in Sent, v \in Hops(c) : ch = h \o v
    BY <2>1
  <2>3. h \in Seq(S) /\ Len(h) \in Nat
    BY <1>2
  <2>4. Len(ch) <= MaxHops \/ Len(ch) \notin Nat
    BY <2>1, LimiterConstants DEF Sender
  <2> HIDE DEF p, ch, S
  <2>5. CASE v = <<c>>
    <3>1. v \in Seq(S) /\ Len(v) = 1 /\ v[1] = c
      BY <1>1, <2>5 DEF S
    <3>2. Len(ch) = Len(h) + 1 /\ ch[Len(h) + 1] = c
      <4>1. /\ Len(ch) = Len(h) + Len(v)
            /\ \A i \in 1..Len(h) + Len(v) : ch[i] = IF i <= Len(h) THEN h[i] ELSE v[i - Len(h)]
        BY <2>2, <2>3, <3>1, ConcatProperties
      <4>2. /\ Len(h) + 1 \in 1..Len(h) + Len(v) /\ ~(Len(h) + 1 <= Len(h))
            /\ (Len(h) + 1) - Len(h) = 1
        BY <2>3, <3>1
      <4>3. QED
        BY <3>1, <4>1, <4>2
    <3>3. /\ Len(ch) \in Nat /\ Len(ch) <= MaxHops /\ 1 \in 0..Len(ch)
          /\ Len(ch) + 1 - 1 = Len(h) + 1
      BY <2>3, <2>4, <3>2
    <3>4. \A j \in 0..1 - 1 : (IF j = 0 THEN p ELSE ch[Len(ch) + 1 - j]) \in Trusted
      BY <2>1
    <3>5. c = IF 1 = 0 THEN p ELSE ch[Len(ch) + 1 - 1]
      BY <3>2, <3>3
    <3>6. ClientIp(p, ch) = c
      BY <1>1, <3>3, <3>4, <3>5, WalkEnds
    <3>7. QED
      BY <3>6 DEF p, ch
  <2>6. ASSUME NEW q \in Trusted, v = <<c, q>> PROVE ClientIp(way[1], way[2]) = c
    <3>1. v \in Seq(S) /\ Len(v) = 2 /\ v[1] = c /\ v[2] = q
      BY <1>1, <2>6, LimiterConstants DEF S
    <3>2. Len(ch) = Len(h) + 2 /\ ch[Len(h) + 1] = c /\ ch[Len(h) + 2] = q
      <4>1. /\ Len(ch) = Len(h) + Len(v)
            /\ \A i \in 1..Len(h) + Len(v) : ch[i] = IF i <= Len(h) THEN h[i] ELSE v[i - Len(h)]
        BY <2>2, <2>3, <3>1, ConcatProperties
      <4>2. /\ Len(h) + 1 \in 1..Len(h) + Len(v) /\ ~(Len(h) + 1 <= Len(h))
            /\ Len(h) + 2 \in 1..Len(h) + Len(v) /\ ~(Len(h) + 2 <= Len(h))
            /\ (Len(h) + 1) - Len(h) = 1 /\ (Len(h) + 2) - Len(h) = 2
        BY <2>3, <3>1
      <4>3. QED
        BY <3>1, <4>1, <4>2
    <3>3. /\ Len(ch) \in Nat /\ Len(ch) <= MaxHops /\ 2 \in 0..Len(ch)
          /\ Len(ch) + 1 - 1 = Len(h) + 2 /\ Len(ch) + 1 - 2 = Len(h) + 1
      BY <2>3, <2>4, <3>2
    <3>4. \A j \in 0..2 - 1 : (IF j = 0 THEN p ELSE ch[Len(ch) + 1 - j]) \in Trusted
      <4>1. \A j \in 0..2 - 1 : j = 0 \/ j = 1
        OBVIOUS
      <4>2. QED
        BY <2>1, <3>2, <3>3, <4>1
    <3>5. c = IF 2 = 0 THEN p ELSE ch[Len(ch) + 1 - 2]
      BY <3>2, <3>3
    <3>6. ClientIp(p, ch) = c
      BY <1>1, <3>3, <3>4, <3>5, WalkEnds
    <3>7. QED
      BY <3>6 DEF p, ch
  <2>7. v = <<c>> \/ \E q \in Trusted : v = <<c, q>>
    BY DEF Hops
  <2>8. QED
    BY <2>5, <2>6, <2>7 DEF p, ch
<1>5. QED
  BY <1>3, <1>4 DEF Seen

-----------------------------------------------------------------------------
(* The counters *)

LEMMA IncrGrows ==
  ASSUME LimiterTypes, NEW a, Incr(a)
  PROVE  /\ hits' \in [Address -> 0..Limit + 1] /\ left' \in [Address -> 0..Window]
         /\ \A x \in Address : hits'[x] >= hits[x]
         /\ a \in Address /\ Allowed(a) => hits'[a] = hits[a] + 1
         /\ \A x \in Address :
               \/ left'[x] = left[x] /\ hits'[x] = hits[x]
               \/ left'[x] = (IF hits[x] = 0 THEN Window ELSE left[x])
<1> DEFINE h(x) == IF x = a THEN (IF hits[x] > Limit THEN hits[x] ELSE hits[x] + 1) ELSE hits[x]
           l(x) == IF x = a THEN (IF hits[x] = 0 THEN Window ELSE left[x]) ELSE left[x]
<1>1. hits' = [x \in Address |-> h(x)] /\ left' = [x \in Address |-> l(x)]
  BY DEF Incr, LimiterTypes
<1>2. ASSUME NEW x \in Address
      PROVE  h(x) \in 0..Limit + 1 /\ h(x) >= hits[x] /\ l(x) \in 0..Window
  <2>1. hits[x] \in 0..Limit + 1 /\ left[x] \in 0..Window /\ Limit \in Nat /\ Window \in Nat
    BY LimiterConstants DEF LimiterTypes
  <2>2. QED
    BY <2>1
<1>3. a \in Address /\ Allowed(a) => h(a) = hits[a] + 1
  <2>1. SUFFICES ASSUME a \in Address, hits[a] + 1 <= Limit PROVE h(a) = hits[a] + 1
    BY DEF Allowed
  <2>2. hits[a] \in Nat /\ Limit \in Nat
    BY <2>1, LimiterConstants DEF LimiterTypes
  <2>3. QED
    BY <2>1, <2>2
<1>4. QED
  BY <1>1, <1>2, <1>3

LEMMA LimiterFrame ==
  ASSUME LimiterTypes, CountInv, SpanInv, UNCHANGED limiter
  PROVE  LimiterTypes' /\ CountInv' /\ SpanInv'
  BY DEF LimiterTypes, CountInv, SpanInv, limiter

(* What the types say of one client. *)
LEMMA ClientTypes ==
  ASSUME LimiterTypes, NEW c \in Client
  PROVE  /\ c \in Address /\ Limit \in Nat /\ Limit > 0 /\ Window \in Nat /\ Window > 0
         /\ hits[c] \in Nat /\ left[c] \in 0..Window /\ passed[c] \in Nat
         /\ recent[c] \in [Last -> 0..Window]
  BY LimiterConstants, AdmissionConstants DEF LimiterTypes

(* Every place of the history but the first has one before it. *)
LEMMA LastBefore ==
  ASSUME NEW i \in Last
  PROVE  i \in Nat /\ 1 <= i /\ (i > 1 => i - 1 \in Last)
  BY LimiterConstants DEF Last

(* A hit that lets nobody through keeps the history in its windows. *)
LEMMA UncountedSpan ==
  ASSUME LimiterTypes, SpanInv, NEW a, Incr(a) \/ UNCHANGED <<hits, left>>,
         UNCHANGED <<passed, recent>>
  PROVE  SpanInv'
<1>1. CASE UNCHANGED <<hits, left>>
  BY <1>1 DEF SpanInv
<1>2. CASE Incr(a)
  <2> SUFFICES ASSUME NEW c \in Client
               PROVE  /\ left'[c] = 0 => hits'[c] = 0
                      /\ \A i \in Last : left'[c] > 0 /\ i > passed[c]
                                         => recent[c][i] + left'[c] >= Window
    BY DEF SpanInv
  <2>1. /\ c \in Address /\ Window \in Nat /\ Window > 0 /\ hits[c] \in Nat
        /\ left[c] \in 0..Window /\ recent[c] \in [Last -> 0..Window]
    BY ClientTypes
  <2>2. \/ left'[c] = left[c] /\ hits'[c] = hits[c]
        \/ left'[c] = IF hits[c] = 0 THEN Window ELSE left[c]
    BY <1>2, <2>1, IncrGrows
  <2>3. /\ left[c] = 0 => hits[c] = 0
        /\ \A i \in Last : left[c] > 0 /\ i > passed[c] => recent[c][i] + left[c] >= Window
    BY DEF SpanInv
  <2>4. \A i \in Last : recent[c][i] + Window >= Window
    BY <2>1
  <2> QED
    BY <2>1, <2>2, <2>3, <2>4
<1>3. QED
  BY <1>1, <1>2

(* Hits that let nobody through *)
LEMMA UncountedHit ==
  ASSUME LimiterTypes, CountInv, SpanInv, NEW a, Incr(a) \/ UNCHANGED <<hits, left>>,
         UNCHANGED <<passed, recent>>
  PROVE  LimiterTypes' /\ CountInv' /\ SpanInv'
<1>0. SpanInv'
  BY UncountedSpan
<1>1. CASE UNCHANGED <<hits, left>>
  BY <1>0, <1>1 DEF LimiterTypes, CountInv
<1>2. CASE Incr(a)
  <2>1. /\ hits' \in [Address -> 0..Limit + 1] /\ left' \in [Address -> 0..Window]
        /\ \A x \in Address : hits'[x] >= hits[x]
    BY <1>2, IncrGrows
  <2>2. LimiterTypes'
    BY <2>1 DEF LimiterTypes
  <2>3. ASSUME NEW c \in Client PROVE passed'[c] <= hits'[c] /\ passed'[c] <= Limit
    <3>1. c \in Address
      BY AdmissionConstants
    <3>2. passed[c] \in Nat /\ hits[c] \in 0..Limit + 1 /\ hits'[c] \in 0..Limit + 1 /\ Limit \in Nat
          /\ hits'[c] >= hits[c] /\ passed[c] <= hits[c] /\ passed[c] <= Limit
      BY <2>1, <3>1, LimiterConstants DEF LimiterTypes, CountInv
    <3>3. QED
      BY <3>2
  <2>4. QED
    BY <1>0, <2>2, <2>3 DEF CountInv
<1>3. QED
  BY <1>1, <1>2

LEMMA RecordTypes ==
  ASSUME LimiterTypes, NEW C, Record(C)
  PROVE  passed' \in [Address -> Nat] /\ recent' \in [Address -> [Last -> 0..Window]]
<1>1. ASSUME NEW c \in Address
      PROVE  [i \in Last |-> IF i = 1 THEN 0 ELSE recent[c][i - 1]] \in [Last -> 0..Window]
  <2>1. recent[c] \in [Last -> 0..Window] /\ 0 \in 0..Window
    BY LimiterConstants DEF LimiterTypes
  <2>2. \A i \in Last : i # 1 => i - 1 \in Last
    BY LimiterConstants DEF Last
  <2>3. QED
    BY <2>1, <2>2
<1>2. QED
  BY <1>1 DEF Record, LimiterTypes

LEMMA CheckCounts ==
  ASSUME LimiterTypes, CountInv, SpanInv, NEW c \in Client, NEW way \in Seen(c),
         Admit(ClientIp(way[1], way[2]), Sender(c, way))
  PROVE  LimiterTypes' /\ CountInv' /\ SpanInv'
<1> DEFINE a == ClientIp(way[1], way[2])
           C == Sender(c, way)
<1>1. Incr(a) /\ Allowed(a) /\ Record(C)
  BY DEF Admit
<1>2. C = {} \/ (C = {c} /\ a = c)
  BY CountedForSender DEF Sender
<1> HIDE DEF a, C
<1>3. /\ hits' \in [Address -> 0..Limit + 1] /\ left' \in [Address -> 0..Window]
      /\ \A x \in Address : hits'[x] >= hits[x]
      /\ a \in Address => hits'[a] = hits[a] + 1
  BY <1>1, IncrGrows
<1>4. LimiterTypes'
  BY <1>1, <1>3, RecordTypes DEF LimiterTypes
<1>5. ASSUME NEW d \in Client PROVE passed'[d] <= hits'[d] /\ passed'[d] <= Limit
  <2>1. d \in Address
    BY AdmissionConstants
  <2>2. passed'[d] = IF d \in C THEN passed[d] + 1 ELSE passed[d]
    BY <1>1, <2>1 DEF Record
  <2>3. passed[d] \in Nat /\ hits[d] \in 0..Limit + 1 /\ hits'[d] \in 0..Limit + 1 /\ Limit \in Nat
        /\ hits'[d] >= hits[d] /\ passed[d] <= hits[d] /\ passed[d] <= Limit
    BY <1>3, <2>1, LimiterConstants DEF LimiterTypes, CountInv
  <2>4. CASE d \in C
    <3>1. a = d /\ hits'[d] = hits[d] + 1 /\ hits[d] + 1 <= Limit
      BY <1>1, <1>2, <1>3, <2>1, <2>4 DEF Allowed
    <3>2. QED
      BY <2>2, <2>3, <2>4, <3>1
  <2>5. CASE d \notin C
    BY <2>2, <2>3, <2>5
  <2>6. QED
    BY <2>4, <2>5
<1>6. ASSUME NEW d \in Client
      PROVE  /\ left'[d] = 0 => hits'[d] = 0
             /\ \A i \in Last : left'[d] > 0 /\ i > passed'[d] => recent'[d][i] + left'[d] >= Window
             /\ \A i \in Last : i > passed'[d] + Limit => recent'[d][i] = Window
  <2>1. /\ d \in Address /\ Limit \in Nat /\ Window \in Nat /\ Window > 0 /\ hits[d] \in Nat
        /\ left[d] \in 0..Window /\ passed[d] \in Nat /\ recent[d] \in [Last -> 0..Window]
    BY ClientTypes
  <2>2. \/ left'[d] = left[d] /\ hits'[d] = hits[d]
        \/ left'[d] = IF hits[d] = 0 THEN Window ELSE left[d]
    BY <1>1, <2>1, IncrGrows
  <2>3. /\ left[d] = 0 => hits[d] = 0
        /\ \A i \in Last : left[d] > 0 /\ i > passed[d] => recent[d][i] + left[d] >= Window
        /\ \A i \in Last : i > passed[d] + Limit => recent[d][i] = Window
    BY DEF SpanInv
  <2>4. left'[d] = 0 => hits'[d] = 0
    BY <2>1, <2>2, <2>3
  <2>5. /\ left'[d] = left[d] \/ left'[d] = Window
        /\ left'[d] = left[d] /\ hits[d] # 0 => left[d] > 0
    BY <2>1, <2>2, <2>3
  <2>6. CASE d \notin C
    <3>1. passed'[d] = passed[d] /\ recent'[d] = recent[d]
      BY <1>1, <2>1, <2>6 DEF Record
    <3>2. \A i \in Last : recent[d][i] + Window >= Window
      BY <2>1
    <3>3. QED
      BY <2>1, <2>3, <2>4, <2>5, <3>1, <3>2
  <2>7. CASE d \in C
    <3>1. /\ passed'[d] = passed[d] + 1
          /\ recent'[d] = [i \in Last |-> IF i = 1 THEN 0 ELSE recent[d][i - 1]]
      BY <1>1, <2>1, <2>7 DEF Record
    <3>2. ASSUME NEW i \in Last, i > passed[d] + 1
          PROVE  i - 1 \in Last /\ i - 1 > passed[d] /\ recent'[d][i] = recent[d][i - 1]
      <4>1. i \in Nat /\ passed[d] \in Nat
        BY <2>1, LastBefore
      <4>2. i > 1 /\ i - 1 > passed[d]
        BY <3>2, <4>1
      <4>3. i - 1 \in Last
        BY <4>2, LastBefore
      <4>4. recent'[d][i] = recent[d][i - 1]
        BY <3>1, <4>1, <4>2
      <4>5. QED
        BY <4>2, <4>3, <4>4
    <3>3. ASSUME NEW i \in Last, left'[d] > 0, i > passed'[d]
          PROVE  recent'[d][i] + left'[d] >= Window
      <4>1. i - 1 \in Last /\ i - 1 > passed[d] /\ recent'[d][i] = recent[d][i - 1]
        BY <3>1, <3>2, <3>3
      <4>2. recent[d][i - 1] \in 0..Window
        BY <2>1, <4>1
      <4>3. CASE left'[d] = Window
        BY <2>1, <4>1, <4>2, <4>3
      <4>4. CASE left'[d] = left[d]
        BY <2>3, <3>3, <4>1, <4>4
      <4>5. QED
        BY <2>5, <4>3, <4>4
    <3>4. ASSUME NEW i \in Last, i > passed'[d] + Limit PROVE recent'[d][i] = Window
      <4>1. i \in Nat /\ passed[d] \in Nat /\ Limit \in Nat /\ Limit > 0
        BY ClientTypes, LastBefore
      <4>2. i > passed[d] + 1 + Limit
        BY <3>1, <3>4
      <4>3. i > passed[d] + 1 /\ i - 1 > passed[d] + Limit
        BY <4>1, <4>2
      <4>4. i - 1 \in Last /\ recent'[d][i] = recent[d][i - 1]
        BY <3>2, <4>3
      <4>5. QED
        BY <2>3, <4>3, <4>4
    <3>5. QED
      BY <2>4, <3>3, <3>4
  <2>8. QED
    BY <2>6, <2>7
<1>7. QED
  BY <1>4, <1>5, <1>6 DEF CountInv, SpanInv

LEMMA TickCounts ==
  ASSUME LimiterTypes, CountInv, SpanInv, LimiterTick
  PROVE  LimiterTypes' /\ CountInv' /\ SpanInv'
<1>1. LimiterTypes'
  <2>1. ASSUME NEW x \in Address
        PROVE  /\ (IF left[x] = 0 THEN 0 ELSE left[x] - 1) \in 0..Window
               /\ (IF left[x] <= 1 THEN 0 ELSE hits[x]) \in 0..Limit + 1
               /\ (IF left[x] <= 1 THEN 0 ELSE passed[x]) \in Nat
               /\ [i \in Last |-> IF recent[x][i] = Window THEN Window ELSE recent[x][i] + 1]
                    \in [Last -> 0..Window]
    <3>1. left[x] \in 0..Window /\ hits[x] \in 0..Limit + 1 /\ passed[x] \in Nat
          /\ recent[x] \in [Last -> 0..Window] /\ Limit \in Nat /\ Window \in Nat
      BY LimiterConstants DEF LimiterTypes
    <3>2. ASSUME NEW i \in Last
          PROVE  (IF recent[x][i] = Window THEN Window ELSE recent[x][i] + 1) \in 0..Window
      <4>1. recent[x][i] \in 0..Window
        BY <3>1
      <4>2. QED
        BY <3>1, <4>1
    <3>3. QED
      BY <3>1, <3>2
  <2>2. QED
    BY <2>1 DEF LimiterTick, LimiterTypes
<1>2. ASSUME NEW c \in Client PROVE passed'[c] <= hits'[c] /\ passed'[c] <= Limit
  <2>1. c \in Address
    BY AdmissionConstants
  <2>2. passed[c] <= hits[c] /\ passed[c] <= Limit /\ Limit \in Nat
    BY LimiterConstants DEF CountInv
  <2>3. /\ passed'[c] = IF left[c] <= 1 THEN 0 ELSE passed[c]
        /\ hits'[c] = IF left[c] <= 1 THEN 0 ELSE hits[c]
    BY <2>1 DEF LimiterTick
  <2>4. QED
    BY <2>2, <2>3
<1>3. ASSUME NEW c \in Client
      PROVE  /\ left'[c] = 0 => hits'[c] = 0
             /\ \A i \in Last : left'[c] > 0 /\ i > passed'[c] => recent'[c][i] + left'[c] >= Window
             /\ \A i \in Last : i > passed'[c] + Limit => recent'[c][i] = Window
  <2>1. /\ c \in Address /\ Limit \in Nat /\ Window \in Nat /\ Window > 0 /\ hits[c] \in Nat
        /\ left[c] \in 0..Window /\ passed[c] \in Nat /\ recent[c] \in [Last -> 0..Window]
    BY ClientTypes
  <2>2. /\ left[c] = 0 => hits[c] = 0
        /\ \A i \in Last : left[c] > 0 /\ i > passed[c] => recent[c][i] + left[c] >= Window
        /\ \A i \in Last : i > passed[c] + Limit => recent[c][i] = Window
    BY DEF SpanInv
  <2>3. passed[c] <= hits[c] /\ passed[c] <= Limit
    BY DEF CountInv
  <2>4. /\ left'[c] = IF left[c] = 0 THEN 0 ELSE left[c] - 1
        /\ hits'[c] = IF left[c] <= 1 THEN 0 ELSE hits[c]
        /\ passed'[c] = IF left[c] <= 1 THEN 0 ELSE passed[c]
        /\ \A i \in Last : recent'[c][i] = IF recent[c][i] = Window THEN Window ELSE recent[c][i] + 1
    BY <2>1 DEF LimiterTick
  <2>5. left'[c] = 0 => hits'[c] = 0
    BY <2>1, <2>4
  <2>6. ASSUME NEW i \in Last, left'[c] > 0, i > passed'[c]
        PROVE  recent'[c][i] + left'[c] >= Window
    <3>1. left[c] > 1 /\ left'[c] = left[c] - 1 /\ passed'[c] = passed[c]
      BY <2>1, <2>4, <2>6
    <3>2. recent[c][i] + left[c] >= Window /\ recent[c][i] \in 0..Window
      BY <2>1, <2>2, <2>6, <3>1
    <3>3. recent'[c][i] = IF recent[c][i] = Window THEN Window ELSE recent[c][i] + 1
      BY <2>4
    <3>4. QED
      BY <2>1, <3>1, <3>2, <3>3
  <2>7. ASSUME NEW i \in Last, i > passed'[c] + Limit PROVE recent'[c][i] = Window
    <3>1. recent[c][i] \in 0..Window /\ i \in Nat
      BY <2>1 DEF Last
    <3>2. recent'[c][i] = IF recent[c][i] = Window THEN Window ELSE recent[c][i] + 1
      BY <2>4
    <3>3. CASE left[c] = 1
      <4>1. i > passed[c]
        BY <2>1, <2>3, <2>4, <2>7, <3>1, <3>3
      <4>2. recent[c][i] + 1 >= Window
        BY <2>2, <3>3, <4>1
      <4>3. QED
        BY <2>1, <3>1, <3>2, <4>2
    <3>4. CASE left[c] # 1
      <4>1. passed'[c] = passed[c]
        BY <2>1, <2>2, <2>3, <2>4, <3>4
      <4>2. QED
        BY <2>2, <2>7, <3>2, <4>1
    <3>5. QED
      BY <3>3, <3>4
  <2>8. QED
    BY <2>5, <2>6, <2>7
<1>4. QED
  BY <1>1, <1>2, <1>3 DEF CountInv, SpanInv

-----------------------------------------------------------------------------
(* Requests *)

RequestTypes ==
    /\ pc \in [Request -> Label] /\ size \in [Request -> 0..MaxBody]
    /\ key \in [Key -> {"none", "live", "revoked"}] /\ enabled \in BOOLEAN
    /\ stale \subseteq Request /\ faults \in 0..MaxFaults

LEMMA InvSplit ==
  AdmissionInv <=> (LimiterTypes /\ CountInv /\ SpanInv /\ RequestTypes /\ StaleInv)
  BY DEF AdmissionInv, TypeOK, RequestTypes

LEMMA FaultType ==
  ASSUME faults \in 0..MaxFaults, Fault
  PROVE  faults' \in 0..MaxFaults
  BY AdmissionConstants DEF Fault

LEMMA AnswerTypes ==
  ASSUME RequestTypes, NEW r \in Request, Answer(r)
  PROVE  /\ pc' \in [Request -> Label] /\ size' \in [Request -> 0..MaxBody]
         /\ \A x \in Request \ {r} : pc'[x] = pc[x]
<1>1. 0 \in 0..MaxBody
  BY AdmissionConstants
<1>2. QED
  BY <1>1 DEF RequestTypes, Answer, Label

LEMMA GotoTypes ==
  ASSUME RequestTypes, NEW r \in Request, NEW from, NEW to \in Label, Goto(r, from, to)
  PROVE  /\ pc' \in [Request -> Label] /\ pc[r] = from /\ pc'[r] = to
         /\ \A x \in Request \ {r} : pc'[x] = pc[x]
  BY DEF RequestTypes, Goto

(* A request that has not shown a void credential goes on. *)
LEMMA OthersStale ==
  ASSUME RequestTypes, StaleInv, NEW r \in Request,
         \A x \in Request \ {r} : pc'[x] = pc[x], enabled' = enabled,
         \/ stale' = stale \ {r}
         \/ stale' = stale /\ pc[r] \notin {"jwt", "owner"}
  PROVE  StaleInv'
<1>1. stale' \subseteq stale /\ r \notin stale'
  BY DEF StaleInv
<1>2. QED
  BY <1>1 DEF StaleInv, RequestTypes

LEMMA BodySteps ==
  ASSUME RequestTypes, StaleInv, NEW r \in Request, Arrive(r) \/ Receive(r) \/ Silent(r)
  PROVE  RequestTypes' /\ StaleInv'
<1>1. UNCHANGED <<auth, faults>>
  BY DEF Arrive, Receive, Silent
<1>2. CASE Arrive(r)
  <2>1. pc' \in [Request -> Label] /\ pc[r] = "idle" /\ \A x \in Request \ {r} : pc'[x] = pc[x]
    BY <1>2, GotoTypes DEF Arrive, Label
  <2>2. RequestTypes'
    BY <1>1, <1>2, <2>1 DEF RequestTypes, Arrive, auth
  <2>3. QED
    BY <1>1, <2>1, <2>2, OthersStale DEF auth
<1>3. ASSUME Answer(r), pc[r] = "body" PROVE RequestTypes' /\ StaleInv'
  <2>1. /\ pc' \in [Request -> Label] /\ size' \in [Request -> 0..MaxBody]
        /\ \A x \in Request \ {r} : pc'[x] = pc[x]
    BY <1>3, AnswerTypes
  <2>2. RequestTypes'
    BY <1>1, <2>1 DEF RequestTypes, auth
  <2>3. QED
    BY <1>1, <1>3, <2>1, <2>2, OthersStale DEF auth
<1>4. ASSUME NEW n \in Chunk \cup {0}, NEW more \in BOOLEAN, pc[r] = "body",
             size[r] + n <= MaxBody, size' = [size EXCEPT ![r] = @ + n],
             pc' = [pc EXCEPT ![r] = IF more THEN "body" ELSE "limit"]
      PROVE  RequestTypes' /\ StaleInv'
  <2>1. n \in Nat /\ MaxBody \in Nat /\ size[r] \in Nat
    BY AdmissionConstants DEF RequestTypes
  <2>2. size[r] + n \in 0..MaxBody
    BY <1>4, <2>1
  <2>3. size' \in [Request -> 0..MaxBody]
    BY <1>4, <2>2 DEF RequestTypes
  <2>4. pc' \in [Request -> Label] /\ \A x \in Request \ {r} : pc'[x] = pc[x]
    BY <1>4 DEF RequestTypes, Label
  <2>5. RequestTypes'
    BY <1>1, <2>3, <2>4 DEF RequestTypes, auth
  <2>6. QED
    BY <1>1, <1>4, <2>4, <2>5, OthersStale DEF auth
<1>5. CASE Receive(r)
  BY <1>3, <1>4, <1>5 DEF Receive
<1>6. CASE Silent(r)
  BY <1>3, <1>6 DEF Silent
<1>7. QED
  BY <1>2, <1>5, <1>6

LEMMA CheckSteps ==
  ASSUME AdmissionInv, NEW r \in Request, NEW c \in Client, Check(r, c)
  PROVE  AdmissionInv'
<1>1. LimiterTypes /\ CountInv /\ SpanInv /\ RequestTypes /\ StaleInv
  BY InvSplit
<1>2. PICK way \in Seen(c) :
        LET a == ClientIp(way[1], way[2]) IN
        /\ pc[r] = "limit"
        /\ \/ Admit(a, Sender(c, way)) /\ Goto(r, "limit", "auth") /\ UNCHANGED <<size, faults>>
           \/ Refuse(a) /\ Answer(r) /\ UNCHANGED faults
           \/ /\ Fault /\ RedisFails(a)
              /\ \/ TRUE \in Production /\ Answer(r)
                 \/ FALSE \in Production /\ Goto(r, "limit", "auth") /\ UNCHANGED size
        /\ UNCHANGED auth
  BY DEF Check
<1> DEFINE a == ClientIp(way[1], way[2])
<1>3. LimiterTypes' /\ CountInv' /\ SpanInv'
  <2>1. CASE Admit(a, Sender(c, way))
    BY <1>1, <2>1, CheckCounts
  <2> HIDE DEF a
  <2>2. CASE Refuse(a) \/ RedisFails(a)
    BY <1>1, <2>2, UncountedHit DEF Refuse, RedisFails
  <2>3. QED
    BY <1>2, <2>1, <2>2 DEF a
<1>4. faults' \in 0..MaxFaults /\ UNCHANGED auth /\ pc[r] = "limit"
  BY <1>1, <1>2, FaultType DEF RequestTypes
<1>5. \/ Goto(r, "limit", "auth") /\ UNCHANGED size
      \/ Answer(r)
  BY <1>2
<1>6. /\ pc' \in [Request -> Label] /\ size' \in [Request -> 0..MaxBody]
      /\ \A x \in Request \ {r} : pc'[x] = pc[x]
  <2>1. CASE Answer(r)
    BY <1>1, <2>1, AnswerTypes
  <2>2. CASE Goto(r, "limit", "auth") /\ UNCHANGED size
    BY <1>1, <2>2, GotoTypes DEF Label, RequestTypes
  <2>3. QED
    BY <1>5, <2>1, <2>2
<1>7. RequestTypes'
  BY <1>1, <1>4, <1>6 DEF RequestTypes, auth
<1>8. StaleInv'
  BY <1>1, <1>4, <1>6, OthersStale DEF auth
<1>9. QED
  BY <1>3, <1>7, <1>8 DEF AdmissionInv, TypeOK, RequestTypes

(* A request shows its credential, or none. *)
LEMMA PresentSteps ==
  ASSUME RequestTypes, StaleInv, NEW r \in Request,
         Anonymous(r) \/ PresentJwt(r) \/ \E k \in Key : PresentKey(r, k)
  PROVE  RequestTypes' /\ StaleInv'
<1>1. CASE Anonymous(r)
  <2>1. /\ pc' \in [Request -> Label] /\ size' \in [Request -> 0..MaxBody]
        /\ \A x \in Request \ {r} : pc'[x] = pc[x]
    BY <1>1, AnswerTypes DEF Anonymous
  <2>2. RequestTypes'
    BY <1>1, <2>1 DEF RequestTypes, auth, Anonymous
  <2>3. QED
    BY <1>1, <2>1, <2>2, OthersStale DEF auth, Anonymous
<1>2. ASSUME NEW to \in {"jwt", "owner"}, Present(r, to, ~enabled) PROVE RequestTypes' /\ StaleInv'
  <2>1. pc' \in [Request -> Label] /\ pc'[r] = to /\ \A x \in Request \ {r} : pc'[x] = pc[x]
    BY <1>2, GotoTypes DEF Present, Label
  <2>2. UNCHANGED <<size, key, enabled, faults>> /\ stale' = IF ~enabled THEN stale \cup {r} ELSE stale
    BY <1>2 DEF Present
  <2>3. RequestTypes'
    BY <2>1, <2>2 DEF RequestTypes
  <2>4. StaleInv'
    BY <2>1, <2>2 DEF StaleInv, RequestTypes
  <2>5. QED
    BY <2>3, <2>4
<1>3. QED
  BY <1>1, <1>2 DEF PresentJwt, PresentKey

(* The account is read: a void credential ends its request. *)
LEMMA ReadSteps ==
  ASSUME RequestTypes, StaleInv, NEW r \in Request, LoadUser(r) \/ CheckOwner(r)
  PROVE  RequestTypes' /\ StaleInv'
<1>1. UNCHANGED <<key, enabled>>
  BY DEF LoadUser, CheckOwner
<1>2. \/ /\ enabled /\ UNCHANGED <<size, stale, faults>>
         /\ Goto(r, "jwt", "admin") \/ Goto(r, "owner", "served")
      \/ Answer(r) /\ stale' = stale \ {r} /\ (UNCHANGED faults \/ Fault)
  BY DEF LoadUser, CheckOwner
<1>3. CASE /\ enabled /\ UNCHANGED <<size, stale, faults>>
           /\ Goto(r, "jwt", "admin") \/ Goto(r, "owner", "served")
  <2>1. pc' \in [Request -> Label]
    BY <1>3, GotoTypes DEF Label
  <2>2. RequestTypes'
    BY <1>1, <1>3, <2>1 DEF RequestTypes
  <2>3. stale = {}
    BY <1>3 DEF StaleInv
  <2>4. QED
    BY <1>3, <2>2, <2>3 DEF StaleInv
<1>4. CASE Answer(r) /\ stale' = stale \ {r} /\ (UNCHANGED faults \/ Fault)
  <2>1. /\ pc' \in [Request -> Label] /\ size' \in [Request -> 0..MaxBody]
        /\ \A x \in Request \ {r} : pc'[x] = pc[x]
    BY <1>4, AnswerTypes
  <2>2. faults' \in 0..MaxFaults
    BY <1>4, FaultType DEF RequestTypes
  <2>3. RequestTypes'
    BY <1>1, <1>4, <2>1, <2>2 DEF RequestTypes
  <2>4. QED
    BY <1>1, <1>4, <2>1, <2>3, OthersStale
<1>5. QED
  BY <1>2, <1>3, <1>4

LEMMA RouteSteps ==
  ASSUME RequestTypes, StaleInv, NEW r \in Request,
         (\E k \in Key : CreateApiKey(r, k) \/ RevokeApiKey(r, k)) \/ Serve(r)
  PROVE  RequestTypes' /\ StaleInv'
<1>1. /\ Answer(r) /\ UNCHANGED <<enabled, faults>>
      /\ pc[r] \in {"served", "admin"} /\ (stale' = stale \/ stale' = stale \ {r})
  BY DEF CreateApiKey, RevokeApiKey, Serve
<1>2. key' \in [Key -> {"none", "live", "revoked"}]
  <2>1. CASE Serve(r)
    BY <2>1 DEF Serve, RequestTypes
  <2>2. ASSUME NEW k \in Key, CreateApiKey(r, k) \/ RevokeApiKey(r, k)
        PROVE  key' \in [Key -> {"none", "live", "revoked"}]
    BY <2>2 DEF CreateApiKey, RevokeApiKey, RequestTypes
  <2>3. QED
    BY <2>1, <2>2
<1>3. /\ pc' \in [Request -> Label] /\ size' \in [Request -> 0..MaxBody]
      /\ \A x \in Request \ {r} : pc'[x] = pc[x]
  BY <1>1, AnswerTypes
<1>4. RequestTypes'
  BY <1>1, <1>2, <1>3 DEF RequestTypes
<1>5. StaleInv'
  BY <1>1, <1>3, OthersStale
<1>6. QED
  BY <1>4, <1>5

LEMMA InitStep == Init => AdmissionInv
<1> SUFFICES ASSUME Init PROVE AdmissionInv
  OBVIOUS
<1>1. LimiterTypes /\ CountInv /\ SpanInv
  <2>1. Limit \in Nat /\ Window \in Nat /\ Client \subseteq Address /\ 0 \in 0..Limit + 1
        /\ 0 \in 0..Window /\ Window \in 0..Window
    BY LimiterConstants, AdmissionConstants
  <2>2. LimiterTypes
    BY <2>1 DEF Init, LimiterInit, LimiterTypes
  <2>3. CountInv
    BY <2>1 DEF Init, LimiterInit, CountInv
  <2>4. SpanInv
    BY <2>1 DEF Init, LimiterInit, SpanInv
  <2>5. QED
    BY <2>2, <2>3, <2>4
<1>2. RequestTypes
  <2>1. 0 \in 0..MaxBody /\ 0 \in 0..MaxFaults
    BY AdmissionConstants
  <2>2. QED
    BY <2>1 DEF Init, RequestTypes, Label
<1>3. StaleInv
  BY DEF Init, StaleInv
<1>4. QED
  BY <1>1, <1>2, <1>3, InvSplit

(* Every reachable state satisfies AdmissionInv. *)
THEOREM AdmissionCorrect == Spec => []AdmissionInv
<1>1. Init => AdmissionInv
  BY InitStep
<1>2. AdmissionInv /\ [Next]_vars => AdmissionInv'
  <2> SUFFICES ASSUME AdmissionInv, [Next]_vars PROVE AdmissionInv'
    OBVIOUS
  <2>1. LimiterTypes /\ CountInv /\ SpanInv /\ RequestTypes /\ StaleInv
    BY InvSplit
  <2>2. ASSUME UNCHANGED limiter, RequestTypes', StaleInv' PROVE AdmissionInv'
    BY <2>1, <2>2, LimiterFrame DEF AdmissionInv, TypeOK, RequestTypes
  <2>3. ASSUME NEW r \in Request, Arrive(r) \/ Receive(r) \/ Silent(r) PROVE AdmissionInv'
    BY <2>1, <2>2, <2>3, BodySteps DEF Arrive, Receive, Silent
  <2>4. ASSUME NEW r \in Request, NEW c \in Client, Check(r, c) PROVE AdmissionInv'
    BY <2>4, CheckSteps
  <2>5. ASSUME NEW r \in Request, Anonymous(r) \/ PresentJwt(r) \/ \E k \in Key : PresentKey(r, k)
        PROVE  AdmissionInv'
    BY <2>1, <2>2, <2>5, PresentSteps DEF Anonymous, PresentJwt, PresentKey, Present
  <2>6. ASSUME NEW r \in Request, LoadUser(r) \/ CheckOwner(r) PROVE AdmissionInv'
    BY <2>1, <2>2, <2>6, ReadSteps DEF LoadUser, CheckOwner
  <2>7. ASSUME NEW r \in Request,
               (\E k \in Key : CreateApiKey(r, k) \/ RevokeApiKey(r, k)) \/ Serve(r)
        PROVE  AdmissionInv'
    BY <2>1, <2>2, <2>7, RouteSteps DEF CreateApiKey, RevokeApiKey, Serve
  <2>8. CASE Disable
    <3>1. UNCHANGED <<limiter, pc, size, key, stale, faults>> /\ enabled' = FALSE
      BY <2>8 DEF Disable
    <3>2. RequestTypes' /\ StaleInv'
      BY <2>1, <3>1 DEF RequestTypes, StaleInv
    <3>3. QED
      BY <2>2, <3>1, <3>2
  <2>9. CASE Tick
    <3>1. LimiterTypes' /\ CountInv' /\ SpanInv'
      BY <2>1, <2>9, TickCounts DEF Tick
    <3>2. RequestTypes' /\ StaleInv'
      BY <2>1, <2>9 DEF Tick, RequestTypes, StaleInv, auth
    <3>3. QED
      BY <3>1, <3>2 DEF AdmissionInv, TypeOK, RequestTypes
  <2>10. CASE UNCHANGED vars
    <3>1. UNCHANGED limiter /\ RequestTypes' /\ StaleInv'
      BY <2>1, <2>10 DEF vars, RequestTypes, StaleInv, auth
    <3>2. QED
      BY <2>2, <3>1
  <2>11. QED
    BY <2>3, <2>4, <2>5, <2>6, <2>7, <2>8, <2>9, <2>10 DEF Next, Step
<1>3. QED
  BY <1>1, <1>2, PTL DEF Spec

(* Types, and the bound on what a request may buffer, in every state. *)
THEOREM AdmissionTypes == Spec => []TypeOK
  BY AdmissionCorrect, PTL DEF AdmissionInv

(* Whatever headers it sends and over whichever proxies its requests come, *)
(* a client gets at most Limit of them through check_rate_limit before its *)
(* counter runs out.                                                       *)
THEOREM LimitHolds == Spec => []LimitPerClient
<1>1. AdmissionInv => LimitPerClient
  BY DEF AdmissionInv, CountInv, LimitPerClient
<1>2. QED
  BY <1>1, AdmissionCorrect, PTL

(* Over any span of Window ticks, wherever it starts, a client gets at     *)
(* most 2 * Limit requests through check_rate_limit.                       *)
THEOREM TwoWindowsAtMost == Spec => []SlidingBound
<1>1. AdmissionInv => SlidingBound
  <2> SUFFICES ASSUME AdmissionInv, NEW c \in Client PROVE recent[c][2 * Limit + 1] = Window
    BY DEF SlidingBound
  <2>1. Limit \in Nat /\ passed[c] \in Nat /\ passed[c] <= Limit
    BY ClientTypes DEF AdmissionInv, TypeOK, CountInv
  <2>2. 2 * Limit + 1 \in Last /\ 2 * Limit + 1 > passed[c] + Limit
    BY <2>1 DEF Last
  <2>3. QED
    BY <2>2 DEF AdmissionInv, SpanInv
<1>2. QED
  BY <1>1, AdmissionCorrect, PTL

(* A key or token that was void when AuthMiddleware first saw it is never  *)
(* acted upon, though key and account are read by two queries.             *)
THEOREM VoidIsRefused == Spec => []NoVoidCredential
<1>1. AdmissionInv => NoVoidCredential
  BY DEF AdmissionInv, StaleInv, NoVoidCredential
<1>2. QED
  BY <1>1, AdmissionCorrect, PTL
=============================================================================
