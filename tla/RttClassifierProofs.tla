------------------------ MODULE RttClassifierProofs ------------------------
(***************************************************************************)
(* Proofs about RttClassifier, for any number of requests, any samples,    *)
(* thresholds and smoothing factor: types, no lost update, samples skipped *)
(* only for cause, no flapping, and a tier that follows.                   *)
(***************************************************************************)
EXTENDS RttClassifier, SequenceTheorems, TLAPS

(* An average of natural numbers is one. *)
LEMMA EwmaType ==
    ASSUME NEW old \in Nat \cup {Unknown}, NEW x \in Nat
    PROVE  Ewma(old, x) \in Nat
<1> USE RttConstants
<1>1. CASE old = Unknown
  BY <1>1 DEF Ewma
<1>2. CASE old # Unknown
  <2>1. old \in Nat
    BY <1>2
  <2>2. AlphaNum * x \in Nat
    OBVIOUS
  <2>3. (AlphaDen - AlphaNum) * old \in Nat
    <3> DEFINE beta == AlphaDen - AlphaNum
    <3>1. beta \in Nat
      OBVIOUS
    <3> HIDE DEF beta
    <3>2. beta * old \in Nat
      BY <2>1, <3>1
    <3> QED
      BY <3>2 DEF beta
  <2> DEFINE total == AlphaNum * x + (AlphaDen - AlphaNum) * old
  <2>4. total \in Nat
    BY <2>2, <2>3
  <2> HIDE DEF total
  <2>5. total \div AlphaDen \in Nat
    BY <2>4
  <2> QED
    BY <1>2, <2>5 DEF Ewma, total
<1> QED
  BY <1>1, <1>2

LEMMA CandidateType ==
    ASSUME NEW x \in Nat, NEW t \in Tier
    PROVE  CandidateTier(x, t) \in Tier
  BY DEF CandidateTier, ClassifyRtt, Tier

(* advance maps states to states. *)
LEMMA AdvanceType ==
    ASSUME NEW s \in State, NEW x \in Nat
    PROVE  Advance(s, x) \in State /\ Advance(s, x).ewma \in Nat
<1> DEFINE e == Ewma(s.ewma, x)
           c == CandidateTier(e, s.tier)
           n == Streak(s, c)
<1>1. s.ewma \in Nat \cup {Unknown} /\ s.tier \in Tier /\ s.pending_count \in Nat
  BY DEF State
<1>2. e \in Nat
  BY <1>1, EwmaType
<1>3. c \in Tier
  BY <1>1, <1>2, CandidateType
<1>4. n \in Nat
  BY <1>1 DEF Streak
<1> HIDE DEF e, c, n
<1>5. Advance(s, x) \in {[ewma |-> e, tier |-> s.tier, pending_tier |-> NoTier, pending_count |-> 0],
                         [ewma |-> e, tier |-> c, pending_tier |-> NoTier, pending_count |-> 0],
                         [ewma |-> e, tier |-> s.tier, pending_tier |-> c, pending_count |-> n]}
  BY DEF Advance, e, c, n
<1> QED
  BY <1>1, <1>2, <1>3, <1>4, <1>5 DEF State

LEMMA DecodeType ==
    ASSUME NEW raw \in State \cup {Absent} \cup Corrupt
    PROVE  Decode(raw) \in State /\ Decode(raw).tier \in Tier /\ Fresh \in State
  BY DEF Decode, State, Fresh, Tier

LEMMA SignalType ==
    ASSUME NEW hint \in Hint
    PROVE  ExplicitSignal(hint) \in Tier \cup {NoTier}
<1>1. \A e \in DOMAIN EctMap : EctMap[e] \in Tier
  BY DEF EctMap, Tier
<1>2. \A x : ClassifyRtt(x) \in Tier
  BY DEF ClassifyRtt, Tier
<1> QED
  BY <1>1, <1>2 DEF ExplicitSignal, Tier

(* Slide keeps the newest averages. *)
LEMMA Window ==
    ASSUME NEW old \in Seq(Nat), NEW x \in Nat, Len(old) <= TransitionSamples
    PROVE  /\ Slide(old, x) \in Seq(Nat)
           /\ Len(Slide(old, x)) = IF Len(old) < TransitionSamples THEN Len(old) + 1
                                   ELSE TransitionSamples
           /\ Slide(old, x)[1] = x
           /\ \A i \in 2..Len(Slide(old, x)) :
                 i - 1 \in 1..Len(old) /\ Slide(old, x)[i] = old[i - 1]
<1> USE RttConstants
<1> DEFINE all == <<x>> \o old
           n == IF Len(old) < TransitionSamples THEN Len(old) + 1 ELSE TransitionSamples
           new == Slide(old, x)
<1>1. <<x>> \in Seq(Nat) /\ Len(<<x>>) = 1 /\ <<x>>[1] = x
  OBVIOUS
<1>2. Len(old) \in Nat
  OBVIOUS
<1>3. /\ all \in Seq(Nat) /\ Len(all) = 1 + Len(old)
      /\ \A i \in 1..1 + Len(old) : all[i] = IF i <= 1 THEN <<x>>[i] ELSE old[i - 1]
  <2>1. /\ all \in Seq(Nat) /\ Len(all) = Len(<<x>>) + Len(old)
        /\ \A i \in 1..Len(<<x>>) + Len(old) :
              all[i] = IF i <= Len(<<x>>) THEN <<x>>[i] ELSE old[i - Len(<<x>>)]
    BY <1>1, ConcatProperties
  <2> QED
    BY <1>1, <2>1
<1>4. n \in Nat /\ 1 <= n /\ n <= TransitionSamples /\ n <= 1 + Len(old)
  BY <1>2
<1> HIDE DEF all
<1>5. \A i \in 1..n : all[i] \in Nat
  BY <1>2, <1>3, <1>4
<1>6. /\ SubSeq(all, 1, n) \in Seq(Nat)
      /\ Len(SubSeq(all, 1, n)) = IF 1 <= n THEN n - 1 + 1 ELSE 0
      /\ \A i \in 1..n - 1 + 1 : SubSeq(all, 1, n)[i] = all[1 + i - 1]
  BY <1>4, <1>5, SubSeqProperties
<1>7. new \in Seq(Nat) /\ Len(new) = n /\ \A i \in 1..n : new[i] = all[i]
  <2>1. new = SubSeq(all, 1, n)
    BY DEF Slide, all
  <2> HIDE DEF new, n
  <2> QED
    BY <1>4, <1>6, <2>1
<1> HIDE DEF new
<1>8. new[1] = x /\ \A i \in 2..n : i - 1 \in 1..Len(old) /\ new[i] = old[i - 1]
  <2> HIDE DEF n
  <2> QED
    BY <1>1, <1>2, <1>3, <1>4, <1>7
<1> QED
  BY <1>7, <1>8 DEF new

-----------------------------------------------------------------------------
(* Types *)

(* The step relation with one disjunct per action. *)
LEMMA Steps ==
    ASSUME Next
    PROVE  \/ \E r \in Request, hint \in Hint : Begin(r, hint)
           \/ \E r \in Request : \/ LoadState(r) \/ Respond(r) \/ Watch(r) \/ Get(r)
                                 \/ Exec(r) \/ LoseConnection(r) \/ UpdateFails(r)
           \/ Expire
           \/ Overwrite
  BY Zenon DEF Next, RequestStep

(* An attempt that reached Redis wrote an unchanged key, and is over or,   *)
(* its reply lost, made again; or it wrote nothing and is made again.      *)
LEMMA Attempts ==
    ASSUME NEW r \in Request, Exec(r) \/ LoseConnection(r)
    PROVE  /\ pc[r] \in Watching /\ (faults' = faults \/ Fault)
           /\ \/ pc[r] = "exec" /\ ~dirty[r] /\ Commit(r) /\ (Done(r) \/ NextAttempt(r, 1))
              \/ \E n \in {0, 1} : Retry(r, n) /\ (n = 0 => dirty[r])
<1>1. CASE Exec(r)
  BY <1>1 DEF Exec, Watching
<1>2. CASE LoseConnection(r)
  BY <1>2 DEF LoseConnection, Watching
<1> QED
  BY <1>1, <1>2

LEMMA DoneType ==
    ASSUME TypeOK, NEW r \in Request, Done(r)
    PROVE  /\ pc' \in [Request -> {"idle", "load", "serve", "hinted", "watch", "get", "exec"}]
           /\ quality' \in [Request -> Tier] /\ sample' \in [Request -> Nat]
           /\ tries' \in [Request -> 0..Retries] /\ view' \in [Request -> State]
           /\ lost' \in [Request -> Nat]
<1>1. Fresh \in State /\ "GOOD" \in Tier /\ 0 \in 0..Retries
  BY ClassifierConstants DEF State, Fresh, Tier
<1> QED
  BY <1>1 DEF TypeOK, Done

(* The types, with the counts of UpdateInv that bound tries and recent. *)
Bounded ==
    /\ TypeOK
    /\ Len(recent) <= TransitionSamples
    /\ \A r \in Request : (pc[r] = "watch" => tries[r] < Retries)
                          /\ (pc[r] \notin Updating => tries[r] = 0)

LEMMA NextAttemptType ==
    ASSUME TypeOK, NEW r \in Request, NEW n \in {0, 1}, NextAttempt(r, n)
    PROVE  /\ pc' \in [Request -> {"idle", "load", "serve", "hinted", "watch", "get", "exec"}]
           /\ quality' \in [Request -> Tier] /\ sample' \in [Request -> Nat]
           /\ tries' \in [Request -> 0..Retries] /\ view' \in [Request -> State]
           /\ lost' \in [Request -> Nat]
<1>1. CASE Done(r)
  BY <1>1, DoneType
<1>2. CASE ~Done(r)
  <2>1. Fresh \in State
    BY DEF State, Fresh, Tier
  <2>2. lost \in [Request -> Nat] /\ lost[r] + n \in Nat
    BY DEF TypeOK
  <2>3. /\ pc' = [pc EXCEPT ![r] = "watch"] /\ view' = [view EXCEPT ![r] = Fresh]
        /\ lost' = [lost EXCEPT ![r] = lost[r] + n] /\ UNCHANGED <<quality, sample, tries>>
    BY <1>2 DEF NextAttempt
  <2> QED
    BY <2>1, <2>2, <2>3 DEF TypeOK
<1> QED
  BY <1>1, <1>2

(* The next attempt, or none, keeps within Retries. *)
LEMMA NextAttemptCount ==
    ASSUME Bounded, NEW r \in Request, NEW n \in {0, 1}, NextAttempt(r, n), NEW q \in Request
    PROVE  (pc'[q] = "watch" => tries'[q] < Retries) /\ (pc'[q] \notin Updating => tries'[q] = 0)
<1>0. /\ pc \in [Request -> {"idle", "load", "serve", "hinted", "watch", "get", "exec"}]
      /\ tries \in [Request -> 0..Retries]
      /\ (pc[q] = "watch" => tries[q] < Retries) /\ (pc[q] \notin Updating => tries[q] = 0)
  BY DEF Bounded, TypeOK
<1>1. CASE Done(r)
  BY <1>0, <1>1 DEF Done, Updating, Watching
<1>2. CASE ~Done(r)
  BY <1>0, <1>2 DEF NextAttempt, Updating, Watching
<1> QED
  BY <1>1, <1>2

LEMMA TouchType ==
    ASSUME TypeOK, NEW W, Touch(W)
    PROVE  dirty' \in [Request -> BOOLEAN] /\ rivals' \in [Request -> 0..Retries]
<1>1. dirty' \in [Request -> BOOLEAN]
  BY DEF TypeOK, Touch
<1>2. \A r \in Request : rivals[r] \in 0..Retries
  BY DEF TypeOK
<1>3. rivals' \in [Request -> 0..Retries]
  BY <1>2, ClassifierConstants DEF Touch
<1> QED
  BY <1>1, <1>3

LEMMA UntouchedType ==
    ASSUME TypeOK, NEW r \in Request, Untouched(r)
    PROVE  /\ dirty' \in [Request -> BOOLEAN] /\ rivals' \in [Request -> 0..Retries]
           /\ stored' = stored /\ recent' = recent
  BY ClassifierConstants DEF TypeOK, Untouched

(* A valid transaction writes a state. *)
LEMMA CommitType ==
    ASSUME TypeOK, Len(recent) <= TransitionSamples, NEW r \in Request, Commit(r)
    PROVE  /\ stored' \in State /\ stored'.ewma \in Nat
           /\ recent' \in Seq(Nat) /\ Len(recent') <= TransitionSamples
<1>1. view[r] \in State /\ sample[r] \in Nat /\ recent \in Seq(Nat)
  BY DEF TypeOK
<1>2. stored' \in State /\ stored'.ewma \in Nat
  BY <1>1, AdvanceType DEF Commit
<1>3. recent' = Slide(recent, stored'.ewma)
  BY DEF Commit
<1>4. recent' \in Seq(Nat) /\ Len(recent') <= TransitionSamples
  <2> DEFINE e == stored'.ewma
  <2>1. e \in Nat /\ recent' = Slide(recent, e)
    BY <1>2, <1>3
  <2> HIDE DEF e
  <2>2. /\ Slide(recent, e) \in Seq(Nat)
        /\ Len(Slide(recent, e)) = IF Len(recent) < TransitionSamples THEN Len(recent) + 1
                                   ELSE TransitionSamples
    BY <1>1, <2>1, Window
  <2>3. Len(recent) \in Nat
    BY <1>1
  <2> QED
    BY <2>1, <2>2, <2>3, RttConstants
<1> QED
  BY <1>2, <1>4

LEMMA TypeStep ==
    ASSUME Bounded, [Next]_vars
    PROVE  Bounded'
<1> USE ClassifierConstants, RttConstants
<1>0. TypeOK /\ Fresh \in State
  BY DEF Bounded, State, Fresh, Tier
<1>1. ASSUME NEW r \in Request, NEW hint \in Hint, Begin(r, hint)
      PROVE  Bounded'
  <2>1. ExplicitSignal(hint) # NoTier => ExplicitSignal(hint) \in Tier
    BY SignalType
  <2> QED
    <3>a. TypeOK'
      BY <1>0, <1>1, <2>1 DEF TypeOK, Begin
    <3>b. recent' = recent /\ \A q \in Request : (pc'[q] = "watch" => tries'[q] < Retries)
                                             /\ (pc'[q] \notin Updating => tries'[q] = 0)
      BY <1>1, <2>1 DEF Bounded, TypeOK, Begin, Updating, Watching
    <3> QED
      BY <3>a, <3>b DEF Bounded, Updating, Watching
<1>2. ASSUME NEW r \in Request, LoadState(r)
      PROVE  Bounded'
  <2>1. Decode(stored).tier \in Tier
    BY <1>0, DecodeType DEF TypeOK
  <2>2. CASE Done(r)
    <3>1. UNCHANGED <<stored, dirty, rivals, recent>> /\ faults' \in 0..MaxFaults
      BY <1>0, <1>2, <2>2 DEF LoadState, TypeOK, Fault
    <3>2. TypeOK'
      BY <1>0, <2>2, <3>1, DoneType DEF TypeOK
    <3> QED
      BY <2>2, <3>1, <3>2 DEF Bounded, TypeOK, Done, Updating, Watching
  <2> QED
    <3>0. CASE ~Done(r)
      <4>a. TypeOK'
        <5>1. /\ pc' = [pc EXCEPT ![r] = "serve"]
              /\ quality' = quality \/ quality' = [quality EXCEPT ![r] = Decode(stored).tier]
              /\ UNCHANGED <<stored, sample, tries, view, dirty, rivals, lost, recent>>
              /\ faults' = faults \/ Fault
          BY <1>2, <3>0 DEF LoadState
        <5>2. quality' \in [Request -> Tier]
          <6>1. quality \in [Request -> Tier]
            BY <1>0 DEF TypeOK
          <6> QED
            BY <2>1, <5>1, <6>1
        <5>3. faults' \in 0..MaxFaults
          BY <1>0, <5>1 DEF TypeOK, Fault
        <5> QED
          BY <1>0, <5>1, <5>2, <5>3 DEF TypeOK
      <4>b. recent' = recent /\ \A q \in Request : (pc'[q] = "watch" => tries'[q] < Retries)
                                               /\ (pc'[q] \notin Updating => tries'[q] = 0)
        BY <1>2, <2>1, <3>0 DEF Bounded, TypeOK, LoadState, Fault, Updating, Watching
      <4> QED
        BY <4>a, <4>b DEF Bounded, Updating, Watching
    <3> QED
      BY <2>2, <3>0
<1>3. ASSUME NEW r \in Request, Respond(r)
      PROVE  Bounded'
  <2>1. CASE Done(r)
    <3>1. UNCHANGED <<stored, dirty, rivals, recent, faults>>
      BY <1>3 DEF Respond
    <3>2. TypeOK'
      BY <1>0, <2>1, <3>1, DoneType DEF TypeOK
    <3> QED
      BY <2>1, <3>1, <3>2 DEF Bounded, TypeOK, Done, Updating, Watching
  <2> QED
    <3>0. CASE ~Done(r)
      <4>a. TypeOK'
        BY <1>0, <1>3, <3>0 DEF TypeOK, Respond
      <4>b. recent' = recent /\ \A q \in Request : (pc'[q] = "watch" => tries'[q] < Retries)
                                               /\ (pc'[q] \notin Updating => tries'[q] = 0)
        <5>1. pc[r] = "serve" /\ pc' = [pc EXCEPT ![r] = "watch"] /\ UNCHANGED <<tries, recent>>
          BY <1>3, <3>0 DEF Respond
        <5>2. tries[r] = 0
          BY <5>1 DEF Bounded, Updating, Watching
        <5> QED
          BY <1>0, <5>1, <5>2 DEF Bounded, TypeOK
      <4> QED
        BY <4>a, <4>b DEF Bounded, Updating, Watching
    <3> QED
      BY <2>1, <3>0
<1>4. ASSUME NEW r \in Request, Watch(r)
      PROVE  Bounded'
  BY <1>4 DEF Bounded, TypeOK, Watch, Updating, Watching
<1>5. ASSUME NEW r \in Request, Get(r)
      PROVE  Bounded'
  <2>1. Decode(stored) \in State
    BY <1>0, DecodeType DEF TypeOK
  <2>2. CASE Done(r) /\ Untouched(r)
    <3>1. faults' = faults
      BY <1>5 DEF Get
    <3>2. TypeOK'
      BY <1>0, <2>2, <3>1, DoneType, UntouchedType DEF TypeOK
    <3> QED
      BY <2>2, <3>2 DEF Bounded, TypeOK, Done, Untouched, Updating, Watching
  <2> QED
    BY <1>5, <2>1, <2>2 DEF Bounded, TypeOK, Get, Updating, Watching
<1>6. ASSUME NEW r \in Request, Exec(r) \/ LoseConnection(r)
      PROVE  Bounded'
  <2>0. faults' \in 0..MaxFaults
    <3>1. faults' = faults \/ Fault
      BY <1>6, Attempts
    <3> QED
      BY <1>0, <3>1 DEF TypeOK, Fault
  <2>1. CASE Commit(r) /\ Done(r)
    <3>1. Touch({r})
      BY <2>1 DEF Commit
    <3>2. TypeOK' /\ Len(recent') <= TransitionSamples
      BY <1>0, <2>0, <2>1, <3>1, DoneType, CommitType, TouchType DEF TypeOK, Bounded
    <3> QED
      BY <2>1, <3>2 DEF Bounded, TypeOK, Done, Updating, Watching
  <2>2. CASE Commit(r) /\ NextAttempt(r, 1)
    <3>1. Touch({r})
      BY <2>2 DEF Commit
    <3>2. TypeOK' /\ Len(recent') <= TransitionSamples
      BY <1>0, <2>0, <2>2, <3>1, NextAttemptType, CommitType, TouchType DEF TypeOK, Bounded
    <3>3. \A q \in Request : (pc'[q] = "watch" => tries'[q] < Retries)
                             /\ (pc'[q] \notin Updating => tries'[q] = 0)
      BY <2>2, NextAttemptCount
    <3> QED
      BY <3>2, <3>3 DEF Bounded, Updating, Watching
  <2>3. ASSUME NEW n \in {0, 1}, Retry(r, n)
        PROVE  Bounded'
    <3>1. NextAttempt(r, n) /\ UNCHANGED <<stored, recent>>
      BY <2>3 DEF Retry
    <3>2. dirty' \in [Request -> BOOLEAN] /\ rivals' \in [Request -> 0..Retries]
      <4>1. dirty \in [Request -> BOOLEAN] /\ rivals \in [Request -> 0..Retries]
        BY <1>0 DEF TypeOK
      <4>2. dirty' = [dirty EXCEPT ![r] = FALSE]
            /\ rivals' = [rivals EXCEPT ![r] = IF tries[r] < Retries THEN rivals[r] ELSE 0]
        BY <2>3 DEF Retry
      <4> QED
        BY <4>1, <4>2
    <3>3. TypeOK'
      BY <1>0, <2>0, <3>1, <3>2, NextAttemptType DEF TypeOK
    <3>4. \A q \in Request : (pc'[q] = "watch" => tries'[q] < Retries)
                             /\ (pc'[q] \notin Updating => tries'[q] = 0)
      BY <3>1, NextAttemptCount
    <3> QED
      BY <3>1, <3>3, <3>4 DEF Bounded, Updating, Watching
  <2> QED
    BY <1>6, <2>1, <2>2, <2>3, Attempts
<1>7. ASSUME NEW r \in Request, UpdateFails(r)
      PROVE  Bounded'
  <2>0. Done(r) /\ Untouched(r) /\ faults' \in 0..MaxFaults
    BY <1>0, <1>7 DEF TypeOK, UpdateFails, Fault
  <2>1. TypeOK'
    BY <1>0, <2>0, DoneType, UntouchedType DEF TypeOK
  <2> QED
    BY <1>7, <2>1 DEF Bounded, TypeOK, UpdateFails, Done, Untouched, Updating, Watching
<1>8. ASSUME Expire \/ Overwrite
      PROVE  Bounded'
  <2>1. /\ Touch({}) /\ UNCHANGED <<pc, quality, sample, tries, view, lost, faults>>
        /\ recent' = <<>> /\ stored' \in {Absent} \cup Corrupt
    BY <1>8 DEF Expire, Overwrite
  <2>2. recent' \in Seq(Nat) /\ Len(recent') <= TransitionSamples
    BY <2>1
  <2>3. TypeOK'
    BY <1>0, <2>1, <2>2, TouchType DEF TypeOK
  <2> QED
    BY <2>1, <2>2, <2>3 DEF Bounded, Updating, Watching
<1>9. CASE UNCHANGED vars
  BY <1>9 DEF Bounded, TypeOK, vars, Updating, Watching
<1> QED
  BY <1>1, <1>2, <1>3, <1>4, <1>5, <1>6, <1>7, <1>8, <1>9, Steps

LEMMA BoundedInit == Init => Bounded
<1>1. Fresh \in State
  BY DEF State, Fresh, Tier
<1>2. Init => dirty \in [Request -> BOOLEAN]
  BY Zenon DEF Init
<1> QED
  BY <1>1, <1>2, ClassifierConstants, RttConstants
  DEF Init, Bounded, TypeOK, Tier, Updating, Watching

(* The classifier keeps its types, in particular within Retries attempts   *)
(* of _update_state, whatever the requests and Redis do.                   *)
THEOREM ClassifierTypes == Spec => []TypeOK
<1>1. Init => Bounded
  BY BoundedInit
<1>2. Bounded /\ [Next]_vars => Bounded'
  BY TypeStep
<1>3. Bounded => TypeOK
  BY DEF Bounded
<1> QED
  BY <1>1, <1>2, <1>3, PTL DEF Spec

-----------------------------------------------------------------------------
(* Updates *)

(* A transaction that nothing has invalidated still holds the stored state. *)
LEMMA UpdateStep ==
    ASSUME Bounded, UpdateInv, [Next]_vars
    PROVE  UpdateInv'
<1> USE ClassifierConstants
<1>0. TypeOK
  BY DEF Bounded
<1> DEFINE Inv(q) ==
              /\ pc[q] \notin Watching => ~dirty[q]
              /\ pc[q] = "exec" /\ ~dirty[q] => view[q] = Decode(stored)
              /\ pc[q] \in Updating => sample[q] \in Sample
              /\ pc[q] = "watch" => tries[q] < Retries
              /\ pc[q] \notin Updating => tries[q] = 0
<1>i. (\A q \in Request : Inv(q)) /\ (UpdateInv' <=> \A q \in Request : Inv(q)')
  BY DEF UpdateInv
<1>t. \A q \in Request : (pc'[q] = "watch" => tries'[q] < Retries)
                          /\ (pc'[q] \notin Updating => tries'[q] = 0)
  BY TypeStep DEF Bounded, Updating, Watching
<1>d. pc \in [Request -> {"idle", "load", "serve", "hinted", "watch", "get", "exec"}]
      /\ dirty \in [Request -> BOOLEAN] /\ view \in [Request -> State] /\ sample \in [Request -> Nat]
  BY <1>0 DEF TypeOK
<1> SUFFICES ASSUME NEW q \in Request
             PROVE  /\ pc'[q] \notin Watching => ~dirty'[q]
                    /\ pc'[q] = "exec" /\ ~dirty'[q] => view'[q] = Decode(stored')
                    /\ pc'[q] \in Updating => sample'[q] \in Sample
  BY <1>i, <1>t DEF Updating, Watching, Decode, Corrupt
<1>q. Inv(q)
  BY <1>i
<1> HIDE DEF Inv
<1>1. ASSUME NEW r \in Request, NEW hint \in Hint, Begin(r, hint)
      PROVE  /\ pc'[q] \notin Watching => ~dirty'[q]
             /\ pc'[q] = "exec" /\ ~dirty'[q] => view'[q] = Decode(stored')
             /\ pc'[q] \in Updating => sample'[q] \in Sample
  BY <1>1, <1>d, <1>q DEF Inv, Begin, Watching, Updating
<1>2. ASSUME NEW r \in Request, LoadState(r)
      PROVE  /\ pc'[q] \notin Watching => ~dirty'[q]
             /\ pc'[q] = "exec" /\ ~dirty'[q] => view'[q] = Decode(stored')
             /\ pc'[q] \in Updating => sample'[q] \in Sample
  BY <1>2, <1>d, <1>q DEF Inv, LoadState, Done, Watching, Updating
<1>3. ASSUME NEW r \in Request, Respond(r)
      PROVE  /\ pc'[q] \notin Watching => ~dirty'[q]
             /\ pc'[q] = "exec" /\ ~dirty'[q] => view'[q] = Decode(stored')
             /\ pc'[q] \in Updating => sample'[q] \in Sample
  BY <1>3, <1>d, <1>q DEF Inv, Respond, Done, Watching, Updating
<1>4. ASSUME NEW r \in Request, Watch(r)
      PROVE  /\ pc'[q] \notin Watching => ~dirty'[q]
             /\ pc'[q] = "exec" /\ ~dirty'[q] => view'[q] = Decode(stored')
             /\ pc'[q] \in Updating => sample'[q] \in Sample
  BY <1>4, <1>d, <1>q DEF Inv, Watch, Watching, Updating
<1>5. ASSUME NEW r \in Request, Get(r)
      PROVE  /\ pc'[q] \notin Watching => ~dirty'[q]
             /\ pc'[q] = "exec" /\ ~dirty'[q] => view'[q] = Decode(stored')
             /\ pc'[q] \in Updating => sample'[q] \in Sample
  BY <1>5, <1>d, <1>q DEF Inv, Get, Done, Untouched, Watching, Updating
<1>6. ASSUME NEW r \in Request, Exec(r) \/ LoseConnection(r)
      PROVE  /\ pc'[q] \notin Watching => ~dirty'[q]
             /\ pc'[q] = "exec" /\ ~dirty'[q] => view'[q] = Decode(stored')
             /\ pc'[q] \in Updating => sample'[q] \in Sample
  <2>1. CASE Commit(r) /\ Done(r)
    BY <2>1, <1>d, <1>q DEF Inv, Commit, Touch, Done, Watching, Updating
  <2>2. CASE pc[r] \in Watching /\ Commit(r) /\ NextAttempt(r, 1) /\ ~Done(r)
    BY <2>2, <1>d, <1>q DEF Inv, Commit, Touch, NextAttempt, Watching, Updating
  <2>3. ASSUME pc[r] \in Watching, NEW n \in {0, 1}, Retry(r, n)
        PROVE  /\ pc'[q] \notin Watching => ~dirty'[q]
               /\ pc'[q] = "exec" /\ ~dirty'[q] => view'[q] = Decode(stored')
               /\ pc'[q] \in Updating => sample'[q] \in Sample
    <3>1. CASE Done(r)
      BY <2>3, <3>1, <1>d, <1>q DEF Inv, Retry, Done, Watching, Updating
    <3>2. CASE ~Done(r)
      BY <2>3, <3>2, <1>d, <1>q DEF Inv, Retry, NextAttempt, Watching, Updating
    <3> QED
      BY <3>1, <3>2
  <2> QED
    BY <1>6, <2>1, <2>2, <2>3, Attempts
<1>7. ASSUME NEW r \in Request, UpdateFails(r)
      PROVE  /\ pc'[q] \notin Watching => ~dirty'[q]
             /\ pc'[q] = "exec" /\ ~dirty'[q] => view'[q] = Decode(stored')
             /\ pc'[q] \in Updating => sample'[q] \in Sample
  BY <1>7, <1>d, <1>q DEF Inv, UpdateFails, Done, Untouched, Watching, Updating
<1>8. ASSUME Expire \/ Overwrite
      PROVE  /\ pc'[q] \notin Watching => ~dirty'[q]
             /\ pc'[q] = "exec" /\ ~dirty'[q] => view'[q] = Decode(stored')
             /\ pc'[q] \in Updating => sample'[q] \in Sample
  BY <1>8, <1>d, <1>q DEF Inv, Expire, Overwrite, Touch, Watching, Updating
<1>9. CASE UNCHANGED vars
  BY <1>9, <1>d, <1>q DEF Inv, vars, Watching, Updating
<1> QED
  BY <1>1, <1>2, <1>3, <1>4, <1>5, <1>6, <1>7, <1>8, <1>9, Steps

(* SharedEstimate's advance is the classifier's. *)
LEMMA SameAdvance ==
    ASSUME NEW s, NEW x
    PROVE  Shared!Advance(s, x) = Advance(s, x)
  BY Zenon DEF Shared!Advance, Advance, Shared!Ewma, Ewma, Shared!CandidateTier, CandidateTier,
     Shared!ClassifyRtt, ClassifyRtt, Shared!Streak, Streak, Shared!Order, Order,
     Shared!Unknown, Unknown, Shared!NoTier, NoTier

LEMMA SameDecode ==
    ASSUME NEW raw
    PROVE  Shared!Decode(raw) = Decode(raw)
  BY DEF Shared!Decode, Decode, Shared!Fresh, Fresh, Shared!Unknown, Unknown, Shared!NoTier, NoTier

(* Every step applies one sample, forgets the estimate, or leaves it. *)
LEMMA SharedStep ==
    ASSUME Bounded, UpdateInv, [Next]_vars
    PROVE  [Shared!Next]_stored
<1>1. ASSUME NEW r \in Request, Exec(r) \/ LoseConnection(r)
      PROVE  [Shared!Next]_stored
  <2>1. CASE pc[r] = "exec" /\ ~dirty[r] /\ Commit(r)
    <3>1. view[r] = Decode(stored) /\ sample[r] \in Sample
      BY <2>1 DEF UpdateInv, Updating, Watching
    <3>2. stored' = Shared!Advance(Shared!Decode(stored), sample[r])
      BY <2>1, <3>1, SameAdvance, SameDecode DEF Commit
    <3> QED
      BY <3>1, <3>2 DEF Shared!Next, Shared!Apply
  <2>2. CASE \E n \in {0, 1} : Retry(r, n)
    BY <2>2 DEF Retry
  <2> QED
    BY <1>1, <2>1, <2>2, Attempts
<1>2. CASE Expire
  BY <1>2 DEF Expire, Shared!Next, Shared!Forget
<1>3. CASE Overwrite
  BY <1>3 DEF Overwrite, Shared!Next, Shared!Overwrite
<1>4. ASSUME NEW r \in Request,
             \/ \E hint \in Hint : Begin(r, hint)
             \/ LoadState(r) \/ Respond(r) \/ Watch(r) \/ Get(r) \/ UpdateFails(r)
      PROVE  stored' = stored
  BY <1>4 DEF Begin, LoadState, Respond, Watch, Get, UpdateFails, Untouched
<1>5. CASE UNCHANGED vars
  BY <1>5 DEF vars
<1> QED
  BY <1>1, <1>2, <1>3, <1>4, <1>5, Steps

(* The optimistic transactions of any number of concurrent requests        *)
(* implement the one shared estimate: no update is lost, or applied to a   *)
(* stale value.                                                            *)
THEOREM NoLostUpdate == Spec => ImplementsShared
<1>1. Init => Bounded /\ UpdateInv
  BY BoundedInit DEF Init, UpdateInv, Updating, Watching
<1>2. Bounded /\ UpdateInv /\ [Next]_vars => (Bounded /\ UpdateInv)'
  BY TypeStep, UpdateStep
<1>3. Init => Shared!Init
  BY DEF Init, Shared!Init
<1>4. Bounded /\ UpdateInv /\ [Next]_vars => [Shared!Next]_stored
  BY SharedStep
<1> QED
  BY <1>1, <1>2, <1>3, <1>4, PTL DEF Spec, ImplementsShared, Shared!Spec

-----------------------------------------------------------------------------
(* Causes of skipped samples *)

LEMMA CauseStep ==
    ASSUME Bounded, UpdateInv, SkippedForCause, [Next]_vars
    PROVE  SkippedForCause'
<1> USE ClassifierConstants
<1>0. TypeOK /\ \A r \in Request : pc[r] \notin Watching => ~dirty[r]
  BY DEF Bounded, UpdateInv
<1> DEFINE Paid(q) ==
              /\ pc[q] = "watch" => tries[q] <= rivals[q] + lost[q]
              /\ pc[q] \in Watching =>
                    tries[q] <= rivals[q] + lost[q] + (IF dirty[q] THEN 0 ELSE 1)
           Paid1(q) ==
              /\ pc'[q] = "watch" => tries'[q] <= rivals'[q] + lost'[q]
              /\ pc'[q] \in Watching =>
                    tries'[q] <= rivals'[q] + lost'[q] + (IF dirty'[q] THEN 0 ELSE 1)
<1>d. pc \in [Request -> {"idle", "load", "serve", "hinted", "watch", "get", "exec"}]
      /\ dirty \in [Request -> BOOLEAN] /\ tries \in [Request -> 0..Retries]
      /\ rivals \in [Request -> 0..Retries] /\ lost \in [Request -> Nat]
  BY <1>0 DEF TypeOK
<1> SUFFICES ASSUME NEW q \in Request
             PROVE  Paid1(q)
  BY DEF SkippedForCause, Watching
<1>q. Paid(q) /\ (pc[q] \notin Watching => ~dirty[q]) /\ (pc[q] \notin Updating => tries[q] = 0)
  BY <1>0 DEF SkippedForCause, Bounded
<1> HIDE DEF Paid
<1>1. ASSUME NEW r \in Request, NEW hint \in Hint, Begin(r, hint)
      PROVE  Paid1(q)
  BY <1>1, <1>d, <1>q DEF Paid, Begin, Watching, Updating
<1>2. ASSUME NEW r \in Request, LoadState(r)
      PROVE  Paid1(q)
  BY <1>2, <1>d, <1>q DEF Paid, LoadState, Done, Watching, Updating
<1>3. ASSUME NEW r \in Request, Respond(r)
      PROVE  Paid1(q)
  BY <1>3, <1>d, <1>q DEF Paid, Respond, Done, Watching, Updating
<1>4. ASSUME NEW r \in Request, Watch(r)
      PROVE  Paid1(q)
  BY <1>4, <1>d, <1>q DEF Paid, Watch, Watching, Updating
<1>5. ASSUME NEW r \in Request, Get(r)
      PROVE  Paid1(q)
  BY <1>5, <1>d, <1>q DEF Paid, Get, Done, Untouched, Watching, Updating
<1>6. ASSUME NEW r \in Request, Exec(r) \/ LoseConnection(r)
      PROVE  Paid1(q)
  <2>1. CASE Commit(r) /\ Done(r)
    BY <2>1, <1>d, <1>q DEF Paid, Commit, Touch, Done, Watching, Updating
  <2>2. CASE pc[r] \in Watching /\ ~dirty[r] /\ Commit(r) /\ NextAttempt(r, 1) /\ ~Done(r)
    BY <2>2, <1>d, <1>q DEF Paid, Commit, Touch, NextAttempt, Watching, Updating
  <2>3. ASSUME pc[r] \in Watching, NEW n \in {0, 1}, Retry(r, n), n = 0 => dirty[r]
        PROVE  Paid1(q)
    <3>1. CASE Done(r)
      BY <2>3, <3>1, <1>d, <1>q DEF Paid, Retry, Done, Watching, Updating
    <3>2. CASE ~Done(r)
      BY <2>3, <3>2, <1>d, <1>q DEF Paid, Retry, NextAttempt, Watching, Updating
    <3> QED
      BY <3>1, <3>2
  <2> QED
    BY <1>6, <2>1, <2>2, <2>3, Attempts
<1>7. ASSUME NEW r \in Request, UpdateFails(r)
      PROVE  Paid1(q)
  BY <1>7, <1>d, <1>q DEF Paid, UpdateFails, Done, Untouched, Watching, Updating
<1>8. ASSUME Expire \/ Overwrite
      PROVE  Paid1(q)
  BY <1>8, <1>d, <1>q DEF Paid, Expire, Overwrite, Touch, Watching, Updating
<1>9. CASE UNCHANGED vars
  BY <1>9, <1>d, <1>q DEF Paid, vars, Watching, Updating
<1> QED
  BY <1>1, <1>2, <1>3, <1>4, <1>5, <1>6, <1>7, <1>8, <1>9, Steps

(* A failed attempt of _update_state is always paid for by a change of the *)
(* key or by a lost connection, so that a sample whose update ran out of   *)
(* attempts met Retries of these, for any number of requests.              *)
THEOREM SkipsArePaid == Spec => []SkippedForCause
<1>1. Init => Bounded /\ UpdateInv /\ SkippedForCause
  BY BoundedInit DEF Init, UpdateInv, SkippedForCause, Updating, Watching
<1>2. Bounded /\ UpdateInv /\ SkippedForCause /\ [Next]_vars
        => (Bounded /\ UpdateInv /\ SkippedForCause)'
  BY TypeStep, UpdateStep, CauseStep
<1> QED
  BY <1>1, <1>2, PTL DEF Spec

-----------------------------------------------------------------------------
(* Flapping *)

(* A candidate other than the current tier lies beyond its threshold. *)
LEMMA CandidateArgues ==
    ASSUME NEW x \in Nat, NEW t \in Tier, CandidateTier(x, t) # t
    PROVE  Argues(x, t, CandidateTier(x, t))
<1> USE RttConstants
<1>1. CASE t = "GOOD"
  BY <1>1 DEF CandidateTier, ClassifyRtt, Order, Argues
<1>2. CASE t = "DEGRADED"
  BY <1>2 DEF CandidateTier, ClassifyRtt, Order, Argues
<1>3. CASE t = "POOR"
  BY <1>3 DEF CandidateTier, ClassifyRtt, Order, Argues
<1> QED
  BY <1>1, <1>2, <1>3 DEF Tier

(* The averages of a pending streak, in a window *)
Backed(s, averages) ==
    s.pending_tier # NoTier =>
        /\ s.pending_count <= Len(averages)
        /\ s.pending_count < TransitionSamples
        /\ \A i \in 1..s.pending_count : Argues(averages[i], s.tier, s.pending_tier)

(* advance extends the streak, ends it, or changes the tier on N averages. *)
LEMMA AdvanceBacked ==
    ASSUME NEW s \in State, NEW x \in Nat, NEW old \in Seq(Nat),
           Len(old) <= TransitionSamples, Backed(s, old),
           NEW t, t = Advance(s, x), NEW new, new = Slide(old, t.ewma)
    PROVE  /\ Backed(t, new)
           /\ t.tier # s.tier => Unanimous(new, s.tier, t.tier)
<1> USE RttConstants
<1> DEFINE e == Ewma(s.ewma, x)
           c == CandidateTier(e, s.tier)
           n == Streak(s, c)
<1>1. s.ewma \in Nat \cup {Unknown} /\ s.tier \in Tier /\ s.pending_count \in Nat
      /\ s.pending_tier \in Tier \cup {NoTier}
  BY DEF State
<1>2. e \in Nat
  BY <1>1, EwmaType
<1>3. c \in Tier /\ c # NoTier /\ (c # s.tier => Argues(e, s.tier, c))
  BY <1>1, <1>2, CandidateType, CandidateArgues DEF Tier, NoTier
<1>4. n \in Nat /\ n = IF c = s.pending_tier THEN s.pending_count + 1 ELSE 1
  BY <1>1 DEF Streak
<1> HIDE DEF e, c, n
<1>5. /\ t.ewma = e
      /\ t = IF c = s.tier THEN [ewma |-> e, tier |-> s.tier, pending_tier |-> NoTier, pending_count |-> 0]
             ELSE IF n >= TransitionSamples
             THEN [ewma |-> e, tier |-> c, pending_tier |-> NoTier, pending_count |-> 0]
             ELSE [ewma |-> e, tier |-> s.tier, pending_tier |-> c, pending_count |-> n]
  BY DEF Advance, e, c, n
<1>6. /\ new \in Seq(Nat) /\ new[1] = e
      /\ Len(new) = IF Len(old) < TransitionSamples THEN Len(old) + 1 ELSE TransitionSamples
      /\ \A i \in 2..Len(new) : i - 1 \in 1..Len(old) /\ new[i] = old[i - 1]
  BY <1>2, <1>5, Window
<1>7. Len(old) \in Nat /\ Len(new) \in Nat
  BY <1>6
<1>8. n <= Len(new) /\ n <= TransitionSamples
  BY <1>1, <1>3, <1>4, <1>6, <1>7 DEF Backed
<1>9. ASSUME c # s.tier
      PROVE  \A i \in 1..n : Argues(new[i], s.tier, c)
  <2>1. Argues(new[1], s.tier, c)
    BY <1>3, <1>6, <1>9
  <2>2. ASSUME NEW i \in 2..n
        PROVE  Argues(new[i], s.tier, c)
    <3>1. c = s.pending_tier /\ n = s.pending_count + 1
      BY <1>4, <2>2
    <3>2. i - 1 \in 1..s.pending_count /\ new[i] = old[i - 1]
      <4>1. i \in 2..Len(new)
        BY <1>4, <1>7, <1>8, <2>2
      <4>2. new[i] = old[i - 1]
        BY <1>6, <4>1
      <4>3. i - 1 \in 1..s.pending_count
        BY <1>1, <2>2, <3>1
      <4> QED
        BY <4>2, <4>3
    <3> QED
      BY <1>3, <3>1, <3>2 DEF Backed
  <2>3. \A i \in 1..n : i = 1 \/ i \in 2..n
    BY <1>4
  <2> QED
    BY <2>1, <2>2, <2>3
<1>10. CASE c = s.tier
  BY <1>5, <1>10 DEF Backed
<1>11. CASE c # s.tier /\ n >= TransitionSamples
  <2>1. n = TransitionSamples /\ Len(new) = n
    BY <1>4, <1>6, <1>7, <1>8, <1>11
  <2>2. t.tier = c /\ t.pending_tier = NoTier
    BY <1>5, <1>11
  <2> QED
    BY <1>9, <1>11, <2>1, <2>2 DEF Backed, Unanimous
<1>12. CASE c # s.tier /\ ~(n >= TransitionSamples)
  <2>1. t.tier = s.tier /\ t.pending_tier = c /\ t.pending_count = n
    BY <1>5, <1>12
  <2> QED
    BY <1>4, <1>8, <1>9, <1>12, <2>1 DEF Backed
<1> QED
  BY <1>10, <1>11, <1>12

LEMMA StreakStep ==
    ASSUME Bounded, UpdateInv, StreakInv, [Next]_vars
    PROVE  /\ StreakInv'
           /\ stored' \in State /\ Decode(stored).tier # stored'.tier
                 => Unanimous(recent', Decode(stored).tier, stored'.tier)
<1>t. /\ stored \in State \cup {Absent} \cup Corrupt
      /\ recent \in Seq(Nat) /\ Len(recent) <= TransitionSamples
  BY DEF Bounded, TypeOK
<1>s. stored \in State => Decode(stored) = stored
  BY ClassifierConstants DEF Decode
<1>b. Backed(Decode(stored), recent)
  <2>1. CASE stored \in State
    BY <1>s, <2>1 DEF StreakInv, Backed
  <2>2. CASE stored \notin State
    BY <1>t, <2>2 DEF Decode, Fresh, Backed
  <2> QED
    BY <2>1, <2>2
<1>1. ASSUME NEW r \in Request, pc[r] = "exec", ~dirty[r], Commit(r)
      PROVE  /\ StreakInv'
             /\ Decode(stored).tier # stored'.tier
                   => Unanimous(recent', Decode(stored).tier, stored'.tier)
  <2>1. Commit(r) /\ view[r] = Decode(stored) /\ sample[r] \in Nat
    BY <1>1 DEF UpdateInv, Bounded, TypeOK
  <2>2. Decode(stored) \in State
    BY <1>t, DecodeType
  <2>3. stored' = Advance(Decode(stored), sample[r]) /\ recent' = Slide(recent, stored'.ewma)
    BY <2>1 DEF Commit
  <2>4. /\ Backed(stored', recent')
        /\ stored'.tier # Decode(stored).tier
              => Unanimous(recent', Decode(stored).tier, stored'.tier)
    BY <1>t, <1>b, <2>1, <2>2, <2>3, AdvanceBacked
  <2>5. Len(recent') <= TransitionSamples
    BY TypeStep DEF Bounded
  <2> QED
    BY <2>4, <2>5 DEF Backed, StreakInv, Argues
<1>2. ASSUME Expire \/ Overwrite
      PROVE  StreakInv' /\ stored' \notin State
  <2>1. recent' = <<>> /\ stored' \in {Absent} \cup Corrupt
    BY <1>2 DEF Expire, Overwrite
  <2>2. Len(recent') <= TransitionSamples /\ stored' \notin State
    BY <2>1, ClassifierConstants, RttConstants
  <2> QED
    BY <2>2 DEF StreakInv, State, Tier
<1>3. ASSUME UNCHANGED <<stored, recent>>
      PROVE  StreakInv' /\ (stored' \in State => Decode(stored).tier = stored'.tier)
  BY <1>s, <1>3 DEF StreakInv, Argues, State, Tier
<1>4. ASSUME NEW r \in Request,
             \/ \E hint \in Hint : Begin(r, hint)
             \/ LoadState(r) \/ Respond(r) \/ Watch(r) \/ Get(r) \/ UpdateFails(r)
             \/ \E n \in {0, 1} : Retry(r, n)
      PROVE  UNCHANGED <<stored, recent>>
  BY <1>4 DEF Begin, LoadState, Respond, Watch, Get, UpdateFails, Untouched, Retry
<1>5. CASE UNCHANGED vars
  BY <1>3, <1>5 DEF vars
<1> QED
  BY <1>1, <1>2, <1>3, <1>4, <1>5, Steps, Attempts

(* Whatever the thresholds, the hysteresis, the smoothing and the samples  *)
(* of concurrent requests: the tier changes only on                        *)
(* rtt_transition_samples averages in a row beyond the threshold.          *)
THEOREM TierDwells == Spec => NoFlapping
<1>1. Init => Bounded /\ UpdateInv /\ StreakInv
  <2>1. Init => Bounded /\ UpdateInv
    BY BoundedInit DEF Init, UpdateInv, Updating, Watching
  <2>2. Init => StreakInv
    BY ClassifierConstants, RttConstants DEF Init, StreakInv
  <2> QED
    BY <2>1, <2>2
<1>2. Bounded /\ UpdateInv /\ StreakInv /\ [Next]_vars => (Bounded /\ UpdateInv /\ StreakInv)'
  BY TypeStep, UpdateStep, StreakStep
<1>3. Bounded /\ UpdateInv /\ StreakInv /\ [Next]_vars
        => [stored' \in State /\ Decode(stored).tier # stored'.tier
              => Unanimous(recent', Decode(stored).tier, stored'.tier)]_vars
  BY StreakStep
<1> QED
  BY <1>1, <1>2, <1>3, PTL DEF Spec, NoFlapping

-----------------------------------------------------------------------------
(* Response *)

(* An average argues for its candidate and for no other tier. *)
LEMMA ArguesOnce ==
    ASSUME NEW x \in Nat, NEW t \in Tier, NEW b \in Tier, Argues(x, t, b)
    PROVE  b = CandidateTier(x, t) /\ b # t
<1> USE RttConstants
<1>1. CASE t = "GOOD"
  BY <1>1 DEF CandidateTier, ClassifyRtt, Order, Argues
<1>2. CASE t = "DEGRADED"
  BY <1>2 DEF CandidateTier, ClassifyRtt, Order, Argues
<1>3. CASE t = "POOR"
  BY <1>3 DEF CandidateTier, ClassifyRtt, Order, Argues
<1> QED
  BY <1>1, <1>2, <1>3 DEF Tier

(* The candidate of an average is also its candidate from there. *)
LEMMA CandidateSettles ==
    ASSUME NEW x \in Nat, NEW t \in Tier
    PROVE  CandidateTier(x, CandidateTier(x, t)) = CandidateTier(x, t)
<1> USE RttConstants
<1>1. CASE t = "GOOD"
  BY <1>1 DEF CandidateTier, ClassifyRtt, Order
<1>2. CASE t = "DEGRADED"
  BY <1>2 DEF CandidateTier, ClassifyRtt, Order
<1>3. CASE t = "POOR"
  BY <1>3 DEF CandidateTier, ClassifyRtt, Order
<1> QED
  BY <1>1, <1>2, <1>3 DEF Tier

(* The runs of averages in a window, as s counts them *)
Exact(s, averages) ==
    \A b \in Tier :
        Len(averages) > Counted(s, b) =>
            \E i \in 1..Counted(s, b) + 1 : ~Argues(averages[i], s.tier, b)

(* advance counts every run of averages to its end. *)
LEMMA AdvanceExact ==
    ASSUME NEW s \in State, NEW x \in Nat, NEW old \in Seq(Nat),
           Len(old) <= TransitionSamples, Exact(s, old),
           NEW t, t = Advance(s, x), NEW new, new = Slide(old, t.ewma)
    PROVE  Exact(t, new)
<1> USE RttConstants
<1> DEFINE e == Ewma(s.ewma, x)
           c == CandidateTier(e, s.tier)
           n == Streak(s, c)
<1>1. s.ewma \in Nat \cup {Unknown} /\ s.tier \in Tier /\ s.pending_count \in Nat
      /\ s.pending_tier \in Tier \cup {NoTier}
  BY DEF State
<1>2. e \in Nat
  BY <1>1, EwmaType
<1>3. c \in Tier /\ CandidateTier(e, c) = c
      /\ \A b \in Tier : Argues(e, s.tier, b) => b = c /\ b # s.tier
  <2> HIDE DEF e
  <2>1. c \in Tier /\ CandidateTier(e, c) = c
    BY <1>1, <1>2, CandidateType, CandidateSettles
  <2>2. ASSUME NEW b \in Tier, Argues(e, s.tier, b) PROVE b = c /\ b # s.tier
    BY <1>1, <1>2, <2>2, ArguesOnce
  <2> QED
    BY <2>1, <2>2
<1>4. \A b \in Tier : ~Argues(e, c, b)
  BY <1>2, <1>3, ArguesOnce
<1>5. n \in Nat /\ n = Counted(s, c) + 1
  BY <1>1 DEF Streak, Counted
<1> HIDE DEF e, c, n
<1>6. /\ t.ewma = e
      /\ t = IF c = s.tier THEN [ewma |-> e, tier |-> s.tier, pending_tier |-> NoTier, pending_count |-> 0]
             ELSE IF n >= TransitionSamples
             THEN [ewma |-> e, tier |-> c, pending_tier |-> NoTier, pending_count |-> 0]
             ELSE [ewma |-> e, tier |-> s.tier, pending_tier |-> c, pending_count |-> n]
  BY DEF Advance, e, c, n
<1>7. /\ new \in Seq(Nat) /\ new[1] = e
      /\ \A i \in 2..Len(new) : i - 1 \in 1..Len(old) /\ new[i] = old[i - 1]
  BY <1>2, <1>6, Window
<1>8. Len(old) \in Nat /\ Len(new) \in Nat
  BY <1>7
<1>9. SUFFICES ASSUME NEW b \in Tier, Len(new) > Counted(t, b)
               PROVE  \E i \in 1..Counted(t, b) + 1 : ~Argues(new[i], t.tier, b)
  BY DEF Exact
<1>10. Counted(t, b) \in Nat
  BY <1>5, <1>6 DEF Counted
<1>11. CASE ~Argues(e, t.tier, b)
  BY <1>7, <1>10, <1>11
<1>12. CASE Argues(e, t.tier, b)
  <2>1. t.tier = s.tier /\ t.pending_tier = c /\ t.pending_count = n /\ b = c
    BY <1>3, <1>4, <1>6, <1>12
  <2>2. Counted(t, b) = n /\ Counted(s, c) = n - 1 /\ n - 1 \in Nat
    BY <1>1, <1>5, <2>1 DEF Counted
  <2>3. n + 1 \in 2..Len(new)
    BY <1>5, <1>8, <1>9, <2>2
  <2>4. Len(old) > n - 1
    BY <1>5, <1>7, <1>8, <2>3
  <2>5. PICK j \in 1..n : ~Argues(old[j], s.tier, c)
    BY <1>3, <1>5, <2>2, <2>4 DEF Exact
  <2>6. j + 1 \in 2..Len(new) /\ j + 1 \in 1..n + 1 /\ j + 1 - 1 = j
    BY <1>5, <1>8, <2>3
  <2>7. new[j + 1] = old[j]
    BY <1>7, <2>6
  <2> QED
    BY <2>1, <2>2, <2>5, <2>6, <2>7
<1> QED
  BY <1>11, <1>12

LEMMA CountedStep ==
    ASSUME Bounded, UpdateInv, CountedInv, [Next]_vars
    PROVE  CountedInv'
<1>t. /\ stored \in State \cup {Absent} \cup Corrupt
      /\ recent \in Seq(Nat) /\ Len(recent) <= TransitionSamples
  BY DEF Bounded, TypeOK
<1>s. stored \in State => Decode(stored) = stored
  BY ClassifierConstants DEF Decode
<1>e. Exact(Decode(stored), recent)
  <2>1. CASE stored \in State
    BY <1>s, <2>1 DEF CountedInv, Exact
  <2>2. CASE stored \notin State
    <3>1. Decode(stored) = Fresh /\ Len(recent) = 0
      BY <1>t, <2>2 DEF Decode, CountedInv
    <3>2. \A b \in Tier : Counted(Fresh, b) = 0
      BY DEF Counted, Fresh
    <3> QED
      BY <3>1, <3>2 DEF Exact
  <2> QED
    BY <2>1, <2>2
<1>1. ASSUME NEW r \in Request, pc[r] = "exec", ~dirty[r], Commit(r)
      PROVE  CountedInv'
  <2>1. Commit(r) /\ view[r] = Decode(stored) /\ sample[r] \in Nat
    BY <1>1 DEF UpdateInv, Bounded, TypeOK
  <2>2. Decode(stored) \in State
    BY <1>t, DecodeType
  <2>3. stored' = Advance(Decode(stored), sample[r]) /\ recent' = Slide(recent, stored'.ewma)
    BY <2>1 DEF Commit
  <2>4. Exact(stored', recent')
    BY <1>t, <1>e, <2>1, <2>2, <2>3, AdvanceExact
  <2>5. stored' \in State
    BY <2>1, <2>2, <2>3, AdvanceType
  <2> QED
    BY <2>4, <2>5 DEF CountedInv, Exact, Counted, Argues
<1>2. ASSUME Expire \/ Overwrite
      PROVE  CountedInv'
  <2>1. recent' = <<>> /\ stored' \in {Absent} \cup Corrupt
    BY <1>2 DEF Expire, Overwrite
  <2>2. stored' \notin State
    BY <2>1, ClassifierConstants
  <2> QED
    BY <2>1, <2>2 DEF CountedInv
<1>3. ASSUME UNCHANGED <<stored, recent>>
      PROVE  CountedInv'
  BY <1>3 DEF CountedInv, Counted, Argues
<1>4. ASSUME NEW r \in Request,
             \/ \E hint \in Hint : Begin(r, hint)
             \/ LoadState(r) \/ Respond(r) \/ Watch(r) \/ Get(r) \/ UpdateFails(r)
             \/ \E n \in {0, 1} : Retry(r, n)
      PROVE  UNCHANGED <<stored, recent>>
  BY <1>4 DEF Begin, LoadState, Respond, Watch, Get, UpdateFails, Untouched, Retry
<1>5. CASE UNCHANGED vars
  BY <1>3, <1>5 DEF vars
<1> QED
  BY <1>1, <1>2, <1>3, <1>4, <1>5, Steps, Attempts

(* A run that the state counts is shorter than a transition needs. *)
LEMMA CountedResponds ==
    ASSUME TypeOK, StreakInv, CountedInv
    PROVE  Responsive
<1> USE RttConstants
<1>1. SUFFICES ASSUME stored \in State, NEW b \in Tier, Unanimous(recent, stored.tier, b)
               PROVE  FALSE
  BY DEF Responsive
<1>2. Counted(stored, b) \in Nat /\ Counted(stored, b) < TransitionSamples
  BY <1>1 DEF Counted, StreakInv, State, Tier, NoTier
<1>3. Len(recent) = TransitionSamples
      /\ \A i \in 1..TransitionSamples : Argues(recent[i], stored.tier, b)
  BY <1>1 DEF Unanimous
<1>4. PICK i \in 1..Counted(stored, b) + 1 : ~Argues(recent[i], stored.tier, b)
  BY <1>1, <1>2, <1>3 DEF CountedInv
<1>5. i \in 1..TransitionSamples
  BY <1>2
<1> QED
  BY <1>3, <1>4, <1>5

(* Whatever the thresholds and the samples: as soon as                     *)
(* rtt_transition_samples averages in a row lie beyond a threshold, the    *)
(* stored tier is the one they argue for.                                  *)
THEOREM TierFollows == Spec => []Responsive
<1> DEFINE Inv == Bounded /\ UpdateInv /\ StreakInv /\ CountedInv
<1>1. Init => Inv
  <2>1. Init => Bounded /\ UpdateInv
    BY BoundedInit DEF Init, UpdateInv, Updating, Watching
  <2>2. Init => StreakInv /\ CountedInv
    BY ClassifierConstants, RttConstants DEF Init, StreakInv, CountedInv
  <2> QED
    BY <2>1, <2>2
<1>2. Inv /\ [Next]_vars => Inv'
  BY TypeStep, UpdateStep, StreakStep, CountedStep
<1>3. Inv => Responsive
  BY CountedResponds DEF Bounded
<1> QED
  BY <1>1, <1>2, <1>3, PTL DEF Spec
=============================================================================
