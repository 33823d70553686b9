--------------------------- MODULE RttClassifier ---------------------------
(***************************************************************************)
(* NetworkDetectorMiddleware.dispatch of middleware/network_detector.py    *)
(* for the requests of one client, handled by any gateway processes: the   *)
(* explicit hints, the shared passive estimate under netq:{client}, and    *)
(* its update by an optimistic WATCH / MULTI / EXEC transaction.           *)
(***************************************************************************)
EXTENDS RttState, Sequences

CONSTANTS
    Request,    \* concurrent requests of the client
    Sample,     \* link times that can be observed or reported
    Retries,    \* attempts of _update_state (4)
    Absent,     \* "the key does not exist"
    Garbled,    \* values that _decode_state rejects
    Infinite,   \* values whose pending_count is an infinite float
    MaxFaults   \* bound on Redis failures

Corrupt == Garbled \cup Infinite

ASSUME ClassifierConstants ==
    /\ Sample \subseteq Nat
    /\ Retries \in Nat \ {0} /\ MaxFaults \in Nat
    /\ Garbled \cap Infinite = {} /\ Absent \notin Corrupt
    /\ \A x \in Corrupt \cup {Absent} : x \notin State

VARIABLES
    stored,   \* the value of netq:{client} in Redis
    pc,
    quality,  \* request.state.network_quality
    sample,   \* link_rtt_ms of the request
    tries,    \* attempts of _update_state so far
    view,     \* the state read in the current attempt
    dirty,    \* the key has changed since this request's WATCH
    \* history and bounds
    rivals,   \* changes of the key by others since this request's first WATCH
    lost,     \* connections this request's update has lost while watching
    recent,   \* the averages of the last updates, the newest first
    faults

vars == <<stored, pc, quality, sample, tries, view, dirty, rivals, lost, recent, faults>>

TypeOK ==
    /\ stored \in State \cup {Absent} \cup Corrupt
    /\ pc \in [Request -> {"idle", "load", "serve", "hinted", "watch", "get", "exec"}]
    /\ quality \in [Request -> Tier]
    /\ sample \in [Request -> Nat]
    /\ tries \in [Request -> 0..Retries]
    /\ view \in [Request -> State]
    /\ dirty \in [Request -> BOOLEAN]
    /\ rivals \in [Request -> 0..Retries] /\ lost \in [Request -> Nat]
    /\ recent \in Seq(Nat)
    /\ faults \in 0..MaxFaults

Init ==
    /\ stored = Absent
    /\ pc = [r \in Request |-> "idle"]
    /\ quality = [r \in Request |-> "GOOD"]
    /\ sample = [r \in Request |-> 0]
    /\ tries = [r \in Request |-> 0]
    /\ view = [r \in Request |-> Fresh]
    /\ dirty = [r \in Request |-> FALSE]
    /\ rivals = [r \in Request |-> 0] /\ lost = [r \in Request |-> 0]
    /\ recent = <<>>
    /\ faults = 0

-----------------------------------------------------------------------------
(* Helpers *)

Fault == faults < MaxFaults /\ faults' = faults + 1

(* _decode_state; int() of an infinite float raises OverflowError instead. *)
Decode(raw) == IF raw \in {Absent} \cup Corrupt THEN Fresh ELSE raw

Watching == {"get", "exec"}

Updating == {"watch"} \cup Watching

(* A write or expiry of the key invalidates every transaction watching it, *)
(* and counts as a rival of every update but the one that made it.  An     *)
(* update that is over has no rivals.                                      *)
Touch(writers) ==
    /\ dirty' = [r \in Request |-> r \notin writers /\ (dirty[r] \/ pc[r] \in Watching)]
    /\ rivals' = [r \in Request |->
                     IF pc'[r] \notin Updating THEN 0
                     ELSE IF r \notin writers /\ rivals[r] < Retries
                     THEN rivals[r] + 1 ELSE rivals[r]]

(* The window of the last averages after one more. *)
Slide(averages, x) ==
    SubSeq(<<x>> \o averages, 1,
           IF Len(averages) < TransitionSamples THEN Len(averages) + 1 ELSE TransitionSamples)

(* The request is over, with or without an update. *)
Done(r) ==
    /\ pc' = [pc EXCEPT ![r] = "idle"]
    /\ quality' = [quality EXCEPT ![r] = "GOOD"]
    /\ sample' = [sample EXCEPT ![r] = 0]
    /\ tries' = [tries EXCEPT ![r] = 0]
    /\ view' = [view EXCEPT ![r] = Fresh]
    /\ lost' = [lost EXCEPT ![r] = 0]

(* The key is as it was; the request watches it no longer. *)
Untouched(r) ==
    /\ dirty' = [dirty EXCEPT ![r] = FALSE]
    /\ rivals' = [rivals EXCEPT ![r] = 0]
    /\ UNCHANGED <<stored, recent>>

-----------------------------------------------------------------------------
(* dispatch *)

(* A request arrives with hints or without. *)
Begin(r, hint) ==
    LET explicit == ExplicitSignal(hint)
    IN  /\ pc[r] = "idle"
        /\ IF explicit # NoTier
           THEN /\ pc' = [pc EXCEPT ![r] = "hinted"]
                /\ quality' = [quality EXCEPT ![r] = explicit]
           ELSE pc' = [pc EXCEPT ![r] = "load"] /\ UNCHANGED quality
        /\ UNCHANGED <<stored, sample, tries, view, dirty, rivals, lost, recent, faults>>

(* _load_state: a Redis error counts as no estimate; the overflow is no    *)
(* RedisError, and the request is answered 500.                            *)
LoadState(r) ==
    /\ pc[r] = "load"
    /\ \/ /\ stored \notin Infinite
          /\ pc' = [pc EXCEPT ![r] = "serve"]
          /\ quality' = [quality EXCEPT ![r] = Decode(stored).tier]
          /\ UNCHANGED <<sample, tries, view, lost, faults>>
       \/ /\ stored \in Infinite
          /\ Done(r)
          /\ UNCHANGED faults
       \/ /\ Fault
          /\ pc' = [pc EXCEPT ![r] = "serve"]
          /\ UNCHANGED <<quality, sample, tries, view, lost>>
    /\ UNCHANGED <<stored, dirty, rivals, recent>>

(* call_next returns, or raises.  Only an answered request without hints   *)
(* has a sample to add.                                                    *)
Respond(r) ==
    /\ \/ pc[r] \in {"hinted", "serve"} /\ Done(r)
       \/ /\ pc[r] = "serve"
          /\ pc' = [pc EXCEPT ![r] = "watch"]
          /\ \E x \in Sample : sample' = [sample EXCEPT ![r] = x]
          /\ UNCHANGED <<quality, tries, view, lost>>
    /\ UNCHANGED <<stored, dirty, rivals, recent, faults>>

(* WATCH of one attempt of _update_state. *)
Watch(r) ==
    /\ pc[r] = "watch"
    /\ pc' = [pc EXCEPT ![r] = "get"]
    /\ tries' = [tries EXCEPT ![r] = @ + 1]
    /\ UNCHANGED <<stored, quality, sample, view, dirty, rivals, lost, recent, faults>>

(* GET, in the same transaction.  The overflow is no RedisError: it leaves *)
(* _update_state, and the request.                                         *)
Get(r) ==
    /\ pc[r] = "get"
    /\ \/ /\ stored \notin Infinite
          /\ pc' = [pc EXCEPT ![r] = "exec"]
          /\ view' = [view EXCEPT ![r] = Decode(stored)]
          /\ UNCHANGED <<stored, recent, quality, sample, tries, dirty, rivals, lost>>
       \/ /\ stored \in Infinite
          /\ Done(r) /\ Untouched(r)
    /\ UNCHANGED faults

(* The transaction takes effect: SET of the advanced state. *)
Commit(r) ==
    /\ stored' = Advance(view[r], sample[r])
    /\ recent' = Slide(recent, stored'.ewma)
    /\ Touch({r})

(* WatchError: the next attempt, until there is none left.  n is 1 when it *)
(* stands for a lost connection, else 0.                                   *)
NextAttempt(r, n) ==
    IF tries[r] < Retries
    THEN /\ pc' = [pc EXCEPT ![r] = "watch"]
         /\ view' = [view EXCEPT ![r] = Fresh]
         /\ lost' = [lost EXCEPT ![r] = @ + n]
         /\ UNCHANGED <<quality, sample, tries>>
    ELSE Done(r)

(* The same without a write. *)
Retry(r, n) ==
    /\ NextAttempt(r, n)
    /\ dirty' = [dirty EXCEPT ![r] = FALSE]
    /\ rivals' = [rivals EXCEPT ![r] = IF tries[r] < Retries THEN @ ELSE 0]
    /\ UNCHANGED <<stored, recent>>

(* Mutants: EXEC without WATCH; any attempt may be refused. *)
ExecBlind(r) ==
    /\ pc[r] = "exec"
    /\ Done(r) /\ Commit(r)
    /\ UNCHANGED faults

ExecRefused(r) ==
    /\ pc[r] = "exec"
    /\ (Done(r) /\ Commit(r)) \/ Retry(r, 0)
    /\ UNCHANGED faults

(* MULTI, SET, EXEC: it commits when the key is unchanged since WATCH. *)
Exec(r) ==
    /\ pc[r] = "exec"
    /\ IF dirty[r] THEN Retry(r, 0) ELSE Done(r) /\ Commit(r)
    /\ UNCHANGED faults

(* A connection error or a timeout while a key is watched: the pipeline of *)
(* the client library raises it as WatchError, so the attempt is spent and *)
(* the next one begins.  When only the reply of EXEC was lost, the sample  *)
(* has been added and is added again.                                      *)
LoseConnection(r) ==
    /\ pc[r] \in Watching
    /\ Fault
    /\ \/ Retry(r, 1)
       \/ pc[r] = "exec" /\ ~dirty[r] /\ NextAttempt(r, 1) /\ Commit(r)

(* Any other RedisError ends the update, and so the request, without a     *)
(* write: a connection that fails at WATCH, or an error reply later on.    *)
UpdateFails(r) ==
    /\ pc[r] \in Updating
    /\ Fault
    /\ Done(r) /\ Untouched(r)

-----------------------------------------------------------------------------
(* The key changes from outside *)

(* rtt_state_ttl_seconds pass without an update. *)
Expire ==
    /\ stored # Absent
    /\ stored' = Absent /\ recent' = <<>>
    /\ UNCHANGED <<pc, quality, sample, tries, view, lost, faults>>
    /\ Touch({})

(* Some other program writes the key. *)
Overwrite ==
    /\ stored' \in Corrupt \ {stored}
    /\ recent' = <<>>
    /\ UNCHANGED <<pc, quality, sample, tries, view, lost, faults>>
    /\ Touch({})

-----------------------------------------------------------------------------
(* Specification *)

Hint == [rtt : Sample \cup {Unknown}, ect : {"", "3g"}, saveData : BOOLEAN]

RequestStep(r) ==
    \/ LoadState(r) \/ Respond(r) \/ Watch(r) \/ Get(r) \/ Exec(r)
    \/ LoseConnection(r) \/ UpdateFails(r)

Next ==
    \/ \E r \in Request, hint \in Hint : Begin(r, hint)
    \/ \E r \in Request : RequestStep(r)
    \/ Expire
    \/ Overwrite

Spec == Init /\ [][Next]_vars

-----------------------------------------------------------------------------
(* Properties *)

Shared == INSTANCE SharedEstimate WITH estimate <- stored

(* No update is lost or applied to a stale value: every write of the key   *)
(* advances the very state it replaces by one sample, although reading,    *)
(* computing and writing are separate steps of concurrent requests.        *)
ImplementsShared == Shared!Spec

(* Every failed attempt of _update_state was caused by a change of the key *)
(* during it or by a connection it lost, so a sample is skipped only after *)
(* Retries of these: ARCHITECTURE.md names only the contention.            *)
SkippedForCause ==
    \A r \in Request :
        LET causes == rivals[r] + lost[r]
        IN  /\ pc[r] = "watch" => tries[r] <= causes
            /\ pc[r] \in Watching => tries[r] <= causes + (IF dirty[r] THEN 0 ELSE 1)

(* An average that argues for tier b against tier a. *)
Argues(x, a, b) ==
    \/ b = "POOR" /\ a # "POOR" /\ x >= DegradedMs
    \/ b = "DEGRADED" /\ a = "GOOD" /\ GoodMs <= x /\ x < DegradedMs
    \/ b = "DEGRADED" /\ a = "POOR" /\ GoodMs - HysteresisMs <= x /\ x < DegradedMs - HysteresisMs
    \/ b = "GOOD" /\ a # "GOOD" /\ x < GoodMs - HysteresisMs

Unanimous(averages, a, b) ==
    /\ Len(averages) = TransitionSamples
    /\ \A i \in 1..Len(averages) : Argues(averages[i], a, b)

(* The tier changes only when the last rtt_transition_samples averages all *)
(* lie beyond the threshold, the lowered one on the way down: no flapping. *)
NoFlapping ==
    [][stored' \in State /\ Decode(stored).tier # stored'.tier
          => Unanimous(recent', Decode(stored).tier, stored'.tier)]_vars

(* And it follows at once when they do. *)
Responsive ==
    stored \in State => \A b \in Tier : ~Unanimous(recent, stored.tier, b)

-----------------------------------------------------------------------------
(* Inductive strengthening, for RttClassifierProofs *)

(* A valid transaction holds the stored state and an observed sample;      *)
(* attempts are counted.                                                   *)
UpdateInv ==
    \A r \in Request :
        /\ pc[r] \notin Watching => ~dirty[r]
        /\ pc[r] = "exec" /\ ~dirty[r] => view[r] = Decode(stored)
        /\ pc[r] \in Updating => sample[r] \in Sample
        /\ pc[r] = "watch" => tries[r] < Retries
        /\ pc[r] \notin Updating => tries[r] = 0

(* The pending streak is what the last averages say. *)
StreakInv ==
    /\ Len(recent) <= TransitionSamples
    /\ stored \in State /\ stored.pending_tier # NoTier =>
          /\ stored.pending_count <= Len(recent)
          /\ stored.pending_count < TransitionSamples
          /\ \A i \in 1..stored.pending_count :
                Argues(recent[i], stored.tier, stored.pending_tier)

(* The streak of s for tier b *)
Counted(s, b) == IF b = s.pending_tier THEN s.pending_count ELSE 0

(* And no run of averages for any tier is longer than the state counts.    *)
CountedInv ==
    /\ stored \notin State => recent = <<>>
    /\ stored \in State => \A b \in Tier :
          Len(recent) > Counted(stored, b) =>
              \E i \in 1..Counted(stored, b) + 1 : ~Argues(recent[i], stored.tier, b)
=============================================================================
