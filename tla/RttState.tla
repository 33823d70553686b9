------------------------------ MODULE RttState ------------------------------
(***************************************************************************)
(* The RTT tier machine of middleware/rtt_state.py and the explicit hints  *)
(* of middleware/network_detector.py, as operators.  Times are natural     *)
(* numbers in some unit; the smoothing factor is AlphaNum / AlphaDen and   *)
(* the average is rounded down to that unit.                               *)
(***************************************************************************)
EXTENDS Integers

CONSTANTS
    GoodMs, DegradedMs,   \* rtt_good_threshold_ms, rtt_degraded_threshold_ms
    HysteresisMs,         \* rtt_hysteresis_ms
    TransitionSamples,    \* rtt_transition_samples
    AlphaNum, AlphaDen    \* rtt_ewma_alpha

(* config.py, Settings.validate_boundaries *)
ASSUME RttConstants ==
    /\ GoodMs \in Nat /\ DegradedMs \in Nat /\ HysteresisMs \in Nat
    /\ 0 < GoodMs /\ GoodMs < DegradedMs /\ HysteresisMs < GoodMs
    /\ TransitionSamples \in Nat \ {0}
    /\ AlphaNum \in Nat /\ AlphaDen \in Nat /\ 0 < AlphaNum /\ AlphaNum <= AlphaDen

Tier == {"GOOD", "DEGRADED", "POOR"}

(* None, of ewma and of pending_tier *)
Unknown == -1
NoTier == "NONE"

State == [ewma : Nat \cup {Unknown}, tier : Tier, pending_tier : Tier \cup {NoTier},
          pending_count : Nat]

(* RttState() *)
Fresh == [ewma |-> Unknown, tier |-> "GOOD", pending_tier |-> NoTier, pending_count |-> 0]

(* _ORDER *)
Order(t) == CASE t = "GOOD" -> 0 [] t = "DEGRADED" -> 1 [] OTHER -> 2

(* classify_rtt, and the up-thresholds of _candidate_tier. *)
ClassifyRtt(value) ==
    IF value < GoodMs THEN "GOOD" ELSE IF value < DegradedMs THEN "DEGRADED" ELSE "POOR"

(* _candidate_tier *)
CandidateTier(value, current) ==
    LET up == ClassifyRtt(value)
    IN  IF Order(up) >= Order(current) THEN up
        ELSE IF current = "POOR" /\ value >= DegradedMs - HysteresisMs THEN "POOR"
        ELSE IF value < GoodMs - HysteresisMs THEN "GOOD" ELSE "DEGRADED"

Ewma(old, sample) ==
    IF old = Unknown THEN sample
    ELSE (AlphaNum * sample + (AlphaDen - AlphaNum) * old) \div AlphaDen

(* Mutants: agreement with the candidate so far is not required; a         *)
(* transition needs one sample more.                                       *)
StreakAny(s, candidate) == s.pending_count + 1
StreakLate(s, candidate) == IF candidate = s.pending_tier THEN s.pending_count ELSE 0

(* The number of consecutive samples for a candidate, this one included. *)
Streak(s, candidate) == IF candidate = s.pending_tier THEN s.pending_count + 1 ELSE 1

(* advance *)
Advance(s, sample) ==
    LET ewma == Ewma(s.ewma, sample)
        candidate == CandidateTier(ewma, s.tier)
        count == Streak(s, candidate)
        at(tier, pending, n) ==
            [ewma |-> ewma, tier |-> tier, pending_tier |-> pending, pending_count |-> n]
    IN  IF candidate = s.tier THEN at(s.tier, NoTier, 0)
        ELSE IF count >= TransitionSamples THEN at(candidate, NoTier, 0)
        ELSE at(s.tier, candidate, count)

(* ECT_MAP; "" for an absent or unknown value. *)
EctMap == [e \in {"4g", "3g", "2g", "slow-2g"} |->
              CASE e = "4g" -> "GOOD" [] e = "3g" -> "DEGRADED" [] OTHER -> "POOR"]

(* _explicit_signal: the first valid hint of X-Client-RTT, ECT, Save-Data. *)
ExplicitSignal(hint) ==
    IF hint.rtt # Unknown THEN ClassifyRtt(hint.rtt)
    ELSE IF hint.ect \in DOMAIN EctMap THEN EctMap[hint.ect]
    ELSE IF hint.saveData THEN "DEGRADED" ELSE NoTier
=============================================================================
