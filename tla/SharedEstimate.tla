--------------------------- MODULE SharedEstimate ---------------------------
(***************************************************************************)
(* What the passive classifier promises: one estimate per client, to which *)
(* samples are applied one after the other, and which may be forgotten or  *)
(* overwritten from outside.  No sample is ever applied to an old value.   *)
(***************************************************************************)
EXTENDS RttState

CONSTANTS Sample, Absent, Corrupt

VARIABLE estimate

(* _decode_state; values it rejects count as no estimate. *)
Decode(raw) == IF raw \in {Absent} \cup Corrupt THEN Fresh ELSE raw

Init == estimate = Absent

Apply(sample) == estimate' = Advance(Decode(estimate), sample)

Forget == estimate' = Absent

Overwrite == estimate' \in Corrupt

Next == (\E sample \in Sample : Apply(sample)) \/ Forget \/ Overwrite

Spec == Init /\ [][Next]_estimate
=============================================================================
