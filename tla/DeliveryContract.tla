-------------------------- MODULE DeliveryContract --------------------------
(***************************************************************************)
(* What the offline queue promises the clients of the gateway, without     *)
(* streams, workers, leases or time (ARCHITECTURE.md, "Offline queue and   *)
(* delivery semantics"): at-least-once replay of accepted writes.  A write *)
(* is settled when the upstream confirmed it or when it was recorded as a  *)
(* dead letter; only a settled write may be forgotten.                     *)
(***************************************************************************)
CONSTANT Write

VARIABLES
    accepted,  \* writes whose client was told they are queued
    held,      \* writes the queue would still replay
    settled    \* writes confirmed or dead-lettered

cvars == <<accepted, held, settled>>

Init == accepted = {} /\ held = {} /\ settled = {}

(* A new write is stored; its client may or may not learn of it. *)
Accept(m) ==
    /\ m \notin accepted \cup held \cup settled
    /\ held' = held \cup {m}
    /\ accepted' \in {accepted, accepted \cup {m}}
    /\ UNCHANGED settled

Settle(m) ==
    /\ m \in held
    /\ settled' = settled \cup {m}
    /\ UNCHANGED <<accepted, held>>

Forget(m) ==
    /\ m \in held \cap settled
    /\ held' = held \ {m}
    /\ UNCHANGED <<accepted, settled>>

Next == \E m \in Write : Accept(m) \/ Settle(m) \/ Forget(m)

Spec == Init /\ [][Next]_cvars

FairSpec == Spec /\ \A m \in Write : WF_cvars(Settle(m)) /\ WF_cvars(Forget(m))
=============================================================================
