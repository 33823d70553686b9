--------------------------- MODULE MCOfflineQueue ---------------------------
(* Constants of the model-checking runs of OfflineQueue. *)
EXTENDS OfflineQueue

OneDelay == <<1>>

=============================================================================
