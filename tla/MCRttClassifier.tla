-------------------------- MODULE MCRttClassifier --------------------------
(***************************************************************************)
(* RttClassifier for TLC.  Requests are interchangeable.                   *)
(***************************************************************************)
EXTENDS RttClassifier, TLC

Requests == Permutations(Request)
=============================================================================
