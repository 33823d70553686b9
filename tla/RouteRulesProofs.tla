-------------------------- MODULE RouteRulesProofs --------------------------
(***************************************************************************)
(* load_route_rules is all or nothing, for any services, built-ins,        *)
(* environment and documents.                                              *)
(***************************************************************************)
EXTENDS RouteRules, TLAPS

LEMMA EmptyValid == Valid(Empty) /\ Empty \in File \cup {Empty}
  BY DEF Valid, Empty

LEMMA ReloadStep ==
  ASSUME ConfigInv, Reload
  PROVE  ConfigInv'
<1>1. disk \in File \cup {Empty} /\ disk' = disk
  BY DEF ConfigInv, Reload
<1>2. CASE Valid(disk)
  <2>1. rules' = RulesOf(disk) /\ upstreams' = UpstreamsOf(disk)
    BY <1>2 DEF Reload, LoadRouteRules
  <2>2. OneDocument'
    BY <1>1, <1>2, <2>1 DEF OneDocument
  <2>3. QED
    BY <1>1, <2>2 DEF ConfigInv
<1>3. CASE ~Valid(disk)
  <2>1. UNCHANGED <<rules, upstreams>>
    BY <1>3 DEF Reload, LoadRouteRules
  <2>2. QED
    BY <1>1, <2>1 DEF ConfigInv, OneDocument
<1>4. QED
  BY <1>2, <1>3

(* Whatever an operator writes and reloads, the active rules and upstreams *)
(* are those of one valid document: a reload that fails validation leaves  *)
(* the previous configuration as it was.                                   *)
THEOREM ReloadIsAtomic == ConfigSpec => []OneDocument
<1>1. ConfigInit => ConfigInv
  BY EmptyValid DEF ConfigInit, ConfigInv, OneDocument
<1>2. ConfigInv /\ [Reload \/ WriteFile]_config => ConfigInv'
  <2> SUFFICES ASSUME ConfigInv, [Reload \/ WriteFile]_config PROVE ConfigInv'
    OBVIOUS
  <2>1. CASE Reload
    BY <2>1, ReloadStep
  <2>2. CASE WriteFile
    BY <2>2 DEF WriteFile, ConfigInv, OneDocument
  <2>3. CASE UNCHANGED config
    BY <2>3 DEF config, ConfigInv, OneDocument
  <2>4. QED
    BY <2>1, <2>2, <2>3
<1>3. ConfigInv => OneDocument
  BY DEF ConfigInv
<1>4. QED
  BY <1>1, <1>2, <1>3, PTL DEF ConfigSpec
=============================================================================
