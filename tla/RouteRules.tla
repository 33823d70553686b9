----------------------------- MODULE RouteRules -----------------------------
(***************************************************************************)
(* The active configuration of one process, config.py: per-service rules   *)
(* and upstreams, from built-ins, the environment and gateway.yaml, and    *)
(* POST /admin/reload-config.  A rule is abstracted to its optional_fields *)
(* and whether it is cacheable.                                            *)
(***************************************************************************)
EXTENDS Naturals, Sequences

CONSTANTS
    Service,   \* names of upstream services
    Default,   \* "_default", the key of the fallback rule
    Builtin,   \* _BUILTIN_RULES: a function from names to rules
    Env,       \* _ENV_UPSTREAMS: a function from names to base URLs
    File       \* documents gateway.yaml may hold

(* A document has upstreams, rules and the sections that do not validate. *)
ASSUME RuleConstants ==
    /\ Default \notin Service /\ Default \in DOMAIN Builtin
    /\ DOMAIN Builtin \subseteq Service \cup {Default} /\ DOMAIN Env \subseteq Service
    /\ \A f \in File :
        /\ DOMAIN f.upstreams \subseteq Service
        /\ DOMAIN f.rules \subseteq Service \cup {Default}
        /\ f.invalid \subseteq {"upstreams", "rules"}

VARIABLES
    disk,       \* the document on disk; an empty one when there is no file
    rules,      \* ROUTE_RULES
    upstreams   \* settings.upstream_services

config == <<disk, rules, upstreams>>

Empty == [upstreams |-> <<>>, rules |-> <<>>, invalid |-> {}]

Valid(f) == f.invalid = {}

(* dict.update: g wins. *)
Overlay(f, g) == [x \in DOMAIN f \cup DOMAIN g |-> IF x \in DOMAIN g THEN g[x] ELSE f[x]]

(* What a process that has read document f works with. *)
RulesOf(f) == Overlay(Builtin, f.rules)
UpstreamsOf(f) == Overlay(Env, f.upstreams)

ConfigInit == disk = Empty /\ rules = RulesOf(Empty) /\ upstreams = UpstreamsOf(Empty)

(* Mutant: sections take effect as they are validated. *)
LoadPartial ==
    /\ upstreams' = IF "upstreams" \in disk.invalid THEN upstreams ELSE UpstreamsOf(disk)
    /\ rules' = IF Valid(disk) THEN RulesOf(disk) ELSE rules

(* load_route_rules: the whole document is validated, then built-ins and   *)
(* environment overlaid by it replace what was active.                     *)
LoadRouteRules ==
    \/ /\ Valid(disk)
       /\ rules' = RulesOf(disk) /\ upstreams' = UpstreamsOf(disk)
    \/ /\ ~Valid(disk)
       /\ UNCHANGED <<rules, upstreams>>

(* reload_config.  It runs without an await, so no request sees a part. *)
Reload == LoadRouteRules /\ UNCHANGED disk

(* An operator replaces or removes the file. *)
WriteFile == disk' \in File \cup {Empty} /\ UNCHANGED <<rules, upstreams>>

(* get_route_rule *)
GetRouteRule(s) == IF s \in DOMAIN rules THEN rules[s] ELSE rules[Default]

-----------------------------------------------------------------------------
(* Whatever was written and reloaded before, and whichever reload failed,  *)
(* the active rules and upstreams are those of one valid document: nothing *)
(* of an earlier file survives and no half of an invalid one is used.      *)
OneDocument ==
    \E f \in File \cup {Empty} :
        Valid(f) /\ rules = RulesOf(f) /\ upstreams = UpstreamsOf(f)

(* The configuration by itself, as the larger specification moves it. *)
ConfigSpec == ConfigInit /\ [][Reload \/ WriteFile]_config

(* The inductive strengthening: the file is one of those allowed. *)
ConfigInv == disk \in File \cup {Empty} /\ OneDocument
=============================================================================
