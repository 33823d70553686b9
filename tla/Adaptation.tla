----------------------------- MODULE Adaptation -----------------------------
(***************************************************************************)
(* A proxied GET from its routing to the shape of its response: proxy and  *)
(* _handle_get of routes/proxy.py between RouteRules and ResponseOptimizer, *)
(* while an operator edits and reloads the configuration.                  *)
(*                                                                         *)
(* One request is in progress at a time: requests share the configuration, *)
(* which only a reload changes, and the cache, whose races are the subject *)
(* of ResponseCache; here a cached response may disappear at any time.     *)
(*                                                                         *)
(* The key of a cached response is made of the target and the forwarded    *)
(* headers, the client's address and quality among them.  So the requests  *)
(* here are those of one client at one quality for one path, and a cached  *)
(* response is found under the upstream's address.                         *)
(***************************************************************************)
EXTENDS RouteRules, ResponseOptimizer

CONSTANTS
    Discoverable,  \* services within upstream_discovery_domains
    Public,        \* the address discover_upstream finds
    Upstream,      \* responses an upstream may give
    Accept,        \* Accept-Encoding headers
    Mode           \* values of response_mode

Quality == {"GOOD", "DEGRADED", "POOR"}

NoResponse == NotAcceptable

(* Addresses a request may be sent to *)
Base == {Public} \cup UNION {Range(UpstreamsOf(f)) : f \in File \cup {Empty}}

(* Responses with a document of D, as they come from bounded_request or    *)
(* leave the optimizer.  An upstream may send markers of its own.          *)
Response(D) ==
    [status : Nat, media : {"json", "broken", "other"},
     control : {"none", "no-transform", "no-store", "other"}, coded : BOOLEAN,
     etag : BOOLEAN, doc : D, label : {"unset", "none", "stripped", "skeleton"},
     complete : {"unset", "full", "reduced"}]

(* The documents upstreams send. *)
Document == {u.doc : u \in Upstream}

ASSUME AdaptationConstants ==
    /\ Service # {}
    /\ Upstream \subseteq Response(Document)

VARIABLES
    mode,     \* settings.response_mode, "full" when adaptation is disabled
    pc,
    service,
    quality,  \* request.state.network_quality
    fields,   \* request.state.optional_fields
    mayUse,   \* rule.cacheable and _cache_allowed
    base,     \* the upstream's address
    cached,   \* request.state.served_from_cache
    resp,     \* the response of the route, later of the optimizer
    cache,    \* cache[b]: what the cache holds of the upstream at b
    \* history
    routed,   \* the service's rule when the request was routed
    origin,   \* the document the upstream sent for this response
    source,   \* source[b]: the document it sent for the cached one
    shown,    \* what the client sent in Accept-Encoding
    shaped    \* did the optimizer make the response?

request == <<service, quality, fields, mayUse, base, cached, routed>>
stored == <<cache, source>>
result == <<shown, shaped>>
vars == <<config, mode, pc, request, resp, stored, origin, result>>

TypeOK ==
    /\ pc \in {"idle", "discover", "lookup", "fetch", "shape", "done"}
    /\ mode \in Mode /\ quality \in Quality /\ service \in Service
    /\ mayUse \in BOOLEAN /\ cached \in BOOLEAN /\ shaped \in BOOLEAN
    /\ base \in Base /\ resp \in Response({resp.doc})
    /\ Default \in DOMAIN rules

Init ==
    /\ ConfigInit /\ mode \in Mode /\ pc = "idle"
    /\ service = CHOOSE s \in Service : TRUE
    /\ quality \in Quality /\ fields = <<>> /\ mayUse = FALSE /\ base = Public
    /\ cached = FALSE /\ routed = Builtin[Default] /\ shown = <<>> /\ shaped = FALSE
    /\ resp = NoResponse /\ origin = NoResponse.doc
    /\ cache = [b \in Base |-> NoResponse]
    /\ source = [b \in Base |-> NoResponse.doc]

-----------------------------------------------------------------------------
(* proxy *)

(* The rule is read in the step that finds the upstream.  A path that      *)
(* build_target refuses is answered with 400, which leaves no trace.       *)
Route(s, address) ==
    LET rule == GetRouteRule(s) IN
    /\ base' = address /\ fields' = rule.optional /\ routed' = rule
    /\ \E allowed \in BOOLEAN : mayUse' = (rule.cacheable /\ allowed)
    /\ cached' = FALSE /\ pc' = "lookup"

(* A GET for service s. *)
Begin(s) ==
    /\ pc = "idle" /\ service' = s
    /\ \/ s \in DOMAIN upstreams /\ Route(s, upstreams[s])
       \/ /\ s \notin DOMAIN upstreams /\ s \in Discoverable
          /\ pc' = "discover"
          /\ UNCHANGED <<fields, mayUse, base, cached, routed>>
    /\ UNCHANGED <<config, mode, quality, resp, stored, origin, result>>

(* discover_upstream: the only await between the two lookups.  It fails    *)
(* (404) or finds an address.                                              *)
Discover ==
    /\ pc = "discover"
    /\ \/ Route(service, Public)
       \/ pc' = "idle" /\ UNCHANGED <<fields, mayUse, base, cached, routed>>
    /\ UNCHANGED <<config, mode, service, quality, resp, stored, origin, result>>

-----------------------------------------------------------------------------
(* _handle_get *)

(* Mutant: the rule is read again after the await of cache_get. *)
LookupRereads ==
    /\ pc = "lookup" /\ fields' = GetRouteRule(service).optional
    /\ \/ /\ mayUse /\ cache[base] # NoResponse
          /\ resp' = cache[base] /\ origin' = source[base]
          /\ cached' = TRUE /\ pc' = "shape"
       \/ pc' = "fetch" /\ UNCHANGED <<cached, resp, origin>>
    /\ UNCHANGED <<config, mode, service, quality, mayUse, base, routed, stored, result>>

(* cache_get, fresh or stale *)
Lookup ==
    /\ pc = "lookup"
    /\ \/ /\ mayUse /\ cache[base] # NoResponse
          /\ resp' = cache[base] /\ origin' = source[base]
          /\ cached' = TRUE /\ pc' = "shape"
       \/ pc' = "fetch" /\ UNCHANGED <<cached, resp, origin>>
    /\ UNCHANGED <<config, mode, service, quality, fields, mayUse, base, routed, stored, result>>

(* bounded_request: httpx has decoded the body, so a coding goes and the   *)
(* validators with it.  A coding here is one that HTTPX can decode.        *)
Bounded(u) == [u EXCEPT !.coded = FALSE, !.etag = @ /\ ~u.coded]

(* _response_cacheable; "other" stands for every header it refuses. *)
Cacheable(r) == r.status = 200 /\ r.control = "none"

(* The upstream answers.  The 503 of a failed call is like an answer with  *)
(* another status than 200: neither is stored, and both pass the optimizer. *)
Fetch(u) ==
    /\ pc = "fetch" /\ pc' = "shape"
    /\ resp' = Bounded(u) /\ origin' = u.doc
    /\ IF mayUse /\ Cacheable(resp')
       THEN /\ cache' = [cache EXCEPT ![base] = resp']
            /\ source' = [source EXCEPT ![base] = u.doc]
       ELSE UNCHANGED stored
    /\ UNCHANGED <<config, mode, request, result>>

-----------------------------------------------------------------------------
(* ResponseOptimizerMiddleware *)

(* Mutant: the optimizer does not learn of a response from the cache. *)
ShapeUncached(accept) ==
    /\ pc = "shape" /\ pc' = "done" /\ shown' = accept
    /\ \E smaller \in BOOLEAN :
          resp' = Optimize(resp, fields, mode, quality, FALSE, accept, smaller)
    /\ shaped' = ~Passes(resp)
    /\ UNCHANGED <<config, mode, request, stored, origin>>

(* A request with Range is not optimizable.  The body's length, and so     *)
(* smaller, is left open.                                                  *)
Shape(accept) ==
    /\ pc = "shape" /\ pc' = "done" /\ shown' = accept
    /\ \/ /\ \E smaller \in BOOLEAN :
                resp' = Optimize(resp, fields, mode, quality, cached, accept, smaller)
          /\ shaped' = ~Passes(resp)
       \/ UNCHANGED resp /\ shaped' = FALSE
    /\ UNCHANGED <<config, mode, request, stored, origin>>

Done ==
    /\ pc = "done" /\ pc' = "idle"
    /\ resp' = NoResponse /\ origin' = NoResponse.doc
    /\ shown' = <<>> /\ shaped' = FALSE
    /\ fields' = <<>> /\ mayUse' = FALSE /\ base' = Public /\ cached' = FALSE
    /\ routed' = Builtin[Default]
    /\ UNCHANGED <<config, mode, service, quality, stored>>

-----------------------------------------------------------------------------
(* Environment *)

(* A copy expires or is flushed. *)
Forget(b) ==
    /\ cache[b] # NoResponse
    /\ cache' = [cache EXCEPT ![b] = NoResponse]
    /\ source' = [source EXCEPT ![b] = NoResponse.doc]
    /\ UNCHANGED <<config, mode, pc, request, resp, origin, result>>

Configure ==
    /\ Reload \/ WriteFile
    /\ UNCHANGED <<mode, pc, request, resp, stored, origin, result>>

Next ==
    \/ \E s \in Service : Begin(s)
    \/ Discover \/ Lookup \/ \E u \in Upstream : Fetch(u)
    \/ \E a \in Accept : Shape(a)
    \/ Done
    \/ \E b \in Base : Forget(b)
    \/ Configure

Spec == Init /\ [][Next]_vars

-----------------------------------------------------------------------------
(* Properties *)

(* A request for a configured service goes to the address, and is shaped   *)
(* by the rule, of one and the same document, whatever is reloaded while   *)
(* it is under way.                                                        *)
OneConfiguration ==
    pc \in {"lookup", "fetch", "shape"} /\ base # Public =>
        \E f \in File \cup {Empty} :
            /\ Valid(f) /\ service \in DOMAIN UpstreamsOf(f) /\ base = UpstreamsOf(f)[service]
            /\ fields = (IF service \in DOMAIN RulesOf(f) THEN RulesOf(f)[service]
                         ELSE RulesOf(f)[Default]).optional

(* The client gets the document of the upstream without exactly those      *)
(* nodes that the policy removes: the optional fields of the rule in force *)
(* when it was routed, and what a skeleton cuts off lists.  The order of   *)
(* the fields, and what other clients were sent, do not matter.  A cached  *)
(* body under POOR is stripped too, and only spared the skeleton, whatever *)
(* the docstring of response_optimizer.py says ("leave it (and gzip)").    *)
OnlyOptionalRemoved ==
    pc = "done" /\ shaped /\ resp.status = 200 /\ resp.media = "json" =>
        LET cut == Skeleton(mode, quality, cached)
            strip == cut \/ Removes(mode, quality, cached)
        IN  NodesOf(resp.doc) = Left(origin, routed.optional, strip, cut)

(* A client can tell: a body that is not the upstream's is never cached    *)
(* again nor matched by a validator, and one that lacks something says so. *)
(* On a response that the optimizer shaped, the upstream's own markers do  *)
(* not survive.                                                            *)
ChangesMarked ==
    pc = "done" /\ resp.status = 200 =>
        /\ resp.doc # origin \/ resp.coded => ~resp.etag /\ resp.control = "no-store"
        /\ resp.doc # origin => resp.complete = "reduced"
        /\ shaped => /\ resp.doc = origin => resp.complete = "full"
                     /\ resp.complete = "reduced" <=> resp.label \in {"stripped", "skeleton"}

(* The coding of a shaped response is one the client permits, and the      *)
(* optimizer gives 406 only when the body as it is was not permitted.      *)
CodingPermitted ==
    LET permits(coding) ==
            LET said == {i \in DOMAIN shown : shown[i][1] = coding}
                star == {i \in DOMAIN shown : shown[i][1] = "*"}
            IN  IF said # {} THEN shown[Max(said)][2]
                ELSE IF star # {} THEN shown[Max(star)][2] ELSE coding = "identity"
    IN  pc = "done" =>
            /\ resp.coded => permits("gzip")
            /\ shaped => IF resp.status = 200 THEN resp.coded \/ permits("identity")
                         ELSE resp.status = 406 /\ ~permits("identity")

-----------------------------------------------------------------------------
(* Inductive strengthening, for AdaptationProofs *)

(* The lists of fields that rules may have *)
FieldList ==
    UNION {{RulesOf(f)[s].optional : s \in DOMAIN RulesOf(f)} : f \in File \cup {Empty}}

(* A cached response is what the upstream sent, decoded. *)
CacheInv ==
    /\ cache = [b \in Base |-> cache[b]] /\ source = [b \in Base |-> source[b]]
    /\ \A b \in Base : /\ cache[b] \in Response({source[b]}) /\ ~cache[b].coded
                       /\ cache[b] # NoResponse => source[b] \in Document

(* The optimizer gets the upstream's document, decoded, and the fields of  *)
(* the rule the request was routed by.                                     *)
RequestInv ==
    /\ pc \in {"lookup", "fetch", "shape", "done"} =>
          fields = routed.optional /\ fields \in FieldList
    /\ pc \in {"shape", "done"} => origin \in Document
    /\ pc = "shape" => resp.doc = origin /\ ~resp.coded

(* What it makes of a document *)
ShapedInv ==
    pc = "done" /\ shaped /\ resp.status = 200 =>
        resp.doc = TransformJson([resp EXCEPT !.doc = origin],
                                 routed.optional, mode, quality, cached)
=============================================================================
