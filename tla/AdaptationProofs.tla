-------------------------- MODULE AdaptationProofs --------------------------
(***************************************************************************)
(* The routing of a GET and the shape of its response, for any services,   *)
(* documents of gateway.yaml, upstreams, headers and modes, and for any    *)
(* two transformations of JSON values.                                     *)
(***************************************************************************)
EXTENDS Adaptation, RouteRulesProofs

(* The step relation with one disjunct per action. *)
LEMMA Steps ==
  ASSUME [Next]_vars
  PROVE  \/ \E s \in Service : Begin(s)
         \/ Discover \/ Lookup
         \/ \E u \in Upstream : Fetch(u)
         \/ \E a \in Accept : Shape(a)
         \/ Done
         \/ \E b \in Base : Forget(b)
         \/ Configure
         \/ UNCHANGED vars
  BY DEF Next

-----------------------------------------------------------------------------
(* Responses *)

(* Where the document of a response comes from does not matter to the rest. *)
LEMMA OwnDocument ==
  ASSUME NEW D, NEW r \in Response(D)
  PROVE  r \in Response({r.doc}) /\ r.doc \in D /\ r.coded \in BOOLEAN
  BY DEF Response

LEMMA NoResponseType ==
  NoResponse \in Response({NoResponse.doc}) /\ ~NoResponse.coded
  BY DEF NoResponse, NotAcceptable, Response

(* bounded_request decodes a body and keeps the document. *)
LEMMA BoundedType ==
  ASSUME NEW u \in Upstream
  PROVE  /\ Bounded(u) \in Response({u.doc}) /\ Bounded(u).doc = u.doc
         /\ ~Bounded(u).coded /\ u.doc \in Document
<1>1. u \in Response({u.doc}) /\ u.doc \in Document
  BY AdaptationConstants, OwnDocument
<1> QED
  BY <1>1 DEF Bounded, Response

(* o is made of r: the document is doc, every change is marked, and the    *)
(* coding is one that the header a permits.                                *)
Shapes(r, doc, a, o) ==
    /\ o \in Response({o.doc})
    /\ \/ o.status = 406 /\ ~o.coded /\ ~AcceptsIdentity(a)
       \/ /\ o.status = 200 /\ o.doc = doc /\ o.media = r.media
          /\ o.coded => AcceptsGzip(a)
          /\ o.coded \/ AcceptsIdentity(a)
          /\ doc # r.doc \/ o.coded => ~o.etag /\ o.control = "no-store"
          /\ doc # r.doc => o.complete = "reduced" /\ o.label \in {"stripped", "skeleton"}
          /\ doc = r.doc => o.complete = "full" /\ o.label = "none"

LEMMA OptimizeShapes ==
  ASSUME NEW r, r \in Response({r.doc}), ~Passes(r),
         NEW fs, NEW m, NEW q, NEW c, NEW a, NEW smaller
  PROVE  Shapes(r, TransformJson(r, fs, m, q, c), a, Optimize(r, fs, m, q, c, a, smaller))
<1> DEFINE doc == TransformJson(r, fs, m, q, c)
           o == Optimize(r, fs, m, q, c, a, smaller)
<1> SUFFICES Shapes(r, doc, a, o)
  OBVIOUS
<1> HIDE DEF doc
<1> DEFINE g == Gzipped(m, q, a, smaller)
           w == Rewrite(r, doc, g)
           l == IF doc = r.doc THEN "none"
                ELSE IF Skeleton(m, q, c) THEN "skeleton" ELSE "stripped"
           z == [w EXCEPT !.complete = IF doc = r.doc THEN "full" ELSE "reduced", !.label = l]
<1>1. o = IF ~g /\ ~AcceptsIdentity(a) THEN NotAcceptable ELSE z
  BY DEF Optimize, doc
<1> HIDE DEF o
<1>2. g \in BOOLEAN /\ (g => AcceptsGzip(a))
  BY DEF Gzipped, Compresses
<1>3. CASE ~g /\ ~AcceptsIdentity(a)
  BY <1>1, <1>3, NoResponseType DEF NotAcceptable, NoResponse, Shapes
<1>4. CASE ~(~g /\ ~AcceptsIdentity(a))
  <2>1. o = z
    BY <1>1, <1>4
  <2> HIDE DEF g
  <2>2. /\ w \in Response({doc})
        /\ w.status = 200 /\ w.doc = doc /\ w.media = r.media /\ w.coded = g
        /\ doc # r.doc \/ g => ~w.etag /\ w.control = "no-store"
    BY <1>2 DEF Rewrite, Response, Passes
  <2>l. IF doc = r.doc THEN l = "none" ELSE l \in {"stripped", "skeleton"}
    OBVIOUS
  <2> HIDE DEF w, l
  <2>3. /\ z \in Response({doc})
        /\ z.status = w.status /\ z.doc = doc /\ z.media = w.media /\ z.coded = w.coded
        /\ z.etag = w.etag /\ z.control = w.control
        /\ z.complete = (IF doc = r.doc THEN "full" ELSE "reduced") /\ z.label = l
    BY <2>2, <2>l DEF Response
  <2> HIDE DEF z
  <2> QED
    BY <1>2, <1>4, <2>1, <2>2, <2>3, <2>l DEF Shapes
<1> QED
  BY <1>3, <1>4

-----------------------------------------------------------------------------
(* The configuration *)

LEMMA ConfigStep ==
  ASSUME ConfigInv, [Next]_vars
  PROVE  ConfigInv'
<1>1. ASSUME UNCHANGED config PROVE ConfigInv'
  BY <1>1 DEF config, ConfigInv, OneDocument
<1>2. CASE Configure
  <2>1. CASE Reload
    BY <2>1, ReloadStep
  <2>2. CASE WriteFile
    BY <2>2 DEF WriteFile, ConfigInv, OneDocument
  <2> QED
    BY <1>2, <2>1, <2>2 DEF Configure
<1>3. CASE ~Configure
  BY <1>1, <1>3, Steps
     DEF Begin, Discover, Lookup, Fetch, Shape, Done, Forget, vars
<1> QED
  BY <1>2, <1>3

(* The document that is active, and what a request finds in it *)
LEMMA ActiveDocument ==
  ASSUME ConfigInv
  PROVE  /\ Default \in DOMAIN rules
         /\ \A s \in DOMAIN upstreams : upstreams[s] \in Base
         /\ \A s \in Service :
               /\ GetRouteRule(s).optional \in FieldList
               /\ \E f \in File \cup {Empty} :
                     /\ Valid(f) /\ upstreams = UpstreamsOf(f)
                     /\ GetRouteRule(s) = (IF s \in DOMAIN RulesOf(f) THEN RulesOf(f)[s]
                                           ELSE RulesOf(f)[Default])
<1>1. PICK f \in File \cup {Empty} :
         Valid(f) /\ rules = RulesOf(f) /\ upstreams = UpstreamsOf(f)
  BY DEF ConfigInv, OneDocument
<1>2. Default \in DOMAIN rules
  BY <1>1, RuleConstants DEF RulesOf, Overlay
<1>3. ASSUME NEW s \in DOMAIN upstreams PROVE upstreams[s] \in Base
  <2>1. upstreams[s] \in Range(UpstreamsOf(f))
    BY <1>1, <1>3 DEF Range
  <2> QED
    BY <2>1 DEF Base
<1>4. ASSUME NEW s \in Service
      PROVE  /\ GetRouteRule(s).optional \in FieldList
             /\ GetRouteRule(s) = (IF s \in DOMAIN RulesOf(f) THEN RulesOf(f)[s]
                                   ELSE RulesOf(f)[Default])
  <2>1. PICK x \in DOMAIN RulesOf(f) :
           /\ GetRouteRule(s) = RulesOf(f)[x]
           /\ x = IF s \in DOMAIN RulesOf(f) THEN s ELSE Default
    BY <1>1, <1>2 DEF GetRouteRule
  <2>2. RulesOf(f)[x].optional \in {RulesOf(f)[y].optional : y \in DOMAIN RulesOf(f)}
    BY <2>1
  <2>3. RulesOf(f)[x].optional \in FieldList
    BY <2>2 DEF FieldList
  <2> QED
    BY <2>1, <2>3
<1> QED
  BY <1>1, <1>2, <1>3, <1>4

(* What a request takes along when it is routed to address b *)
LEMMA RouteTakes ==
  ASSUME ConfigInv, NEW s \in Service, NEW b, Route(s, b)
  PROVE  /\ base' = b /\ pc' = "lookup" /\ cached' = FALSE /\ mayUse' \in BOOLEAN
         /\ fields' = GetRouteRule(s).optional /\ routed' = GetRouteRule(s)
         /\ fields' = routed'.optional /\ fields' \in FieldList
<1>1. GetRouteRule(s).optional \in FieldList
  BY ActiveDocument
<1>2. PICK allowed \in BOOLEAN : mayUse' = (GetRouteRule(s).cacheable /\ allowed)
  BY DEF Route
<1>3. mayUse' \in BOOLEAN
  BY <1>2
<1> QED
  BY <1>1, <1>3 DEF Route

-----------------------------------------------------------------------------
(* Types and the cache *)

LEMMA CacheStep ==
  ASSUME TypeOK, CacheInv, [Next]_vars
  PROVE  CacheInv'
<1>1. ASSUME UNCHANGED stored PROVE CacheInv'
  BY <1>1 DEF stored, CacheInv, Response
<1>2. ASSUME NEW b \in Base, NEW r, NEW d, r \in Response({d}), ~r.coded,
             r # NoResponse => d \in Document,
             cache' = [cache EXCEPT ![b] = r], source' = [source EXCEPT ![b] = d]
      PROVE  CacheInv'
  <2>1. /\ cache' = [x \in Base |-> IF x = b THEN r ELSE cache[x]]
        /\ source' = [x \in Base |-> IF x = b THEN d ELSE source[x]]
    BY <1>2 DEF CacheInv
  <2>2. /\ cache' = [x \in Base |-> cache'[x]] /\ source' = [x \in Base |-> source'[x]]
    BY <2>1
  <2>3. ASSUME NEW x \in Base
        PROVE  /\ cache'[x] \in Response({source'[x]}) /\ ~cache'[x].coded
               /\ cache'[x] # NoResponse => source'[x] \in Document
    <3>1. CASE x = b
      BY <1>2, <2>1, <3>1
    <3>2. CASE x # b
      <4>1. cache'[x] = cache[x] /\ source'[x] = source[x]
        BY <2>1, <3>2
      <4> QED
        BY <4>1 DEF CacheInv
    <3> QED
      BY <3>1, <3>2
  <2> QED
    BY <2>2, <2>3 DEF CacheInv, Response
<1>3. ASSUME NEW u \in Upstream, Fetch(u) PROVE CacheInv'
  <2>1. CASE UNCHANGED stored
    BY <1>1, <2>1
  <2>2. CASE /\ cache' = [cache EXCEPT ![base] = resp']
             /\ source' = [source EXCEPT ![base] = u.doc]
    <3>1. /\ resp' \in Response({u.doc}) /\ ~resp'.coded /\ u.doc \in Document
      BY <1>3, BoundedType DEF Fetch
    <3>2. base \in Base
      BY DEF TypeOK
    <3> QED
      BY <1>2, <2>2, <3>1, <3>2
  <2> QED
    BY <1>3, <2>1, <2>2 DEF Fetch
<1>4. ASSUME NEW b \in Base, Forget(b) PROVE CacheInv'
  BY <1>2, <1>4, NoResponseType DEF Forget
<1>5. CASE \/ \E s \in Service : Begin(s)
           \/ Discover \/ Lookup \/ Done \/ Configure
           \/ \E a \in Accept : Shape(a)
           \/ UNCHANGED vars
  BY <1>1, <1>5 DEF Begin, Discover, Lookup, Done, Configure, Shape, vars
<1> QED
  BY <1>3, <1>4, <1>5, Steps

LEMMA TypeStep ==
  ASSUME TypeOK, ConfigInv, ConfigInv', CacheInv, [Next]_vars
  PROVE  TypeOK'
<1>d. Default \in DOMAIN rules'
  <2>1. PICK f \in File \cup {Empty} : rules' = RulesOf(f)
    BY DEF ConfigInv, OneDocument
  <2> QED
    BY <2>1, RuleConstants DEF RulesOf, Overlay
<1>p. Public \in Base
  BY DEF Base
<1>m. UNCHANGED mode /\ UNCHANGED quality
  BY Steps DEF Begin, Discover, Lookup, Fetch, Shape, Done, Forget, Configure, vars, request
<1>r. ASSUME NEW D, resp' \in Response(D) PROVE resp' \in Response({resp'.doc})
  BY <1>r, OwnDocument
<1>1. ASSUME NEW s \in Service, Begin(s) PROVE TypeOK'
  <2>1. UNCHANGED <<resp, shaped>> /\ service' = s
    BY <1>1 DEF Begin, result
  <2>2. CASE s \in DOMAIN upstreams /\ Route(s, upstreams[s])
    <3>1. upstreams[s] \in Base
      BY <2>2, ActiveDocument
    <3> QED
      BY <1>d, <1>m, <2>1, <2>2, <3>1, RouteTakes DEF TypeOK, Response
  <2>3. CASE pc' = "discover" /\ UNCHANGED <<mayUse, base, cached>>
    BY <1>d, <1>m, <2>1, <2>3 DEF TypeOK, Response
  <2> QED
    BY <1>1, <2>2, <2>3 DEF Begin
<1>2. CASE Discover
  <2>1. UNCHANGED <<resp, shaped, service>> /\ service \in Service
    BY <1>2 DEF Discover, result, TypeOK
  <2>2. CASE Route(service, Public)
    BY <1>d, <1>p, <1>m, <2>1, <2>2, RouteTakes DEF TypeOK, Response
  <2>3. CASE pc' = "idle" /\ UNCHANGED <<mayUse, base, cached>>
    BY <1>d, <1>m, <2>1, <2>3 DEF TypeOK, Response
  <2> QED
    BY <1>2, <2>2, <2>3 DEF Discover
<1>3. CASE Lookup
  <2>1. UNCHANGED <<shaped, service, mayUse, base>> /\ base \in Base
    BY <1>3 DEF Lookup, result, TypeOK
  <2>2. CASE resp' = cache[base] /\ cached' = TRUE /\ pc' = "shape"
    <3>1. resp' \in Response({resp'.doc})
      BY <1>r, <2>1, <2>2 DEF CacheInv
    <3> QED
      BY <1>d, <1>m, <2>1, <2>2, <3>1 DEF TypeOK, Response
  <2>3. CASE pc' = "fetch" /\ UNCHANGED <<cached, resp>>
    BY <1>d, <1>m, <2>1, <2>3 DEF TypeOK, Response
  <2> QED
    BY <1>3, <2>2, <2>3 DEF Lookup
<1>4. ASSUME NEW u \in Upstream, Fetch(u) PROVE TypeOK'
  <2>1. UNCHANGED <<shaped, service, mayUse, base, cached>> /\ pc' = "shape" /\ resp' = Bounded(u)
    BY <1>4 DEF Fetch, result, request
  <2>2. resp' \in Response({resp'.doc})
    BY <1>r, <2>1, BoundedType
  <2> QED
    BY <1>d, <1>m, <2>1, <2>2 DEF TypeOK, Response
<1>5. ASSUME NEW a \in Accept, Shape(a) PROVE TypeOK'
  <2>1. UNCHANGED <<service, mayUse, base, cached>> /\ pc' = "done"
    BY <1>5 DEF Shape, request
  <2>2. resp \in Response({resp.doc})
    BY DEF TypeOK
  <2>3. resp' \in Response({resp'.doc}) /\ shaped' \in BOOLEAN
    <3>1. CASE UNCHANGED resp /\ shaped' = FALSE
      BY <2>2, <3>1 DEF Response
    <3>2. ASSUME NEW smaller \in BOOLEAN, shaped' = ~Passes(resp),
                 resp' = Optimize(resp, fields, mode, quality, cached, a, smaller)
          PROVE  resp' \in Response({resp'.doc}) /\ shaped' \in BOOLEAN
      <4>1. CASE Passes(resp)
        <5>1. resp' = resp
          BY <3>2, <4>1 DEF Optimize
        <5> QED
          BY <2>2, <3>2, <5>1
      <4>2. CASE ~Passes(resp)
        <5>1. resp' \in Response({resp'.doc})
          BY <2>2, <3>2, <4>2, OptimizeShapes DEF Shapes
        <5> QED
          BY <3>2, <5>1
      <4> QED
        BY <4>1, <4>2
    <3> QED
      BY <1>5, <3>1, <3>2 DEF Shape
  <2> QED
    BY <1>d, <1>m, <2>1, <2>3 DEF TypeOK, Response
<1>6. CASE Done
  <2>1. resp' \in Response({resp'.doc})
    BY <1>6, NoResponseType DEF Done
  <2> QED
    BY <1>6, <1>d, <1>p, <1>m, <2>1 DEF Done, TypeOK, Response
<1>7. CASE UNCHANGED <<pc, request, resp, result>>
  BY <1>7, <1>d, <1>m DEF TypeOK, request, result, Response
<1> QED
  BY <1>1, <1>2, <1>3, <1>4, <1>5, <1>6, <1>7, Steps DEF Forget, Configure, vars

-----------------------------------------------------------------------------
(* The request *)

LEMMA RequestStep ==
  ASSUME TypeOK, ConfigInv, CacheInv, RequestInv, [Next]_vars
  PROVE  RequestInv'
<1>1. ASSUME NEW s \in Service, Begin(s) PROVE RequestInv'
  <2>1. CASE Route(s, upstreams[s])
    BY <2>1, RouteTakes DEF RequestInv
  <2>2. CASE pc' = "discover"
    BY <2>2 DEF RequestInv
  <2> QED
    BY <1>1, <2>1, <2>2 DEF Begin
<1>2. CASE Discover
  <2>1. CASE Route(service, Public)
    BY <2>1, RouteTakes DEF RequestInv, TypeOK
  <2>2. CASE pc' = "idle"
    BY <2>2 DEF RequestInv
  <2> QED
    BY <1>2, <2>1, <2>2 DEF Discover
<1>3. CASE Lookup
  <2>1. UNCHANGED <<fields, routed>> /\ pc = "lookup" /\ base \in Base
    BY <1>3 DEF Lookup, TypeOK
  <2>2. CASE /\ cache[base] # NoResponse /\ pc' = "shape"
             /\ resp' = cache[base] /\ origin' = source[base]
    <3>1. /\ cache[base] \in Response({source[base]}) /\ ~cache[base].coded
          /\ source[base] \in Document
      BY <2>1, <2>2 DEF CacheInv
    <3>2. resp'.doc = origin'
      BY <2>2, <3>1 DEF Response
    <3> QED
      BY <2>1, <2>2, <3>1, <3>2 DEF RequestInv
  <2>3. CASE pc' = "fetch"
    BY <2>1, <2>3 DEF RequestInv
  <2> QED
    BY <1>3, <2>2, <2>3 DEF Lookup
<1>4. ASSUME NEW u \in Upstream, Fetch(u) PROVE RequestInv'
  <2>1. /\ UNCHANGED <<fields, routed>> /\ pc = "fetch" /\ pc' = "shape"
        /\ resp' = Bounded(u) /\ origin' = u.doc
    BY <1>4 DEF Fetch, request
  <2> QED
    BY <2>1, BoundedType DEF RequestInv
<1>5. ASSUME NEW a \in Accept, Shape(a) PROVE RequestInv'
  BY <1>5 DEF Shape, request, RequestInv
<1>6. CASE Done
  BY <1>6 DEF Done, RequestInv
<1>7. CASE UNCHANGED <<pc, request, resp, origin>>
  BY <1>7 DEF RequestInv, request
<1> QED
  BY <1>1, <1>2, <1>3, <1>4, <1>5, <1>6, <1>7, Steps DEF Forget, Configure, vars

(* The rule is read in the step that finds the address, so both are of the *)
(* document that is active then.                                           *)
LEMMA OneConfigurationStep ==
  ASSUME TypeOK, ConfigInv, OneConfiguration, [Next]_vars
  PROVE  OneConfiguration'
<1>1. ASSUME NEW s \in Service, Begin(s) PROVE OneConfiguration'
  <2>1. CASE s \in DOMAIN upstreams /\ Route(s, upstreams[s])
    <3>1. service' = s /\ base' = upstreams[s] /\ fields' = GetRouteRule(s).optional
      BY <1>1, <2>1, RouteTakes DEF Begin
    <3>2. PICK f \in File \cup {Empty} :
             /\ Valid(f) /\ upstreams = UpstreamsOf(f)
             /\ GetRouteRule(s) = (IF s \in DOMAIN RulesOf(f) THEN RulesOf(f)[s]
                                   ELSE RulesOf(f)[Default])
      BY ActiveDocument
    <3> QED
      BY <2>1, <3>1, <3>2 DEF OneConfiguration
  <2>2. CASE pc' = "discover"
    BY <2>2 DEF OneConfiguration
  <2> QED
    BY <1>1, <2>1, <2>2 DEF Begin
<1>2. CASE Discover
  BY <1>2 DEF Discover, Route, OneConfiguration
<1>3. CASE Lookup
  BY <1>3 DEF Lookup, OneConfiguration
<1>4. ASSUME NEW u \in Upstream, Fetch(u) PROVE OneConfiguration'
  BY <1>4 DEF Fetch, request, OneConfiguration
<1>5. ASSUME NEW a \in Accept, Shape(a) PROVE OneConfiguration'
  BY <1>5 DEF Shape, OneConfiguration
<1>6. CASE Done
  BY <1>6 DEF Done, OneConfiguration
<1>7. CASE UNCHANGED <<pc, request>>
  BY <1>7 DEF OneConfiguration, request
<1> QED
  BY <1>1, <1>2, <1>3, <1>4, <1>5, <1>6, <1>7, Steps DEF Forget, Configure, vars

-----------------------------------------------------------------------------
(* The response *)

(* What the client permits is what the optimizer looks up. *)
Permits(accept, coding) ==
    LET said == {i \in DOMAIN accept : accept[i][1] = coding}
        star == {i \in DOMAIN accept : accept[i][1] = "*"}
    IN  IF said # {} THEN accept[Max(said)][2]
        ELSE IF star # {} THEN accept[Max(star)][2] ELSE coding = "identity"

LEMMA PermitsAccepts ==
  ASSUME NEW a
  PROVE  AcceptsGzip(a) = Permits(a, "gzip") /\ AcceptsIdentity(a) = Permits(a, "identity")
<1>1. AcceptsGzip(a) = Permits(a, "gzip")
  BY DEF AcceptsGzip, Accepted, Permits
<1>2. AcceptsIdentity(a) = Permits(a, "identity")
  BY DEF AcceptsIdentity, Accepted, Permits
<1> QED
  BY <1>1, <1>2

(* The three things that hold of a finished response *)
Finished == ShapedInv /\ ChangesMarked /\ CodingPermitted

LEMMA ShapeFinishes ==
  ASSUME TypeOK, RequestInv, NEW a \in Accept, Shape(a)
  PROVE  Finished'
<1>1. /\ pc = "shape" /\ pc' = "done" /\ shown' = a
      /\ UNCHANGED <<origin, routed, mode, quality, cached>>
      /\ resp.doc = origin /\ ~resp.coded /\ fields = routed.optional
      /\ resp \in Response({resp.doc})
  BY DEF Shape, request, RequestInv, TypeOK
<1>2. CASE UNCHANGED resp /\ shaped' = FALSE
  BY <1>1, <1>2 DEF Finished, ShapedInv, ChangesMarked, CodingPermitted
<1>3. ASSUME NEW smaller \in BOOLEAN, shaped' = ~Passes(resp),
             resp' = Optimize(resp, fields, mode, quality, cached, a, smaller)
      PROVE  Finished'
  <2>1. CASE Passes(resp)
    <3>1. resp' = resp /\ shaped' = FALSE
      BY <1>3, <2>1 DEF Optimize
    <3> QED
      BY <1>2, <3>1
  <2>2. CASE ~Passes(resp)
    <3> DEFINE doc == TransformJson(resp, fields, mode, quality, cached)
    <3>1. Shapes(resp, doc, a, resp')
      BY <1>1, <1>3, <2>2, OptimizeShapes
    <3>2. ShapedInv'
      <4>1. SUFFICES ASSUME resp'.status = 200
                     PROVE  resp'.doc = TransformJson([resp' EXCEPT !.doc = origin'],
                                   routed'.optional, mode', quality', cached')
        BY DEF ShapedInv
      <4>2. resp'.doc = doc /\ resp'.media = resp.media /\ resp' \in Response({resp'.doc})
        BY <3>1, <4>1 DEF Shapes
      <4>3. [resp' EXCEPT !.doc = origin'].media = resp.media
            /\ [resp' EXCEPT !.doc = origin'].doc = resp.doc
        BY <1>1, <4>2 DEF Response
      <4> QED
        BY <1>1, <4>2, <4>3 DEF TransformJson
    <3> HIDE DEF doc
    <3>3. ChangesMarked'
      BY <1>1, <3>1 DEF Shapes, ChangesMarked
    <3>4. CodingPermitted'
      <4>1. /\ resp'.coded => Permits(a, "gzip")
            /\ IF resp'.status = 200 THEN resp'.coded \/ Permits(a, "identity")
               ELSE resp'.status = 406 /\ ~Permits(a, "identity")
        BY <3>1, PermitsAccepts DEF Shapes
      <4> QED
        BY <1>1, <4>1 DEF CodingPermitted, Permits
    <3> QED
      BY <3>2, <3>3, <3>4 DEF Finished
  <2> QED
    BY <2>1, <2>2
<1> QED
  BY <1>2, <1>3 DEF Shape

LEMMA FinishedStep ==
  ASSUME TypeOK, RequestInv, Finished, [Next]_vars
  PROVE  Finished'
<1>1. ASSUME NEW a \in Accept, Shape(a) PROVE Finished'
  BY <1>1, ShapeFinishes
<1>2. CASE pc' # "done"
  BY <1>2 DEF Finished, ShapedInv, ChangesMarked, CodingPermitted
<1>3. CASE UNCHANGED <<mode, pc, request, resp, origin, result>>
  BY <1>3 DEF Finished, ShapedInv, ChangesMarked, CodingPermitted, TransformJson, request, result
<1>4. ASSUME ~(\E a \in Accept : Shape(a)), pc' = "done"
      PROVE  UNCHANGED <<mode, pc, request, resp, origin, result>>
  BY <1>4, Steps DEF Begin, Discover, Route, Lookup, Fetch, Done, Forget, Configure, vars
<1> QED
  BY <1>1, <1>2, <1>3, <1>4

-----------------------------------------------------------------------------
(* The theorems *)

LEMMA AdaptationInit ==
  Init => /\ TypeOK /\ ConfigInv /\ CacheInv /\ RequestInv
          /\ OneConfiguration /\ Finished
<1> SUFFICES ASSUME Init
             PROVE  /\ TypeOK /\ ConfigInv /\ CacheInv /\ RequestInv
                    /\ OneConfiguration /\ Finished
  OBVIOUS
<1>1. ConfigInv
  BY EmptyValid DEF Init, ConfigInit, ConfigInv, OneDocument
<1>2. TypeOK
  <2>1. Default \in DOMAIN rules
    BY <1>1, ActiveDocument
  <2>2. service \in Service
    BY AdaptationConstants DEF Init
  <2>3. base \in Base
    BY DEF Init, Base
  <2>4. resp \in Response({resp.doc})
    BY NoResponseType DEF Init
  <2> QED
    BY <2>1, <2>2, <2>3, <2>4 DEF Init, TypeOK
<1>3. CacheInv
  BY NoResponseType DEF Init, CacheInv
<1>4. RequestInv /\ OneConfiguration /\ Finished
  BY DEF Init, RequestInv, OneConfiguration, Finished, ShapedInv, ChangesMarked, CodingPermitted
<1> QED
  BY <1>1, <1>2, <1>3, <1>4

LEMMA AdaptationInvariant ==
  Spec => [](/\ TypeOK /\ ConfigInv /\ CacheInv /\ RequestInv
             /\ OneConfiguration /\ Finished)
<1> DEFINE Inv == /\ TypeOK /\ ConfigInv /\ CacheInv /\ RequestInv
                  /\ OneConfiguration /\ Finished
<1>1. Init => Inv
  BY AdaptationInit
<1>2. Inv /\ [Next]_vars => Inv'
  BY ConfigStep, CacheStep, TypeStep, RequestStep, OneConfigurationStep, FinishedStep
<1> QED
  BY <1>1, <1>2, PTL DEF Spec

(* Routing and optimizer keep to their types; in particular there is       *)
(* always a fallback rule.                                                 *)
THEOREM AdaptationTypes == Spec => []TypeOK
  BY AdaptationInvariant, PTL

(* Whatever is written and reloaded while a request waits for discovery,   *)
(* the cache or the upstream: its address and its optional fields come     *)
(* from the same valid document.                                           *)
THEOREM RoutedByOneDocument == Spec => []OneConfiguration
  BY AdaptationInvariant, PTL

(* Whatever the transformations do to a document, fresh or cached: a       *)
(* changed body loses its validators, is not stored again and is marked,   *)
(* and the markers are the gateway's own.                                  *)
THEOREM EveryChangeMarked == Spec => []ChangesMarked
<1>1. Finished => ChangesMarked
  BY DEF Finished
<1> QED
  BY <1>1, AdaptationInvariant, PTL

(* For every Accept-Encoding header: gzip only for a client that takes it, *)
(* a plain body only for one that takes identity, and 406 only otherwise.  *)
THEOREM CodingNegotiated == Spec => []CodingPermitted
<1>1. Finished => CodingPermitted
  BY DEF Finished
<1> QED
  BY <1>1, AdaptationInvariant, PTL

(* If _strip_fields and _make_skeleton remove exactly the optional nodes   *)
(* of the documents and field lists that occur, then so does the gateway,  *)
(* from fetch or cache to the client: nothing is stripped twice, by        *)
(* another rule, or in the copy that others will be served.                *)
THEOREM ExactlyOptionalRemoved ==
  ASSUME RemoveExactly(Document, FieldList)
  PROVE  Spec => []OnlyOptionalRemoved
<1>1. ASSUME TypeOK, RequestInv, ShapedInv PROVE OnlyOptionalRemoved
  <2>1. SUFFICES ASSUME pc = "done", shaped, resp.status = 200, resp.media = "json",
                        NEW cut, cut = Skeleton(mode, quality, cached),
                        NEW strip, strip = (cut \/ Removes(mode, quality, cached))
                 PROVE  NodesOf(resp.doc) = Left(origin, routed.optional, strip, cut)
    BY DEF OnlyOptionalRemoved
  <2> DEFINE r == [resp EXCEPT !.doc = origin]
  <2>2. origin \in Document /\ routed.optional \in FieldList
    BY <1>1, <2>1 DEF RequestInv
  <2>3. r.media = "json" /\ r.doc = origin
    BY <1>1, <2>1 DEF TypeOK, Response
  <2>4. resp.doc = TransformJson(r, routed.optional, mode, quality, cached)
    BY <1>1, <2>1 DEF ShapedInv
  <2> HIDE DEF r
  <2>5. CASE Removes(mode, quality, cached)
    <3>1. ~Skeleton(mode, quality, cached)
      BY <2>5 DEF Removes, Skeleton
    <3>2. resp.doc = Stripped(origin, routed.optional)
      BY <2>3, <2>4, <2>5, <3>1 DEF TransformJson
    <3>3. Left(origin, routed.optional, strip, cut) = Left(origin, routed.optional, TRUE, FALSE)
      BY <2>1, <2>5, <3>1 DEF Left
    <3> QED
      BY <2>2, <3>2, <3>3 DEF RemoveExactly
  <2>6. CASE Skeleton(mode, quality, cached)
    <3>1. ~Removes(mode, quality, cached)
      BY <2>6 DEF Removes, Skeleton
    <3>2. resp.doc = Skeletal(origin, routed.optional)
      BY <2>3, <2>4, <2>6, <3>1 DEF TransformJson
    <3>3. Left(origin, routed.optional, strip, cut) = Left(origin, routed.optional, TRUE, TRUE)
      BY <2>1, <2>6 DEF Left
    <3> QED
      BY <2>2, <3>2, <3>3 DEF RemoveExactly
  <2>7. CASE ~Removes(mode, quality, cached) /\ ~Skeleton(mode, quality, cached)
    <3>1. resp.doc = origin
      BY <2>3, <2>4, <2>7 DEF TransformJson
    <3>2. Left(origin, routed.optional, strip, cut) = NodesOf(origin)
      BY <2>1, <2>7 DEF Left
    <3> QED
      BY <3>1, <3>2
  <2> QED
    BY <2>5, <2>6, <2>7
<1>2. Finished => ShapedInv
  BY DEF Finished
<1> QED
  BY <1>1, <1>2, AdaptationInvariant, PTL
=============================================================================
