------------------------- MODULE ResponseOptimizer -------------------------
(***************************************************************************)
(* ResponseOptimizerMiddleware as operators: what becomes of a response.   *)
(*                                                                         *)
(* A dotted field is the sequence of its keys.  What is done to a JSON     *)
(* value is in JsonBody, and here a parameter.                             *)
(*                                                                         *)
(* A response has status, media ("json", "broken" for a body that does not *)
(* parse, "other"), control (Cache-Control: "none", "no-transform",        *)
(* "no-store" or "other"), coded (Content-Encoding), etag (any validator), *)
(* doc, label (X-Adaptive-Mode) and complete (X-Response-Completeness).    *)
(***************************************************************************)
EXTENDS Naturals, SequencesExt

CONSTANTS
    MaxItems,        \* SKELETON_MAX_ARRAY_ITEMS
    Stripped(_, _),  \* _strip_fields, of a document and a list of fields
    Skeletal(_, _),  \* _make_skeleton, of the same
    NodesOf(_)       \* the nodes of a document: pairs of a path and a value

-----------------------------------------------------------------------------
(* Accept-Encoding: a sequence of <<coding, is its quality in (0, 1]?>> *)

(* _accepted_codings: the last mention counts. *)
Accepted(accept, coding, default) ==
    LET said == {i \in DOMAIN accept : accept[i][1] = coding}
    IN  IF said = {} THEN default ELSE accept[Max(said)][2]

AcceptsGzip(accept) == Accepted(accept, "gzip", Accepted(accept, "*", FALSE))
AcceptsIdentity(accept) == Accepted(accept, "identity", Accepted(accept, "*", TRUE))

-----------------------------------------------------------------------------
(* dispatch *)

Passes(resp) ==
    \/ resp.media = "other" \/ resp.status # 200
    \/ resp.control = "no-transform" \/ resp.coded

Skeleton(mode, quality, cached) == mode = "adaptive" /\ quality = "POOR" /\ ~cached

Removes(mode, quality, cached) ==
    \/ mode \in {"removal", "combined"}
    \/ mode = "adaptive" /\ (quality = "DEGRADED" \/ (quality = "POOR" /\ cached))

Compresses(mode, quality) ==
    \/ mode \in {"compression", "combined"}
    \/ mode = "adaptive" /\ quality \in {"DEGRADED", "POOR"}

(* _transform_json, for the policy of mode, quality and cached *)
TransformJson(resp, fields, mode, quality, cached) ==
    CASE resp.media = "broken" -> resp.doc
      [] Removes(mode, quality, cached) -> Stripped(resp.doc, fields)
      [] Skeleton(mode, quality, cached) -> Skeletal(resp.doc, fields)
      [] OTHER -> resp.doc

NotAcceptable ==
    [status |-> 406, media |-> "other", control |-> "no-store", coded |-> FALSE,
     etag |-> FALSE, doc |-> <<"atom", "empty">>, label |-> "unset", complete |-> "unset"]

(* Mutant: what the client accepts is not looked at. *)
GzippedAlways(mode, quality, accept, smaller) == Compresses(mode, quality) /\ smaller

(* smaller: the body has GZIP_MIN_SIZE bytes and gzip makes it shorter. *)
Gzipped(mode, quality, accept, smaller) ==
    Compresses(mode, quality) /\ AcceptsGzip(accept) /\ smaller

(* Mutant: only the removal of fields invalidates the validators. *)
RewriteKeepsEtag(resp, doc, gzipped) ==
    [resp EXCEPT !.doc = doc, !.coded = gzipped,
        !.etag = @ /\ doc = resp.doc,
        !.control = IF doc # resp.doc \/ gzipped THEN "no-store" ELSE @]

(* The new body; REPRESENTATION_HEADERS go when it is not the old one. *)
Rewrite(resp, doc, gzipped) ==
    [resp EXCEPT !.doc = doc, !.coded = gzipped,
        !.etag = @ /\ doc = resp.doc /\ ~gzipped,
        !.control = IF doc # resp.doc \/ gzipped THEN "no-store" ELSE @]

(* dispatch, on the response of the route *)
Optimize(resp, fields, mode, quality, cached, accept, smaller) ==
    LET doc == TransformJson(resp, fields, mode, quality, cached)
        gzipped == Gzipped(mode, quality, accept, smaller)
    IN  IF Passes(resp) THEN resp
        ELSE IF ~gzipped /\ ~AcceptsIdentity(accept) THEN NotAcceptable
        ELSE [Rewrite(resp, doc, gzipped) EXCEPT
                !.complete = IF doc = resp.doc THEN "full" ELSE "reduced",
                !.label = IF doc = resp.doc THEN "none"
                          ELSE IF Skeleton(mode, quality, cached) THEN "skeleton" ELSE "stripped"]

-----------------------------------------------------------------------------
(* What is removed, by the paths of nodes.  A step of a path is            *)
(* <<"key", k>> or <<"item", i>>.                                          *)

(* The keys on the way to a node; positions in lists do not count. *)
KeysOf(path) ==
    LET keys == SelectSeq(path, LAMBDA step : step[1] = "key")
    IN  [i \in DOMAIN keys |-> keys[i][2]]

Optional(path, fields) == \E f \in DOMAIN fields : IsPrefix(fields[f], KeysOf(path))

Beyond(path) == \E i \in DOMAIN path : path[i][1] = "item" /\ path[i][2] > MaxItems

(* Of a document, what is left of it without the optional fields, and of   *)
(* its lists the first MaxItems when they are cut.                         *)
Left(doc, fields, strip, cut) ==
    {n \in NodesOf(doc) : /\ strip => ~Optional(n[1], fields)
                          /\ cut => ~Beyond(n[1])}

(* Both transformations remove these nodes and no others. *)
RemoveExactly(docs, lists) ==
    \A doc \in docs, fields \in lists :
        /\ NodesOf(Stripped(doc, fields)) = Left(doc, fields, TRUE, FALSE)
        /\ NodesOf(Skeletal(doc, fields)) = Left(doc, fields, TRUE, TRUE)
=============================================================================
