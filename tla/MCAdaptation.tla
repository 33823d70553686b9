---------------------------- MODULE MCAdaptation ----------------------------
(* An instance of Adaptation: two services, four documents of gateway.yaml *)
(* and JSON values with nested lists and dicts.                            *)
EXTENDS Adaptation, JsonBody

Atom(v) == <<"atom", v>>

Dict(f) == <<"dict", f>>

List(s) == <<"list", s>>

Inner == Dict([a |-> Atom(1), b |-> Atom(2)])

Tree == Dict([a |-> Inner, b |-> List(<<Inner, Atom(3), List(<<Inner>>)>>)])

Array == List(<<Inner, Dict([b |-> Inner]), Inner>>)

Answer(status, media, control, coded, etag, doc) ==
    [status |-> status, media |-> media, control |-> control, coded |-> coded,
     etag |-> etag, doc |-> doc, label |-> "unset", complete |-> "unset"]

(* A response with markers of the upstream's own *)
Marked(r) == [r EXCEPT !.label = "stripped", !.complete = "reduced"]

MCUpstream ==
    {Answer(200, "json", "none", FALSE, TRUE, Tree),
     Marked(Answer(200, "json", "other", FALSE, TRUE, Array)),
     Answer(200, "json", "other", TRUE, TRUE, Tree),
     Marked(Answer(200, "json", "no-transform", FALSE, TRUE, Tree)),
     Answer(200, "broken", "other", FALSE, TRUE, Tree),
     Answer(200, "other", "other", FALSE, FALSE, Tree),
     Answer(406, "json", "none", FALSE, FALSE, Tree)}

MCAccept ==
    {<<>>, <<<<"gzip", TRUE>>>>, <<<<"gzip", FALSE>>, <<"*", TRUE>>>>,
     <<<<"*", FALSE>>>>, <<<<"gzip", TRUE>>, <<"identity", FALSE>>>>}

Rule(optional, cacheable) == [optional |-> optional, cacheable |-> cacheable]

MCBuiltin == [d |-> Rule(<<>>, TRUE), s |-> Rule(<<<<"b", "a">>, <<"a", "b">>>>, TRUE)]

MCEnv == [s |-> "env"]

MCFile ==
    {[upstreams |-> <<>>,
      rules |-> [s |-> Rule(<<<<"a">>, <<"a", "b">>>>, TRUE)], invalid |-> {}],
     [upstreams |-> [s |-> "two", t |-> "two"],
      rules |-> [d |-> Rule(<<<<"b">>>>, FALSE)], invalid |-> {}],
     [upstreams |-> [s |-> "three"], rules |-> <<>>, invalid |-> {"rules"}]}

-----------------------------------------------------------------------------
(* Documents and lists of fields for the transformations alone *)

Leaf == {Atom(1), List(<<>>), Dict([a |-> Atom(1)]), Dict([a |-> Atom(1), b |-> Inner])}

Documents ==
    {Tree, Array}
    \cup {List(s) : s \in UNION {[1..n -> Leaf] : n \in 0..3}}
    \cup {Dict(d) : d \in UNION {[K -> Leaf \cup {Array}] : K \in SUBSET {"a", "b"}}}

Path == {<<"a">>, <<"b">>, <<"a", "b">>, <<"b", "a">>, <<"b", "b">>, <<"b", "a", "b">>}

Lists == UNION {[1..n -> Path] : n \in 0..2}

(* _strip_fields and _make_skeleton, which work through the fields one     *)
(* after the other, remove exactly the nodes below an optional field and   *)
(* beyond the cut of a list: one field never hides another, and a dotted   *)
(* path passes through the lists on its way.                               *)
ASSUME TransformsExact ==
    RemoveExactly(Document \cup Documents, FieldList \cup Lists)
=============================================================================
