------------------------------ MODULE JsonBody ------------------------------
(***************************************************************************)
(* What middleware/response_optimizer.py does to a JSON value, and the     *)
(* reference it is checked against.  A value is <<"atom", v>>, <<"list",   *)
(* sequence>> or <<"dict", function from keys>>.  The operators are        *)
(* recursive, so ResponseOptimizer has them as constants, which the model  *)
(* of Adaptation.cfg replaces by these.                                    *)
(***************************************************************************)
EXTENDS ResponseOptimizer

RECURSIVE StripFields(_, _), Truncate(_), Nodes(_)

(* Mutant: a dotted path removes the field it starts with. *)
StripFieldHead(d, field) == [k \in DOMAIN d \ {field[1]} |-> d[k]]

(* One field of a dict: removed, or, when dotted, stripped of its tail. *)
StripField(d, field) ==
    IF Len(field) = 1 THEN [k \in DOMAIN d \ {field[1]} |-> d[k]]
    ELSE [k \in DOMAIN d |->
            IF k = field[1] THEN StripFields(d[k], <<Tail(field)>>) ELSE d[k]]

(* _strip_fields *)
StripFields(data, fields) ==
    CASE data[1] = "list" ->
            <<"list", [i \in DOMAIN data[2] |-> StripFields(data[2][i], fields)]>>
      [] data[1] = "dict" -> <<"dict", FoldLeft(StripField, data[2], fields)>>
      [] OTHER -> data

Truncate(data) ==
    CASE data[1] = "list" ->
            <<"list", [i \in 1..(IF Len(data[2]) < MaxItems THEN Len(data[2]) ELSE MaxItems)
                         |-> Truncate(data[2][i])]>>
      [] data[1] = "dict" -> <<"dict", [k \in DOMAIN data[2] |-> Truncate(data[2][k])]>>
      [] OTHER -> data

(* _make_skeleton *)
MakeSkeleton(data, fields) == Truncate(StripFields(data, fields))

-----------------------------------------------------------------------------
(* Reference: a JSON value as the set of its nodes, each a path of steps   *)
(* <<"key", k>> and <<"item", i>> with what stands there.                  *)
Nodes(data) ==
    LET under(step, child) == {<<<<step>> \o n[1], n[2]>> : n \in Nodes(child)}
    IN  CASE data[1] = "list" ->
                {<<<<>>, <<"list">>>>}
                \cup UNION {under(<<"item", i>>, data[2][i]) : i \in DOMAIN data[2]}
          [] data[1] = "dict" ->
                {<<<<>>, <<"dict">>>>}
                \cup UNION {under(<<"key", k>>, data[2][k]) : k \in DOMAIN data[2]}
          [] OTHER -> {<<<<>>, data>>}
=============================================================================
