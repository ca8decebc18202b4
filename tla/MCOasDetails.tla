---------------------------- MODULE MCOasDetails ----------------------------
(* An instance of OasDetails for TLC.  Node 1 is the schema of a body and of *)
(* responses; 2 and 3 may stand below it, 4 below 2, 5 below 3; 6 is a       *)
(* component of its own.  References lead to 1 and 6.                        *)
EXTENDS OasDetails

MCShape(kind, next, key, required) ==
    [kind |-> kind, next |-> next, key |-> key, required |-> required]

Leaf      == MCShape("leaf", <<>>, <<>>, {})
Ref(n)    == MCShape("$ref", <<n>>, <<>>, {})
ArrayOf(n) == MCShape("array", <<n>>, <<>>, {})
AllOf(s)  == MCShape("allOf", s, <<>>, {})
Object(key, next, required) == MCShape("object", next, key, required)

MCGraph ==
    {<<a, b, c, d, e, f>> :
        a \in {AllOf(<<2, 3>>), ArrayOf(2), Ref(6)}
              \cup {Object(<<"a", "b">>, <<2, 3>>, r) : r \in {{}, {"a"}, {"a", "b"}}},
        b \in {Leaf, Ref(6), ArrayOf(4), AllOf(<<4>>)}
              \cup {Object(<<"a">>, <<4>>, r) : r \in {{}, {"a"}}},
        c \in {Leaf, Ref(1)}
              \cup {Object(<<k>>, <<5>>, r) : k \in {"a", "b"}, r \in {{}, {"b"}}},
        d \in {Leaf, Ref(6), ArrayOf(6)},
        e \in {Leaf, Ref(6)},
        f \in {Leaf, Ref(1), Object(<<>>, <<>>, {})}}

MCApi(parameters, query, security, body, responses) ==
    [domain |-> TRUE, parameters |-> parameters, query |-> query, security |-> security,
     body |-> body, responses |-> responses]

MCDocuments ==
    {[shape |-> s,
      apis  |-> <<MCApi(2, 0, TRUE, 0, <<1>>), MCApi(0, 1, FALSE, 1, <<r, 1>>),
                  [MCApi(0, 0, FALSE, 0, <<>>) EXCEPT !.domain = d]>>] :
        s \in MCGraph, r \in {1, 6}, d \in {TRUE, FALSE}}
=============================================================================
