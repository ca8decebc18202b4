---------------------------- MODULE MCOasChanges ----------------------------
(* An instance of OasChanges for TLC: two paths, two listed methods and one
   that is not, two schemas, the name of one a part of the other's, and one
   entry outside both. *)
EXTENDS OasChanges, TLC

MCParamList  == {<<>>, <<"x">>, <<"x", "y">>, <<"y", "x">>, <<"y">>}

MCBody(type, required) == [type |-> type, required |-> required]

MCSchemaBody ==
    {MCBody("a" :> "int", {}), MCBody("a" :> "int", {"a"}), MCBody("a" :> "text", {}),
     MCBody("a" :> "int" @@ "b" :> "int", {}), MCBody("a" :> "int" @@ "b" :> "int", {"b"}),
     MCBody("a" :> "int" @@ "b" :> "int", {"a", "b"})}

MCRestList == {<<"t">>, <<"t", "u">>, <<"u">>}

MCRefers == {<<<<"p", "get">>, "User">>, <<<<"p", "post">>, "UserGroup">>,
             <<<<"q", "get">>, "UserGroup">>}

MCWithin == {<<"User", "User">>, <<"User", "UserGroup">>, <<"UserGroup", "UserGroup">>}

MCPrevious ==
    {[params |-> [o \in O |-> l],
      schema |-> [s \in {"User", "UserGroup"} |-> b],
      rest   |-> "tags" :> <<"t">>] :
        O \in {{<<"p", "get">>}, {<<"p", "get">>, <<"p", "post">>},
               {<<"p", "get">>, <<"p", "patch">>, <<"q", "get">>}},
        l \in {<<>>, <<"x", "y">>},
        b \in {MCBody("a" :> "int", {}), MCBody("a" :> "int", {"a"})}}
=============================================================================
