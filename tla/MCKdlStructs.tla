---------------------------- MODULE MCKdlStructs ---------------------------
(***************************************************************************)
(* Types, values, nodes and options for model-checking KdlStructs: types   *)
(* with one field of each sort and with those that may get in each other's *)
(* way.                                                                    *)
(***************************************************************************)
EXTENDS KdlStructs, TLC

MCNames == <<"-", "0", "1", "2", "A", "a", "b", "c", "n", "x">>
MCLower == [n \in Range(MCNames) |-> IF n = "A" THEN "a" ELSE n]

Field2(name, attrs, kind) == [name |-> name, tagged |-> TRUE, attrs |-> attrs, kind |-> kind]
Untagged(name, kind) == [name |-> name, tagged |-> FALSE, attrs |-> {}, kind |-> kind]
Plainly(name, kind) == Field2(name, {}, kind)
Arg(name) == Field2(name, {"arg"}, "int")
Args(name) == Field2(name, {"args"}, "ints")
Props(name) == Field2(name, {"props"}, "map")
Children(name) == Field2(name, {"children"}, "map")
Multiple(name, kind) == Field2(name, {"multiple"}, kind)

MCTypes == <<
    <<Arg("a"), Arg("b"), Args("c")>>,
    <<Arg("a"), Arg("b"), Plainly("c", "int")>>,
    <<Args("b"), Args("c")>>,
    <<Props("b"), Props("c")>>,
    <<Children("b"), Children("c")>>,
    <<Plainly("a", "int"), Props("b"), Children("c")>>,
    <<Field2("a", {"omitempty"}, "int"), Field2("b", {"child"}, "int")>>,
    <<Plainly("a", "int"), Plainly("b", "ints"), Arg("c")>>,
    <<Multiple("a", "ints"), Plainly("b", "map")>>,
    <<Plainly("a", "map"), Children("c")>>,
    <<Multiple("b", "map"), Props("a")>>,
    <<Multiple("a", "points"), Plainly("b", "points")>>,
    <<Multiple("a", "points"), Plainly("b", "int")>>,
    <<Untagged("A", "int"), Plainly("b", "int")>>,
    <<Plainly("A", "int"), Untagged("a", "ints")>>,
    <<Plainly("-", "int"), Plainly("b", "int")>> >>

ValuesOf(kind) ==
    CASE kind = "int" -> {"0", "1"}
      [] kind = "map" -> UNION {[S -> {"0", "1"}] : S \in SUBSET {"0", "1", "a"}}
      [] OTHER -> UNION {[1 .. k -> {"0", "1"}] : k \in 0 .. 2}

StructsOf(type) ==
    LET v == [i \in DOMAIN type |-> ValuesOf(type[i].kind)]
    IN  IF Len(type) = 2 THEN {<<x, y>> : x \in v[1], y \in v[2]}
        ELSE {<<x, y, z>> : x \in v[1], y \in v[2], z \in v[3]}

Allowing(allowed, cs) ==
    [args |-> "args" \in allowed, props |-> "props" \in allowed, children |-> "children" \in allowed,
     nodes |-> "nodes" \in allowed, caseSensitive |-> cs]

MCOptions ==
    {Allowing({}, cs) : cs \in BOOLEAN}
    \cup {Allowing(allowed, FALSE) :
              allowed \in {{"args"}, {"props"}, {"children"}, {"nodes"}, {"args", "props", "nodes"}}}

ChildNodes ==
    {Child("a", <<"1">>), Child("A", <<"2">>), Child("b", <<>>), Child("b", <<"1", "2">>), Child("-", <<"1">>),
     Node("b", <<>>, "a" :> "1", <<>>), Node("a", <<>>, "x" :> "1", <<>>),
     Node("a", <<>>, "x" :> "1", <<Child("x", <<"2">>)>>),
     Node("a", <<"2">>, Empty, <<Child("x", <<"1">>)>>), Node("b", <<>>, Empty, <<Child("x", <<"1">>)>>),
     Node("b", <<"1">>, "0" :> "2", <<>>), Node("b", <<>>, Empty, <<Child("x", <<"1">>), Child("x", <<"2">>)>>),
     Node("b", <<>>, Empty, <<Child("x", <<"1">>), Child("x", <<>>)>>)}

MCNodes ==
    [args |-> {<<>>, <<"1">>, <<"1", "2">>, <<"1", "null", "2">>},
     props |-> {Empty, "a" :> "1", "a" :> "1" @@ "A" :> "2", "b" :> "1"},
     children |-> {<<>>} \cup {<<c>> : c \in ChildNodes} \cup {<<c, d>> : c, d \in ChildNodes}]

MCValues == [t \in DOMAIN MCTypes |-> StructsOf(MCTypes[t])]
============================================================================
