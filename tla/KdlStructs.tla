----------------------------- MODULE KdlStructs ----------------------------
(***************************************************************************)
(* A struct and the node it is marshaled to and unmarshaled from           *)
(* (marshalStructToNode and unmarshalNodeToStruct of internal/marshaler).  *)
(*                                                                         *)
(* A type is its fields in order: a name, whether a tag gave it, the       *)
(* attributes of the tag, and a kind: int, []int, map[string]int, or a     *)
(* slice of structs that hold an int each.  Scalars are what they print    *)
(* as.  Nil maps and slices are not told from empty ones.                  *)
(***************************************************************************)
EXTENDS Naturals, Sequences, SequencesExt, FiniteSetsExt, Functions

CONSTANTS
    Names,      \* names of fields and nodes, and keys, sorted
    Lower,      \* strings.ToLower on them
    Types,      \* types, in some order
    Values,     \* values of each of them
    Options,    \* options
    Nodes       \* the arguments, properties and lists of children that nodes are made of

IsSequence(s) == s \in Seq(ToSet(s))

Numerals == <<"0", "1", "2">>
Null == "null"
Kinds == {"int", "ints", "map", "points"}
Captures == {"arg", "args", "props", "children"}
Empty == [k \in {} |-> Null]

\* The name of the one field of the elements of a slice of structs.
PointName == "x"

ASSUME NamesAssumption ==
    IsSequence(Names) /\ \A j, k \in DOMAIN Names : Names[j] = Names[k] => j = k

\* What is in lower case stays as it is.
ASSUME LowerAssumption ==
    /\ \A n \in DOMAIN Lower : Lower[n] \in DOMAIN Lower /\ Lower[Lower[n]] = Lower[n]
    /\ PointName \in DOMAIN Lower /\ Lower[PointName] = PointName

\* The types that are modelled: a field captures in one way, and has the kind for it
\* without which the code takes nothing into it.
IsType(type) ==
    /\ IsSequence(type)
    /\ \A i \in DOMAIN type :
           LET f == type[i]
           IN  /\ f.kind \in Kinds /\ f.name \in DOMAIN Lower
               /\ \A a, b \in f.attrs \cap Captures : a = b
               /\ "arg" \in f.attrs => f.kind = "int"
               /\ "args" \in f.attrs => f.kind = "ints"
               /\ f.attrs \cap {"props", "children"} # {} => f.kind = "map"

\* What a field of a kind can hold.  No number prints as null.
Fits(kind, v) ==
    CASE kind = "int" -> v # Null
      [] kind = "map" -> v \in [DOMAIN v -> Range(v) \ {Null}] /\ DOMAIN v \subseteq Range(Names)
      [] OTHER -> IsSequence(v) /\ Null \notin Range(v)

IsValue(type, value) ==
    /\ value = [i \in DOMAIN type |-> value[i]]
    /\ \A i \in DOMAIN type : Fits(type[i].kind, value[i])

ASSUME TypesAssumption ==
    \A t \in DOMAIN Types : IsType(Types[t]) /\ \A value \in Values[t] : IsValue(Types[t], value)

\* Arguments and children are lists; so are those of the children.
IsNode(n) == IsSequence(n.args) /\ IsSequence(n.children)

ASSUME NodesAssumption ==
    /\ \A args \in Nodes.args : IsSequence(args)
    /\ \A children \in Nodes.children :
           IsSequence(children) /\ \A k \in DOMAIN children : IsNode(children[k])

IsInteger(k) == k \in Range(Numerals)
ToInt(x) == IF x = Null THEN "0" ELSE x

Node(name, args, props, children) ==
    [name |-> name, args |-> args, props |-> props, children |-> children]

normalizeKey(n, cs) == IF cs THEN n ELSE Lower[n]

\* A name given by a tag is in lower case, whatever the options say.
fieldTagOrName(f, cs) == IF f.tagged THEN Lower[f.name] ELSE normalizeKey(f.name, cs)

\* The elements of a sequence that are in a set, in order.
Those(s, S) ==
    LET those[n \in 0 .. Len(s)] ==
            CASE n = 0 -> <<>>
              [] n > 0 /\ s[n] \in S -> Append(those[n - 1], s[n])
              [] n > 0 /\ s[n] \notin S -> those[n - 1]
    IN  those[Len(s)]

\* StructAttrs: the fields with an attribute, in order.
StructAttrs(type, attr) ==
    Those([i \in DOMAIN type |-> i], {i \in DOMAIN type : attr \in type[i].attrs})

\* StructFields: the field of a name, the last of several; none for an unknown name.
StructFields(type, cs, name) ==
    LET named == {i \in DOMAIN type : fieldTagOrName(type[i], cs) = name}
    IN  IF named = {} THEN {} ELSE {Max(named)}

Zero(kind) == CASE kind = "int" -> "0" [] kind = "map" -> Empty [] OTHER -> <<>>

----------------------------------------------------------------------------
(* Marshaling.                                                             *)

sortMapKeys(m) == Those(Names, DOMAIN m)

\* The arguments of a map's node: as many as there are numerals for keys, by their number.
Numbered(m) ==
    LET count == Cardinality({k \in DOMAIN m : IsInteger(k)})
    IN  [i \in 1 .. count |-> IF Numerals[i] \in DOMAIN m THEN m[Numerals[i]] ELSE Null]

marshalMapToNode(name, m) ==
    Node(name, Numbered(m), Restrict(m, {k \in DOMAIN m : ~IsInteger(k)}), <<>>)

Child(name, args) == Node(name, args, Empty, <<>>)

marshalMapToNodes(m) == LET keys == sortMapKeys(m) IN [i \in DOMAIN keys |-> Child(keys[i], <<m[keys[i]]>>)]

\* marshalMultiMapToNodes, whose nodes begin with the key, and marshalMultiSliceToNodes.
marshalMultiMapToNodes(name, m) ==
    LET keys == sortMapKeys(m) IN [i \in DOMAIN keys |-> Child(name, <<keys[i], m[keys[i]]>>)]

marshalMultiSliceToNodes(name, points) ==
    [i \in DOMAIN points |-> Node(name, <<>>, [p \in {PointName} |-> points[i]], <<>>)]

\* tryMarshalValueAsChild: the nodes of a field that is not a property.
tryMarshalValueAsChild(f, name, v) ==
    IF "omitempty" \in f.attrs /\ v = Zero(f.kind) THEN <<>>
    ELSE CASE f.kind = "map" /\ "multiple" \in f.attrs -> marshalMultiMapToNodes(name, v)
           [] f.kind = "map" /\ "multiple" \notin f.attrs -> <<marshalMapToNode(name, v)>>
           [] f.kind = "points" -> marshalMultiSliceToNodes(name, v)
           [] f.kind = "ints" -> <<Child(name, v)>>
           [] f.kind = "int" /\ "child" \in f.attrs -> <<Child(name, <<v>>)>>
           [] OTHER -> <<>>

IsProperty(f, v) ==
    f.kind = "int" /\ "child" \notin f.attrs /\ ~("omitempty" \in f.attrs /\ v = "0")

\* The fields in the order of StructFieldNameList, without those that are captured or
\* have the name -.
Plain(type, cs) ==
    LET field == [i \in DOMAIN type |-> Max(StructFields(type, cs, fieldTagOrName(type[i], cs)))]
    IN  Those(field, {i \in DOMAIN type : type[i].attrs \cap Captures = {} /\ type[i].name # "-"})

marshalStructToNode(name, type, cs, value) ==
    LET captured(attr) ==
            LET fields == StructAttrs(type, attr) IN IF fields = <<>> THEN <<>> ELSE <<value[fields[1]]>>
        each == StructAttrs(type, "arg")
        fields == Plain(type, cs)
        nameOf(i) == fieldTagOrName(type[i], cs)
        properties == {i \in Range(fields) : IsProperty(type[i], value[i])}
        named == [n \in {nameOf(i) : i \in properties} |-> value[Max(StructFields(type, cs, n))]]
    IN  Node(name,
             [i \in DOMAIN each |-> value[each[i]]] \o FlattenSeq(captured("args")),
             LET rest == captured("props")
             IN  IF rest = <<>> THEN named
                 ELSE [k \in DOMAIN named \cup DOMAIN rest[1] |->
                          IF k \in DOMAIN named THEN named[k] ELSE rest[1][k]],
             FlattenSeq([k \in DOMAIN fields |->
                            tryMarshalValueAsChild(type[fields[k]], nameOf(fields[k]), value[fields[k]])])
             \o LET rest == captured("children")
                IN  IF rest = <<>> THEN <<>> ELSE marshalMapToNodes(rest[1]))

----------------------------------------------------------------------------
(* Unmarshaling a node into one value.                                     *)

Result(outcome, value) == [outcome |-> outcome, value |-> value]
Ok(value) == Result("ok", value)
Error == Result("error", Null)
Panic == Result("panic", Null)

\* verifyArgsPropsChildren, for a value that takes one argument.
verified(node, opts) ==
    /\ Len(node.args) = 1 \/ (Len(node.args) > 1 /\ opts.args)
    /\ node.props = Empty \/ opts.props
    /\ node.children = <<>>

toInt(node, opts) == IF verified(node, opts) THEN Ok(ToInt(node.args[1])) ELSE Error

\* unmarshalNodeToSlice; what the node has for children is not looked at.
toInts(node, old) == IF node.props = Empty THEN Ok(old \o [i \in DOMAIN node.args |-> ToInt(node.args[i])]) ELSE Error

Put(m, k, v) == [n \in DOMAIN m \cup {k} |-> IF n = k THEN v ELSE m[n]]

\* setMapKeyValueFromFunc, for the children of a map's node.  The value of a key that the
\* map has is not addressable, and SetInt panics.
PutChild(child, opts, m) ==
    LET v == toInt(child, opts)
    IN  CASE v.outcome = "error" -> Error
          [] v.outcome = "ok" /\ child.name \in DOMAIN m -> Panic
          [] OTHER -> Ok(Put(m, child.name, v.value))

\* unmarshalNodeToMap: arguments by their number, then properties, then the children in
\* order; each panics when the map has its key.
toMap(node, old, opts) ==
    LET numbers == {Numerals[i] : i \in DOMAIN node.args}
        children == node.children
        names == {children[m].name : m \in DOMAIN children}
        again ==
            \/ numbers \cap DOMAIN old # {}
            \/ DOMAIN node.props \cap (DOMAIN old \cup numbers) # {}
        before(m) ==
            DOMAIN old \cup numbers \cup DOMAIN node.props \cup {children[k].name : k \in 1 .. (m - 1)}
        repeated == {m \in DOMAIN children : children[m].name \in before(m)}
        rejected ==
            \E m \in DOMAIN children :
                /\ toInt(children[m], opts).outcome = "error"
                /\ \A k \in repeated : k >= m
        Entry(k) ==
            CASE k \in names -> toInt(children[CHOOSE m \in DOMAIN children : children[m].name = k], opts).value
              [] k \in DOMAIN node.props \ names -> ToInt(node.props[k])
              [] k \in numbers \ (names \cup DOMAIN node.props) ->
                     ToInt(node.args[CHOOSE i \in DOMAIN node.args : Numerals[i] = k])
              [] OTHER -> old[k]
    IN  CASE again -> Panic
          [] ~again /\ rejected -> Error
          [] ~again /\ ~rejected /\ repeated # {} -> Panic
          [] OTHER -> Ok([k \in DOMAIN old \cup numbers \cup DOMAIN node.props \cup names |-> Entry(k)])

\* unmarshalNodeToMultiDimensionalMap: the first argument is the key.
toMultiMap(node, old, opts) ==
    IF node.args = <<>> THEN Panic
    ELSE PutChild(Node(node.args[1], Tail(node.args), node.props, node.children), opts, old)

\* unmarshalNodeToStruct, for an element of a slice of structs: the last child that is
\* for its field counts, or else its property.
toPoint(node, opts) ==
    LET IsMine(name) == normalizeKey(name, opts.caseSensitive) = PointName
        known == {p \in DOMAIN node.props : IsMine(p)}
        children == node.children
        mine == {m \in DOMAIN children : IsMine(children[m].name)}
        rejected ==
            \/ node.args # <<>> /\ ~opts.args
            \/ known # DOMAIN node.props /\ ~opts.props
        failing ==
            \/ \E m \in mine : toInt(children[m], opts).outcome # "ok"
            \/ mine # DOMAIN children /\ ~opts.nodes
    IN  CASE rejected -> Error
          [] ~rejected /\ children # <<>> /\ opts.children -> Panic
          [] ~rejected /\ ~(children # <<>> /\ opts.children) /\ failing -> Error
          [] OTHER -> Ok(CASE mine # {} -> toInt(children[Max(mine)], opts).value
                           [] mine = {} /\ known # {} -> ToInt(node.props[CHOOSE p \in known : TRUE])
                           [] OTHER -> "0")

Appended(r, old) == IF r.outcome = "ok" THEN Ok(Append(old, r.value)) ELSE r

\* unmarshalNodeToMultiple
toMultiple(kind, node, old, opts) ==
    CASE kind = "map" -> toMultiMap(node, old, opts)
      [] kind = "ints" -> Appended(toInt(node, opts), old)
      [] kind = "points" -> Appended(toPoint(node, opts), old)
      [] OTHER -> Error

\* unmarshalNodeToValue
toValue(kind, node, old, opts) ==
    CASE kind = "map" -> toMap(node, old, opts)
      [] kind = "ints" -> toInts(node, old)
      [] kind = "points" -> IF node.args = <<>> /\ node.props = Empty THEN Ok(old) ELSE Error
      [] OTHER -> toInt(node, opts)

----------------------------------------------------------------------------
(* Unmarshaling a node into a struct.                                      *)

VARIABLES
    case,       \* the call
    pc,         \* arguments, properties, children, done
    dest,       \* the fields of the struct
    visited,    \* the properties that have been looked at
    rest,       \* the children that have not
    outcome

vars == <<case, pc, dest, visited, rest, outcome>>

Call(type, opts, value, node) == [type |-> type, opts |-> opts, value |-> value, node |-> node]

\* The node was marshaled from a value, or written by hand.
Marshaled(t, opts) ==
    \E value \in Values[t] :
        case = Call(Types[t], opts, value,
                    marshalStructToNode("n", Types[t], opts.caseSensitive, value))

Written(t, opts) ==
    \E args \in Nodes.args, props \in Nodes.props, children \in Nodes.children :
        case = Call(Types[t], opts, <<>>, Node("n", args, props, children))

Init ==
    /\ \E t \in DOMAIN Types, opts \in Options : Marshaled(t, opts) \/ Written(t, opts)
    /\ pc = "arguments"
    /\ dest = [i \in DOMAIN case.type |-> Zero(case.type[i].kind)]
    /\ visited = {}
    /\ rest = case.node.children
    /\ outcome = "ok"

Field(name) == StructFields(case.type, case.opts.caseSensitive, normalizeKey(name, case.opts.caseSensitive))
Capturing(attr) == StructAttrs(case.type, attr)
Goes(from, to) == pc = from /\ pc' = to

Fails(from, o) ==
    /\ Goes(from, "done")
    /\ outcome' = o
    /\ UNCHANGED <<case, dest, visited, rest>>

TooManyArguments ==
    ~case.opts.args /\ Capturing("args") = <<>> /\ Len(Capturing("arg")) < Len(case.node.args)

\* args[0] where no argument is left.
ArgumentMissing ==
    /\ case.node.args # <<>> /\ ~TooManyArguments /\ Len(Capturing("args")) <= 1
    /\ Len(Capturing("arg")) > Len(case.node.args)

RejectArguments ==
    /\ case.node.args # <<>> /\ (TooManyArguments \/ Len(Capturing("args")) > 1)
    /\ Fails("arguments", "error")

RunOutOfArguments == ArgumentMissing /\ Fails("arguments", "panic")

\* Mutant: the slice gets all arguments.
AssignAllArguments ==
    /\ case.node.args = <<>> \/ (~TooManyArguments /\ Len(Capturing("args")) <= 1)
    /\ ~ArgumentMissing
    /\ Goes("arguments", "properties")
    /\ LET args == case.node.args
       IN  dest' = IF args = <<>> THEN dest
                   ELSE [i \in DOMAIN dest |->
                           CASE Contains(Capturing("arg"), i) ->
                                    ToInt(args[CHOOSE k \in DOMAIN Capturing("arg") : Capturing("arg")[k] = i])
                             [] Contains(Capturing("args"), i) -> [k \in DOMAIN args |-> ToInt(args[k])]
                             [] OTHER -> dest[i]]
    /\ UNCHANGED <<case, visited, rest, outcome>>

AssignArguments ==
    /\ case.node.args = <<>> \/ (~TooManyArguments /\ Len(Capturing("args")) <= 1)
    /\ ~ArgumentMissing
    /\ Goes("arguments", "properties")
    /\ LET args == case.node.args
           each == Capturing("arg")
       IN  dest' = IF args = <<>> THEN dest
                   ELSE [i \in DOMAIN dest |->
                           CASE Contains(each, i) -> ToInt(args[CHOOSE k \in DOMAIN each : each[k] = i])
                             [] Contains(Capturing("args"), i) ->
                                    [k \in 1 .. (Len(args) - Len(each)) |-> ToInt(args[Len(each) + k])]
                             [] OTHER -> dest[i]]
    /\ UNCHANGED <<case, visited, rest, outcome>>

\* The properties come in the order of a Go map, which is none.
AssignProperty(p) ==
    /\ pc = "properties" /\ p \notin visited
    /\ visited' = visited \cup {p}
    /\ \/ /\ Field(p) = {}
          /\ UNCHANGED <<pc, dest, outcome>>
       \/ \E i \in Field(p) :
              IF case.type[i].kind = "int"
              THEN /\ dest' = [dest EXCEPT ![i] = ToInt(case.node.props[p])]
                   /\ UNCHANGED <<pc, outcome>>
              ELSE pc' = "done" /\ outcome' = "error" /\ UNCHANGED dest
    /\ UNCHANGED <<case, rest>>

Visited == visited = DOMAIN case.node.props
Handled == {p \in visited : Field(p) # {}}
UnhandledProperties == ~case.opts.props /\ Capturing("props") = <<>> /\ Handled # visited

RejectProperties ==
    /\ Visited /\ visited # {} /\ (UnhandledProperties \/ Len(Capturing("props")) > 1)
    /\ Fails("properties", "error")

\* A map that has had nothing yet gets all of the properties, those of other fields too.
CollectProperties ==
    /\ Visited
    /\ visited = {} \/ (~UnhandledProperties /\ Len(Capturing("props")) <= 1)
    /\ Goes("properties", "children")
    /\ dest' = [i \in DOMAIN dest |->
                   IF Contains(Capturing("props"), i)
                   THEN [k \in visited |-> ToInt(case.node.props[k])]
                   ELSE dest[i]]
    /\ UNCHANGED <<case, visited, rest, outcome>>

\* Mutant: the options are not looked at.
NoChildrenFieldEver ==
    /\ rest # <<>> /\ Capturing("children") = <<>>
    /\ Fails("children", "panic")

\* Options that are to drop the children make the code look for a field to take them.
NoChildrenField ==
    /\ rest # <<>> /\ case.opts.children /\ Capturing("children") = <<>>
    /\ Fails("children", "panic")

Takes(i, r) ==
    /\ outcome' = r.outcome
    /\ IF r.outcome = "ok"
       THEN dest' = [dest EXCEPT ![i] = r.value] /\ UNCHANGED pc
       ELSE pc' = "done" /\ UNCHANGED dest

\* unmarshalNodesToMap
UnmarshalToMap ==
    /\ pc = "children" /\ rest # <<>> /\ Capturing("children") # <<>>
    /\ LET i == Head(Capturing("children"))
       IN  Takes(i, PutChild(Head(rest), case.opts, dest[i]))
    /\ rest' = Tail(rest)
    /\ UNCHANGED <<case, visited>>

\* Mutant: a field that several nodes are for holds the last one.
UnmarshalLastToField ==
    /\ pc = "children" /\ rest # <<>> /\ Capturing("children") = <<>> /\ ~case.opts.children
    /\ \E i \in Field(Head(rest).name) :
          LET f == case.type[i]
          IN  Takes(i, IF "multiple" \in f.attrs THEN toMultiple(f.kind, Head(rest), Zero(f.kind), case.opts)
                       ELSE toValue(f.kind, Head(rest), dest[i], case.opts))
    /\ rest' = Tail(rest)
    /\ UNCHANGED <<case, visited>>

\* unmarshalNodeToStructField
UnmarshalToField ==
    /\ pc = "children" /\ rest # <<>> /\ Capturing("children") = <<>> /\ ~case.opts.children
    /\ \E i \in Field(Head(rest).name) :
          LET f == case.type[i]
          IN  Takes(i, IF "multiple" \in f.attrs THEN toMultiple(f.kind, Head(rest), dest[i], case.opts)
                       ELSE toValue(f.kind, Head(rest), dest[i], case.opts))
    /\ rest' = Tail(rest)
    /\ UNCHANGED <<case, visited>>

NoField ==
    /\ pc = "children" /\ rest # <<>> /\ Capturing("children") = <<>> /\ ~case.opts.children
    /\ Field(Head(rest).name) = {}
    /\ IF case.opts.nodes THEN UNCHANGED <<pc, outcome>> ELSE pc' = "done" /\ outcome' = "error"
    /\ rest' = Tail(rest)
    /\ UNCHANGED <<case, dest, visited>>

Return == rest = <<>> /\ Goes("children", "done") /\ UNCHANGED <<case, dest, visited, rest, outcome>>

Finished == pc = "done" /\ UNCHANGED vars

Next ==
    \/ RejectArguments \/ RunOutOfArguments \/ AssignArguments
    \/ \E p \in DOMAIN case.node.props : AssignProperty(p)
    \/ RejectProperties \/ CollectProperties
    \/ NoChildrenField \/ UnmarshalToMap \/ UnmarshalToField \/ NoField
    \/ Return \/ Finished

Spec == Init /\ [][Next]_vars

----------------------------------------------------------------------------
(* Properties.                                                             *)

Strict(opts) == ~(opts.args \/ opts.props \/ opts.children \/ opts.nodes)
Accepted == pc = "done" /\ outcome = "ok" /\ Strict(case.opts)

\* The entries of the node that are for a field.
Argument(k) == <<"argument", k>>
Property(p) == <<"property", p>>
ChildNode(k) == <<"child", k>>

Aims(i) ==
    LET node == case.node
        each == Capturing("arg")
        own == {k \in DOMAIN node.children : Capturing("children") = <<>> /\ i \in Field(node.children[k].name)}
    IN  {Argument(k) : k \in {m \in DOMAIN node.args : m <= Len(each) /\ each[m] = i}}
        \cup {Property(p) : p \in {q \in DOMAIN node.props : i \in Field(q)}}
        \cup {ChildNode(k) : k \in own}

ArgumentsHeld ==
    LET args == case.node.args
        each == Capturing("arg")
    IN  \A k \in DOMAIN args :
            IF k <= Len(each)
            THEN Aims(each[k]) = {Argument(k)} => dest[each[k]] = ToInt(args[k])
            ELSE LET v == dest[Head(Capturing("args"))]
                 IN  /\ Capturing("args") # <<>>
                     /\ k - Len(each) \in DOMAIN v /\ v[k - Len(each)] = ToInt(args[k])

PropertiesHeld ==
    \A p \in DOMAIN case.node.props :
        LET v == ToInt(case.node.props[p])
            collecting == Range(Capturing("props"))
        IN  /\ Field(p) \cup collecting # {}
            /\ \A i \in Field(p) : Aims(i) = {Property(p)} => dest[i] = v
            /\ \A i \in collecting : p \in DOMAIN dest[i] /\ dest[i][p] = v

\* That a value has what a node brings.  What the node of a slice has for children is not
\* looked at, unless it is for one element.
Holds(f, v, child) ==
    LET HasEntry(k, x) == k \in DOMAIN v /\ v[k] = ToInt(x)
    IN  CASE f.kind = "int" -> v = ToInt(child.args[1])
          [] f.kind = "ints" -> \A k \in DOMAIN child.args : ToInt(child.args[k]) \in Range(v)
          [] f.kind = "points" ->
                 /\ "multiple" \in f.attrs /\ child.children # <<>> =>
                        ToInt(Last(child.children).args[1]) \in Range(v)
                 /\ \A p \in DOMAIN child.props :
                        DOMAIN child.props = {p} /\ child.children = <<>> => ToInt(child.props[p]) \in Range(v)
          [] f.kind = "map" /\ "multiple" \in f.attrs -> HasEntry(child.args[1], child.args[2])
          [] OTHER -> /\ DOMAIN child.args \subseteq DOMAIN Numerals =>
                             \A k \in DOMAIN child.args : HasEntry(Numerals[k], child.args[k])
                      /\ \A p \in DOMAIN child.props : HasEntry(p, child.props[p])
                      /\ \A k \in DOMAIN child.children :
                             HasEntry(child.children[k].name, child.children[k].args[1])

\* A field that holds one thing holds one of those that are for it.
ChildHeld(k) ==
    LET child == case.node.children[k]
    IN  IF Capturing("children") # <<>>
        THEN LET v == dest[Head(Capturing("children"))]
             IN  child.name \in DOMAIN v /\ v[child.name] = ToInt(child.args[1])
        ELSE \E i \in Field(child.name) :
                LET f == case.type[i]
                IN  Aims(i) = {ChildNode(k)} \/ "multiple" \in f.attrs \/ f.kind = "map" =>
                        Holds(f, dest[i], child)

ChildrenHeld == \A k \in DOMAIN case.node.children : ChildHeld(k)

\* Without options that allow it, nothing of a node is dropped: each argument, property
\* and child has reached a field, and is there unless the field holds one thing and
\* another entry is for it too; a map has all of them, each under its own key
\* (unmarshalNodeToStruct, unmarshal.go:613; unmarshalNodeToMap, 1044).
NothingDropped == Accepted => ArgumentsHeld /\ PropertiesHeld /\ ChildrenHeld

\* Types and values that marshaling does not mix up: no two fields are for the same
\* thing, none is left out, and the keys of a map that are numerals leave none out.
Separable(type, cs, value) ==
    LET plain == {i \in DOMAIN type : type[i].attrs \cap Captures = {}}
        collecting == Range(StructAttrs(type, "props"))
    IN  /\ \A attr \in {"args", "props", "children"} : Len(StructAttrs(type, attr)) <= 1
        /\ \A i, j \in DOMAIN type :
               fieldTagOrName(type[i], cs) = fieldTagOrName(type[j], cs) => i = j
        /\ \A i \in DOMAIN type : type[i].name # "-"
        /\ \A i \in collecting :
               /\ \A j \in plain : ~IsProperty(type[j], value[j])
               /\ \A k \in DOMAIN value[i] : StructFields(type, cs, normalizeKey(k, cs)) = {}
        /\ StructAttrs(type, "children") # <<>> =>
               \A j \in plain : tryMarshalValueAsChild(type[j], "-", value[j]) = <<>>
        /\ \A i \in plain :
               /\ type[i].kind = "points" => "multiple" \in type[i].attrs
               /\ "multiple" \in type[i].attrs =>
                      type[i].kind # "ints" /\ ~(type[i].kind = "int" /\ "child" \in type[i].attrs)
               /\ type[i].kind = "map" /\ "multiple" \notin type[i].attrs =>
                      \A k, m \in DOMAIN Numerals :
                          k < m /\ Numerals[m] \in DOMAIN value[i] => Numerals[k] \in DOMAIN value[i]

\* Such a value comes back from its node, unless children are to be dropped that are not
\* captured (marshalStructToNode, marshal.go:545).
RoundTrip ==
    /\ case.value # <<>> /\ pc = "done"
    /\ Separable(case.type, case.opts.caseSensitive, case.value)
    /\ case.opts.children => Capturing("children") # <<>> \/ case.node.children = <<>>
    => outcome = "ok" /\ dest = case.value

\* The keys that a node brings to a map, each with the entry it is of.
KeysOf(node, multiple) ==
    IF multiple THEN {<<Argument(k), node.args[k]>> : k \in {1} \cap DOMAIN node.args}
    ELSE {<<Argument(k), Numerals[k]>> : k \in DOMAIN node.args}
         \cup {<<Property(p), p>> : p \in DOMAIN node.props}
         \cup {<<ChildNode(k), node.children[k].name>> : k \in DOMAIN node.children}

\* Those that the k-th child brings to a field, or the node itself, which is number 0.
Keys(i, k) ==
    LET node == case.node
        child == node.children[k]
        f == case.type[i]
    IN  CASE k = 0 -> IF Contains(Capturing("props"), i) THEN {<<Property(p), p>> : p \in DOMAIN node.props} ELSE {}
          [] k # 0 /\ Capturing("children") # <<>> ->
                 IF i = Head(Capturing("children")) THEN {<<ChildNode(k), child.name>>} ELSE {}
          [] OTHER -> IF i \in Field(child.name) THEN KeysOf(child, "multiple" \in f.attrs) ELSE {}

\* A key that two entries bring to one map.
RepeatsKey ==
    \E i \in DOMAIN case.type :
        /\ case.type[i].kind = "map"
        /\ \E k, m \in 0 .. Len(case.node.children) :
               \E x \in Keys(i, k), y \in Keys(i, m) : x[2] = y[2] /\ (k # m \/ x[1] # y[1])

\* Unmarshaling indexes past the end of a slice in three places only (unmarshal.go:642,
\* 757, 1151), and sets what cannot be set only for a key that comes twice to one map
\* (unmarshal.go:482, with 964 and 1016).
PanicsAreNamed ==
    outcome = "panic" =>
        \/ 0 < Len(case.node.args) /\ Len(case.node.args) < Len(Capturing("arg"))
        \/ case.opts.children /\ case.node.children # <<>>
        \/ \E k \in DOMAIN case.node.children :
               /\ case.node.children[k].args = <<>>
               /\ \E i \in Field(case.node.children[k].name) :
                      case.type[i].kind = "map" /\ "multiple" \in case.type[i].attrs
        \/ RepeatsKey
============================================================================
