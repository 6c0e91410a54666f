---------------------------- MODULE MCKdlWriter ----------------------------
(***************************************************************************)
(* Documents for model-checking KdlWriter: one value of every spelling in  *)
(* every place a value can stand, and a few documents with comments, types *)
(* and blocks whose writes may fail.                                       *)
(***************************************************************************)
EXTENDS KdlReadback

UpTo(S, n) == UNION {[1 .. k -> S] : k \in 0 .. n}
\* The strings that a token, or a caller, makes: v1 has raw strings without hashes,
\* v2 has strings of many lines, and fewer bare ones.
Strings(v) ==
    LET Each(texts, flags, hashes) == {Value("string", w, 0, flags, hashes) : w \in texts}
        plain == UpTo({"a", "\\", "QUOTE", " ", "\n", "/", "DEL"}, 2) \cup UpTo({"\\", "QUOTE", "/"}, 3)
                 \cup {<<"-", "1">>, <<"true">>, <<".", "1">>, <<"r", "#">>, <<"#", "a">>,
                  <<"0">>, <<"1">>, <<"1", "7">>, <<"-", "1", "7">>, <<"-", "9">>}
        bare == {w \in UpTo({"a", "#", "-", ".", "inf", "1"}, 2) \ {<<>>, <<"-", "1">>} : w[1] # "1"}
        reserved == {w \in bare : Contains(w, "#")} \cup {<<"inf">>, <<"-", "inf">>, <<".", "1">>}
        raw(n) == {w \in UpTo({"a", "QUOTE", "#", "\\"} \cup {c \in {"\n"} : v = "V1"}, 2) :
                      ~Occurs(<<"QUOTE">> \o Copies("#", n), w)}
        lines == UpTo({"a", "\n", " ", "\\"}, 3)
    IN  Each(plain, {"quoted"}, 0) \cup Each(plain, {}, 0) \cup Each(IF v = "V1" THEN bare ELSE bare \ reserved, {"bare"}, 0)
        \cup Each(raw(1), {"raw"}, 1) \cup Each(raw(2), {"raw"}, 2)
        \cup (IF v = "V1" THEN Each(raw(0), {"raw"}, 0)
              ELSE Each(lines, {"multi"}, 0) \cup Each(lines, {"multi", "raw"}, 1))

Numbers ==
    {Value(IF n < IntLimit THEN "int64" ELSE "big.Int", <<>>, n, f, 0) :
        n \in {0, 1, 9, 11, 16, 187}, f \in {{}, {"binary"}, {"octal"}, {"hexadecimal"}}}
    \cup {Value("int64", <<>>, n, {}, 0) : n \in {-12, -16, 15}}
    \cup {Value("big.Int", <<>>, n, {}, 0) : n \in {-17, 31}}

Words(v) ==
    {Value("word", w, 0, {}, 0) : w \in {<<"true">>, <<"null">>}
                                    \cup {x \in {<<"inf">>, <<"-", "inf">>, <<"nan">>} : v = "V2"}}

Expressions ==
    {Value("expression", w, 0, {}, 0) : w \in UpTo({"a", "\\", "QUOTE", "BACKTICK", "/", "\n", " "}, 2)}
    \cup {Value("expression", w, 0, {"multi"}, 0) : w \in UpTo({"a", "\n", "\\", " ", "/"}, 3)}

Node(name, args, pairs, children) ==
    [type |-> <<>>, name |-> name, args |-> args, pairs |-> pairs, children |-> children,
     before |-> <<>>, after |-> <<>>]

a == Value("string", <<"a">>, 0, {"bare"}, 0)
b == Value("string", <<"b">>, 0, {"bare"}, 0)
one == Value("int64", <<>>, 1, {}, 0)

Pair(k, x) == [key |-> k.text, value |-> x]
WithType(x) == [x EXCEPT !.type = <<"t">>]

\* One value, wherever it may stand: a name, an argument, a key, a typed entry.
Places(x) ==
    (IF x.kind # "string" THEN {} ELSE {Node(x, <<>>, <<>>, <<>>)})
    \cup (IF x.flags \notin {{"bare"}, {}} THEN {} ELSE {Node(a, <<>>, <<Pair(x, one)>>, <<>>)})
    \cup (IF x.kind = "expression" THEN {} ELSE {Node(a, <<WithType(x)>>, <<Pair(b, WithType(x))>>, <<>>)})
    \cup {Node(a, <<x>>, <<>>, <<>>)}

Singles(v) == UNION {Places(x) : x \in Strings(v) \cup Numbers \cup Words(v) \cup Expressions}

Plain(v, i) == [version |-> v, ignore |-> i, semicolons |-> FALSE, equals |-> FALSE,
                colons |-> FALSE, indent |-> <<"\t">>, marker |-> FALSE]

Of(documents, v, o, k) == [documents |-> documents, read |-> v, options |-> o, failures |-> k]

Alone(v) == Of({<<n>> : n \in Singles(v)}, v, {Plain(w, i) : w \in {"V1", "V2"}, i \in BOOLEAN}, 0)

\* Comments, types, repeated keys and blocks.
Line == <<"/", "/", "a">>

Commented(n, above, below) == [n EXCEPT !.before = above, !.after = below]

Leaf == Node(a, <<one>>, <<>>, <<>>)
Entries ==
    [Node(a, <<one, WithType(a)>>, <<Pair(a, one), Pair(b, WithType(one)), Pair(a, b)>>, <<>>)
        EXCEPT !.type = <<"t">>]

Outer(children) == {Node(a, <<one>>, <<>>, children), Node(b, <<>>, <<Pair(b, one)>>, children)}

Trees ==
    LET inner == {Leaf, Entries, Commented(Entries, <<Line, <<>>, <<>>, Line>>, <<Line>>)}
        ends == {Commented(Node(a, args, <<>>, <<>>), <<>>, <<Line>>) :
                    args \in {<<>>, <<a>>, <<Value("word", <<"true">>, 0, {}, 0)>>,
                              <<Value("string", <<>>, 0, {"raw"}, 0)>>}}
        middle == UNION {Outer(<<n>>) : n \in inner} \cup {Commented(Node(b, <<>>, <<>>, <<Leaf>>), <<>>, <<Line, Line>>)}
    IN  inner \cup ends \cup middle \cup UNION {Outer(<<m, n>>) : m \in middle, n \in inner}

\* Each option alone, and all of them but the colons.
Shapes ==
    UNION {LET p == Plain(v, FALSE)
           IN  {p, [p EXCEPT !.semicolons = TRUE], [p EXCEPT !.equals = TRUE], [p EXCEPT !.colons = TRUE],
                [p EXCEPT !.indent = <<>>], [p EXCEPT !.marker = TRUE],
                [p EXCEPT !.semicolons = TRUE, !.equals = TRUE, !.indent = <<>>, !.marker = TRUE]} :
           v \in {"V1", "V2"}}

Structured == Of({<<m, Leaf>> : m \in Trees}, "V1", Shapes, 0)

\* Two writes may fail, at any depth.
Failing == Of({<<Node(a, <<>>, <<>>, <<Commented(Node(a, <<>>, <<>>, <<Leaf, Leaf>>), <<Line>>, <<>>), Leaf>>), Leaf>>},
              "V1", {[Plain("V1", FALSE) EXCEPT !.marker = TRUE, !.equals = TRUE]}, 2)

MCCases == {Alone(v) : v \in {"V1", "V2"}} \cup {Structured, Failing}

\* The nodes of the documents, which are three deep.
Below(nodes) == UNION {ToSet(n.children) : n \in nodes}
Roots == UNION {UNION {ToSet(d) : d \in c.documents} : c \in MCCases}
MCNodes == Roots \cup Below(Roots) \cup Below(Below(Roots))
============================================================================
