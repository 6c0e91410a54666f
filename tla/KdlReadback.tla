---------------------------- MODULE KdlReadback ----------------------------
(***************************************************************************)
(* What generation promises: the text reads back as the document, and a    *)
(* failed write is reported; and which documents it does not keep.         *)
(***************************************************************************)
EXTENDS KdlWriter, KdlCoerce

----------------------------------------------------------------------------
(* Reading back: the tokens of the text without white space and comments,  *)
(* decoded, against the tokens that the document calls for.                *)

Mark(id) == [kind |-> id, text |-> <<>>, number |-> 0]
Content(x) == [kind |-> x.kind, text |-> x.text, number |-> x.number]
Name(w) == [kind |-> "string", text |-> w, number |-> 0]

Marks == {"ParensOpen", "ParensClose", "BraceOpen", "BraceClose", "Equals", "TokenComment"}
Terminators == {"Newline", "Semicolon"}
Spaces == {"Whitespace", "SingleLineComment", "MultiLineComment"}

Meant(id, w) ==
    CASE id \in Spaces -> <<>>
      [] id \in Marks -> <<Mark(id)>>
      [] id \in Terminators -> <<Mark("end")>>
      [] OTHER -> <<Content(ValueFromToken(id, w))>>

\* What the token at i means, with the place behind it; a failure ends the text.
TokenAt(s, i, o) ==
    IF Failed(o) THEN [means |-> <<Mark("unreadable")>>, to |-> Len(s.text) + 1]
    ELSE [means |-> Meant(o.id, Slice(s, i, o.to)), to |-> o.to]

Follow(t) ==
    LET n == Len(t)
        read[i \in 1 .. n + 1] == IF i > n THEN <<>> ELSE t[i].means \o read[t[i].to]
    IN  read[1]

\* All the tokens of a text, and what they mean.
Read(s) ==
    The({Follow(t) : t \in {[i \in DOMAIN s.text |-> The({TokenAt(s, i, o) : o \in {readNext(s, i)}})]}})

\* Terminators are as good as one, and as none where nothing has begun.
Collapsed(ms) ==
    FoldLeft(LAMBDA t, m : IF m.kind = "end" /\ (t = <<>> \/ Last(t).kind = "end") THEN t
                           ELSE Append(t, m), <<>>, ms)

\* The text, as a reader gets it who asks for its version, or for none if it has
\* a marker.
ReadsAs ==
    LET o == case.options
        Text(v) == [text |-> out, version |-> v, nginx |-> FALSE,
                    yaml |-> o.equals \/ o.colons, suffixes |-> FALSE]
        asked == IF o.marker THEN detectVersion(Text("Auto"), 1).version ELSE o.version
    IN  The({Collapsed(t) : t \in {Read(s) : s \in {Text(asked)}}})

Typed(x) ==
    (IF x.type = <<>> THEN <<>> ELSE <<Mark("ParensOpen"), Name(x.type), Mark("ParensClose")>>)
    \o <<Content(x)>>

\* The keys of a node in the order they first appear, each with its last value.
Keys(n) ==
    FoldLeft(LAMBDA ks, p : IF Contains(ks, p.key) THEN ks ELSE Append(ks, p.key), <<>>, n.pairs)

Latest(n, k) == FoldLeft(LAMBDA x, p : IF p.key = k THEN p.value ELSE x, Mark("none"), n.pairs)

Pairs(n) ==
    FoldLeft(LAMBDA t, k : t \o <<Name(k), Mark("Equals")>> \o Typed(Latest(n, k)), <<>>, Keys(n))

Tokens(node) ==
    LET tokens[n \in AllNodes] ==
            Typed([n.name EXCEPT !.type = n.type])
            \o (IF case.options.equals /\ Assigned(n) THEN <<Mark("Equals")>> ELSE <<>>)
            \o FlattenSeq([k \in DOMAIN n.args |-> Typed(n.args[k])])
            \o Pairs(n)
            \o (IF n.children = <<>> THEN <<>>
                ELSE <<Mark("BraceOpen"), Mark("end")>>
                     \o FlattenSeq([k \in DOMAIN n.children |-> tokens[n.children[k]]])
                     \o <<Mark("BraceClose")>>)
            \o <<Mark("end")>>
    IN  tokens[node]

Document ==
    (IF case.options.marker
     THEN <<Mark("TokenComment"), Name(<<"kdl-version">>),
            [kind |-> "int64", text |-> <<>>,
             number |-> IF case.options.version = "V2" THEN 2 ELSE 1], Mark("end")>>
     ELSE <<>>)
    \o FlattenSeq([k \in DOMAIN case.nodes |-> Tokens(case.nodes[k])])

Finished == result = "nil" /\ lost = {}

----------------------------------------------------------------------------
(* What is kept.                                                           *)

\* A bare text is what the lexer takes for a bare identifier.
ReadsBare(w, v) ==
    readNext([text |-> w, version |-> v, nginx |-> FALSE, yaml |-> FALSE, suffixes |-> FALSE], 1)
        = Token("BareIdentifier", Len(w) + 1)

\* No control is written by number, and no slash stands behind a backslash in v2.
Escapes(w, v) ==
    /\ ToSet(w) \cap {"DEL", "NUL"} = {}
    /\ v = "V2" => ~Occurs(<<"\\", "/">>, w)

\* The last newline of a text is taken for the one before the closing quotes, and
\* white space on a line of its own is dropped.
LinesKept(w) ==
    /\ w = <<>> \/ Last(w) # "\n"
    /\ \A i, j \in DOMAIN w :
           ~ /\ i <= j /\ Inline(SubSeq(w, i, j))
             /\ i = 1 \/ w[i - 1] = "\n"
             /\ j = Len(w) \/ w[j + 1] = "\n"

\* A raw string of v1 is written with the hashes it had: with none it becomes a
\* string with escapes, and it neither may hold a newline nor look tripled.
RawKept(w, hashes) ==
    /\ ToSet(w) \cap NewlineChars = {}
    /\ hashes = 0 => ~Contains(w, "\\")
    /\ ~IsPrefix(Copies("QUOTE", 2), Append(w, "QUOTE"))

\* The values that are read back as they are.
Kept(x, o, v) ==
    CASE x.kind = "string" ->
             LET s == style(x, o)
             IN  CASE s = "bare" -> ReadsBare(x.text, v)
                   [] s = "quoted" -> Escapes(x.text, v)
                   [] s = "multi" -> x.text = <<>>
                   [] s = "multi raw" ->
                          LinesKept(x.text) /\ ~closingEscape(lastLine(x.text))
                   [] OTHER -> RawKept(x.text, x.hashes)
      [] x.kind = "expression" ->
             /\ Escapes(x.text, IF Multi(x) THEN "V1" ELSE v)
             /\ ~Contains(x.text, "QUOTE")
             /\ IF Multi(x) THEN LinesKept(x.text) ELSE ~Contains(x.text, "BACKTICK")
      [] x.kind = "word" -> v = "V2" \/ x.text \in {<<"true">>, <<"false">>, <<"null">>}
      [] x.kind = "suffixed" -> TRUE
      [] OTHER -> baseOf(x, o) = 10 \/ ~(x.kind = "big.Int" \/ (baseOf(x, o) = 16 /\ x.type # <<>>))

\* The comment behind a node stands right behind its last number.
Touches(n, depth) ==
    LET ends == Properties(n)
        last == IF ends # <<>> THEN Last(ends).value ELSE Last(n.args)
    IN  /\ n.after # <<>> /\ n.children = <<>> /\ ~case.options.semicolons
        /\ Indentation(case.options, depth) = <<>>
        /\ n.args # <<>> \/ ends # <<>>
        /\ last.kind \in {"int64", "big.Int"}

\* The nodes of a document, each with its depth, and the values that are written for
\* one, each with its options: a key is written as a name that a caller has made.
Nodes(ns) ==
    LET nodes[n \in AllNodes] ==
            {[node |-> n, depth |-> 0]}
            \cup {[e EXCEPT !.depth = @ + 1] : e \in UNION {nodes[m] : m \in ToSet(n.children)}}
    IN  UNION {nodes[n] : n \in ToSet(ns)}

Written(n, v, o) ==
    LET Named(x) == [value |-> x, options |-> NodeName(v)]
        Entry(x) == [value |-> x, options |-> o]
    IN  {Named(n.name)} \cup {Entry(x) : x \in ToSet(n.args)}
        \cup UNION {{Named(Value("string", p.key, 0, {}, 0)), Entry(p.value)} : p \in ToSet(Properties(n))}

AllKept ==
    LET v == case.options.version
        o == IF case.options.ignore THEN Unformatted(v) ELSE Formatted(v)
    IN  \A e \in Nodes(case.nodes) :
            /\ ~Touches(e.node, e.depth)
            /\ ~(case.options.colons /\ v = "V2" /\ Assigned(e.node))
            /\ \A w \in Written(e.node, v, o) : Kept(w.value, w.options, v)

\* A document reads back as it was exactly if all its values are kept, no comment
\* touches a number and no colon is written to v2: types, blocks, separators,
\* markers and the order of properties lose nothing.
ReadsBack ==
    Finished => (ReadsAs = Document <=> AllKept)

\* The integer that a number, or a string, stands for.
Denotes(x) == IF x.kind = "string" THEN Integer(x.text) ELSE x.number

\* A value with the type annotation it has, and the values of a text with the ones
\* that stand in front of them.
Entry(x, type) == [kind |-> x.kind, text |-> x.text, number |-> x.number, type |-> type]
EntriesOf(t) ==
    LET typed(i) == i > 3 /\ t[i - 3] = Mark("ParensOpen") /\ t[i - 1] = Mark("ParensClose")
    IN  {Entry(t[i], IF typed(i) THEN t[i - 2].text ELSE <<>>) : i \in DOMAIN t}

\* The integers among the entries, and the ones of them that are read back.
IsInteger(x) == x.kind \in {"int64", "big.Int"} \/ (x.kind = "string" /\ IsDecimal(x.text))
Values == UNION {ToSet(n.args) \cup {p.value : p \in ToSet(n.pairs)} : n \in AllNodes}
WholeNumbers == {Entry(x, x.type) : x \in {y \in Values : IsInteger(y)}}
ReadIntegers == (UNION {EntriesOf(t) : t \in {ReadsAs}}) \cap WholeNumbers

\* A string with a type annotation is not a number any more.
IsHidden(x) == x.kind = "string" /\ x.type # <<>>

\* An integer that was written and read arrives in a variable as itself exactly if
\* the variable holds it and an int64 holds it, and in a bool as what it is exactly if
\* an int64 came of it, or it is zero or a single digit: a uint64 does not bring back
\* its upper half, a bool is false for the larger numbers, and a string with a type
\* annotation arrives as zero and false.
IntegersArrive ==
    Finished /\ AllKept =>
        \A x \in ReadIntegers :
            /\ \A k \in IntKinds :
                   Assign(x, k) = Denotes(x)
                   <=> /\ Denotes(x) \in Holds(k) \cap Int64s
                       /\ IsHidden(x) => Denotes(x) = 0
            /\ ToBool(x) = (Denotes(x) # 0)
               <=> x.kind = "int64" \/ Denotes(x) = 0 \/ Len(TextOf(x)) = 1
============================================================================
