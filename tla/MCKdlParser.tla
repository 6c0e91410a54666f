---------------------------- MODULE MCKdlParser ----------------------------
(***************************************************************************)
(* Token alphabets and option sets for model-checking KdlParser.  A run    *)
(* takes the alphabet that exercises one concern of the parser.            *)
(***************************************************************************)
EXTENDS KdlParserClaims

Opt(v, y, n, k) == [version |-> v, yaml |-> y, nginx |-> n, comments |-> k]

\* Strict KDL, both versions, comments dropped.
StrictOptions == {Opt(v, FALSE, FALSE, FALSE) : v \in {"V1", "V2"}}

\* ParseComments; the versions do not differ in what comments do.
CommentOptions == {Opt("V1", FALSE, FALSE, TRUE)}

\* Both versions and both relaxed flags of the parser.
RelaxedOptions == {Opt("V1", TRUE, FALSE, FALSE), Opt("V1", FALSE, TRUE, FALSE),
                   Opt("V2", TRUE, FALSE, FALSE)}

\* Strict KDL v1, whose parser lets a value touch a closing brace.
V1Options == {Opt("V1", FALSE, FALSE, FALSE)}

Plains(ids) == {Plain(id) : id \in ids}

\* Nodes, child blocks and slashdashes.
BlockTokens == Plains({"BareIdentifier", "Whitespace", "Newline", "Semicolon",
                       "TokenComment", "BraceOpen", "BraceClose", "EOF"})

\* Arguments, properties and type annotations.
EntryTokens == Plains({"BareIdentifier", "Decimal", "Equals", "ParensOpen",
                       "ParensClose", "Whitespace", "Newline", "BraceOpen",
                       "BraceClose", "EOF"})

\* Strings may touch a brace, numbers may not.
StringTokens == Plains({"QuotedString", "Whitespace", "BraceOpen", "BraceClose", "EOF"})

\* No space behind a value that may still name a property, or behind its block.
ValueTouches == c.state = "ArgProp" => tok'.id # "Whitespace"

\* Comments, continuations and slashdashes across lines.
LineTokens == Plains({"BareIdentifier", "Whitespace", "Newline", "Continuation",
                      "SingleLineComment", "TokenComment", "BraceOpen",
                      "BraceClose", "EOF"})

\* Tokens of every class, and a string that does not decode.
HandlerTokens ==
    Plains({"BareIdentifier", "SuffixedDecimal", "Equals", "ParensOpen",
            "ParensClose", "Whitespace", "Newline", "MultiLineComment",
            "Continuation", "TokenComment", "BraceOpen", "BraceClose", "EOF"})
    \cup {[id |-> "QuotedString", bad |-> TRUE, wide |-> FALSE]}

\* The concern a set of options stands for, and how deep it is explored.
Concern ==
    CASE opts.comments -> [tokens |-> LineTokens, depth |-> 3, nodes |-> 2]
      [] opts.yaml \/ opts.nginx -> [tokens |-> HandlerTokens, depth |-> 2, nodes |-> 1]
      [] OTHER -> [tokens |-> EntryTokens, depth |-> 4, nodes |-> 2]

AllTokens == LineTokens \cup HandlerTokens \cup EntryTokens

AllOptions == CommentOptions \cup RelaxedOptions \cup StrictOptions

\* A run takes the tokens of its concern to the depth of its concern.
InConcern ==
    /\ tok' \in Concern.tokens \cup {NoToken}
    /\ Len(c'.states) <= Concern.depth
    /\ Len(c'.doc) <= Concern.nodes
============================================================================
