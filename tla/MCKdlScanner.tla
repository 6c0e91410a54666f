---------------------------- MODULE MCKdlScanner ---------------------------
(***************************************************************************)
(* Texts for model-checking KdlScanner: all texts up to a length over an   *)
(* alphabet made for one kind of token, in the modes that kind depends on. *)
(***************************************************************************)
EXTENDS KdlScanner

UpTo(S, n) == UNION {[1 .. k -> S] : k \in 0 .. n}

Behind(prefixes, tails) == {p \o t : p \in prefixes, t \in tails}

Strict(v) == [version |-> v, nginx |-> FALSE, yaml |-> FALSE, suffixes |-> FALSE]
Nginx == [version |-> "V1", nginx |-> TRUE, yaml |-> FALSE, suffixes |-> FALSE]
Yaml == [version |-> "V2", nginx |-> FALSE, yaml |-> TRUE, suffixes |-> FALSE]
Suffixed == [version |-> "V1", nginx |-> FALSE, yaml |-> FALSE, suffixes |-> TRUE]

Strict12 == {Strict("V1"), Strict("V2")}

In(t, m) == [texts |-> t, modes |-> m]

StringTexts == UpTo({"QUOTE", "\\", "#", "r", "a", "\n", "/", " "}, 4)

\* Raw strings and tripled quotes need more characters than the others.
RawTexts == Behind({<<"r", "#">>, <<"#">>, <<"#", "#">>}, Behind({<<"QUOTE">>}, UpTo({"QUOTE", "#", "a", "\n"}, 4)))
TripledTexts ==
    Behind({<<"QUOTE", "QUOTE", "QUOTE">>, <<"#", "QUOTE", "QUOTE", "QUOTE">>, <<"BACKTICK", "BACKTICK", "BACKTICK">>},
           Behind({<<"\n">>, <<" ", "\r">>, <<"a">>}, UpTo({"QUOTE", "BACKTICK", "#", "\\", "a"}, 4)))

CommentTexts == Behind({<<"/">>}, UpTo({"/", "*", "-", "\n", "a"}, 6))

NumberTexts == UpTo({"0", "1", "_", ".", "e", "+", "k", " "}, 4)
BaseTexts == Behind({<<"0">>}, UpTo({"x", "o", "b", "1", "2", "a", "_", ";"}, 3))

WordTexts ==
    UpTo({"#", "t", "true", "-", "inf", "n", "null", "?", " "}, 3)
    \cup Behind({<<"#">>}, UpTo({"f", "false", "i", "nan", "-", "a"}, 2))

PunctuationTexts ==
    UpTo({"(", ")", "{", ",", ";", ":", "APOSTROPHE", "#", "a", "1", "/", "\\"}, 3)

LineTexts == UpTo({"é", "a", "\r", "\n", " ", Bom, Invalid, "DEL", "QUOTE"}, 4)

MarkerTexts ==
    Behind({<<>>, <<Bom>>, <<"/", "*", "*", "/">>, <<" ">>},
           Behind({<<"/", "-">>},
                  UpTo({"kdl-version", "1", "2", " ", "\n"}, 5)))

MCInputs ==
    <<In(StringTexts, Strict12), In(RawTexts, Strict12), In(TripledTexts, Strict12),
      In(CommentTexts, {Strict("V2")}),
      In(NumberTexts, {Strict("V2"), Suffixed, Nginx}), In(BaseTexts, Strict12),
      In(WordTexts, Strict12), In(LineTexts, Strict12),
      In(PunctuationTexts, {Strict("V2"), Nginx, Yaml}),
      In(MarkerTexts, {Strict("Auto")})>>

\* Values at the end of the text.
LastTexts == Behind({<<"a", " ">>}, UpTo({"0", "1", " ", "#", "true", "t"}, 3))

LastInputs == <<In(LastTexts, Strict12)>>
============================================================================
