----------------------------- MODULE KdlStrings ----------------------------
(***************************************************************************)
(* Strings and values of a document: how a token is decoded into a Value   *)
(* and how a Value is written (strings.go, value.go).                      *)
(*                                                                         *)
(* Strings are sequences of the characters of KdlLexer.  An integer is a   *)
(* number; floats are left out, a suffixed number keeps its text.          *)
(***************************************************************************)
EXTENDS KdlLexer, SequencesExt

CONSTANT IntLimit   \* what an int64 does not hold: 2^63, or less to see both sides
ASSUME IntLimitAssumption == IntLimit \in Nat \ {0}

Blank == WhiteSpace \cup NewlineChars

\* The controls that have a letter for an escape.
Letter == [c \in {"\n", "\r", "\t", "\f", "BS"} |->
             CASE c = "\n" -> "n" [] c = "\r" -> "r" [] c = "\t" -> "t"
               [] c = "\f" -> "f" [] OTHER -> "b"]

\* What an escape letter stands for: \s is a space.
Meaning == [c \in {"n", "r", "t", "b", "f", "s"} |->
              IF c = "s" THEN " " ELSE CHOOSE d \in DOMAIN Letter : Letter[d] = c]

\* The code points of the characters that are written, or read, by number.
CodePoint == [c \in {"NUL", "QUOTE", "a", "DEL"} |->
                CASE c = "NUL" -> 0 [] c = "QUOTE" -> 34 [] c = "a" -> 97 [] OTHER -> 127]

Character(n) ==
    IF \E c \in DOMAIN CodePoint : CodePoint[c] = n
    THEN CHOOSE c \in DOMAIN CodePoint : CodePoint[c] = n ELSE "OTHER"

Figures == <<"0", "1", "2", "3", "4", "5", "6", "7", "8", "9", "a", "b", "c", "d", "e", "f">>

\* The digits of n.
InBase(n, base) ==
    LET figures[m \in 0 .. n] ==
            (IF m < base THEN <<>> ELSE figures[m \div base]) \o <<Figures[(m % base) + 1]>>
    IN  figures[n]

\* hexTable: what is no digit counts as zero.
Number(w, base) ==
    LET figure(c) == IF Contains(Figures, c) THEN (CHOOSE k \in 1 .. 16 : Figures[k] = c) - 1
                     ELSE 0
    IN  FoldLeft(LAMBDA n, c : base * n + figure(c), 0, w)

Copies(c, n) == [k \in 1 .. n |-> c]

\* The only member of a set: {e(x) : x \in {y}} evaluates y once.
The(S) == CHOOSE x \in S : TRUE

Occurs(x, w) == \E k \in 1 .. Len(w) - Len(x) + 1 : SubSeq(w, k, k + Len(x) - 1) = x

\* What does not decode, wherever in a text.
Undecodable == "UNDECODABLE"
Decoded(w) == ~Contains(w, Undecodable)

----------------------------------------------------------------------------
(* Quoting.                                                                *)

\* AppendQuotedString, character by character: a double quote is always escaped,
\* as a number when it is not the quote; the backtick never is, and a number has
\* no braces.
escaped(c, q) ==
    CASE c \in DOMAIN Letter -> <<"\\", Letter[c]>>
      [] c = "\\" \/ (c = "QUOTE" /\ q = "QUOTE") -> <<"\\", c>>
      [] c \in {"DEL", "NUL", "QUOTE"} -> <<"\\", "u">> \o InBase(CodePoint[c], 16)
      [] OTHER -> <<c>>

escapedAll(w, q) == FlattenSeq([i \in DOMAIN w |-> escaped(w[i], q)])

AppendQuotedString(w, q) == <<q>> \o escapedAll(w, q) \o <<q>>

\* The number of hashes for a raw string: as many as its token had, or else the
\* least for which the text holds no closing delimiter, of 64 at most.
hashCount(w, quotes, hashes, least) ==
    IF hashes > 0 THEN hashes
    ELSE CHOOSE n \in least .. 64 :
             /\ ~Occurs(quotes \o Copies("#", n), w)
             /\ \A k \in least .. n - 1 : Occurs(quotes \o Copies("#", k), w)

\* AppendRawString, AppendRawStringV2: the search begins at one hash and the
\* result has one less.
AppendRawStringV2(w, hashes) ==
    LET n == IF hashes > 0 THEN hashes ELSE hashCount(w, <<"QUOTE">>, 0, 1) - 1
    IN  Copies("#", n) \o <<"QUOTE">> \o w \o <<"QUOTE">> \o Copies("#", n)

AppendRawString(w, hashes) == <<"r">> \o AppendRawStringV2(w, hashes)

\* The lines of a multi-line string are escaped, its newlines are not.
multiLines(w, q) ==
    FlattenSeq([i \in DOMAIN w |-> IF w[i] = "\n" THEN <<"\n">> ELSE escaped(w[i], q)])

ended(w) == IF w # <<>> /\ Last(w) # "\n" THEN <<"\n">> ELSE <<>>

\* AppendMultiLineString: the closing quotes stand on the last line of the text.
AppendMultiLineString(w) ==
    Copies("QUOTE", 3) \o <<"\n">> \o multiLines(w, "QUOTE") \o Copies("QUOTE", 3)

AppendMultiLineExpressionString(w) ==
    Copies("BACKTICK", 3) \o <<"\n">> \o multiLines(w, "BACKTICK") \o ended(w)
    \o Copies("BACKTICK", 3)

AppendMultiLineStringV2(w, hashes) ==
    LET n == hashCount(w, Copies("QUOTE", 3), hashes, 1)
    IN  Copies("#", n) \o Copies("QUOTE", 3) \o <<"\n">> \o w \o ended(w) \o Copies("QUOTE", 3)
        \o Copies("#", n)

----------------------------------------------------------------------------
(* Unquoting.                                                              *)

\* The escape at i of a scanner x over the content of a string, and where it ends.
unescape(x, q, i, multi) ==
    LET c == At(x, i + 1)
        close == RunTo(x, {"}", End}, i + 3)
        code == Number(Slice(x, i + 3, close), 16)
        Is(w, j) == [text |-> w, next |-> j]
    IN  CASE c \in Blank -> Is(<<>>, Run(x, Blank, i + 1))
          [] c \in DOMAIN Meaning -> Is(<<Meaning[c]>>, i + 2)
          [] c \in {q, "\\"} \/ (c = "/" /\ ~multi) -> Is(<<c>>, i + 2)
          [] /\ c = "u"
             /\ At(x, i + 2) = "{"
             /\ multi \/ i + 4 <= Len(x.text)
             /\ At(x, close) = "}"
             /\ close - i - 3 <= 6
             /\ code <= 1114111
             /\ code \notin 55296 .. 57343 -> Is(<<Character(code)>>, close + 1)
          [] OTHER -> Is(<<Undecodable>>, Len(x.text) + 1)

\* AppendUnquotedString and appendUnquotedMultilineContent: a trailing backslash
\* is dropped if the closing line of a multi-line string had it.
unquoted(w, q, multi, trailing) ==
    LET x == [text |-> w]
        n == Len(w)
        read[i \in 1 .. n + 1] ==
            CASE i > n \/ (i = n /\ w[i] = "\\" /\ trailing) -> <<>>
              [] i <= n /\ w[i] # "\\" -> <<w[i]>> \o read[i + 1]
              [] OTHER -> The({e.text \o read[e.next] : e \in {unescape(x, q, i, multi)}})
    IN  read[1]

\* UnquoteString: the token must end with its quote.
UnquoteString(w) ==
    IF Len(w) < 2 \/ w[1] # Last(w) THEN <<Undecodable>>
    ELSE unquoted(SubSeq(w, 2, Len(w) - 1), w[1], FALSE, FALSE)

Inline(w) == ToSet(w) \subseteq WhiteSpace

\* firstNewline and lastNewline: where it stands and its length, 0 if there is none.
NoNewline == [at |-> 0, len |-> 0]

firstNewline(w) ==
    LET i == RunTo([text |-> w], NewlineChars \cup {End}, 1)
    IN  IF i > Len(w) THEN NoNewline
        ELSE [at |-> i, len |-> IF w[i] = "\r" /\ At([text |-> w], i + 1) = "\n" THEN 2 ELSE 1]

lastNewline(w) ==
    LET i == Max({0} \cup {k \in DOMAIN w : w[k] \in NewlineChars})
    IN  CASE i = 0 -> NoNewline
          [] i > 1 /\ SubSeq(w, i - 1, i) = <<"\r", "\n">> -> [at |-> i - 1, len |-> 2]
          [] OTHER -> [at |-> i, len |-> 1]

before(w, n) == SubSeq(w, 1, n.at - 1)
behind(w, n) == SubSeq(w, n.at + n.len, Len(w))

lastLine(w) == LET n == lastNewline(w) IN IF n.at = 0 THEN w ELSE behind(w, n)

\* parseMultilineClosingEscape: a line of one backslash and white space.
closingEscape(w) == \E i \in DOMAIN w : w[i] = "\\" /\ Inline(SubSeq(w, 1, i - 1) \o SubSeq(w, i + 1, Len(w)))

\* parseMultilineTail: what is above the closing line, and its indentation.  A
\* closing escape may stand on the line before the closing quotes.
multilineTail(w) ==
    LET n == lastNewline(w)
        closing == lastLine(w)
        prefix == before(w, n)
        prev == lastLine(prefix)
        Tail_(c, i, e) == [ok |-> Inline(i), content |-> c, indent |-> i, escaped |-> e]
        Indent(l) == SelectInSeq(l, LAMBDA c : c = "\\") - 1
    IN  CASE closingEscape(closing) -> Tail_(prefix, SubSeq(closing, 1, Indent(closing)), TRUE)
          [] n.at > 0 /\ Inline(closing) /\ closingEscape(prev) ->
                 Tail_(before(prefix, lastNewline(prefix)), SubSeq(prev, 1, Indent(prev)), TRUE)
          [] OTHER -> Tail_(prefix, closing, FALSE)

\* hasLineContinuation
continues(line) ==
    LET dark == {k \in DOMAIN line : line[k] \notin Blank}
    IN  dark # {} /\ line[Max(dark)] = "\\"

\* dedentMultilineContent: every line loses the indentation; a blank one is left
\* empty, and one behind a continuation is kept.
dedented(w, indent) ==
    LET n == Len(w)
        read[i \in 1 .. n + 1, continued \in BOOLEAN] ==
            IF i > n THEN <<>>
            ELSE LET rest == SubSeq(w, i, n)
                     nl == firstNewline(rest)
                     line == IF nl.at = 0 THEN rest ELSE before(rest, nl)
                     end == SubSeq(rest, Len(line) + 1, Len(line) + nl.len)
                     kept == CASE Inline(line) -> <<>>
                               [] continued -> line
                               [] IsPrefix(indent, line) ->
                                      SubSeq(line, Len(indent) + 1, Len(line))
                               [] OTHER -> <<Undecodable>>
                 IN  kept \o end \o read[i + Len(line) + nl.len, continues(line)]
    IN  read[1, FALSE]

\* unquoteMultiLineToken: the string with n hashes on either side.
UnquoteMultiLine(w, q) ==
    LET n == Run([text |-> w], {"#"}, 1) - 1
        inner == SubSeq(w, n + 4, Len(w) - n - 3)
        open == firstNewline(inner)
        content(t, d) ==
            CASE ~t.ok -> <<Undecodable>>
              [] n > 0 -> d
              [] t.escaped -> unquoted(Append(d, "\\"), q, TRUE, TRUE)
              [] OTHER -> unquoted(d, q, TRUE, FALSE)
    IN  IF Len(w) < 2 * (n + 3) \/ open.at = 0 \/ ~Inline(before(inner, open))
        THEN <<Undecodable>>
        ELSE The({The({content(t, d) : d \in {dedented(t.content, t.indent)}}) :
                  t \in {multilineTail(behind(inner, open))}})

\* unquoteRawTokenString
UnquoteRaw(w) ==
    LET p == RunTo([text |-> w], {"QUOTE"}, 1)
        n == IF w[1] = "r" THEN p - 2 ELSE p - 1
    IN  SubSeq(w, p + 1, Len(w) - 1 - n)

----------------------------------------------------------------------------
(* Values.                                                                 *)

\* A Value: a string, a number or a word, with the flags and hashes of its token.
Value(kind, w, n, flags, hashes) ==
    [kind |-> kind, text |-> w, number |-> n, flags |-> flags, hashes |-> hashes,
     type |-> <<>>]

\* parseNumber, for integers.
parseNumber(w, base) ==
    LET sign == IF w[1] \in Signs THEN 1 ELSE 0
        skip == IF base = 10 THEN sign ELSE 2
        n == Number(SelectSeq(SubSeq(w, skip + 1, Len(w)), LAMBDA c : c # "_"), base)
    IN  IF w[1] = "-" THEN -n ELSE n

\* An int64 if it fits, or else a big.Int.
integer(w, base, flags) ==
    LET n == parseNumber(w, base)
    IN  Value(IF n \in -IntLimit .. IntLimit - 1 THEN "int64" ELSE "big.Int", <<>>, n, flags, 0)

\* ParseSuffixedDecimal: digits, then letters.
suffixed(w) ==
    /\ w[1] \notin SuffixLetters
    /\ ToSet(w) \subseteq Digits \cup SuffixLetters \cup {"."}

\* The text of a string token.
StringOf(id, w) ==
    LET quote == IF id = "ExpressionString" THEN "BACKTICK" ELSE "QUOTE"
    IN  CASE id = "RawString" -> UnquoteRaw(w)
          [] w[1] = "#" \/ IsPrefix(Copies(quote, 3), w) -> UnquoteMultiLine(w, quote)
          [] OTHER -> UnquoteString(w)

StringTokens == {"QuotedString", "ExpressionString", "RawString"}

Decodes(id, w) ==
    /\ id \in StringTokens => Decoded(StringOf(id, w))
    /\ id = "SuffixedDecimal" => suffixed(w)

\* ValueFromTokenInto, for a token that decodes.
ValueFromToken(id, w) ==
    LET hashes == Run([text |-> w], {"#"}, IF id = "RawString" /\ w[1] = "r" THEN 2 ELSE 1)
                  - (IF id = "RawString" /\ w[1] = "r" THEN 2 ELSE 1)
        multi == IF \E q \in {"QUOTE", "BACKTICK"} : IsPrefix(Copies(q, 3), SubSeq(w, hashes + 1, Len(w)))
                 THEN {"multi"} ELSE {}
        raw == IF hashes > 0 THEN {"raw"} ELSE {}
        plain == IF multi = {} THEN {"quoted"} ELSE {}
    IN  CASE id = "QuotedString" -> Value("string", StringOf(id, w), 0, multi \cup raw \cup plain, hashes)
          [] id = "ExpressionString" -> Value("expression", StringOf(id, w), 0, multi, 0)
          [] id = "RawString" -> Value("string", StringOf(id, w), 0, {"raw"}, hashes)
          [] id = "BareIdentifier" -> Value("string", w, 0, {"bare"}, 0)
          [] id = "Binary" -> integer(w, 2, {"binary"})
          [] id = "Octal" -> integer(w, 8, {"octal"})
          [] id = "Hexadecimal" -> integer(w, 16, {"hexadecimal"})
          [] id = "Decimal" -> integer(w, 10, {})
          [] id = "SuffixedDecimal" -> Value("suffixed", w, 0, {}, 0)
          [] OTHER -> Value("word", IF w[1] = "#" THEN Tail(w) ELSE w, 0, {}, 0)

\* IsBareIdentifierVersion: the characters of a bare identifier, whatever they say.
isBare(w, v) ==
    LET strict == [version |-> v, nginx |-> FALSE, yaml |-> FALSE]
    IN  w # <<>> /\ Starts(strict, w[1]) /\ ToSet(w) \cap NotBare(strict) = {}

\* How Value.value writes a string.
style(x, o) ==
    LET v2 == "v2" \in o
        strict == "strict" \in o
    IN  CASE \/ "bare" \in x.flags /\ v2
             \/ /\ "noBare" \notin o /\ isBare(x.text, IF v2 THEN "V2" ELSE "V1")
                /\ "simple" \in o \/ x.flags \cap {"quoted", "raw", "multi"} = {} -> "bare"
          [] strict /\ {"multi", "raw"} \subseteq x.flags /\ v2 -> "multi raw"
          [] strict /\ "multi" \in x.flags -> "multi"
          [] strict /\ "raw" \in x.flags -> IF v2 THEN "raw" ELSE "raw v1"
          [] OTHER -> "quoted"

stringText(x, o) ==
    LET s == style(x, o)
    IN  CASE s = "bare" -> x.text
          [] s = "multi raw" -> AppendMultiLineStringV2(x.text, x.hashes)
          [] s = "multi" -> AppendMultiLineString(x.text)
          [] s = "raw" -> AppendRawStringV2(x.text, x.hashes)
          [] s = "raw v1" -> AppendRawString(x.text, x.hashes)
          [] OTHER -> AppendQuotedString(x.text, "QUOTE")

\* An expression is written on lines of its own if it was read so or has any.
Multi(x) == "multi" \in x.flags \/ Contains(x.text, "\n")

expressionText(x) ==
    IF Multi(x) THEN AppendMultiLineExpressionString(x.text)
    ELSE AppendQuotedString(x.text, "BACKTICK")

\* Value.value, for an integer: in its base if the flags are asked for, but a
\* big.Int gets no prefix.
baseOf(x, o) ==
    CASE "numeric" \notin o -> 10
      [] "binary" \in x.flags -> 2
      [] "octal" \in x.flags -> 8
      [] "hexadecimal" \in x.flags -> 16
      [] OTHER -> 10

integerText(x, o) ==
    LET base == baseOf(x, o)
        prefix == CASE x.kind = "big.Int" \/ base = 10 -> <<>>
                    [] base = 2 -> <<"0", "b">>
                    [] base = 8 -> <<"0", "o">>
                    [] OTHER -> <<"0", "x">>
    IN  prefix \o (IF x.number < 0 THEN <<"-">> \o InBase(-x.number, base)
                   ELSE InBase(x.number, base))

\* Value.value, for booleans, null and the float keywords, which v1 formats as Go does.
wordText(x, o) ==
    CASE "v2" \in o -> <<"#">> \o x.text
      [] x.text = <<"inf">> -> <<"+", "Inf">>
      [] x.text = <<"-", "inf">> -> <<"-", "Inf">>
      [] x.text = <<"nan">> -> <<"NaN">>
      [] OTHER -> x.text

\* Value.string: a type annotation in front of the value, which value() throws
\* away with the buffer when it formats a hexadecimal number.
valueText(x, o) ==
    (IF x.type = <<>> \/ baseOf(x, o) = 16 THEN <<>>
     ELSE <<"(">> \o x.type \o <<")">>)
    \o (CASE x.kind = "string" -> stringText(x, o)
          [] x.kind = "expression" -> expressionText(x)
          [] x.kind \in {"int64", "big.Int"} -> integerText(x, o)
          [] x.kind = "word" -> wordText(x, o)
          [] OTHER -> x.text)

\* FormattedString, UnformattedString and NodeNameString, with their V2 forms.
Formatted(v) == IF v = "V2" THEN {"noBare", "numeric", "strict", "v2"} ELSE {"noBare", "numeric"}
Unformatted(v) == IF v = "V2" THEN {"simple", "v2"} ELSE {"noBare"}
NodeName(v) == IF v = "V2" THEN {"simple", "v2"} ELSE {"simple"}
============================================================================
