------------------------------ MODULE KdlLexer -----------------------------
(***************************************************************************)
(* Token recognition: readNext and detectVersion of scanner.go, the        *)
(* readers of readtype.go and the character classes of ctype.go.           *)
(*                                                                         *)
(* A text is a sequence of characters.  A character is a one-letter string *)
(* or one of a few named ones; a keyword, and the name in a version        *)
(* marker, is a character too, since nothing distinguishes its letters.    *)
(* A reader is an operator of a scanner s (its text, version and relaxed   *)
(* flags) and the position i of the next character; it answers with an     *)
(* outcome.  ScannerInput models the buffer the characters come from: here *)
(* the whole text is at hand, as in a scanner made by NewSlice.            *)
(***************************************************************************)
EXTENDS Integers, Sequences, FiniteSets

\* The byte-order mark, a byte that is no UTF-8, and the end of the text.
Bom == "BOM"
Invalid == "INVALID"
End == "END"

WhiteSpace == {" ", "\t"}
NewlineChars == {"\n", "\r"}
Digits == {"0", "1", "2", "3", "4", "5", "6", "7", "8", "9"}
Signs == {"+", "-"}
MultiByte == {"é", Bom}

\* The letters that may follow a number under MultiplierSuffixes.
SuffixLetters == {"b", "k"}

\* The letters of a keyword behind its first one; "kdl-version" is the name in
\* a version marker.
Keywords == {"true", "false", "null", "nan", "inf"}
Initial == [w \in Keywords |->
              CASE w = "true" -> "t" [] w = "false" -> "f" [] w = "inf" -> "i" [] OTHER -> "n"]

\* isSeparator
Separators == WhiteSpace \cup NewlineChars \cup {";"}

\* isDisallowedV2Rune, and the controls below the space.
Forbidden == {"DEL", "NUL"}

----------------------------------------------------------------------------
(* Characters and runs of characters.                                      *)

At(s, i) == IF i \in DOMAIN s.text THEN s.text[i] ELSE End

Slice(s, i, j) == SubSeq(s.text, i, j - 1)

\* isBareIdentifierCharVersion: what ends a bare identifier.
NotBare(s) ==
    WhiteSpace \cup NewlineChars \cup Forbidden \cup {End, Invalid} \cup
    IF s.version = "V2"
    THEN {"(", ")", "{", "}", "[", "]", "/", "\\", "QUOTE", "#", ";", "="}
    ELSE {"{", "}", "<", ">", ";", "[", "]", "=", ","}
         \cup (IF s.nginx THEN {} ELSE {"(", ")", "/", "\\", "QUOTE"})
         \cup (IF s.yaml /\ ~s.nginx THEN {":"} ELSE {})

\* isBareIdentifierStartCharVersion
Starts(s, c) == c \notin NotBare(s) \cup Digits

\* The end of the longest run of characters in S from i on, and of those not in S.
Run(s, S, i) ==
    CHOOSE j \in i .. Len(s.text) + 1 :
        /\ \A k \in i .. j - 1 : s.text[k] \in S
        /\ At(s, j) \notin S

RunTo(s, S, i) ==
    CHOOSE j \in i .. Len(s.text) + 1 :
        /\ \A k \in i .. j - 1 : s.text[k] \notin S
        /\ At(s, j) \in S

\* A token that ends before j; an error; io.EOF.
Token(id, j) == [id |-> id, to |-> j, err |-> "none"]
Error == [id |-> "Unknown", to |-> 0, err |-> "error"]
Ended == [id |-> "Unknown", to |-> 0, err |-> "eof"]

Failed(o) == o.err # "none"

\* What a look-ahead that meets the end or an invalid byte answers.
LookError(c) == IF c = End THEN Ended ELSE Error

\* readWhile: at least one character of S, at least min bytes, and no invalid
\* byte behind them.
readWhile(s, id, S, i, min) ==
    LET j == Run(s, S, i)
    IN  IF At(s, j) = Invalid \/ j = i \/ j - i < min THEN Error ELSE Token(id, j)

----------------------------------------------------------------------------
(* Comments and strings.                                                   *)

\* readSingleLineComment: up to the newline or the end.
readSingleLineComment(s, i) ==
    LET j == RunTo(s, NewlineChars \cup {Invalid, End}, i)
    IN  IF At(s, j) = Invalid THEN Error ELSE Token("SingleLineComment", j)

\* Mutant: a comment ends at the first closing mark.
FlatComment(s, i) ==
    LET ends == {k \in i + 2 .. Len(s.text) - 1 : s.text[k] = "*" /\ s.text[k + 1] = "/"}
    IN  IF ends = {} THEN Error
        ELSE Token("MultiLineComment", (CHOOSE k \in ends : \A l \in ends : k <= l) + 2)

\* Mutant: the end of the text inside a comment is the end of the text.
OpenComment(s, i) ==
    LET o == FlatComment(s, i)
    IN  IF Failed(o) THEN Ended ELSE o

\* readMultiLineComment: comments nest.  What is read from k on depends on the depth.
readMultiLineComment(s, i) ==
    LET read[k \in i .. Len(s.text) + 1] ==
            [depth \in Int |->
                CASE At(s, k) \in {End, Invalid} -> Error
                  [] At(s, k) = "*" /\ At(s, k + 1) = "/" ->
                         IF depth = 1 THEN Token("MultiLineComment", k + 2)
                         ELSE read[k + 2][depth - 1]
                  [] At(s, k) = "/" /\ At(s, k + 1) = "*" -> read[k + 2][depth + 1]
                  [] OTHER -> read[k + 1][depth]]
    IN  read[i][0]

\* n hashes from k on.
Hashes(s, k, n) == \A l \in k .. k + n - 1 : At(s, l) = "#"

\* Mutant: a quote alone ends a raw string.
AnyQuoteEnds(s, id, i, n) ==
    LET j == RunTo(s, {"QUOTE", End}, i)
    IN  IF At(s, j) = End THEN Error ELSE Token(id, j + 1)

\* readRawStringContent: up to the first quote with n hashes behind it.
rawContent(s, id, i, n) ==
    LET read[k \in i .. Len(s.text) + 1] ==
            CASE At(s, k) \in {End, Invalid} -> Error
              [] At(s, k) = "QUOTE" /\ Hashes(s, k + 1, n) -> Token(id, k + 1 + n)
              [] At(s, k) \in NewlineChars /\ s.version = "V2" -> Error
              [] OTHER -> read[k + 1]
    IN  read[i]

\* readRawString: r, hashes, a quote.
readRawString(s, i) ==
    LET j == Run(s, {"#"}, i + 1)
    IN  IF At(s, j) # "QUOTE" THEN Error ELSE rawContent(s, "RawString", j + 1, j - i - 1)

\* readQuotedStringQ: the mode of the reader before each character.  It stops
\* behind the closing quote, before an escaped slash or a bare newline of v2, and
\* at the end of the text: none of the three is an error.
quoteMode(s, q, m, c, next) ==
    LET v2 == s.version = "V2"
        escaped == m = "escaped"
        content ==
            CASE c = "\\" -> IF v2 /\ next = "/" THEN "stopped"
                             ELSE IF escaped THEN "plain" ELSE "escaped"
              [] c = q -> IF escaped THEN "plain" ELSE "done"
              [] c \in WhiteSpace -> IF escaped /\ v2 THEN "folding" ELSE m
              [] c \in NewlineChars -> IF ~v2 THEN m
                                       ELSE IF escaped THEN "folding" ELSE "stopped"
              [] OTHER -> "plain"
    IN  CASE m = "first" -> "plain"
          [] m \in {"done", "stopped"} -> "stopped"
          [] m = "folding" /\ c \in WhiteSpace \cup NewlineChars -> "folding"
          [] OTHER -> content

readQuotedStringQ(s, id, q, i) ==
    LET mode[k \in i .. Len(s.text) + 1] ==
            IF k = i THEN "first"
            ELSE quoteMode(s, q, mode[k - 1], At(s, k - 1), At(s, k))
        goesOn(k) == k <= Len(s.text) /\ At(s, k) # Invalid /\ mode[k + 1] # "stopped"
        j == CHOOSE k \in i .. Len(s.text) + 1 :
                 ~goesOn(k) /\ \A l \in i .. k - 1 : goesOn(l)
    IN  IF At(s, j) = Invalid \/ j - i < 2 THEN Error ELSE Token(id, j)

\* The content of a string between tripled quotes: escapes hide the next
\* character unless the string is raw; three quotes and n hashes end it.
tripleContent(s, id, q, i, n, escapes) ==
    LET tripled(k) == \A l \in k .. k + 2 : At(s, l) = q
        matched(k) == CHOOSE l \in 0 .. n : Hashes(s, k, l) /\ (l = n \/ At(s, k + l) # "#")
        read[k \in i .. Len(s.text) + 1] ==
            CASE At(s, k) \in {End, Invalid} -> Error
              [] At(s, k) = "\\" /\ escapes ->
                     IF At(s, k + 1) \in {End, Invalid} THEN Error ELSE read[k + 2]
              [] At(s, k) = q /\ tripled(k) ->
                     IF matched(k + 3) = n THEN Token(id, k + 3 + n)
                     ELSE read[k + 3 + matched(k + 3)]
              [] OTHER -> read[k + 1]
    IN  read[i]

\* readMultiLineStringRawNoMark, readMultiLineExpressionString: white space and a
\* newline follow the opening quotes.
readTripled(s, id, q, i, n, escapes) ==
    LET j == Run(s, WhiteSpace, i + 3)
    IN  IF At(s, j) \notin NewlineChars THEN Error
        ELSE tripleContent(s, id, q, j, n, escapes)

Tripled(s, q, i) == \A l \in i .. i + 2 : At(s, l) = q

----------------------------------------------------------------------------
(* Identifiers, keywords and numbers.                                      *)

\* The identifiers v2 reserves.
Reserved == {<<w>> : w \in Keywords} \cup {<<"-", "inf">>}

wordId(w) ==
    CASE w \in {<<"true">>, <<"false">>} -> "Boolean"
      [] w = <<"null">> -> "Null"
      [] OTHER -> "BareIdentifier"

\* readBareIdentifier
readBareIdentifier(s, i) ==
    LET c == At(s, i)
        c2 == At(s, i + 1)
        o == readWhile(s, "BareIdentifier",
                       {At(s, k) : k \in i .. Len(s.text)} \ NotBare(s), i, 1)
        w == Slice(s, i, o.to)
        starts == IF c \in Signs THEN c2 \notin Digits \cup {Invalid} ELSE Starts(s, c)
    IN  IF ~starts THEN Error
        ELSE IF c \in Signs /\ c2 = End THEN Token("BareIdentifier", i + 1)
        ELSE IF Failed(o) \/ (s.version = "V2" /\ w \in Reserved) THEN Error
        ELSE Token(wordId(w), o.to)

\* readIdentifier: every reader that starts with a letter or a quote.
readIdentifier(s, i) ==
    LET c == At(s, i)
        c2 == At(s, i + 1)
    IN  CASE c = End -> Ended
          [] c \in {Invalid, "NUL"} \cup WhiteSpace \cup NewlineChars -> Error
          [] c = "r" /\ s.version # "V2" /\ c2 \in {"#", "QUOTE"} -> readRawString(s, i)
          [] c = "QUOTE" ->
                 IF s.version = "V2" /\ Tripled(s, "QUOTE", i)
                 THEN readTripled(s, "QuotedString", "QUOTE", i, 0, TRUE)
                 ELSE readQuotedStringQ(s, "QuotedString", "QUOTE", i)
          [] c = "BACKTICK" ->
                 IF Tripled(s, "BACKTICK", i)
                 THEN readTripled(s, "ExpressionString", "BACKTICK", i, 0, TRUE)
                 ELSE readQuotedStringQ(s, "ExpressionString", "BACKTICK", i)
          [] c = "APOSTROPHE" /\ s.version # "V2" /\ s.nginx ->
                 readQuotedStringQ(s, "QuotedString", "APOSTROPHE", i)
          [] OTHER ->
                 IF c2 \notin {End, Invalid} /\ ~Starts(s, c) /\ ~(c = "-" /\ c2 \notin Digits)
                 THEN Error ELSE readBareIdentifier(s, i)

\* The rest of #true and its like: an end inside the word is io.EOF.
keyword(s, id, w, i) ==
    CASE At(s, i) = w -> Token(id, i + 1)
      [] At(s, i) = Initial[w] /\ At(s, i + 1) = End -> Ended
      [] OTHER -> Error

\* readHashToken: the raw strings and keywords of v2.
readHashToken(s, i) ==
    LET c == At(s, i + 1)
        j == Run(s, {"#"}, i + 1)
        n == j - i
    IN  CASE c \in {"QUOTE", "#"} ->
                 IF At(s, j) # "QUOTE" THEN Error
                 ELSE IF Tripled(s, "QUOTE", j)
                 THEN readTripled(s, "QuotedString", "QUOTE", j, n, FALSE)
                 ELSE rawContent(s, "RawString", j + 1, n)
          [] c \in {"t", "true"} -> keyword(s, "Boolean", "true", i + 1)
          [] c \in {"f", "false"} -> keyword(s, "Boolean", "false", i + 1)
          [] c = "n" -> LookError(At(s, i + 2))
          [] c = "null" -> Token("Null", i + 2)
          [] c = "nan" -> Token("Keyword", i + 2)
          [] c \in {"i", "inf"} -> keyword(s, "Keyword", "inf", i + 1)
          [] c = "-" -> IF At(s, i + 2) = End THEN Ended
                        ELSE keyword(s, "Keyword", "inf", i + 2)
          [] OTHER -> Error

\* readInteger: digits and underscores; with MultiplierSuffixes also letters, or a
\* second sign, from the first character on.
readInteger(s, i) ==
    LET signed == At(s, i) \in Signs
        allowed == Digits \cup {"_"} \cup (IF signed THEN {} ELSE SuffixLetters)
        j == Run(s, allowed, IF signed THEN i + 1 ELSE i)
    IN  IF ~s.suffixes
        THEN IF At(s, i) \notin Digits THEN Error
             ELSE readWhile(s, "Decimal", Digits \cup {"_"}, i, 1)
        ELSE IF j = i \/ At(s, j) = Invalid THEN Error
        ELSE Token(IF \E k \in i .. j - 1 : At(s, k) \in SuffixLetters
                   THEN "SuffixedDecimal" ELSE "Decimal", j)

\* readSignedInteger
readSignedInteger(s, i) ==
    CASE At(s, i) \in {End, Invalid} -> LookError(At(s, i))
      [] At(s, i) \in Signs -> readInteger(s, i + 1)
      [] OTHER -> readInteger(s, i)

\* Mutant: a number at the end of the text is incomplete.
NumberNeedsSeparator(s, o) == IF At(s, o.to) \in Separators THEN o ELSE Error

\* What may follow a number: nothing, a separator, or the rest of an nginx word.
afterNumber(s, o) ==
    LET c == At(s, o.to)
        v1 == [s EXCEPT !.version = "V1"]
    IN  CASE c \in Separators \cup {End, Invalid} -> o
          [] s.nginx /\ c \notin NotBare(v1) ->
                 readWhile(s, "BareIdentifier",
                           {At(s, k) : k \in o.to .. Len(s.text)} \ NotBare(v1), o.to, 1)
          [] OTHER -> Error

\* readDecimal: an integer, a fraction, an exponent.
readDecimal(s, i) ==
    LET int == readSignedInteger(s, i)
        mantissa == IF At(s, int.to) = "." THEN readInteger(s, int.to + 1) ELSE int
        exponent == IF At(s, mantissa.to) = "e" THEN readSignedInteger(s, mantissa.to + 1)
                    ELSE mantissa
    IN  CASE Failed(int) -> int
          [] Failed(mantissa) -> mantissa
          [] Failed(exponent) -> exponent
          [] OTHER -> afterNumber(s, [exponent EXCEPT !.id = mantissa.id])

\* readNumericBase: two characters of prefix, a digit, and white space or the end.
readNumericBase(s, id, S, i) ==
    LET j == Run(s, S \cup {"_"}, i + 2)
    IN  IF \/ j = i + 2
           \/ At(s, i + 2) = "_"
           \/ At(s, j) \notin WhiteSpace \cup NewlineChars \cup {End}
        THEN Error ELSE Token(id, j)

----------------------------------------------------------------------------
(* readNext.                                                               *)

\* The characters that are tokens by themselves.
Punctuation ==
    [c \in {"{", "}", "=", ";"} |->
       CASE c = "{" -> "BraceOpen" [] c = "}" -> "BraceClose"
         [] c = "=" -> "Equals" [] OTHER -> "Semicolon"]

\* The characters that only nginx syntax takes for letters.
StrictPunctuation ==
    [c \in {"(", ")", "\\"} |->
       CASE c = "(" -> "ParensOpen" [] c = ")" -> "ParensClose" [] OTHER -> "Continuation"]

readSlash(s, i) ==
    LET c2 == At(s, i + 1)
    IN  CASE c2 \in {End, Invalid} -> LookError(c2)
          [] c2 = "*" -> readMultiLineComment(s, i)
          [] c2 = "/" -> readSingleLineComment(s, i)
          [] c2 = "-" -> Token("TokenComment", i + 2)
          [] OTHER -> IF s.nginx THEN readIdentifier(s, i) ELSE Error

readSigned(s, i) ==
    LET c2 == At(s, i + 1)
    IN  CASE c2 = End /\ At(s, i) = "?" -> Ended
          [] c2 = Invalid -> Error
          [] c2 \in Digits /\ At(s, i) # "?" -> readDecimal(s, i)
          [] OTHER -> readIdentifier(s, i)

readZero(s, i) ==
    LET c2 == At(s, i + 1)
    IN  CASE c2 \in {End, Invalid} -> LookError(c2)
          [] c2 = "x" -> readNumericBase(s, "Hexadecimal", Digits \cup {"a", "b", "c", "d", "e", "f"}, i)
          [] c2 = "o" -> readNumericBase(s, "Octal", Digits \ {"8", "9"}, i)
          [] c2 = "b" -> readNumericBase(s, "Binary", {"0", "1"}, i)
          [] OTHER -> readDecimal(s, i)

\* What begins with none of the characters below.
readOther(s, i) ==
    LET c == At(s, i)
        c2 == At(s, i + 1)
    IN  CASE c = "." /\ c2 \in Digits /\ s.version = "V2" -> Error
          [] c = "#" /\ s.version = "V2" -> readHashToken(s, i)
          [] c = "#" /\ s.version # "V2" /\ s.nginx -> readSingleLineComment(s, i)
          [] c = ":" /\ s.yaml -> Token("Whitespace", i + 1)
          [] OTHER -> readIdentifier(s, i)

\* The token that begins at i, after detectVersion.
readNext(s, i) ==
    LET c == At(s, i)
        c2 == At(s, i + 1)
    IN  CASE c \in {End, Invalid} -> LookError(c)
          [] c \in WhiteSpace -> readWhile(s, "Whitespace", WhiteSpace, i, 1)
          [] c = Bom -> IF i = 1 THEN Token("Whitespace", 2) ELSE Error
          [] c \in NewlineChars -> Token("Newline", IF c = "\r" /\ c2 = "\n" THEN i + 2 ELSE i + 1)
          [] c = "/" -> readSlash(s, i)
          [] c \in DOMAIN Punctuation -> Token(Punctuation[c], i + 1)
          [] c \in DOMAIN StrictPunctuation /\ ~s.nginx -> Token(StrictPunctuation[c], i + 1)
          [] c = "," -> Error
          [] c \in Signs \cup {"?"} -> readSigned(s, i)
          [] c = "0" -> readZero(s, i)
          [] c \in Digits \ {"0"} -> readDecimal(s, i)
          [] OTHER -> readOther(s, i)

\* Mutant: anything may follow the number of a marker.
LooseMarker(s, i) ==
    LET slash == IF At(s, i) = Bom THEN i + 1 ELSE i
        name == Run(s, WhiteSpace, slash + 2)
        number == Run(s, WhiteSpace, name + 1)
    IN  CASE At(s, slash) \notin {"/", "NUL", End, Invalid} ->
                 [version |-> s.version, detected |-> TRUE]
          [] /\ At(s, slash) = "/"
             /\ At(s, slash + 1) = "-"
             /\ At(s, name) = "kdl-version"
             /\ At(s, number) \in {"1", "2"} ->
                 [version |-> IF At(s, number) = "1" THEN "V1" ELSE "V2", detected |-> TRUE]
          [] OTHER -> [version |-> s.version, detected |-> FALSE]

\* Mutant: a byte-order mark is taken for the first character of the document.
MarkerBehindNothing(s, i) ==
    IF At(s, i) = Bom THEN [version |-> s.version, detected |-> TRUE] ELSE LooseMarker(s, i)

\* detectVersion: a marker line at i sets the version; a text that begins with
\* anything but a slash ends the search, one that does is searched again at the
\* next token.
detectVersion(s, i) ==
    LET slash == IF At(s, i) = Bom THEN i + 1 ELSE i
        name == Run(s, WhiteSpace, slash + 2)
        number == Run(s, WhiteSpace, name + 1)
        end == Run(s, WhiteSpace, number + 1)
    IN  CASE At(s, slash) \notin {"/", "NUL", End, Invalid} ->
                 [version |-> s.version, detected |-> TRUE]
          [] /\ At(s, slash) = "/"
             /\ At(s, slash + 1) = "-"
             /\ At(s, name) = "kdl-version"
             /\ number > name + 1
             /\ At(s, number) \in {"1", "2"}
             /\ At(s, end) \in NewlineChars \cup {End} ->
                 [version |-> IF At(s, number) = "1" THEN "V1" ELSE "V2", detected |-> TRUE]
          [] OTHER -> [version |-> s.version, detected |-> FALSE]
============================================================================
