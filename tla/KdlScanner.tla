---------------------------- MODULE KdlScanner -----------------------------
(***************************************************************************)
(* A Scanner over a whole text: Scan calls readNext until the text or the  *)
(* scanner ends, and keeps the line and column that tokens carry.          *)
(***************************************************************************)
EXTENDS KdlLexer

CONSTANT Inputs     \* a sequence of sets of texts, each with the modes to scan it in

Versions == {"Auto", "V1", "V2"}

\* A text does not contain what stands for its end.
ASSUME InputsAssumption ==
    \A k \in DOMAIN Inputs :
        /\ \A text \in Inputs[k].texts : text \in Seq(STRING \ {End})
        /\ \A m \in Inputs[k].modes :
               m.version \in Versions /\ {m.nginx, m.yaml, m.suffixes} \subseteq BOOLEAN

VARIABLES
    s,              \* the Scanner, with at, the position of s.input, and asked,
                    \* the version the caller wants
    token,          \* s.token, the last token Scan has returned
    prev,           \* the one before it
    pc              \* what the last call of Scan has returned

vars == <<s, token, prev, pc>>

\* NewSlice, with the caller's Version and RelaxedNonCompliant.
NewSlice(text, m) ==
    [text |-> text, version |-> m.version, asked |-> m.version, nginx |-> m.nginx,
     yaml |-> m.yaml, suffixes |-> m.suffixes, at |-> 1, marker |-> FALSE,
     line |-> 0, column |-> 0]

\* Mutant: a newline does not begin a line.
LineKept(x, j) ==
    LET lines == {k \in x.at .. j - 1 : x.text[k] \in NewlineChars}
        last == CHOOSE k \in lines : \A l \in lines : l <= k
    IN  [x EXCEPT !.at = j,
                  !.column = IF lines = {} THEN @ + j - x.at ELSE j - last]

\* What get does to the position, for all characters before j.
advance(x, j) ==
    LET lines == {k \in x.at .. j - 1 : x.text[k] \in NewlineChars}
        last == CHOOSE k \in lines : \A l \in lines : l <= k
    IN  [x EXCEPT !.at = j,
                  !.line = @ + Cardinality(lines),
                  !.column = IF lines = {} THEN @ + j - x.at ELSE j - last]

\* The first thing readNext does.
versioned(x) ==
    LET d == detectVersion(x, x.at)
    IN  IF x.version = "Auto" /\ ~x.marker
        THEN [x EXCEPT !.version = d.version, !.marker = d.detected] ELSE x

\* len(Data) of the text between two positions.
Bytes(x, i, j) == j - i + Cardinality({k \in i .. j - 1 : x.text[k] \in MultiByte})

\* The token that readNext made of x, from x.at to o.to.
TokenOf(x, o) ==
    [id |-> o.id, from |-> x.at, to |-> o.to, line |-> x.line, column |-> x.column,
     version |-> x.version, bytes |-> Bytes(x, x.at, o.to)]

\* The zero Token: there is none yet.
NoToken ==
    [id |-> "Unknown", from |-> 1, to |-> 1, line |-> 0, column |-> 0, version |-> "Auto",
     bytes |-> 0]

Exists(t) == t.id # "Unknown"

Init ==
    /\ \E k \in DOMAIN Inputs :
           \E text \in Inputs[k].texts, m \in Inputs[k].modes : s = NewSlice(text, m)
    /\ token = NoToken /\ prev = NoToken
    /\ pc = "token"

\* Scan: a token, the end-of-input token where readNext answers io.EOF, or an error.
Scan ==
    LET x == versioned(s)
        o == readNext(x, x.at)
    IN  /\ pc = "token"
        /\ \/ /\ ~Failed(o)
              /\ prev' = token
              /\ token' = TokenOf(x, o)
              /\ s' = advance(x, o.to)
              /\ UNCHANGED pc
           \/ /\ o.err = "eof"
              /\ pc' = "eof"
              /\ s' = x
              /\ UNCHANGED <<token, prev>>
           \/ /\ o.err = "error"
              /\ pc' = "error"
              /\ s' = x
              /\ UNCHANGED <<token, prev>>

\* Scan returns false behind the end-of-input token.
ScanFalse ==
    /\ pc = "eof"
    /\ pc' = "done"
    /\ UNCHANGED <<s, token, prev>>

\* The caller does not scan any more.
Returned == pc \in {"done", "error"} /\ UNCHANGED vars

Next == Scan \/ ScanFalse \/ Returned

Spec == Init /\ [][Next]_vars

----------------------------------------------------------------------------
(* Properties.                                                             *)

Data(t) == Slice(s, t.from, t.to)

\* A token is the same when it is read alone: the reader of every kind of token
\* knows by itself where the token ends, as ScanOne (scanner.go:404) needs it.
\* Three tokens cannot be read alone, since readNext looks at a second character.
LooksBeyond == {<<"0">>, <<"?">>, <<"/">>}

RescansAlone ==
    LET w == Data(token)
        o == readNext([s EXCEPT !.text = w, !.version = token.version], 1)
    IN  Exists(token) /\ w \notin LooksBeyond =>
            /\ o.id = token.id
            /\ o.to = Len(w) + 1

\* A version marker line from i on, as the grammar of the design document has it
\* (the end of the text in place of the newline is the code's own).
MarkerLine(i, n) ==
    /\ At(s, i) = "/" /\ At(s, i + 1) = "-"
    /\ \E name \in i + 2 .. Len(s.text), end \in i .. Len(s.text) + 1 :
        \E number \in name + 2 .. end - 1 :
            /\ s.text[name] = "kdl-version"
            /\ s.text[number] = n
            /\ At(s, end) \in NewlineChars \cup {End}
            /\ \A k \in (i + 2 .. end - 1) \ {name, number} : s.text[k] \in WhiteSpace

Named(n) == IF n = "1" THEN "V1" ELSE "V2"

\* In automatic mode a document that begins with a marker line, behind a
\* byte-order mark or not, is read in that version from its first token on
\* (detectVersion, scanner.go:417).
MarkerDecides ==
    s.asked = "Auto" /\ Exists(token) =>
        \A n \in {"1", "2"} :
            MarkerLine(IF At(s, 1) = Bom THEN 2 ELSE 1, n) => token.version = Named(n)

\* A version that was asked for is kept, and automatic mode gives a text a version
\* only where a marker line stands at the beginning of a token: of the input, says the
\* comment (scanner.go:416), but detectVersion looks at every token until it has found
\* one.  kdl.go always asks for a version, so this concerns the scanner alone.
VersionIsExplained ==
    Exists(token) /\ token.version # prev.version /\ token.version # s.asked =>
        /\ s.asked = "Auto"
        /\ \E n \in {"1", "2"} :
               /\ token.version = Named(n)
               /\ \/ MarkerLine(token.from, n)
                  \/ At(s, 1) = Bom /\ token.from = 1 /\ MarkerLine(2, n)

\* Parser.tokensAdjacent compares a column in characters with a length in bytes:
\* it is right about consecutive tokens exactly when the first has neither a
\* newline nor a multi-byte character.  KdlTokens abstracts tokens by this fact.
Wide(t) == \E k \in t.from .. t.to - 1 : s.text[k] \in MultiByte \cup NewlineChars

AdjacencyIsWidth ==
    LET tokensAdjacent ==
            prev.line = token.line /\ token.column = prev.column + prev.bytes
    IN  Exists(prev) => (tokensAdjacent <=> ~Wide(prev))

\* A raw string ends at its first closing delimiter: a quote with as many hashes
\* as it begins with (readRawStringContent, readtype.go:148).
RawStringsAreShortest ==
    LET w == Data(token)
        x == [text |-> w]
        quote == RunTo(x, {"QUOTE"}, 1)
        n == IF w[1] = "r" THEN quote - 2 ELSE quote - 1
    IN  token.id = "RawString" =>
            {i \in quote + 1 .. Len(w) : w[i] = "QUOTE" /\ Hashes(x, i + 1, n)} = {Len(w) - n}

\* A multi-line comment whose marks do not overlap closes what it opens, and does
\* so for the first time at its end (readMultiLineComment, readtype.go:28).
CommentsNest ==
    LET w == Data(token)
        Marks(a, b, n) == {i \in 1 .. n - 1 : w[i] = a /\ w[i + 1] = b}
        closed(n) == Cardinality(Marks("/", "*", n)) = Cardinality(Marks("*", "/", n))
        overlap == \E i \in 2 .. Len(w) - 1 :
                       w[i - 1] = w[i + 1] /\ {w[i - 1], w[i]} = {"*", "/"}
    IN  token.id = "MultiLineComment" /\ ~overlap =>
            closed(Len(w)) /\ \A n \in 2 .. Len(w) - 1 : ~closed(n)

\* When readNext takes an error for the end of the input, it loses one unfinished
\* token and nothing behind a separator (Scan, scanner.go:1009).
LosesOneTokenAtMost ==
    pc \in {"eof", "done"} => \A k \in s.at .. Len(s.text) : s.text[k] \notin Separators

\* Claimed: "On EOF, Scan will return false and Err will return nil"
\* (scanner.go:995).  The end of the input is reported when it has been read.
EndIsTheEnd == pc \in {"eof", "done"} => s.at = Len(s.text) + 1
============================================================================
