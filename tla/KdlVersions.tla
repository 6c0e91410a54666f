---------------------------- MODULE KdlVersions ----------------------------
(***************************************************************************)
(* Which version a text is parsed in, and what becomes of a reader that    *)
(* fails (parse and parseOne of kdl.go).                                   *)
(*                                                                         *)
(* An input is a text of which each version accepts what it accepts, read  *)
(* from a reader: all of it, what has arrived when a later read fails, or  *)
(* nothing.  Every version accepts the empty text.                         *)
(***************************************************************************)
EXTENDS Naturals, FiniteSets

Versions == {"V1", "V2"}
Parts == {"all", "prefix", "nothing"}
Failures == {"never", "first", "later"}

Inputs == [all : SUBSET Versions, prefix : SUBSET Versions, fails : Failures]

Accepts(input, part, v) ==
    CASE part = "all" -> v \in input.all
      [] part = "prefix" -> v \in input.prefix
      [] OTHER -> TRUE

\* What has been read when the reader reports the end, or fails.
Arrives(input) ==
    CASE input.fails = "never" -> "all"
      [] input.fails = "first" -> "nothing"
      [] OTHER -> "prefix"

\* NewSlice, and NewBuffer: a first read that fails leaves its error in err.
Scanner(part, v, err) == [part |-> part, version |-> v, err |-> err, closed |-> FALSE]

NewSlice(part, v) == Scanner(part, v, "nil")
\* Mutant: the error of a first read is lost.
NewBufferQuiet(input, v) == Scanner(Arrives(input), v, "nil")

NewBuffer(input, v) ==
    Scanner(Arrives(input), v, IF input.fails = "first" THEN "read" ELSE "nil")

\* Offset: what has been consumed of a text; Close takes the text away.
Offset(s) == IF s.closed \/ s.part = "nothing" THEN 0 ELSE 1

\* Mutant: the scanner is not closed when it fails.
Unclosed(s) == s

Close(s) == [s EXCEPT !.closed = TRUE]

Document(part, v) == [err |-> "nil", part |-> part, version |-> v]
Failed(e) == [err |-> e, part |-> "nothing", version |-> "none"]

\* parseOne: the document or the error, and the scanner that is left.  An error of a
\* later read is overwritten by the end of the input.
parseOne(s, input) ==
    [scanner |-> Close(s),
     result |-> CASE s.err # "nil" -> Failed(s.err)
                  [] s.err = "nil" /\ Accepts(input, s.part, s.version) -> Document(s.part, s.version)
                  [] OTHER -> Failed("parse")]

\* Scanner.Read under io.ReadAll: whatever has failed, the end of the input is
\* reported first.
ReadAll(s) == s.part

\* Automatic mode: v2, and then v1 unless the scanner of v2 has consumed anything.
fallback(input, data) ==
    LET v2 == parseOne(NewSlice(data, "V2"), input)
    IN  IF v2.result.err = "nil" \/ (v2.scanner.version = "V2" /\ Offset(v2.scanner) > 0)
        THEN v2.result
        ELSE parseOne(NewSlice(data, "V1"), input).result

parse(s, input) ==
    IF s.version # "Auto" THEN parseOne(s, input).result ELSE fallback(input, ReadAll(s))
============================================================================
