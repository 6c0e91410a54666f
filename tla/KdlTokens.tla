----------------------------- MODULE KdlTokens -----------------------------
(***************************************************************************)
(* The token vocabulary shared by the scanner and the parser:              *)
(* internal/tokenizer/token.go.  A token is abstracted to its identifier   *)
(* and to the two facts about its bytes the parser can observe:            *)
(*                                                                         *)
(*   bad   document.ValueFromTokenInto fails on it (an invalid escape, a   *)
(*         number that does not parse, ...);                               *)
(*   wide  len(Data) differs from the columns the token occupies, because  *)
(*         it holds a multi-byte rune or spans several lines.              *)
(***************************************************************************)
EXTENDS Sequences

\* The numeric literals; they share their classes (token.go:65-69).
Numbers == {"Decimal", "Hexadecimal", "Octal", "Binary", "SuffixedDecimal"}

\* TokenID without the class pseudo-identifiers, Unknown and the TypeSpec that
\* no reader of the scanner produces.
TokenIDs ==
    Numbers \cup
    {"Newline", "Whitespace", "MultiLineComment", "SingleLineComment",
     "TokenComment", "Boolean", "Null", "BareIdentifier", "RawString",
     "QuotedString", "ExpressionString", "BraceOpen", "BraceClose",
     "ParensOpen", "ParensClose", "Equals", "Semicolon", "Continuation",
     "EOF", "Keyword"}

\* The zero value of TokenID: the identifier of a cleared token.
Unknown == "Unknown"

\* tokenClasses: the classes of a token in the order the parser tries them.
Classes(id) ==
    CASE id = "Newline" -> <<"ClassTerminator", "ClassWhitespace", "ClassEndOfLine">>
      [] id = "Whitespace" -> <<"ClassWhitespace">>
      [] id \in {"MultiLineComment", "SingleLineComment"} -> <<"ClassComment">>
      [] id \in Numbers -> <<"ClassNumber", "ClassValue", "ClassNonStringValue">>
      [] id \in {"Boolean", "Null", "Keyword"} -> <<"ClassValue", "ClassNonStringValue">>
      [] id = "BareIdentifier" -> <<"ClassValue", "ClassIdentifier">>
      [] id \in {"RawString", "QuotedString"} ->
             <<"ClassValue", "ClassString", "ClassIdentifier">>
      [] id = "ExpressionString" -> <<"ClassValue", "ClassString">>
      [] id = "Semicolon" -> <<"ClassTerminator">>
      [] id = "EOF" -> <<"ClassTerminator", "ClassEndOfLine">>
      [] OTHER -> <<>>

Token == [id : TokenIDs \cup {Unknown}, bad : BOOLEAN, wide : BOOLEAN]

\* What Token.Clear leaves behind, and the value a token field starts with.
NoToken == [id |-> Unknown, bad |-> FALSE, wide |-> FALSE]

\* Token.Valid
Valid(t) == t.id # Unknown

\* A well-formed ASCII token on a single line.
Plain(id) == [id |-> id, bad |-> FALSE, wide |-> FALSE]
============================================================================
