--------------------------- MODULE KdlParserClaims -------------------------
(***************************************************************************)
(* What the repository's documents, comments and tests say of the parser   *)
(* and its code does not do.  Each property is the claim; the run that     *)
(* checks it shows the behaviour that contradicts it.                      *)
(***************************************************************************)
EXTENDS KdlParser

\* A document is accepted only when every block has been closed: in a block
\* the parser expects "a child node, comment, type annotation, newline, or
\* '}'" (errors.go:61), not the end of the input.
AcceptedIsClosed == pc = "accepted" => c.states = <<>>

\* A type annotation in a node is followed, in that node, by the value it
\* annotates: nothing is pending when the node closes.
TypeStaysInNode ==
    [][Len(c'.node) < Len(c.node) /\ pc' # "rejected" => ~Valid(c'.typeAnnot)]_vars

\* Every argument comes from a token: what is saved is "an identifier queued"
\* (transitions.go:566).
ArgumentsComeFromTokens ==
    \A i \in DOMAIN c.doc : \A j \in DOMAIN c.doc[i].args : c.doc[i].args[j].id # Unknown
============================================================================
