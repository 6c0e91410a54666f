------------------------ MODULE MCKdlParserOutline ------------------------
(***************************************************************************)
(* The token alphabet for checking that KdlParser implements KdlOutline.   *)
(***************************************************************************)
EXTENDS KdlParserOutline

OutlineOptions ==
    {[version |-> v, yaml |-> FALSE, nginx |-> FALSE, comments |-> FALSE] :
        v \in {"V1", "V2"}}

\* Nodes, arguments, properties, child blocks and slashdashes.
OutlineTokens ==
    {Plain(id) : id \in {"QuotedString", "Equals", "Whitespace", "Newline",
                         "TokenComment", "BraceOpen", "BraceClose", "EOF"}}

\* Nodes, entries and slashdashes of one input, in all: enough for a slashdash in
\* each place, what it hides, and something behind that.  What follows a defect is
\* not of interest.
MaxItems == 5

FewItems == seen'.nodes + seen'.entries + seen'.slashdashes <= MaxItems /\ ~defect
============================================================================
