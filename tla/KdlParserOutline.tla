-------------------------- MODULE KdlParserOutline -------------------------
(***************************************************************************)
(* The parser implements KdlOutline.  The frames, the marks and the        *)
(* visible entries of the outline are computed from the ParseContext and   *)
(* the document built so far; how many nodes, entries and slashdashes the  *)
(* input had is not, it is counted from the tokens, in history variables   *)
(* the parser does not see.                                                *)
(***************************************************************************)
EXTENDS KdlParser

VARIABLES
    seen,           \* the nodes, entries and slashdashes of the input so far
    defect          \* one of the three ways the code loses or invents an entry was taken

Nothing == [nodes |-> 0, entries |-> 0, slashdashes |-> 0]

----------------------------------------------------------------------------
(* What the tokens say.                                                    *)

EntryTokens == ValueLike \cup {"ExpressionString"}

\* A value that was read but is not an entry yet: an equals sign may follow.
Pending(x) == IF x.state \in {"ArgProp", "Property"} /\ Valid(x.ident) THEN 1 ELSE 0

\* tok names a node.
NamesNode == pc = "handle" /\ c.state \in ScopeStates /\ tok.id \in Identifiers

\* Every value in a node is an entry; an equals sign takes back the one before it,
\* which is the name of the next.
Given ==
    CASE pc = "handle" /\ c.state \in NodeStates /\ tok.id \in EntryTokens -> 1
      [] pc = "handle" /\ tok.id = "Equals" -> -Pending(c)
      [] OTHER -> 0

Slashdashed == pc = "handle" /\ tok.id = "TokenComment"

----------------------------------------------------------------------------
(* Where the code departs from the outline.                                *)

\* A brace closes the block around a node while a slashdash in the node waits for an
\* entry, and the mark stays, for whatever comes next: `a { b /- } 1 2`
\* (transitions.go:356).
LeaksSlashdash == c.state = "NodeParams" /\ c.ignoreNextArgProp /\ tok.id = "BraceClose"

\* After the block that follows a value no identifier is queued, but the state is
\* the same, and the next value (v1: the next space) flushes it: `a "x"{} "y"`
\* (transitions.go:516, 565).
InventsArgument ==
    /\ c.state = "ArgProp" /\ ~Valid(c.ident)
    /\ \/ tok.id \in EntryTokens
       \/ tok.id = "Whitespace" /\ ~V2

\* A brace closes the block around a node between the name of a property and its value, and the name stays
\* queued: `a { b c= }` (transitions.go:453, 634).
LeavesName == c.state \in {"Property", "PropertyValue"} /\ tok.id = "BraceClose"

\* Each step of the parser counts its token; a rejected input has none.
History ==
    \/ /\ pc' = "rejected"
       /\ seen' = Nothing
       /\ defect' = FALSE
    \/ /\ pc' # "rejected"
       /\ seen' = [nodes |-> seen.nodes + IF NamesNode THEN 1 ELSE 0,
                   entries |-> seen.entries + Given,
                   slashdashes |-> seen.slashdashes + IF Slashdashed THEN 1 ELSE 0]
       /\ defect' = \/ defect
                    \/ pc = "handle" /\ (LeaksSlashdash \/ InventsArgument \/ LeavesName)

OutlineSpec ==
    /\ Init /\ seen = Nothing /\ defect = FALSE
    /\ [][Next /\ History]_<<vars, seen, defect>>
    /\ WF_vars(Step)

----------------------------------------------------------------------------
(* The outline.                                                            *)

\* With a node, S holds the nodes that were added to it; and those of the root.
HoldsChildren(doc, S) ==
    \A i \in DOMAIN doc : doc[i].parent = 0 \/ doc[i].parent \in S => i \in S

\* The nodes of the document that can be reached from its root: what every such
\* set holds.
Reachable(doc) ==
    {i \in DOMAIN doc : \A S \in SUBSET DOMAIN doc : HoldsChildren(doc, S) => i \in S}

Entries(n) == Len(n.args) + Len(n.props)

\* Frame k of the outline: node (k + 1) \div 2 of the node stack for odd k, the
\* child block of node k \div 2 for even k.
FrameOf(x, k) ==
    LET i == (k + 1) \div 2
        unreachable == x.node[i] \notin Reachable(x.doc)
        ignored == i > OpenBlocks(x) - x.ignoreChildren
    IN  [block |-> k % 2 = 0,
         dead |-> unreachable \/ (k % 2 = 0 /\ ignored),
         node |-> x.node[i]]

OutlineOf(x, s) ==
    [frames |-> [k \in 1 .. Len(x.node) + OpenBlocks(x) |-> FrameOf(x, k)],
     nodes |-> s.nodes,
     read |-> s.entries - Pending(x),
     slashdashes |-> s.slashdashes,
     entries |-> [i \in Reachable(x.doc) |-> Entries(x.doc[i])],
     nodeMark |-> x.ignoreNextNode,
     entryMark |-> x.ignoreNextArgProp]

\* Nothing is promised of an input that ran into a defect.
outline == OutlineOf(IF defect THEN NewContext ELSE c, IF defect THEN Nothing ELSE seen)

Outline == INSTANCE KdlOutline WITH o <- outline

\* Until an input runs into one of the three defects, every slashdash of it hides
\* the node, the entry or the block behind it and nothing else: what is reachable
\* from the document is what no slashdash hides, and no entry is lost, invented or
\* given to another node.  The parser's four ignore fields, the queued identifier,
\* the two stacks and the parent links together implement the outline
\* (context.go:53-64).
ImplementsOutline == Outline!OSpec
============================================================================
