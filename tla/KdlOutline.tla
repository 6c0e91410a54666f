----------------------------- MODULE KdlOutline ----------------------------
(***************************************************************************)
(* What a KDL parser promises about slashdash, without parser states,      *)
(* queues or temporaries: which nodes and entries of the input are in the  *)
(* document.                                                               *)
(*                                                                         *)
(* A document is read frame by frame.  A node frame opens in the document  *)
(* or in a block, a block frame opens in a node, frames close innermost    *)
(* first.  Every slashdash of the input marks the next node, or the next   *)
(* entry or block of the innermost node; a marked node or block is dead    *)
(* and so is everything opened inside it.  Every entry of the input goes   *)
(* to the innermost node, where a mark swallows it.  A mark is used up by  *)
(* what it marks and never outlives the frame it was read in.              *)
(*                                                                         *)
(* nodes, read and slashdashes count the nodes, entries and slashdashes of *)
(* the input so far; nodes are numbered as they are opened.  The domain of *)
(* entries is the set of visible nodes, those that were opened alive.  Its *)
(* value is how many entries each of them has in the document: those of    *)
(* the input that no mark swallowed.                                       *)
(***************************************************************************)
EXTENDS Integers, Sequences

VARIABLE o

\* Node node is open, or (block) a child block of it.
Frame == [block : BOOLEAN, dead : BOOLEAN, node : Nat]

Empty == [frames |-> <<>>, nodes |-> 0, read |-> 0, slashdashes |-> 0,
          entries |-> [n \in {} |-> 0], nodeMark |-> FALSE, entryMark |-> FALSE]

Top(x) == x.frames[Len(x.frames)]

InNode(x) == x.frames # <<>> /\ ~Top(x).block

Dead(x) == x.frames # <<>> /\ Top(x).dead

Open(x, f) == [x EXCEPT !.frames = Append(@, f)]

Close(x) == [x EXCEPT !.frames = SubSeq(@, 1, Len(@) - 1)]

\* Node i has one entry more.
OneMore(entries, i) == [entries EXCEPT ![i] = @ + 1]

\* An entry of the input belongs to the innermost node: a mark swallows it, and a
\* node that is not visible does not show it.
Entry(x) ==
    [x EXCEPT !.read = @ + 1,
              !.entries = IF x.entryMark \/ Dead(x) THEN @ ELSE OneMore(@, Top(x).node),
              !.entryMark = FALSE]

\* The states in which a frame may open or close: the last entry of a node may
\* only be recognised by what follows it.
Settled == {o} \cup (IF InNode(o) THEN {Entry(o)} ELSE {})

ReadEntry == InNode(o) /\ o' = Entry(o)

MarkNode == ~InNode(o) /\ o' = [o EXCEPT !.slashdashes = @ + 1, !.nodeMark = TRUE]

MarkEntry ==
    /\ InNode(o)
    /\ \E x \in Settled : o' = [x EXCEPT !.slashdashes = @ + 1, !.entryMark = TRUE]

OpenNode ==
    /\ ~InNode(o)
    /\ LET dead == o.nodeMark \/ Dead(o)
           n == o.nodes + 1
           more == [i \in DOMAIN o.entries \cup {n} |-> IF i = n THEN 0 ELSE o.entries[i]]
       IN  o' = [Open(o, [block |-> FALSE, dead |-> dead, node |-> n]) EXCEPT
                   !.nodes = n,
                   !.entries = IF dead THEN @ ELSE more,
                   !.nodeMark = FALSE]

\* A block is dead iff the slashdash before it, or one around it, says so.
OpenBlock ==
    /\ InNode(o)
    /\ \E x \in Settled :
          LET block == [block |-> TRUE, dead |-> x.entryMark \/ Dead(x), node |-> Top(x).node]
          IN  o' = [Open(x, block) EXCEPT !.entryMark = FALSE]

\* A block closes only when no slashdash waits for a node ...
CloseBlock ==
    /\ o.frames # <<>> /\ Top(o).block
    /\ ~o.nodeMark
    /\ o' = Close(o)

\* ... and a node only when none waits for an entry or a block.
CloseNode ==
    /\ InNode(o)
    /\ \E x \in Settled : ~x.entryMark /\ o' = Close(x)

\* There is no document: the input was rejected.
Abandon == o' = Empty

OInit == o = Empty

ONext ==
    \/ ReadEntry \/ MarkNode \/ MarkEntry
    \/ OpenNode \/ OpenBlock \/ CloseBlock \/ CloseNode
    \/ Abandon

OSpec == OInit /\ [][ONext]_o
============================================================================
