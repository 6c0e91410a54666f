------------------------ MODULE KdlParserTreeProofs ------------------------
(***************************************************************************)
(* Proofs about what the parser of KdlParser builds and about the marks it *)
(* carries from one token to the next, for every alphabet, every set of    *)
(* options and every bound.  They rest on KdlParserProofs: its invariant   *)
(* says that the two stacks are sound, the one here (TInv) what the fields *)
(* beside them mean.                                                       *)
(*                                                                         *)
(* The argument has three layers: the five ways in which the stacks and    *)
(* the document move in one step (nothing moves, a node is opened or       *)
(* closed, a child block is opened or closed) and what each keeps, what    *)
(* the methods of ParseContext leave alone, and one step per transition    *)
(* function.                                                               *)
(*                                                                         *)
(* The second half proves that the parser implements KdlOutline, along the *)
(* same layers: which nodes each of the five moves keeps reachable and     *)
(* which frames it keeps, the step of the outline it is, and that every    *)
(* transition function makes one of them.  What the document gets is       *)
(* compared with what the tokens count as, token by token, for inputs that *)
(* meet none of the three defects KdlParserOutline names.                  *)
(***************************************************************************)
EXTENDS KdlParserProofs, KdlParserOutline

----------------------------------------------------------------------------
(* The invariant.                                                          *)

\* The property whose value comes next has a name.
Named(x) ==
    \/ x.state \in {"Property", "PropertyValue"}
    \/ x.state \in TypeStates /\ Innermost(x) = "PropertyValue"
    => x.ident.id \in PropertyNames

\* The states of a node in which a child block may begin.
OwnerStates == {"Node", "NodeParams", "ArgProp"}

\* A node that waits for a child block to end is in one of them; only a type
\* annotation may interrupt the value of a property.
Owners(x) ==
    \A i \in 1 .. (IF x.state \in TypeStates THEN Len(x.states) - 1 ELSE Len(x.states)) :
        x.states[i] \in NodeStates => x.states[i] \in OwnerStates

\* What the marks mean.  The rule about the rest of the line is stronger than the
\* property: the parser is still in the node whose block was ignored.
Marks(x) ==
    /\ x.ignoreNextNode => InScope(x)
    /\ Named(x) /\ Owners(x)
    /\ x.afterIgnoredChildBlock => x.ignoreChildren = 0 /\ x.state \in NodeStates
    /\ x.ignoreChildBlockFromContinuation => x.ignoreChildren > 0
    /\ x.continuationNewlineSeen => x.continuation

\* Each open node was added to the one below it, or to nothing.
Path(x) ==
    \A i \in 1 .. Len(x.node) :
        x.doc[x.node[i]].parent \in {Detached, IF i = 1 THEN 0 ELSE x.node[i - 1]}

\* The ignored blocks are the innermost ones, and their nodes hang off nothing.
Hidden(x) ==
    /\ x.ignoreChildren <= OpenBlocks(x)
    /\ \A i \in 1 .. Len(x.node) :
           i > OpenBlocks(x) - x.ignoreChildren + 1 => x.doc[x.node[i]].parent = Detached

\* What may follow an ignored block before its line ends.
RestOfLine == Comments \cup {"Whitespace"}

TInv ==
    /\ IInv
    /\ pc # "rejected" => Marks(c) /\ Path(c) /\ Hidden(c)
    /\ pc = "handle" /\ c.afterIgnoredChildBlock => tok.id \in RestOfLine

----------------------------------------------------------------------------
(* How the stacks and the document move.                                   *)

\* The entries and the type of a node are what they were.
SameEntries(d, e) == e.args = d.args /\ e.props = d.props /\ e.typ = d.typ

\* Document D is that of x, but for what the innermost open node has, and for nodes
\* that were added.
OnlyCurrent(x, D) ==
    /\ Len(D) >= Len(x.doc)
    /\ \A i \in 1 .. Len(x.doc) :
           /\ D[i].parent = x.doc[i].parent
           /\ x.node = <<>> \/ i # currentNode(x) => SameEntries(x.doc[i], D[i])

\* The comments node i had.
Had(x, i) == IF i \in 1 .. Len(x.doc) THEN x.doc[i].comments ELSE 0

\* Every node of D has the comments it had ...
CommentsStay(x, D) == \A i \in 1 .. Len(D) : D[i].comments = Had(x, i)

\* ... or all that waited have gone to node n.
CommentsGo(x, D, n) ==
    /\ D[n].comments = Had(x, n) + x.comment
    /\ \A i \in 1 .. Len(D) : i # n => D[i].comments = Had(x, i)

\* The fields TInv is about, the stacks and the document aside.
SameMarks(x, y) ==
    /\ y.ignoreNextNode = x.ignoreNextNode
    /\ y.ignoreChildren = x.ignoreChildren
    /\ y.afterIgnoredChildBlock = x.afterIgnoredChildBlock
    /\ y.ignoreChildBlockFromContinuation = x.ignoreChildBlockFromContinuation
    /\ y.continuation = x.continuation
    /\ y.continuationNewlineSeen = x.continuationNewlineSeen

\* Nothing is opened or closed: the state stays of its kind.
Stays(x, y) ==
    /\ y.states = x.states /\ y.node = x.node /\ Len(y.doc) = Len(x.doc)
    /\ OnlyCurrent(x, y.doc)
    /\ \/ y.state = x.state
       \/ x.state \in NodeStates /\ y.state \in NodeStates
       \/ x.state \in TypeStates /\ y.state \in TypeStates

\* The kinds of states exclude each other.
LEMMA Kinds ==
  /\ \A s \in NodeStates : s \notin ScopeStates /\ s \notin TypeStates
  /\ \A s \in ScopeStates : s \notin TypeStates
  /\ States = NodeStates \cup ScopeStates \cup TypeStates
  /\ {"Property", "PropertyValue", "Node", "NodeParams", "NodeEnd", "ArgProp"} = NodeStates
  /\ "Document" \in ScopeStates /\ "Children" \in ScopeStates
  /\ "TypeAnnot" \in TypeStates /\ "TypeDone" \in TypeStates
BY DEF NodeStates, ScopeStates, TypeStates, States

\* Outside type annotations the innermost frame is the current one.
LEMMA InScopeOf ==
  ASSUME NEW x
  PROVE  /\ x.state \in NodeStates => ~InScope(x)
         /\ x.state \in ScopeStates => InScope(x)
BY Kinds DEF InScope, Innermost

\* A step that opens and closes nothing keeps the scope ...
LEMMA StaysInScope ==
  ASSUME NEW x, NEW y, Stays(x, y)
  PROVE  InScope(y) = InScope(x)
<1>1. CASE y.state = x.state
  BY <1>1 DEF Stays, InScope, Innermost
<1>2. CASE x.state \in NodeStates /\ y.state \in NodeStates
  BY <1>2, Kinds DEF Stays, InScope, Innermost
<1>3. CASE x.state \in TypeStates /\ y.state \in TypeStates
  <2>1. CASE x.states = <<>>
    BY <1>3, <2>1, Kinds DEF Stays, InScope, Innermost
  <2>2. CASE x.states # <<>>
    BY <1>3, <2>2 DEF Stays, InScope, Innermost
  <2>3. QED
    BY <2>1, <2>2
<1>4. QED
  BY <1>1, <1>2, <1>3 DEF Stays

\* ... and, like every step in one scope that keeps the open nodes, the tree.
LEMMA ScopeTree ==
  ASSUME NEW x, NEW y, Sound(x), y.node = x.node, OnlyCurrent(x, y.doc),
         InScope(y) = InScope(x), y.ignoreChildren = x.ignoreChildren,
         Path(x), Hidden(x)
  PROVE  Path(y) /\ Hidden(y)
<1>1. \A i \in 1 .. Len(x.node) : y.doc[x.node[i]].parent = x.doc[x.node[i]].parent
  BY DEF Sound, NodesExist, OnlyCurrent
<1>2. Path(y)
  BY <1>1 DEF Path
<1>3. OpenBlocks(y) = OpenBlocks(x)
  BY DEF OpenBlocks
<1>4. Hidden(y)
  BY <1>1, <1>3 DEF Hidden
<1>5. QED
  BY <1>2, <1>4

\* A node is opened, under node p or under nothing.
Opens(x, y, p) ==
    /\ InScope(x) /\ ~InScope(y)
    /\ y.node = Append(x.node, Len(x.doc) + 1)
    /\ Len(y.doc) = Len(x.doc) + 1
    /\ y.doc[Len(x.doc) + 1].parent = p
    /\ OnlyCurrent(x, y.doc)
    /\ y.ignoreChildren = x.ignoreChildren

\* The node that is opened hangs off the innermost open one, or off nothing; in an
\* ignored block off nothing.
LEMMA OpensTree ==
  ASSUME NEW x, NEW y, NEW p, Sound(x), Opens(x, y, p), Path(x), Hidden(x),
         x.ignoreChildren \in Nat,
         p \in {Detached, IF x.node = <<>> THEN 0 ELSE currentNode(x)},
         x.ignoreChildren > 0 => p = Detached
  PROVE  Path(y) /\ Hidden(y)
<1>1. x.node \in Seq(Nat) /\ Len(x.node) \in Nat /\ Len(x.doc) \in Nat
  BY SoundTypes
<1> DEFINE n == Len(x.node)
<1>2. /\ Len(y.node) = n + 1 /\ y.node[n + 1] = Len(x.doc) + 1
      /\ \A i \in 1 .. n : y.node[i] = x.node[i]
  BY <1>1, AppendProperties DEF Opens
<1>3. \A i \in 1 .. n : y.doc[y.node[i]].parent = x.doc[x.node[i]].parent
  BY <1>2 DEF Sound, NodesExist, Opens, OnlyCurrent
<1>4. y.doc[y.node[n + 1]].parent = p
  BY <1>2 DEF Opens
<1>5. p \in {Detached, IF n + 1 = 1 THEN 0 ELSE y.node[n]}
  <2>1. CASE n = 0
    BY <1>1, <2>1
  <2>2. CASE n # 0
    BY <1>1, <1>2, <2>2 DEF currentNode
  <2>3. QED
    BY <2>1, <2>2
<1> HIDE DEF n
<1>6. n \in Nat /\ n = Len(x.node)
  BY <1>1 DEF n
<1>7. Path(y)
  <2> SUFFICES ASSUME NEW i \in 1 .. n + 1
               PROVE  y.doc[y.node[i]].parent \in {Detached, IF i = 1 THEN 0 ELSE y.node[i - 1]}
    BY <1>2 DEF Path
  <2>1. CASE i = n + 1
    <3>1. i = 1 <=> n + 1 = 1
      BY <2>1
    <3>2. i - 1 = n
      BY <1>6, <2>1
    <3>3. QED
      BY <1>4, <1>5, <2>1, <3>2
  <2>2. CASE i \in 1 .. n
    <3>1. x.doc[x.node[i]].parent \in {Detached, IF i = 1 THEN 0 ELSE x.node[i - 1]}
      BY <1>6, <2>2 DEF Path
    <3>2. i # 1 => y.node[i - 1] = x.node[i - 1]
      BY <1>2, <1>6, <2>2
    <3>3. QED
      BY <1>3, <2>2, <3>1, <3>2
  <2>3. QED
    BY <1>6, <2>1, <2>2
<1>8. OpenBlocks(x) = n /\ OpenBlocks(y) = n /\ y.ignoreChildren = x.ignoreChildren
  BY <1>2, <1>6 DEF OpenBlocks, Opens
<1>9. Hidden(y)
  <2>1. y.ignoreChildren <= OpenBlocks(y)
    BY <1>8 DEF Hidden
  <2>2. ASSUME NEW i \in 1 .. n + 1, i > n - x.ignoreChildren + 1
        PROVE  y.doc[y.node[i]].parent = Detached
    <3>1. CASE i = n + 1
      BY <1>4, <1>6, <2>2, <3>1
    <3>2. CASE i \in 1 .. n
      BY <1>3, <1>6, <1>8, <2>2, <3>2 DEF Hidden
    <3>3. QED
      BY <1>6, <3>1, <3>2
  <2>3. QED
    BY <1>2, <1>8, <2>1, <2>2 DEF Hidden
<1>10. QED
  BY <1>7, <1>9

\* A node is closed.
Closes(x, y) ==
    /\ ~InScope(x) /\ InScope(y)
    /\ y.node = SubSeq(x.node, 1, Len(x.node) - 1)
    /\ y.doc = x.doc
    /\ y.ignoreChildren = x.ignoreChildren

\* Closing a node keeps the nodes around it.
LEMMA ClosesTree ==
  ASSUME NEW x, NEW y, Sound(x), Closes(x, y), Path(x), Hidden(x), x.node # <<>>
  PROVE  Path(y) /\ Hidden(y)
<1>1. x.node \in Seq(Nat) /\ Len(x.node) \in Nat
  BY SoundTypes
<1> DEFINE n == Len(x.node)
<1>2. n \in Nat /\ n > 0
  BY <1>1
<1>3. Len(y.node) = n - 1 /\ \A i \in 1 .. n - 1 : y.node[i] = x.node[i]
  BY <1>1, <1>2 DEF Closes
<1> HIDE DEF n
<1>4. n = Len(x.node)
  BY DEF n
<1>5. Path(y)
  <2> SUFFICES ASSUME NEW i \in 1 .. n - 1
               PROVE  y.doc[y.node[i]].parent \in {Detached, IF i = 1 THEN 0 ELSE y.node[i - 1]}
    BY <1>3 DEF Path
  <2>1. x.doc[x.node[i]].parent \in {Detached, IF i = 1 THEN 0 ELSE x.node[i - 1]}
    BY <1>2, <1>4 DEF Path
  <2>2. i # 1 => y.node[i - 1] = x.node[i - 1]
    BY <1>2, <1>3
  <2>3. QED
    BY <1>3, <2>1, <2>2 DEF Closes
<1>6. OpenBlocks(x) = n - 1 /\ OpenBlocks(y) = n - 1
  BY <1>3, <1>4 DEF OpenBlocks, Closes
<1>7. Hidden(y)
  <2>1. y.ignoreChildren <= OpenBlocks(y)
    BY <1>6 DEF Hidden, Closes
  <2>2. ASSUME NEW i \in 1 .. n - 1, i > n - 1 - x.ignoreChildren + 1
        PROVE  y.doc[y.node[i]].parent = Detached
    BY <1>2, <1>3, <1>4, <1>6, <2>2 DEF Hidden, Closes
  <2>3. QED
    BY <1>3, <1>6, <2>1, <2>2 DEF Hidden, Closes
<1>8. QED
  BY <1>5, <1>7

\* A child block is opened in the innermost node: an ignored one is counted, and so
\* is every block inside one.
EntersBlock(x, y) ==
    /\ ~InScope(x) /\ InScope(y)
    /\ y.node = x.node
    /\ OnlyCurrent(x, y.doc)
    /\ \/ y.ignoreChildren = x.ignoreChildren + 1
       \/ x.ignoreChildren = 0 /\ y.ignoreChildren = 0

LeavesBlock(x, y) ==
    /\ InScope(x) /\ ~InScope(y)
    /\ y.node = x.node
    /\ OnlyCurrent(x, y.doc)
    /\ IF x.ignoreChildren = 0 THEN y.ignoreChildren = 0
       ELSE y.ignoreChildren = x.ignoreChildren - 1

\* Opening and closing a block keeps the nodes, and moves the border between the
\* blocks that are read and the blocks that are ignored only with the block itself.
LEMMA BlockTree ==
  ASSUME NEW x, NEW y, Sound(x), EntersBlock(x, y) \/ LeavesBlock(x, y),
         x.ignoreChildren \in Nat, x.node # <<>>, Path(x), Hidden(x)
  PROVE  Path(y) /\ Hidden(y)
<1>1. PICK n \in Nat : n = Len(x.node) /\ n = Len(y.node) /\ n > 0
  BY SoundTypes DEF EntersBlock, LeavesBlock
<1>2. /\ y.node = x.node
      /\ \A i \in 1 .. n : y.doc[x.node[i]].parent = x.doc[x.node[i]].parent
  BY <1>1 DEF EntersBlock, LeavesBlock, Sound, NodesExist, OnlyCurrent
<1>3. Path(y)
  BY <1>1, <1>2 DEF Path
<1>4. PICK k \in Nat : k = x.ignoreChildren
  OBVIOUS
<1>5. CASE EntersBlock(x, y)
  <2>1. /\ OpenBlocks(x) = n - 1 /\ OpenBlocks(y) = n
        /\ \/ y.ignoreChildren = k + 1
           \/ k = 0 /\ y.ignoreChildren = 0
    BY <1>1, <1>4, <1>5 DEF EntersBlock, OpenBlocks
  <2>2. /\ k <= n - 1
        /\ \A i \in 1 .. n : i > n - 1 - k + 1 => x.doc[x.node[i]].parent = Detached
    BY <1>1, <1>4, <2>1 DEF Hidden
  <2>3. CASE y.ignoreChildren = 0 /\ k = 0
    BY <1>1, <1>2, <1>3, <2>1, <2>3 DEF Hidden
  <2>4. CASE y.ignoreChildren = k + 1
    <3>1. n - (k + 1) + 1 = n - 1 - k + 1 /\ k + 1 <= n
      BY <2>2
    <3>2. QED
      BY <1>1, <1>2, <1>3, <2>1, <2>2, <2>4, <3>1 DEF Hidden
  <2>5. QED
    BY <2>1, <2>3, <2>4
<1>6. CASE LeavesBlock(x, y)
  <2>1. /\ OpenBlocks(x) = n /\ OpenBlocks(y) = n - 1
        /\ y.ignoreChildren = IF k = 0 THEN 0 ELSE k - 1
    BY <1>1, <1>4, <1>6 DEF LeavesBlock, OpenBlocks
  <2>2. /\ k <= n
        /\ \A i \in 1 .. n : i > n - k + 1 => x.doc[x.node[i]].parent = Detached
    BY <1>1, <1>4, <2>1 DEF Hidden
  <2>3. CASE k = 0
    BY <1>1, <1>2, <1>3, <2>1, <2>2, <2>3 DEF Hidden
  <2>4. CASE k > 0
    <3>1. y.ignoreChildren = k - 1 /\ n - 1 - (k - 1) + 1 = n - k + 1 /\ k - 1 <= n - 1
      BY <2>1, <2>2, <2>4
    <3>2. QED
      BY <1>1, <1>2, <1>3, <2>1, <2>2, <3>1 DEF Hidden
  <2>5. QED
    BY <2>3, <2>4
<1>7. QED
  BY <1>5, <1>6

----------------------------------------------------------------------------
(* What one step of the parser must show.                                  *)

\* The step from c to y keeps the invariant and does what the action properties say.
Advance(y) ==
    /\ Marks(y) /\ Path(y) /\ Hidden(y)
    /\ Len(y.node) > Len(c.node) => ~Valid(y.typeAnnot) /\ ~y.ignoreNextNode
    /\ OnlyCurrent(c, y.doc)
    /\ \/ y.comment \in {c.comment, c.comment + 1} /\ CommentsStay(c, y.doc)
       \/ y.comment = 0 /\ \E n \in 1 .. Len(y.doc) : CommentsGo(c, y.doc, n)

\* The step has started in the invariant.
Ready ==
    Sound(c) /\ c \in Context /\ Marks(c) /\ Path(c) /\ Hidden(c)

\* A step that opens and closes nothing.
LEMMA CalmAdvance ==
  ASSUME Ready, NEW y, Stays(c, y), Named(y),
         y.comment \in {c.comment, c.comment + 1}, CommentsStay(c, y.doc),
         y.ignoreNextNode = c.ignoreNextNode \/ InScope(c),
         y.ignoreChildren = c.ignoreChildren,
         y.afterIgnoredChildBlock = c.afterIgnoredChildBlock,
         y.ignoreChildBlockFromContinuation = c.ignoreChildBlockFromContinuation,
         y.continuationNewlineSeen => y.continuation
  PROVE  Advance(y)
<1>1. InScope(y) = InScope(c)
  BY StaysInScope
<1>2. c.state \in NodeStates => y.state \in NodeStates
  BY Kinds DEF Stays
<1>3. Marks(y)
  <2>1. y.state \in TypeStates <=> c.state \in TypeStates
    BY Kinds DEF Stays
  <2>2. Owners(y)
    BY <2>1 DEF Owners, Ready, Marks, Stays
  <2>3. QED
    BY <1>1, <1>2, <2>2 DEF Ready, Marks
<1>4. Path(y) /\ Hidden(y)
  BY <1>1, ScopeTree DEF Ready, Stays
<1>5. ~(Len(y.node) > Len(c.node))
  <2>1. Len(y.node) = Len(c.node) /\ Len(c.node) \in Nat
    BY SoundTypes DEF Stays, Ready
  <2>2. QED
    BY <2>1
<1>6. QED
  BY <1>3, <1>4, <1>5 DEF Advance, Stays

\* y is x but for flags, temporaries and the entries of the innermost node.
Quiet(x, y) ==
    /\ y.states = x.states /\ y.state = x.state /\ y.node = x.node
    /\ Len(y.doc) = Len(x.doc) /\ y.lastAddedNode = x.lastAddedNode
    /\ OnlyCurrent(x, y.doc)
    /\ y.comment = x.comment /\ CommentsStay(x, y.doc)
    /\ SameMarks(x, y)

\* A document is itself.
LEMMA SameDocument ==
  ASSUME NEW x, Len(x.doc) \in Nat
  PROVE  OnlyCurrent(x, x.doc) /\ CommentsStay(x, x.doc)
BY DEF OnlyCurrent, CommentsStay, Had, SameEntries

\* A context is quiet to itself, and to one with other temporaries.
LEMMA QuietTemporaries ==
  ASSUME NEW x \in Context
  PROVE  /\ Quiet(x, x)
         /\ \A b \in BOOLEAN : Quiet(x, [x EXCEPT !.ignoreNextArgProp = b])
         /\ Quiet(x, markIgnoreFromContinuation(x))
         /\ Quiet(x, clearPending(x))
<1>1. Len(x.doc) \in Nat
  BY DEF Context
<1>2. OnlyCurrent(x, x.doc) /\ CommentsStay(x, x.doc)
  BY <1>1, SameDocument
<1>3. QED
  BY <1>2 DEF Quiet, SameMarks, Context, markIgnoreFromContinuation, clearPending

\* Quiet steps compose.
LEMMA QuietTwice ==
  ASSUME NEW x, NEW y, NEW z, Quiet(x, y), Quiet(y, z), Len(x.doc) \in Nat
  PROVE  Quiet(x, z)
<1>1. OnlyCurrent(x, z.doc)
  BY DEF Quiet, OnlyCurrent, SameEntries, currentNode
<1>2. CommentsStay(x, z.doc)
  BY DEF Quiet, CommentsStay, Had
<1>3. QED
  BY <1>1, <1>2 DEF Quiet, SameMarks

\* Replacing the innermost open node by one with other entries is quiet.
LEMMA CurrentReplaced ==
  ASSUME NEW x, Sound(x), x.node # <<>>, NEW e,
         e.parent = x.doc[currentNode(x)].parent,
         e.comments = x.doc[currentNode(x)].comments
  PROVE  LET D == [x.doc EXCEPT ![currentNode(x)] = e] IN
         Len(D) = Len(x.doc) /\ OnlyCurrent(x, D) /\ CommentsStay(x, D)
<1>1. x.doc \in Seq(Node) /\ Len(x.doc) \in Nat /\ DOMAIN x.doc = 1 .. Len(x.doc)
  BY SoundTypes
<1>2. PICK D : D = [x.doc EXCEPT ![currentNode(x)] = e]
  OBVIOUS
<1>3. /\ \A i \in 1 .. Len(x.doc) : D[i] = IF i = currentNode(x) THEN e ELSE x.doc[i]
      /\ Len(D) = Len(x.doc)
  BY <1>1, <1>2
<1>4. OnlyCurrent(x, D)
  BY <1>1, <1>3 DEF OnlyCurrent, SameEntries
<1>5. CommentsStay(x, D)
  BY <1>1, <1>3 DEF CommentsStay, Had
<1>6. QED
  BY <1>2, <1>3, <1>4, <1>5

\* addArgumentToken and addPropertyToken touch nothing but the innermost node.
LEMMA QuietValues ==
  ASSUME NEW x, Sound(x), x.node # <<>>, NEW t
  PROVE  /\ LET y == addArgumentToken(x, t) IN
            y.err = "none" => Quiet(x, y) /\ y.ident = x.ident /\ y.typeAnnot = x.typeAnnot
         /\ LET y == addPropertyToken(x, t) IN
            y.err = "none" => Quiet(x, y) /\ y.ident = x.ident /\ y.typeAnnot = x.typeAnnot
<1> DEFINE i == currentNode(x)
           v == [id |-> t.id, typ |-> Valid(x.typeAnnot)]
           arg == [x.doc[i] EXCEPT !.args = Append(@, v)]
           prop == [x.doc[i] EXCEPT !.props = Append(@, v)]
           A == [x.doc EXCEPT ![i] = arg]
           P == [x.doc EXCEPT ![i] = prop]
<1>1. x \in Context /\ x.err = "none" /\ x.doc \in Seq(Node) /\ i \in 1 .. Len(x.doc)
  <2>1. Len(x.node) \in 1 .. Len(x.node)
    BY SoundTypes
  <2>2. QED
    BY <2>1, SoundTypes DEF Sound, NodesExist, currentNode
<1>2. x.doc[i] \in Node
  BY <1>1, ElementOfSeq
<1>3. /\ arg.parent = x.doc[i].parent /\ arg.comments = x.doc[i].comments
      /\ prop.parent = x.doc[i].parent /\ prop.comments = x.doc[i].comments
  BY <1>2 DEF Node
<1> HIDE DEF arg, prop
<1>4. /\ Len(A) = Len(x.doc) /\ OnlyCurrent(x, A) /\ CommentsStay(x, A)
      /\ Len(P) = Len(x.doc) /\ OnlyCurrent(x, P) /\ CommentsStay(x, P)
  BY <1>3, CurrentReplaced
<1> HIDE DEF A, P
<1>5. ASSUME NEW y, y = addArgumentToken(x, t), y.err = "none"
      PROVE  Quiet(x, y) /\ y.ident = x.ident /\ y.typeAnnot = x.typeAnnot
  <2>1. y = [x EXCEPT !.doc = A]
    BY <1>1, <1>5 DEF addArgumentToken, Fail, Context, A, arg
  <2>2. QED
    BY <1>1, <1>4, <2>1 DEF Quiet, SameMarks, Context
<1>6. ASSUME NEW y, y = addPropertyToken(x, t), y.err = "none"
      PROVE  Quiet(x, y) /\ y.ident = x.ident /\ y.typeAnnot = x.typeAnnot
  <2>1. y = [x EXCEPT !.doc = P]
    BY <1>1, <1>6 DEF addPropertyToken, Fail, Context, P, prop
  <2>2. QED
    BY <1>1, <1>4, <2>1 DEF Quiet, SameMarks, Context
<1>7. QED
  BY <1>5, <1>6

\* So does flushing the queued identifier.
LEMMA QuietFlush ==
  ASSUME NEW x, Sound(x), x.state \in NodeStates
  PROVE  /\ flushIdent(x).err = "none" => Quiet(x, flushIdent(x))
         /\ flushValidIdent(x).err = "none" => Quiet(x, flushValidIdent(x))
<1> DEFINE y == IF x.ignoreNextArgProp
                THEN [x EXCEPT !.ignoreNextArgProp = FALSE]
                ELSE addArgumentToken(x, x.ident)
<1>1. x \in Context /\ x.node # <<>> /\ Len(x.doc) \in Nat /\ x.ident \in Token
  BY SoundTypes DEF Sound, Context
<1>2. y.err = "none" => Quiet(x, y)
  BY <1>1, QuietTemporaries, QuietValues
<1>3. y.err = "none" => y \in Context
  BY <1>1, AddArgument DEF Context, Sound
<1>4. flushIdent(x) = IF y.err # "none" THEN y ELSE clearPending(y)
  BY DEF flushIdent
<1> HIDE DEF y
<1>5. flushIdent(x).err = "none" => Quiet(x, flushIdent(x))
  BY <1>1, <1>2, <1>3, <1>4, QuietTemporaries, QuietTwice
<1>6. QED
  BY <1>1, <1>5, QuietTemporaries DEF flushValidIdent

----------------------------------------------------------------------------
(* The steps that open or close something.                                 *)

\* A quiet step changes neither the scope nor the tree.
LEMMA QuietTree ==
  ASSUME NEW x, Ready, Quiet(c, x)
  PROVE  InScope(x) = InScope(c) /\ Path(x) /\ Hidden(x)
<1>1. InScope(x) = InScope(c)
  BY DEF Quiet, InScope, Innermost
<1>2. QED
  BY <1>1, ScopeTree DEF Quiet, Ready, SameMarks

\* Entering a frame from a state that is not the value of a property, or from any
\* state for a type annotation ...
LEMMA OwnersPushed ==
  ASSUME NEW x, NEW y, x.states \in Seq(States), Owners(x), x.state \notin TypeStates,
         y.states = Append(x.states, x.state),
         y.state \in TypeStates \/ x.state \notin NodeStates \/ x.state \in OwnerStates
  PROVE  Owners(y)
<1> DEFINE n == Len(x.states)
<1>1. /\ n \in Nat /\ Len(y.states) = n + 1 /\ y.states[n + 1] = x.state
      /\ \A i \in 1 .. n : y.states[i] = x.states[i]
  OBVIOUS
<1>2. \A i \in 1 .. n : x.states[i] \in NodeStates => x.states[i] \in OwnerStates
  BY DEF Owners
<1> HIDE DEF n
<1>3. QED
  BY <1>1, <1>2 DEF Owners

\* ... and leaving it keeps the frames below.
LEMMA OwnersPopped ==
  ASSUME NEW x, NEW y, x.states \in Seq(States), x.states # <<>>, Owners(x),
         y.states = SubSeq(x.states, 1, Len(x.states) - 1), y.state \notin TypeStates
  PROVE  Owners(y)
<1> DEFINE n == Len(x.states)
<1>1. n \in Nat /\ n > 0
  OBVIOUS
<1>2. Len(y.states) = n - 1 /\ \A i \in 1 .. n - 1 : y.states[i] = x.states[i]
  BY <1>1
<1>3. \A i \in 1 .. n - 1 : x.states[i] \in NodeStates => x.states[i] \in OwnerStates
  BY <1>1 DEF Owners
<1> HIDE DEF n
<1>4. QED
  BY <1>1, <1>2, <1>3 DEF Owners

\* popNodeAndState, after the queued identifier was flushed.
LEMMA ClosedAdvance ==
  ASSUME Ready, c.state \in NodeStates, ~c.afterIgnoredChildBlock,
         NEW x, Sound(x), Quiet(c, x)
  PROVE  Advance(popNodeAndState(x)) /\ popNodeAndState(x).state \in ScopeStates
<1> DEFINE y == popNodeAndState(x)
           N == SubSeq(x.node, 1, Len(x.node) - 1)
<1>1. x \in Context /\ x.state \in NodeStates /\ x.states # <<>> /\ x.node # <<>>
      /\ x.node \in Seq(Nat) /\ Len(x.node) \in Nat /\ Len(x.node) > 0
  BY SoundTypes, Kinds DEF Sound, Quiet
<1>2. /\ y.node = N /\ y.doc = x.doc /\ y.comment = x.comment
      /\ SameMarks(x, y) /\ y.ident = x.ident
      /\ y.states = SubSeq(x.states, 1, Len(x.states) - 1)
  <2> DEFINE top == x.states[Len(x.states)]
             below == SubSeq(x.states, 1, Len(x.states) - 1)
  <2>1. y = [x EXCEPT !.state = top, !.states = below, !.node = N]
    BY <1>1 DEF popNodeAndState, popState, popNode, Sound
  <2> HIDE DEF y, N, top, below
  <2>2. QED
    BY <1>1, <2>1 DEF Context, SameMarks, below
<1>3. y.state \in ScopeStates
  BY <1>1, PopNodeAndState
<1>4. Len(N) = Len(x.node) - 1
  BY <1>1
<1> HIDE DEF y, N
<1>5. ~InScope(x) /\ ~InScope(c) /\ InScope(y)
  BY <1>1, <1>3, InScopeOf
<1>6. Closes(x, y)
  BY <1>2, <1>5 DEF Closes, SameMarks, N
<1>7. Path(y) /\ Hidden(y)
  BY <1>1, <1>6, ClosesTree, QuietTree
<1>8. Marks(y)
  <2>1. Named(y)
    BY <1>3, Kinds DEF Named
  <2>2. Owners(y)
    <3>1. Owners(x) /\ x.states \in Seq(States) /\ y.state \notin TypeStates
      BY <1>1, <1>3, Kinds DEF Ready, Marks, Quiet, Owners, Context
    <3>2. QED
      BY <1>1, <1>2, <3>1, OwnersPopped
  <2>3. QED
    BY <1>2, <1>5, <2>1, <2>2 DEF Marks, Ready, Quiet, SameMarks
<1>9. ~(Len(y.node) > Len(c.node))
  BY <1>1, <1>2, <1>4 DEF Quiet
<1>10. QED
  BY <1>2, <1>3, <1>7, <1>8, <1>9 DEF Advance, Quiet, y

\* pushState of a type annotation.
LEMMA TypeEnteredAdvance ==
  ASSUME Ready, c.state \in ScopeStates \cup {"NodeParams", "PropertyValue"},
         ~c.afterIgnoredChildBlock
  PROVE  Advance(pushState(c, "TypeAnnot"))
<1> DEFINE y == pushState(c, "TypeAnnot")
<1>1. /\ c.states \in Seq(States) /\ c.state \in States
      /\ Len(c.doc) \in Nat /\ Len(c.node) \in Nat
  BY SoundTypes DEF Ready
<1>2. /\ y.states = Append(c.states, c.state) /\ y.state = "TypeAnnot"
      /\ y.node = c.node /\ y.doc = c.doc /\ y.comment = c.comment
      /\ SameMarks(c, y) /\ y.ident = c.ident
  BY DEF pushState, Context, SameMarks, Ready
<1>3. /\ Append(c.states, c.state) # <<>>
      /\ Append(c.states, c.state)[Len(Append(c.states, c.state))] = c.state
  BY <1>1
<1> HIDE DEF y
<1>4. Innermost(y) = c.state /\ Innermost(c) = c.state
  BY <1>2, <1>3, Kinds DEF Innermost
<1>5. InScope(y) = InScope(c)
  BY <1>4 DEF InScope
<1>6. OnlyCurrent(c, y.doc) /\ CommentsStay(c, y.doc)
  BY <1>1, <1>2, SameDocument
<1>7. Path(y) /\ Hidden(y)
  BY <1>2, <1>5, <1>6, ScopeTree DEF Ready, SameMarks
<1>8. Marks(y)
  <2>1. Named(y)
    BY <1>2, <1>4, Kinds DEF Named, Ready, Marks
  <2>2. Owners(y)
    BY <1>1, <1>2, Kinds, OwnersPushed DEF Ready, Marks
  <2>3. QED
    BY <1>2, <1>5, <2>1, <2>2 DEF Marks, Ready, SameMarks
<1>9. ~(Len(y.node) > Len(c.node))
  BY <1>1, <1>2
<1>10. QED
  BY <1>2, <1>6, <1>7, <1>8, <1>9 DEF Advance, y

\* popState of a type annotation.
LEMMA TypeLeftAdvance ==
  ASSUME Ready, c.state = "TypeDone"
  PROVE  Advance(popState(c))
<1> DEFINE y == popState(c)
<1>1. /\ c.states \in Seq(States) /\ c.states # <<>> /\ Len(c.node) \in Nat
      /\ Len(c.doc) \in Nat
  BY SoundTypes DEF Ready
<1>2. c.states[Len(c.states)] \in ScopeStates \cup {"NodeParams", "PropertyValue"}
  BY <1>1, Kinds, PopStacked DEF Ready, Sound
<1>3. /\ y.state = c.states[Len(c.states)]
      /\ y.states = SubSeq(c.states, 1, Len(c.states) - 1)
      /\ y.node = c.node /\ y.doc = c.doc /\ y.comment = c.comment
      /\ SameMarks(c, y) /\ y.ident = c.ident
  BY <1>1 DEF popState, Context, SameMarks, Ready
<1> HIDE DEF y
<1>4. Innermost(y) = y.state /\ Innermost(c) = y.state
  BY <1>1, <1>2, <1>3, Kinds DEF Innermost
<1>5. InScope(y) = InScope(c)
  BY <1>4 DEF InScope
<1>6. OnlyCurrent(c, y.doc) /\ CommentsStay(c, y.doc)
  BY <1>1, <1>3, SameDocument
<1>7. Path(y) /\ Hidden(y)
  BY <1>3, <1>5, <1>6, ScopeTree DEF Ready, SameMarks
<1>8. Marks(y)
  <2>1. y.state \notin TypeStates /\ y.state # "Property" /\ c.state \in TypeStates
    BY <1>2, <1>3, Kinds
  <2>2. Named(y)
    BY <1>3, <1>4, <2>1 DEF Named, Ready, Marks
  <2>3. ~y.afterIgnoredChildBlock
    BY <1>3, <2>1, Kinds DEF Ready, Marks, SameMarks
  <2>4. Owners(y)
    BY <1>1, <1>3, <2>1, OwnersPopped DEF Ready, Marks
  <2>5. QED
    BY <1>3, <1>5, <2>2, <2>3, <2>4 DEF Marks, Ready, SameMarks
<1>9. ~(Len(y.node) > Len(c.node))
  BY <1>1, <1>3
<1>10. QED
  BY <1>3, <1>6, <1>7, <1>8, <1>9 DEF Advance, y

\* pushState of a child block, after the marks were moved to x.
LEMMA BlockEnteredAdvance ==
  ASSUME Ready, c.state \in NodeStates, ~c.afterIgnoredChildBlock,
         NEW x \in Context, x.state \in OwnerStates, x.states = c.states,
         x.node = c.node, Len(x.doc) = Len(c.doc), OnlyCurrent(c, x.doc),
         x.comment = c.comment, CommentsStay(c, x.doc),
         ~x.ignoreNextNode, ~x.afterIgnoredChildBlock,
         \/ x.ignoreChildren = c.ignoreChildren + 1
         \/ c.ignoreChildren = 0 /\ x.ignoreChildren = 0,
         x.ignoreChildBlockFromContinuation => x.ignoreChildren > 0,
         x.continuationNewlineSeen => x.continuation
  PROVE  Advance(pushState(x, "Children"))
<1> DEFINE y == pushState(x, "Children")
<1>1. c.node # <<>> /\ Len(c.node) \in Nat /\ c.ignoreChildren \in Nat
  BY SoundTypes DEF Ready, Context
<1>2. /\ y.states = Append(x.states, x.state) /\ y.state = "Children" /\ y.node = c.node /\ y.doc = x.doc
      /\ y.comment = c.comment /\ SameMarks(x, y)
  BY DEF pushState, Context, SameMarks
<1> HIDE DEF y
<1>3. InScope(y) /\ ~InScope(c)
  BY <1>2, InScopeOf, Kinds
<1>4. EntersBlock(c, y)
  BY <1>2, <1>3 DEF EntersBlock, SameMarks
<1>5. Path(y) /\ Hidden(y)
  BY <1>1, <1>4, BlockTree DEF Ready
<1>6. Marks(y)
  <2>1. Named(y)
    BY <1>2, Kinds DEF Named
  <2>2. Owners(x) /\ x.states \in Seq(States) /\ x.state \notin TypeStates
    <3>1. x.state \notin TypeStates /\ c.state \notin TypeStates
      BY Kinds DEF OwnerStates
    <3>2. QED
      BY <3>1 DEF Owners, Ready, Marks, Context
  <2>3. Owners(y)
    BY <1>2, <2>2, OwnersPushed
  <2>4. QED
    BY <1>2, <1>3, <2>1, <2>3 DEF Marks, SameMarks
<1>7. ~(Len(y.node) > Len(c.node))
  BY <1>1, <1>2
<1>8. QED
  BY <1>2, <1>5, <1>6, <1>7 DEF Advance, y

\* attachComments moves comments and nothing else.
LEMMA AttachedComments ==
  ASSUME NEW x \in Context, x.err = "none", NEW n \in 1 .. Len(x.doc)
  PROVE  LET y == attachComments(x, n) IN
         /\ y.states = x.states /\ y.state = x.state /\ y.node = x.node
         /\ y.typeAnnot = x.typeAnnot /\ SameMarks(x, y)
         /\ Len(y.doc) = Len(x.doc)
         /\ \A i \in 1 .. Len(x.doc) :
                y.doc[i].parent = x.doc[i].parent /\ SameEntries(x.doc[i], y.doc[i])
         /\ \/ y.comment = x.comment /\ CommentsStay(x, y.doc)
            \/ y.comment = 0 /\ CommentsGo(x, y.doc, n)
<1> DEFINE y == attachComments(x, n)
           e == [x.doc[n] EXCEPT !.comments = @ + x.comment]
           D == [x.doc EXCEPT ![n] = e]
<1>1. /\ x.doc \in Seq(Node) /\ x.comment \in Nat
      /\ Len(x.doc) \in Nat /\ DOMAIN x.doc = 1 .. Len(x.doc)
  BY DEF Context
<1>2. CASE ~(opts.comments /\ x.comment > 0)
  <2>1. y = x
    BY <1>2 DEF attachComments
  <2>2. QED
    BY <1>1, <2>1, SameDocument DEF SameMarks, SameEntries
<1>3. CASE opts.comments /\ x.comment > 0
  <2>1. y = [x EXCEPT !.doc = D, !.comment = 0]
    BY <1>1, <1>3 DEF attachComments
  <2>2. x.doc[n] \in Node
    BY <1>1, ElementOfSeq
  <2>3. /\ e.parent = x.doc[n].parent /\ SameEntries(x.doc[n], e)
        /\ e.comments = x.doc[n].comments + x.comment
    BY <2>2 DEF Node, SameEntries
  <2> HIDE DEF e
  <2>4. /\ \A i \in 1 .. Len(x.doc) : D[i] = IF i = n THEN e ELSE x.doc[i]
        /\ Len(D) = Len(x.doc)
    BY <1>1
  <2> HIDE DEF D, y
  <2>5. CommentsGo(x, D, n)
    BY <2>3, <2>4 DEF CommentsGo, Had
  <2>6. \A i \in 1 .. Len(x.doc) :
            D[i].parent = x.doc[i].parent /\ SameEntries(x.doc[i], D[i])
    BY <2>3, <2>4 DEF SameEntries
  <2>7. QED
    BY <1>1, <2>1, <2>4, <2>5, <2>6 DEF Context, SameMarks, y
<1>4. QED
  BY <1>2, <1>3

\* closeIgnoredBlock counts one ignored block less and keeps the rest.
LEMMA IgnoredBlockClosed ==
  ASSUME Ready, c.state = "Children"
  PROVE  LET a == closeIgnoredBlock(c) IN
         /\ a \in Context /\ a.err = "none"
         /\ a.states = c.states /\ a.state = c.state /\ a.node = c.node /\ a.doc = c.doc
         /\ a.comment = c.comment /\ a.lastAddedNode = c.lastAddedNode
         /\ a.ignoreNextNode = c.ignoreNextNode
         /\ a.ignoreChildren = IF c.ignoreChildren = 0 THEN 0 ELSE c.ignoreChildren - 1
         /\ a.afterIgnoredChildBlock => a.ignoreChildren = 0
         /\ a.ignoreChildBlockFromContinuation => a.ignoreChildren > 0
         /\ a.continuationNewlineSeen => a.continuation
<1>1. /\ c \in Context /\ c.err = "none" /\ c.ignoreChildren \in Nat
      /\ ~c.afterIgnoredChildBlock
      /\ c.ignoreChildBlockFromContinuation => c.ignoreChildren > 0
      /\ c.continuationNewlineSeen => c.continuation
  BY Kinds DEF Ready, Sound, Context, Marks
<1>2. CASE c.ignoreChildren = 0
  BY <1>1, <1>2 DEF closeIgnoredBlock
<1>3. CASE c.ignoreChildren = 1
  <2>1. closeIgnoredBlock(c) =
            [c EXCEPT !.ignoreChildren = 0,
                      !.afterIgnoredChildBlock = ~c.ignoreChildBlockFromContinuation,
                      !.ignoreChildBlockFromContinuation = FALSE]
    BY <1>3 DEF closeIgnoredBlock
  <2>2. closeIgnoredBlock(c) \in Context
    <3>1. c \in Context
      BY <1>1
    <3>2. QED
      BY <1>3, <3>1 DEF closeIgnoredBlock, Context
  <2>3. PICK a : a = closeIgnoredBlock(c)
    OBVIOUS
  <2>4. /\ a.states = c.states /\ a.state = c.state /\ a.node = c.node
        /\ a.doc = c.doc /\ a.comment = c.comment /\ a.err = c.err
        /\ a.lastAddedNode = c.lastAddedNode /\ a.ignoreNextNode = c.ignoreNextNode
        /\ a.continuationNewlineSeen = c.continuationNewlineSeen
        /\ a.continuation = c.continuation
        /\ a.ignoreChildren = 0 /\ ~a.ignoreChildBlockFromContinuation
    BY <1>1, <2>1, <2>3 DEF Context
  <2>5. QED
    BY <1>1, <1>3, <2>2, <2>3, <2>4
<1>4. CASE c.ignoreChildren # 0 /\ c.ignoreChildren # 1
  <2> DEFINE k == c.ignoreChildren - 1
  <2>1. k \in Nat /\ k > 0 /\ k = c.ignoreChildren - 1
    BY <1>1, <1>4
  <2>2. closeIgnoredBlock(c) = [c EXCEPT !.ignoreChildren = k]
    BY <1>4 DEF closeIgnoredBlock
  <2> HIDE DEF k
  <2>3. QED
    BY <1>1, <1>4, <2>1, <2>2 DEF Context
<1>5. QED
  BY <1>2, <1>3, <1>4

\* Closing a child block.
LEMMA BlockLeftAdvance ==
  ASSUME Ready, c.state = "Children", ~c.ignoreNextNode
  PROVE  Advance(popState(attachToLastAdded(closeIgnoredBlock(c))))
<1> DEFINE a == closeIgnoredBlock(c)
           b == attachToLastAdded(a)
           y == popState(b)
           n == c.lastAddedNode
<1>1. /\ c.states # <<>> /\ c.states \in Seq(States)
      /\ c.node # <<>> /\ Len(c.node) \in Nat /\ Len(c.doc) \in Nat
      /\ n \in 1 .. Len(c.doc) /\ c.ignoreChildren \in Nat
  BY SoundTypes DEF Ready, Context
<1>2. c.states[Len(c.states)] \in NodeStates
  BY <1>1, PopStacked, Kinds, SMTT(20) DEF Ready, Sound
<1>3. /\ a \in Context /\ a.err = "none"
      /\ a.states = c.states /\ a.state = c.state /\ a.node = c.node /\ a.doc = c.doc
      /\ a.comment = c.comment /\ a.lastAddedNode = c.lastAddedNode
      /\ ~a.ignoreNextNode
      /\ a.ignoreChildren = IF c.ignoreChildren = 0 THEN 0 ELSE c.ignoreChildren - 1
      /\ a.afterIgnoredChildBlock => a.ignoreChildren = 0
      /\ a.ignoreChildBlockFromContinuation => a.ignoreChildren > 0
      /\ a.continuationNewlineSeen => a.continuation
  BY IgnoredBlockClosed
<1> HIDE DEF a
<1>4. b = attachComments(a, n)
  <2>1. a.lastAddedNode # 0
    BY <1>1, <1>3
  <2>2. QED
    BY <1>3, <2>1 DEF attachToLastAdded
<1>5. b \in Context /\ b.err = "none"
  BY <1>1, <1>3, <1>4, AttachComments
<1>6. /\ b.states = c.states /\ b.node = c.node
      /\ SameMarks(a, b)
      /\ Len(b.doc) = Len(c.doc)
      /\ \A i \in 1 .. Len(c.doc) :
             b.doc[i].parent = c.doc[i].parent /\ SameEntries(c.doc[i], b.doc[i])
      /\ \/ b.comment = a.comment /\ CommentsStay(a, b.doc)
         \/ b.comment = 0 /\ CommentsGo(a, b.doc, n)
  BY <1>1, <1>3, <1>4, AttachedComments
<1> HIDE DEF b
<1>7. \/ b.comment = c.comment /\ CommentsStay(c, b.doc)
      \/ b.comment = 0 /\ CommentsGo(c, b.doc, n)
  BY <1>3, <1>6 DEF CommentsStay, CommentsGo, Had
<1>8. OnlyCurrent(c, b.doc)
  BY <1>1, <1>6 DEF OnlyCurrent
<1>9. /\ y.state = c.states[Len(c.states)] /\ y.node = c.node /\ y.doc = b.doc
      /\ y.comment = b.comment /\ SameMarks(b, y) /\ y.ident = b.ident
  BY <1>1, <1>5, <1>6 DEF popState, Context, SameMarks
<1>10. y.states = SubSeq(c.states, 1, Len(c.states) - 1)
  BY <1>1, <1>5, <1>6 DEF popState, Context
<1> HIDE DEF y
<1>11. InScope(c) /\ ~InScope(y)
  BY <1>2, <1>9, InScopeOf, Kinds
<1>12. LeavesBlock(c, y)
  BY <1>3, <1>6, <1>8, <1>9, <1>11 DEF LeavesBlock, SameMarks
<1>13. Path(y) /\ Hidden(y)
  BY <1>1, <1>12, BlockTree DEF Ready
<1>14. Marks(y)
  <2>1. y.state \in NodeStates /\ y.state \in OwnerStates
    <3>1. Len(c.states) \in 1 .. Len(c.states) /\ c.state \notin TypeStates
      BY <1>1, Kinds
    <3>2. QED
      BY <1>2, <1>9, <3>1 DEF Owners, Ready, Marks
  <2>2. Owners(y) /\ Named(y)
    BY <1>1, <1>9, <1>10, <2>1, OwnersPopped, Kinds DEF Ready, Marks, Named, OwnerStates
  <2>3. QED
    BY <1>3, <1>6, <1>9, <1>11, <2>1, <2>2 DEF Marks, SameMarks
<1>15. QED
  BY <1>1, <1>6, <1>7, <1>8, <1>9, <1>13, <1>14 DEF Advance, y, b, a

\* y is c with a new node under p, which is not entered yet and hides nothing.
NewNodeUnder(y, p) ==
    y \in {push(c, p), [push(c, p) EXCEPT !.ignoreNextNode = FALSE]} /\ ~y.ignoreNextNode

\* addNode and createNode add one node, without comments, at the end.
LEMMA AddedNode ==
  ASSUME Ready, NEW p \in Int, NEW x, NewNodeUnder(x, p)
  PROVE  /\ x \in Context /\ x.err = "none"
         /\ x.states = c.states /\ x.state = c.state
         /\ x.node = Append(c.node, Len(c.doc) + 1)
         /\ Len(x.doc) = Len(c.doc) + 1
         /\ \A i \in 1 .. Len(c.doc) : x.doc[i] = c.doc[i]
         /\ x.doc[Len(c.doc) + 1].parent = p /\ x.doc[Len(c.doc) + 1].comments = 0
         /\ x.comment = c.comment /\ ~x.ignoreNextNode
         /\ x.ignoreChildren = c.ignoreChildren
         /\ x.afterIgnoredChildBlock = c.afterIgnoredChildBlock
         /\ x.ignoreChildBlockFromContinuation = c.ignoreChildBlockFromContinuation
         /\ x.continuation = c.continuation
         /\ x.continuationNewlineSeen = c.continuationNewlineSeen
<1> DEFINE n == [parent |-> p, typ |-> FALSE, args |-> <<>>, props |-> <<>>, comments |-> 0]
           i == Len(c.doc) + 1
           D == Append(c.doc, n)
           N == Append(c.node, i)
<1>1. c \in Context /\ c.doc \in Seq(Node) /\ Len(c.doc) \in Nat
  BY SoundTypes DEF Ready
<1>2. /\ Len(D) = i /\ D[i] = n /\ \A k \in 1 .. Len(c.doc) : D[k] = c.doc[k]
      /\ n.parent = p /\ n.comments = 0
  BY <1>1
<1>3. push(c, p) = [c EXCEPT !.doc = D, !.node = N, !.lastAddedNode = i]
  BY DEF push
<1>4. Pushed(c, push(c, p))
  BY PushNode DEF Ready
<1> HIDE DEF n, D, N
<1>5. x = push(c, p) \/ x = [push(c, p) EXCEPT !.ignoreNextNode = FALSE]
  BY DEF NewNodeUnder
<1>6. x \in Context
  BY <1>4, <1>5 DEF Pushed, Context
<1>7. /\ x.states = c.states /\ x.state = c.state /\ x.node = N /\ x.doc = D
      /\ x.err = c.err /\ x.comment = c.comment
      /\ x.ignoreChildren = c.ignoreChildren
      /\ x.afterIgnoredChildBlock = c.afterIgnoredChildBlock
      /\ x.ignoreChildBlockFromContinuation = c.ignoreChildBlockFromContinuation
      /\ x.continuation = c.continuation
      /\ x.continuationNewlineSeen = c.continuationNewlineSeen
  <2>1. CASE x = push(c, p)
    BY <1>1, <1>3, <2>1 DEF Context
  <2>2. CASE x = [push(c, p) EXCEPT !.ignoreNextNode = FALSE]
    <3>1. x = [c EXCEPT !.doc = D, !.node = N, !.lastAddedNode = i, !.ignoreNextNode = FALSE]
      BY <1>3, <2>2
    <3>2. QED
      BY <1>1, <3>1 DEF Context
  <2>3. QED
    BY <1>5, <2>1, <2>2
<1>8. c.err = "none" /\ ~x.ignoreNextNode
  BY DEF Ready, Sound, NewNodeUnder
<1>9. QED
  BY <1>2, <1>6, <1>7, <1>8 DEF N

\* Naming a node that was added under p.
LEMMA OpenedAdvance ==
  ASSUME Ready, c.state \in ScopeStates,
         NEW p \in {Detached, IF c.node = <<>> THEN 0 ELSE currentNode(c)}, p \in Int,
         c.ignoreChildren > 0 => p = Detached,
         NEW x, NewNodeUnder(x, p), openNode(x).err = "none"
  PROVE  Advance(openNode(x))
<1> DEFINE n == Len(c.doc) + 1
           a == attachComments(x, n)
           e == [a.doc[n] EXCEPT !.typ = Valid(a.typeAnnot)]
           D == [a.doc EXCEPT ![n] = e]
           b == [a EXCEPT !.doc = D, !.typeAnnot = NoToken]
           y == pushState(b, "Node")
<1>1. /\ Len(c.doc) \in Nat /\ Len(c.node) \in Nat /\ c.node \in Seq(Nat)
      /\ c.states \in Seq(States) /\ c.ignoreChildren \in Nat
  BY SoundTypes DEF Ready, Context
<1>2. /\ x \in Context /\ x.err = "none"
      /\ x.states = c.states /\ x.state = c.state
      /\ x.node = Append(c.node, n)
      /\ Len(x.doc) = n
      /\ \A i \in 1 .. Len(c.doc) : x.doc[i] = c.doc[i]
      /\ x.doc[n].parent = p /\ x.doc[n].comments = 0
      /\ x.comment = c.comment /\ ~x.ignoreNextNode
      /\ x.ignoreChildren = c.ignoreChildren
      /\ x.afterIgnoredChildBlock = c.afterIgnoredChildBlock
      /\ x.ignoreChildBlockFromContinuation = c.ignoreChildBlockFromContinuation
      /\ x.continuation = c.continuation
      /\ x.continuationNewlineSeen = c.continuationNewlineSeen
  BY AddedNode
<1>3. n \in Nat /\ n \in 1 .. Len(x.doc) /\ n = Len(c.doc) + 1
  BY <1>1, <1>2
<1>4. a \in Context /\ a.err = "none" /\ SameStacks(x, a)
  BY <1>2, <1>3, AttachComments
<1>5. /\ SameMarks(x, a)
      /\ \A i \in 1 .. Len(x.doc) :
             a.doc[i].parent = x.doc[i].parent /\ SameEntries(x.doc[i], a.doc[i])
      /\ \/ a.comment = x.comment /\ CommentsStay(x, a.doc)
         \/ a.comment = 0 /\ CommentsGo(x, a.doc, n)
  BY <1>2, <1>3, AttachedComments
<1>6. currentNode(x) = n /\ currentNode(a) = n
  BY <1>1, <1>2, <1>4 DEF currentNode, SameStacks
<1>7. openNode(x) = y
  <2>1. ~tok.bad
    BY <1>2 DEF openNode, Fail, Context
  <2>2. QED
    BY <1>6, <2>1 DEF openNode
<1> HIDE DEF a, n
<1>8. /\ e.parent = a.doc[n].parent /\ e.comments = a.doc[n].comments
      /\ a.doc \in Seq(Node) /\ Len(a.doc) = n /\ DOMAIN a.doc = 1 .. n
  <2>1. a.doc \in Seq(Node) /\ Len(a.doc) = n
    BY <1>2, <1>4 DEF Context, SameStacks
  <2>2. a.doc[n] \in Node
    BY <1>2, <1>3, <2>1, ElementOfSeq
  <2>3. QED
    BY <1>3, <2>1, <2>2 DEF Node
<1> HIDE DEF e
<1>9. /\ Len(D) = n
      /\ \A i \in 1 .. n : D[i] = IF i = n THEN e ELSE a.doc[i]
  BY <1>3, <1>8
<1> HIDE DEF D
<1>10. /\ y.states = Append(c.states, c.state) /\ y.state = "Node"
       /\ y.node = Append(c.node, n) /\ y.doc = D /\ y.comment = a.comment
       /\ SameMarks(x, y) /\ y.typeAnnot = NoToken
  BY <1>2, <1>4, <1>5 DEF pushState, Context, SameStacks, SameMarks
<1> HIDE DEF b, y
<1>11. \A i \in 1 .. Len(c.doc) : /\ D[i].parent = c.doc[i].parent
                                  /\ SameEntries(c.doc[i], D[i])
  <2> SUFFICES ASSUME NEW i \in 1 .. Len(c.doc)
               PROVE  D[i].parent = c.doc[i].parent /\ SameEntries(c.doc[i], D[i])
    OBVIOUS
  <2>1. i \in 1 .. n /\ i # n
    BY <1>1, <1>3
  <2>2. D[i] = a.doc[i] /\ x.doc[i] = c.doc[i]
    BY <1>2, <1>9, <2>1
  <2>3. QED
    BY <1>2, <1>5, <2>1, <2>2
<1>12. D[n].parent = p
  BY <1>2, <1>3, <1>5, <1>8, <1>9
<1>13. OnlyCurrent(c, y.doc)
  BY <1>1, <1>3, <1>9, <1>10, <1>11, SMTT(20) DEF OnlyCurrent
<1>14. \A i \in 1 .. n : Had(x, i) = Had(c, i) /\ D[i].comments = a.doc[i].comments
  <2> SUFFICES ASSUME NEW i \in 1 .. n
               PROVE  Had(x, i) = Had(c, i) /\ D[i].comments = a.doc[i].comments
    OBVIOUS
  <2>1. D[i].comments = a.doc[i].comments
    BY <1>8, <1>9
  <2>2. CASE i = n
    BY <1>1, <1>2, <1>3, <2>1, <2>2 DEF Had
  <2>3. CASE i # n
    <3>1. i \in 1 .. Len(c.doc)
      BY <1>1, <1>3, <2>3
    <3>2. QED
      BY <1>2, <2>1, <3>1 DEF Had
  <2>4. QED
    BY <2>2, <2>3
<1>15. \/ y.comment = c.comment /\ CommentsStay(c, y.doc)
       \/ y.comment = 0 /\ CommentsGo(c, y.doc, n)
  <2>1. CASE a.comment = x.comment /\ CommentsStay(x, a.doc)
    BY <1>2, <1>8, <1>9, <1>10, <1>14, <2>1 DEF CommentsStay
  <2>2. CASE a.comment = 0 /\ CommentsGo(x, a.doc, n)
    BY <1>2, <1>3, <1>8, <1>9, <1>10, <1>14, <2>2 DEF CommentsGo
  <2>3. QED
    BY <1>5, <2>1, <2>2
<1>16. InScope(c) /\ ~InScope(y)
  BY <1>10, InScopeOf, Kinds
<1>17. Opens(c, y, p)
  BY <1>2, <1>3, <1>9, <1>10, <1>12, <1>13, <1>16 DEF Opens, SameMarks
<1>18. Path(y) /\ Hidden(y)
  BY <1>1, <1>17, OpensTree DEF Ready
<1>19. Marks(y)
  <2>1. ~c.afterIgnoredChildBlock /\ c.state \notin NodeStates /\ c.state \notin TypeStates
    BY Kinds DEF Ready, Marks
  <2>2. Owners(y)
    BY <1>1, <1>10, <2>1, OwnersPushed DEF Ready, Marks
  <2>3. Named(y)
    BY <1>10, Kinds DEF Named
  <2>4. QED
    BY <1>2, <1>10, <2>1, <2>2, <2>3 DEF Marks, Ready, SameMarks
<1>20. ~Valid(y.typeAnnot) /\ ~y.ignoreNextNode
  BY <1>2, <1>10 DEF Valid, NoToken, SameMarks
<1>21. QED
  BY <1>3, <1>7, <1>9, <1>10, <1>13, <1>15, <1>18, <1>19, <1>20 DEF Advance

----------------------------------------------------------------------------
(* What a transition function may rely on, and what it leaves.             *)

\* The handlers that white space and comments reach.
RestKeys == {"none", "Whitespace", "ClassWhitespace", "SingleLineComment",
             "MultiLineComment", "ClassComment"}

\* No other handler runs on the rest of an ignored block's line.
LEMMA RestOfLineKeys ==
  ASSUME NEW s, NEW id \in RestOfLine
  PROVE  HandlerKey(s, id) \in RestKeys
<1>1. PICK class : Classes(id) = <<class>> /\ class \in {"ClassWhitespace", "ClassComment"}
  <2>1. CASE id = "Whitespace"
    <3>1. Classes(id) = <<"ClassWhitespace">>
      BY <2>1 DEF Classes, Numbers
    <3>2. QED
      BY <3>1
  <2>2. CASE id \in Comments
    <3>1. Classes(id) = <<"ClassComment">>
      BY <2>2 DEF Classes, Numbers, Comments
    <3>2. QED
      BY <3>1
  <2>3. QED
    BY <2>1, <2>2 DEF RestOfLine
<1>2. PICK ks : ks = <<id>> \o Classes(id)
  OBVIOUS
<1>3. /\ DOMAIN ks = {1, 2} /\ ks[1] = id /\ ks[2] = class
  <2>1. ks = <<id>> \o <<class>>
    BY <1>1, <1>2
  <2>2. Len(<<id>>) = 1 /\ Len(<<class>>) = 1 /\ <<id>>[1] = id /\ <<class>>[1] = class
    OBVIOUS
  <2>3. /\ Len(<<id>> \o <<class>>) = 2
        /\ (<<id>> \o <<class>>)[1] = id /\ (<<id>> \o <<class>>)[2] = class
    BY <2>2
  <2>4. DOMAIN (<<id>> \o <<class>>) = 1 .. 2
    BY <2>2
  <2>5. 1 .. 2 = {1, 2}
    OBVIOUS
  <2>6. QED
    BY <2>1, <2>3, <2>4, <2>5
<1>4. PICK hits : hits = {i \in DOMAIN ks : ks[i] \in Handled(s)}
  OBVIOUS
<1>5. HandlerKey(s, id) = IF hits = {} THEN "none"
                          ELSE ks[CHOOSE i \in hits : \A j \in hits : i <= j]
  BY <1>2, <1>4 DEF HandlerKey
<1>6. CASE hits = {}
  BY <1>5, <1>6 DEF RestKeys
<1>7. CASE hits # {}
  <2>1. hits \subseteq {1, 2}
    BY <1>3, <1>4
  <2>2. \E i \in hits : \A j \in hits : i <= j
    <3>1. CASE 1 \in hits
      BY <2>1, <3>1
    <3>2. CASE 1 \notin hits
      <4>1. PICK i \in hits : TRUE
        BY <1>7
      <4>2. \A j \in hits : j = 2
        BY <2>1, <3>2
      <4>3. i = 2 /\ \A j \in hits : i <= j
        BY <4>1, <4>2
      <4>4. QED
        BY <4>1, <4>3
    <3>3. QED
      BY <3>1, <3>2
  <2>3. (CHOOSE i \in hits : \A j \in hits : i <= j) \in {1, 2}
    BY <2>1, <2>2
  <2>4. QED
    BY <1>1, <1>3, <1>5, <1>7, <2>3 DEF RestKeys, RestOfLine, Comments
<1>8. QED
  BY <1>6, <1>7

\* A handler starts in the invariant, in its own state.
LEMMA Starting ==
  ASSUME TInv, NEW s, NEW k, On(s, k)
  PROVE  /\ Ready /\ c.state = s /\ tok \in Token /\ c.err = "none"
         /\ k \notin RestKeys => ~c.afterIgnoredChildBlock
<1>1. Ready /\ c.state = s /\ tok \in Token /\ c.err = "none"
  BY DEF TInv, IInv, On, Ready, Sound
<1>2. c.afterIgnoredChildBlock => k \in RestKeys
  BY RestOfLineKeys DEF TInv, On
<1>3. QED
  BY <1>1, <1>2

\* What the step must have done when the document was not rejected.
Done ==
    pc' # "rejected" =>
        /\ pc' # "handle"
        /\ Advance(c')
        /\ pc' = "parse" => c'.state \in ScopeStates

\* The handler returns.
LEMMA Finished ==
  ASSUME NEW x, Finish(x), x.err = "none" => Advance(x)
  PROVE  Done
BY DEF Finish, Reject, Done

\* The handler asks to be called again.
LEMMA Reentered ==
  ASSUME NEW x, Reenter(x), x.err = "none" => Advance(x) /\ x.state \in ScopeStates
  PROVE  Done
BY DEF Reenter, Reject, Done

\* A step that changes temporaries, or moves within a node or a type annotation.
LEMMA QuietAdvance ==
  ASSUME Ready, NEW x, Quiet(c, x), NEW y,
         y.states = x.states, y.node = x.node, y.doc = x.doc, y.comment = x.comment,
         \/ y.state = c.state
         \/ c.state \in NodeStates /\ y.state \in NodeStates
         \/ c.state \in TypeStates /\ y.state \in TypeStates,
         y.ignoreNextNode = x.ignoreNextNode, y.ignoreChildren = x.ignoreChildren,
         y.afterIgnoredChildBlock = x.afterIgnoredChildBlock,
         y.ignoreChildBlockFromContinuation = x.ignoreChildBlockFromContinuation,
         y.continuationNewlineSeen => y.continuation,
         Named(y)
  PROVE  Advance(y)
<1>1. Stays(c, y)
  BY DEF Stays, Quiet
<1>2. QED
  BY <1>1, CalmAdvance DEF Quiet, SameMarks

\* The marks of continuations are in order.
LEMMA QuietContinuation ==
  ASSUME Ready, NEW x, Quiet(c, x)
  PROVE  x.continuationNewlineSeen => x.continuation
BY DEF Ready, Marks, Quiet, SameMarks

\* The outcomes handlers share.
LEMMA SharedOutcomes ==
  ASSUME Ready
  PROVE  /\ Advance(c)
         /\ Unexpected(c).err # "none" /\ ValueExpected(c).err # "none"
         /\ TriviaAfterType(c).err = "none" => Advance(TriviaAfterType(c))
         /\ V2Only(c).err = "none" => Advance(V2Only(c))
         /\ Advance(startContinuation(c))
<1>1. c \in Context /\ Quiet(c, c) /\ Named(c)
  BY QuietTemporaries DEF Ready, Marks
<1>2. Advance(c)
  BY <1>1, QuietAdvance, QuietContinuation
<1>3. Unexpected(c).err # "none" /\ ValueExpected(c).err # "none"
  BY <1>1 DEF Unexpected, ValueExpected, Fail, Context
<1>4. Advance(startContinuation(c))
  <2> DEFINE y == startContinuation(c)
  <2>1. /\ y.states = c.states /\ y.node = c.node /\ y.doc = c.doc
        /\ y.comment = c.comment /\ y.state = c.state /\ y.ident = c.ident
        /\ y.ignoreNextNode = c.ignoreNextNode /\ y.ignoreChildren = c.ignoreChildren
        /\ y.afterIgnoredChildBlock = c.afterIgnoredChildBlock
        /\ y.ignoreChildBlockFromContinuation = c.ignoreChildBlockFromContinuation
        /\ y.continuation
    BY <1>1 DEF startContinuation, Context
  <2> HIDE DEF y
  <2>2. Named(y)
    BY <1>1, <2>1 DEF Named, Innermost
  <2>3. QED
    BY <1>1, <2>1, <2>2, QuietAdvance DEF y
<1>5. QED
  BY <1>2, <1>3, <1>4 DEF TriviaAfterType, V2Only

----------------------------------------------------------------------------
(* The transition functions, one step each.                                *)

\* addNode and createNode, followed by what both identifier handlers do.
LEMMA NewNodeAdvance ==
  ASSUME Ready, c.state \in ScopeStates
  PROVE  LET y == openNode([createNode(c) EXCEPT !.ignoreNextNode = FALSE])
             z == openNode(addNode(c))
         IN  /\ y.err = "none" => Advance(y)
             /\ ~c.ignoreNextNode /\ c.ignoreChildren = 0 /\ z.err = "none" => Advance(z)
<1>1. c \in Context /\ c.node \in Seq(Nat) /\ Len(c.node) \in Nat
  BY SoundTypes DEF Ready
<1> DEFINE p == IF c.node = <<>> THEN 0 ELSE currentNode(c)
<1>2. p \in Int
  <2>1. CASE c.node = <<>>
    BY <2>1
  <2>2. CASE c.node # <<>>
    <3>1. Len(c.node) \in 1 .. Len(c.node)
      BY <1>1, <2>2
    <3>2. currentNode(c) \in Nat
      BY <1>1, <3>1, ElementOfSeq DEF currentNode
    <3>3. QED
      BY <2>2, <3>2
  <2>3. QED
    BY <2>1, <2>2
<1> HIDE DEF p
<1> DEFINE hidden == [createNode(c) EXCEPT !.ignoreNextNode = FALSE]
<1>3. NewNodeUnder(hidden, Detached)
  <2>1. Pushed(c, createNode(c))
    BY PushNode DEF createNode, Detached, Ready
  <2>2. ~hidden.ignoreNextNode
    BY <2>1 DEF Pushed, Context
  <2>3. QED
    BY <2>2 DEF NewNodeUnder, createNode
<1>4. ASSUME ~c.ignoreNextNode PROVE NewNodeUnder(addNode(c), p)
  <2>1. push(c, p).ignoreNextNode = c.ignoreNextNode
    BY <1>1 DEF push, Context
  <2>2. QED
    BY <1>4, <2>1 DEF NewNodeUnder, addNode, p
<1> HIDE DEF hidden
<1>5. openNode(hidden).err = "none" => Advance(openNode(hidden))
  BY <1>3, OpenedAdvance DEF Detached
<1>6. ASSUME ~c.ignoreNextNode, c.ignoreChildren = 0, openNode(addNode(c)).err = "none"
      PROVE  Advance(openNode(addNode(c)))
  BY <1>2, <1>4, <1>6, OpenedAdvance DEF p
<1>7. QED
  BY <1>5, <1>6 DEF hidden

\* In the document no ignored block is open.
LEMMA NoBlockInDocument ==
  ASSUME Ready, c.state = "Document"
  PROVE  c.ignoreChildren = 0
<1>1. Len(c.node) \in Nat /\ Len(c.states) \in Nat /\ c.ignoreChildren \in Nat
  BY SoundTypes DEF Ready, Context
<1>2. 2 * Len(c.node) = Len(c.states) /\ Len(c.states) = 0
  BY Kinds DEF Ready, Sound, Stacked, StatesAlternate, NodesMatchStates
<1>3. OpenBlocks(c) = 0
  BY <1>1, <1>2, InScopeOf, Kinds DEF OpenBlocks
<1>4. QED
  BY <1>1, <1>3 DEF Ready, Hidden

\* A comment or a slashdash between nodes.
LEMMA ScopeMarksAdvance ==
  ASSUME Ready, c.state \in ScopeStates
  PROVE  /\ ScopeComment(c).err = "none" => Advance(ScopeComment(c))
         /\ ScopeSlashdash(c).err = "none" => Advance(ScopeSlashdash(c))
<1>1. /\ c \in Context /\ c.err = "none" /\ Named(c) /\ InScope(c) /\ Len(c.doc) \in Nat
      /\ c.continuationNewlineSeen => c.continuation
  BY InScopeOf, SoundTypes DEF Ready, Marks, Sound
<1>2. OnlyCurrent(c, c.doc) /\ CommentsStay(c, c.doc)
  BY <1>1, SameDocument
<1>3. ASSUME NEW y, y.states = c.states, y.state = c.state, y.node = c.node,
             y.doc = c.doc, y.ident = c.ident,
             y.comment \in {c.comment, c.comment + 1},
             y.ignoreChildren = c.ignoreChildren,
             y.afterIgnoredChildBlock = c.afterIgnoredChildBlock,
             y.ignoreChildBlockFromContinuation = c.ignoreChildBlockFromContinuation,
             y.continuation = c.continuation,
             y.continuationNewlineSeen = c.continuationNewlineSeen
      PROVE  Advance(y)
  <2>1. Stays(c, y)
    BY <1>2, <1>3 DEF Stays
  <2>2. Named(y)
    BY <1>1, <1>3 DEF Named, Innermost
  <2>3. QED
    BY <1>1, <1>2, <1>3, <2>1, <2>2, CalmAdvance
<1>4. ScopeComment(c).err = "none" => Advance(ScopeComment(c))
  <2> SUFFICES ASSUME ScopeComment(c).err = "none" PROVE Advance(ScopeComment(c))
    OBVIOUS
  <2>1. TriviaAfterType(c) = c
    BY <1>1, SharedOutcomes DEF ScopeComment, TriviaAfterType
  <2>2. ScopeComment(c) = writeComment(c)
    BY <1>1, <2>1 DEF ScopeComment
  <2> DEFINE k == c.comment + 1
             y == [c EXCEPT !.comment = k]
  <2>3. writeComment(c) = c \/ writeComment(c) = y
    BY DEF writeComment
  <2>4. /\ y.states = c.states /\ y.state = c.state /\ y.node = c.node
        /\ y.doc = c.doc /\ y.ident = c.ident
        /\ y.comment = k
        /\ y.ignoreChildren = c.ignoreChildren
        /\ y.afterIgnoredChildBlock = c.afterIgnoredChildBlock
        /\ y.ignoreChildBlockFromContinuation = c.ignoreChildBlockFromContinuation
        /\ y.continuation = c.continuation
        /\ y.continuationNewlineSeen = c.continuationNewlineSeen
    BY <1>1 DEF Context
  <2> HIDE DEF y
  <2>5. Advance(y)
    BY <1>3, <2>4
  <2>6. QED
    BY <2>2, <2>3, <2>5, SharedOutcomes
<1>5. ScopeSlashdash(c).err = "none" => Advance(ScopeSlashdash(c))
  <2> SUFFICES ASSUME ScopeSlashdash(c).err = "none" PROVE Advance(ScopeSlashdash(c))
    OBVIOUS
  <2> DEFINE y == [markIgnoreFromContinuation(c) EXCEPT !.ignoreNextNode = TRUE]
  <2>1. ScopeSlashdash(c) = y
    BY SharedOutcomes DEF ScopeSlashdash
  <2>2. /\ y.states = c.states /\ y.state = c.state /\ y.node = c.node
        /\ y.doc = c.doc /\ y.ident = c.ident
        /\ y.comment = c.comment
        /\ y.ignoreChildren = c.ignoreChildren
        /\ y.afterIgnoredChildBlock = c.afterIgnoredChildBlock
        /\ y.ignoreChildBlockFromContinuation = c.ignoreChildBlockFromContinuation
        /\ y.continuation = c.continuation
        /\ y.continuationNewlineSeen = c.continuationNewlineSeen
    BY <1>1 DEF Context, markIgnoreFromContinuation
  <2> HIDE DEF y
  <2>3. QED
    BY <1>3, <2>1, <2>2
<1>6. QED
  BY <1>4, <1>5

\* The handlers of stateDocument and stateChildren.
LEMMA ScopeHandlerDone ==
  ASSUME TInv, ScopeHandler
  PROVE  Done
<1>1. ASSUME DocumentWhitespace \/ ChildrenWhitespace PROVE Done
  BY <1>1, Starting, SharedOutcomes, Finished DEF DocumentWhitespace, ChildrenWhitespace
<1>2. ASSUME DocumentIdentifier PROVE Done
  <2>1. Ready /\ c.state = "Document" /\ c.state \in ScopeStates
    BY <1>2, Starting, Kinds DEF DocumentIdentifier
  <2>2. c.ignoreChildren = 0
    BY <2>1, NoBlockInDocument
  <2>3. QED
    BY <1>2, <2>1, <2>2, NewNodeAdvance, Finished DEF DocumentIdentifier
<1>3. ASSUME ChildrenIdentifier PROVE Done
  <2>1. Ready /\ c.state \in ScopeStates /\ c.ignoreChildren \in Nat
    BY <1>3, Starting, Kinds DEF ChildrenIdentifier, Ready, Context
  <2>2. CASE c.ignoreNextNode \/ c.ignoreChildren > 0
    BY <1>3, <2>1, <2>2, NewNodeAdvance, Finished DEF ChildrenIdentifier
  <2>3. CASE ~(c.ignoreNextNode \/ c.ignoreChildren > 0)
    <3>1. ~c.ignoreNextNode /\ c.ignoreChildren = 0
      BY <2>1, <2>3
    <3>2. QED
      BY <1>3, <2>1, <2>3, <3>1, NewNodeAdvance, Finished DEF ChildrenIdentifier
  <2>4. QED
    BY <2>2, <2>3
<1>4. ASSUME DocumentParensOpen \/ ChildrenParensOpen PROVE Done
  <2>1. /\ Ready /\ c.state \in ScopeStates /\ ~c.afterIgnoredChildBlock
        /\ Finish(pushState(c, "TypeAnnot"))
    BY <1>4, Starting, Kinds DEF DocumentParensOpen, ChildrenParensOpen, RestKeys
  <2>2. QED
    BY <2>1, TypeEnteredAdvance, Finished
<1>5. ASSUME DocumentTerminator PROVE Done
  <2>1. Ready /\ (Finish(c) \/ Finish(ValueExpected(c)))
    BY <1>5, Starting DEF DocumentTerminator
  <2>2. QED
    BY <2>1, SharedOutcomes, Finished
<1>6. ASSUME DocumentComment \/ ChildrenComment PROVE Done
  <2>1. Ready /\ c.state \in ScopeStates /\ Finish(ScopeComment(c))
    BY <1>6, Starting, Kinds DEF DocumentComment, ChildrenComment
  <2>2. QED
    BY <2>1, ScopeMarksAdvance, Finished
<1>7. ASSUME DocumentSlashdash \/ ChildrenSlashdash PROVE Done
  <2>1. Ready /\ c.state \in ScopeStates /\ Finish(ScopeSlashdash(c))
    BY <1>7, Starting, Kinds DEF DocumentSlashdash, ChildrenSlashdash
  <2>2. QED
    BY <2>1, ScopeMarksAdvance, Finished
<1>8. ASSUME DocumentContinuation \/ ChildrenContinuation PROVE Done
  BY <1>8, Starting, SharedOutcomes, Finished DEF DocumentContinuation, ChildrenContinuation
<1>9. ASSUME ChildrenNewline PROVE Done
  BY <1>9, Starting, SharedOutcomes, Finished DEF ChildrenNewline
<1>10. ASSUME ChildrenBraceClose PROVE Done
  <2>1. Ready /\ c.state = "Children"
    BY <1>10, Starting DEF ChildrenBraceClose
  <2>2. CASE c.ignoreNextNode
    BY <1>10, <2>1, <2>2, SharedOutcomes, Finished DEF ChildrenBraceClose
  <2>3. CASE ~c.ignoreNextNode
    <3> DEFINE b == attachToLastAdded(closeIgnoredBlock(c))
    <3>1. b.err = "none" /\ Advance(popState(b))
      BY <2>1, <2>3, CloseBlock, BlockLeftAdvance DEF Ready
    <3>2. Finish(popState(b))
      BY <1>10, <2>3, <3>1 DEF ChildrenBraceClose
    <3>3. QED
      BY <3>1, <3>2, Finished
  <2>4. QED
    BY <2>2, <2>3
<1>11. QED
  BY <1>1, <1>2, <1>3, <1>4, <1>5, <1>6, <1>7, <1>8, <1>9, <1>10 DEF ScopeHandler

\* The handlers of stateTypeAnnot and stateTypeDone.
LEMMA TypeHandlerDone ==
  ASSUME TInv, TypeHandler
  PROVE  Done
<1>1. ASSUME TypeTrivia PROVE Done
  BY <1>1, Starting, SharedOutcomes, Finished DEF TypeTrivia
<1>2. ASSUME TypeContinuation PROVE Done
  <2>1. Ready /\ (Finish(startContinuation(c)) \/ Finish(Unexpected(c)))
    BY <1>2, Starting DEF TypeContinuation
  <2>2. QED
    BY <2>1, SharedOutcomes, Finished
<1>3. ASSUME TypeName PROVE Done
  <2> DEFINE y == [c EXCEPT !.typeAnnot = tok, !.state = "TypeDone"]
  <2>1. Ready /\ c.state = "TypeAnnot" /\ Finish(y)
    BY <1>3, Starting DEF TypeName
  <2>2. c \in Context /\ Quiet(c, c) /\ Named(c)
    BY <2>1, QuietTemporaries DEF Ready, Marks
  <2>3. /\ y.states = c.states /\ y.node = c.node /\ y.doc = c.doc
        /\ y.comment = c.comment /\ y.state = "TypeDone" /\ y.ident = c.ident
        /\ SameMarks(c, y)
    BY <2>2 DEF Context, SameMarks
  <2> HIDE DEF y
  <2>4. Named(y)
    BY <2>1, <2>2, <2>3, Kinds DEF Named, Innermost
  <2>5. Advance(y)
    BY <2>1, <2>2, <2>3, <2>4, Kinds, QuietAdvance, QuietContinuation DEF SameMarks
  <2>6. QED
    BY <2>1, <2>5, Finished
<1>4. ASSUME TypeDoneParensClose PROVE Done
  <2>1. Ready /\ c.state = "TypeDone" /\ Finish(popState(c))
    BY <1>4, Starting DEF TypeDoneParensClose
  <2>2. QED
    BY <2>1, TypeLeftAdvance, Finished
<1>5. QED
  BY <1>1, <1>2, <1>3, <1>4 DEF TypeHandler

\* In these states of a node no name is needed.
LEMMA NamedElsewhere ==
  ASSUME NEW y, y.state \in OwnerStates \cup {"NodeEnd"}
  PROVE  Named(y)
BY Kinds DEF Named, OwnerStates, TypeStates

\* A move between the states of a node that need no name.
LEMMA MovedAdvance ==
  ASSUME Ready, c.state \in NodeStates, NEW x \in Context, Quiet(c, x),
         NEW s \in OwnerStates \cup {"NodeEnd"}
  PROVE  /\ Advance([x EXCEPT !.state = s])
         /\ Advance([stopContinuation(x) EXCEPT !.state = s])
         /\ Advance([clearPending(x) EXCEPT !.state = s])
         /\ \A t \in Token : Advance([x EXCEPT !.ident = t, !.state = s])
         /\ Advance([markIgnoreFromContinuation(x) EXCEPT !.ignoreNextArgProp = TRUE,
                                                          !.state = s])
<1> DEFINE Moved(y) == /\ y.states = x.states /\ y.node = x.node /\ y.doc = x.doc
                       /\ y.comment = x.comment /\ y.state = s
                       /\ y.ignoreNextNode = x.ignoreNextNode
                       /\ y.ignoreChildren = x.ignoreChildren
                       /\ y.afterIgnoredChildBlock = x.afterIgnoredChildBlock
                       /\ y.ignoreChildBlockFromContinuation
                              = x.ignoreChildBlockFromContinuation
                       /\ y.continuationNewlineSeen => y.continuation
<1>1. s \in NodeStates /\ (x.continuationNewlineSeen => x.continuation)
  BY QuietContinuation DEF OwnerStates, NodeStates
<1>2. ASSUME NEW y, Moved(y) PROVE Advance(y)
  BY <1>1, <1>2, NamedElsewhere, QuietAdvance
<1>3. Moved([x EXCEPT !.state = s])
  BY <1>1 DEF Context
<1>4. Moved([stopContinuation(x) EXCEPT !.state = s])
  BY <1>1 DEF stopContinuation, Context
<1>5. Moved([clearPending(x) EXCEPT !.state = s])
  BY <1>1 DEF clearPending, Context
<1>6. \A t \in Token : Moved([x EXCEPT !.ident = t, !.state = s])
  BY <1>1 DEF Context
<1>7. Moved([markIgnoreFromContinuation(x) EXCEPT !.ignoreNextArgProp = TRUE, !.state = s])
  BY <1>1 DEF markIgnoreFromContinuation, Context
<1> HIDE DEF Moved
<1>8. QED
  BY <1>2, <1>3, <1>4, <1>5, <1>6, <1>7

\* A child block opens, ignored or not, after the queued identifier was flushed.
LEMMA BlockAdvance ==
  ASSUME Ready, c.state \in OwnerStates, ~c.afterIgnoredChildBlock,
         NEW x \in Context, Quiet(c, x)
  PROVE  /\ x.ignoreChildren = 0 => Advance(pushState(x, "Children"))
         /\ Advance(pushState([openIgnoredBlock(x) EXCEPT !.ignoreNextNode = FALSE],
                              "Children"))
         /\ Advance(pushState([openIgnoredBlock(x) EXCEPT !.ignoreNextArgProp = FALSE],
                              "Children"))
         /\ Advance(pushState([x EXCEPT !.ignoreNextArgProp = FALSE,
                                        !.ignoreChildren = @ + 1], "Children"))
<1>1. /\ c.state \in NodeStates /\ ~c.ignoreNextNode
      /\ c.ignoreChildren \in Nat /\ x.ignoreChildren = c.ignoreChildren
      /\ x.continuationNewlineSeen => x.continuation
      /\ x.ignoreChildBlockFromContinuation => x.ignoreChildren > 0
  <2>1. c.state \in NodeStates
    BY DEF OwnerStates, NodeStates
  <2>2. QED
    BY <2>1, InScopeOf, QuietContinuation DEF Ready, Marks, Quiet, SameMarks, Context
<1> DEFINE k == x.ignoreChildren + 1
           Block(y) ==
               /\ y \in Context /\ y.state = x.state /\ y.states = x.states
               /\ y.node = x.node /\ y.doc = x.doc /\ y.comment = x.comment
               /\ ~y.ignoreNextNode /\ ~y.afterIgnoredChildBlock
               /\ y.ignoreChildren = k \/ y.ignoreChildren = x.ignoreChildren
               /\ y.ignoreChildren = x.ignoreChildren => x.ignoreChildren = 0
               /\ y.ignoreChildBlockFromContinuation => y.ignoreChildren > 0
               /\ y.continuationNewlineSeen => y.continuation
<1>2. k \in Nat /\ k = c.ignoreChildren + 1 /\ k > 0 /\ k # x.ignoreChildren
  BY <1>1
<1> HIDE DEF k
<1>3. ASSUME NEW y, Block(y) PROVE Advance(pushState(y, "Children"))
  BY <1>1, <1>2, <1>3, BlockEnteredAdvance DEF Quiet
<1>4. ~x.ignoreNextNode /\ ~x.afterIgnoredChildBlock
  BY <1>1 DEF Quiet, SameMarks
<1>5. x.ignoreChildren = 0 => Block(x)
  BY <1>1, <1>4
<1> DEFINE a == [x EXCEPT !.ignoreChildBlockFromContinuation = x.ignoreFromContinuation,
                          !.ignoreFromContinuation = FALSE, !.ignoreChildren = k]
<1>6. openIgnoredBlock(x) = a
  BY DEF openIgnoredBlock, k
<1>7. Block(a)
  BY <1>1, <1>2, <1>4 DEF Context
<1> HIDE DEF a
<1>8. Block([a EXCEPT !.ignoreNextNode = FALSE])
  BY <1>7 DEF Context
<1>9. Block([a EXCEPT !.ignoreNextArgProp = FALSE])
  BY <1>7 DEF Context
<1>10. Block([x EXCEPT !.ignoreNextArgProp = FALSE, !.ignoreChildren = k])
  BY <1>1, <1>2, <1>4 DEF Context
<1> HIDE DEF Block
<1>11. QED
  BY <1>3, <1>5, <1>6, <1>8, <1>9, <1>10 DEF k

\* The class pseudo-identifiers.
ClassNames == {"ClassTerminator", "ClassWhitespace", "ClassEndOfLine", "ClassComment",
               "ClassNumber", "ClassValue", "ClassNonStringValue", "ClassIdentifier",
               "ClassString"}

\* A token has at most three classes.
LEMMA ClassesShape ==
  ASSUME NEW id
  PROVE  Classes(id) \in Seq(ClassNames) /\ Len(Classes(id)) <= 3
<1>1. Classes(id) \in {<<"ClassTerminator", "ClassWhitespace", "ClassEndOfLine">>,
                       <<"ClassWhitespace">>, <<"ClassComment">>,
                       <<"ClassNumber", "ClassValue", "ClassNonStringValue">>,
                       <<"ClassValue", "ClassNonStringValue">>,
                       <<"ClassValue", "ClassIdentifier">>,
                       <<"ClassValue", "ClassString", "ClassIdentifier">>,
                       <<"ClassValue", "ClassString">>,
                       <<"ClassTerminator">>, <<"ClassTerminator", "ClassEndOfLine">>,
                       <<>>}
  BY DEF Classes, Numbers
<1>2. PICK a \in ClassNames, b \in ClassNames, d \in ClassNames :
           Classes(id) \in {<<>>, <<a>>, <<a, b>>, <<a, b, d>>}
  BY <1>1 DEF ClassNames
<1>3. /\ <<>> \in Seq(ClassNames) /\ Len(<<>>) <= 3
      /\ <<a>> \in Seq(ClassNames) /\ Len(<<a>>) <= 3
      /\ <<a, b>> \in Seq(ClassNames) /\ Len(<<a, b>>) <= 3
      /\ <<a, b, d>> \in Seq(ClassNames) /\ Len(<<a, b, d>>) <= 3
  OBVIOUS
<1>4. QED
  BY <1>2, <1>3

\* The handler that runs is the token's own, or that of one of its classes in S.
LEMMA KeyAmong ==
  ASSUME NEW s, NEW id, NEW S, Classes(id) \in Seq(S), Len(Classes(id)) <= 3
  PROVE  HandlerKey(s, id) \in {id, "none"} \cup S
<1>1. PICK C : C = Classes(id) /\ C \in Seq(S) /\ Len(C) <= 3
  OBVIOUS
<1>2. PICK ks : ks = <<id>> \o C
  OBVIOUS
<1>3. PICK n \in Nat : n = Len(C) /\ n <= 3
  BY <1>1
<1>4. /\ DOMAIN ks = 1 .. n + 1 /\ ks[1] = id
      /\ \A i \in 2 .. n + 1 : ks[i] \in S
  <2>1. Len(<<id>>) = 1 /\ <<id>>[1] = id
    OBVIOUS
  <2>2. /\ DOMAIN ks = 1 .. n + 1 /\ ks[1] = id
        /\ \A i \in 2 .. n + 1 : ks[i] = C[i - 1]
    BY <1>1, <1>2, <1>3, <2>1
  <2>3. \A i \in 2 .. n + 1 : C[i - 1] \in S
    BY <1>1, <1>3
  <2>4. QED
    BY <2>2, <2>3
<1>5. PICK hits : hits = {i \in DOMAIN ks : ks[i] \in Handled(s)}
  OBVIOUS
<1>6. HandlerKey(s, id) = IF hits = {} THEN "none"
                          ELSE ks[CHOOSE i \in hits : \A j \in hits : i <= j]
  BY <1>1, <1>2, <1>5 DEF HandlerKey
<1>7. CASE hits # {}
  <2>1. hits \subseteq 1 .. 4 /\ hits \subseteq 1 .. n + 1
    <3>1. hits \subseteq 1 .. n + 1
      BY <1>4, <1>5
    <3>2. \A i \in 1 .. n + 1 : i \in 1 .. 4
      BY <1>3
    <3>3. QED
      BY <3>1, <3>2
  <2>2. \E i \in hits : \A j \in hits : i <= j
    <3>1. CASE 1 \in hits
      BY <2>1, <3>1
    <3>2. CASE 1 \notin hits /\ 2 \in hits
      BY <2>1, <3>2
    <3>3. CASE 1 \notin hits /\ 2 \notin hits /\ 3 \in hits
      BY <2>1, <3>3
    <3>4. CASE 1 \notin hits /\ 2 \notin hits /\ 3 \notin hits
      <4>1. PICK i \in hits : TRUE
        BY <1>7
      <4>2. \A j \in hits : j = 4
        BY <2>1, <3>4
      <4>3. QED
        BY <4>1, <4>2
    <3>5. QED
      BY <3>1, <3>2, <3>3, <3>4
  <2>3. PICK i \in 1 .. n + 1 : HandlerKey(s, id) = ks[i]
    BY <1>6, <1>7, <2>1, <2>2
  <2>4. i = 1 \/ i \in 2 .. n + 1
    BY <1>3
  <2>5. QED
    BY <1>4, <2>3, <2>4
<1>8. QED
  BY <1>6, <1>7

\* The handler that runs is the token's own, or that of one of its classes.
LEMMA KeyOfToken ==
  ASSUME NEW s, NEW id
  PROVE  HandlerKey(s, id) \in {id, "none"} \cup ClassNames
BY ClassesShape, KeyAmong

\* Only a bare identifier reaches the handler of bare identifiers.
LEMMA BareIdentifierKey ==
  ASSUME NEW s, NEW id, HandlerKey(s, id) = "BareIdentifier"
  PROVE  id = "BareIdentifier"
BY KeyOfToken DEF ClassNames

\* The handlers of stateNode, stateNodeParams and stateNodeEnd.
LEMMA NodeHandlerDone ==
  ASSUME TInv, NodeHandler
  PROVE  Done
<1> USE DEF OwnerStates, NodeStates
<1>0. ASSUME Ready
      PROVE  /\ c \in Context /\ Sound(c) /\ Quiet(c, c) /\ Named(c)
             /\ c.ignoreChildren \in Nat
  <2>1. c \in Context /\ Sound(c) /\ Named(c)
    BY <1>0 DEF Ready, Marks
  <2>2. c.ignoreChildren \in Nat
    BY <2>1 DEF Context
  <2>3. QED
    BY <2>1, <2>2, QuietTemporaries
<1>1. ASSUME NodeWhitespace PROVE Done
  <2>1. Ready /\ c.state \in NodeStates /\ Finish([c EXCEPT !.state = "NodeParams"])
    BY <1>1, Starting DEF NodeWhitespace
  <2>2. QED
    BY <2>1, <1>0, MovedAdvance, Finished
<1>2. ASSUME NodeTerminator PROVE Done
  <2>1. /\ Ready /\ c.state \in NodeStates /\ ~c.afterIgnoredChildBlock
        /\ Finish(c) \/ Finish(popNodeAndState(c))
    BY <1>2, Starting DEF NodeTerminator, RestKeys
  <2>2. QED
    BY <2>1, <1>0, SharedOutcomes, ClosedAdvance, Finished
<1>3. ASSUME NodeEquals PROVE Done
  <2>1. /\ Ready /\ c.state \in NodeStates
        /\ Finish(Unexpected(c)) \/ Finish([c EXCEPT !.state = "NodeParams"])
    BY <1>3, Starting DEF NodeEquals
  <2>2. QED
    BY <2>1, <1>0, SharedOutcomes, MovedAdvance, Finished
<1>4. ASSUME NodeBraceOpen PROVE Done
  <2>1. Ready /\ c.state = "Node" /\ ~c.afterIgnoredChildBlock
    BY <1>4, Starting DEF NodeBraceOpen, RestKeys
  <2>2. \/ /\ Finish(pushState(c, "Children")) /\ c.ignoreChildren = 0
        \/ Finish(pushState([openIgnoredBlock(c) EXCEPT !.ignoreNextNode = FALSE],
                            "Children"))
    BY <1>4, <2>1, <1>0 DEF NodeBraceOpen
  <2>3. QED
    BY <2>1, <2>2, <1>0, BlockAdvance, Finished
<1>5. ASSUME NodeContinuation \/ NodeParamsContinuation PROVE Done
  BY <1>5, Starting, SharedOutcomes, Finished DEF NodeContinuation, NodeParamsContinuation
<1>6. ASSUME NodeComment PROVE Done
  BY <1>6, Starting, SharedOutcomes, Finished DEF NodeComment
<1>7. ASSUME NodeBraceClose \/ NodeParamsBraceClose PROVE Done
  <2>1. /\ Ready /\ c.state \in NodeStates /\ ~c.afterIgnoredChildBlock
        /\ Reenter(popNodeAndState(c))
    BY <1>7, Starting DEF NodeBraceClose, NodeParamsBraceClose, RestKeys
  <2>2. QED
    BY <2>1, <1>0, ClosedAdvance, Reentered
<1>8. ASSUME NodeParamsWhitespace \/ NodeParamsComment PROVE Done
  BY <1>8, Starting, SharedOutcomes, Finished DEF NodeParamsWhitespace, NodeParamsComment
<1>9. ASSUME NodeParamsEquals PROVE Done
  <2>1. Ready /\ (Finish(c) \/ Finish(Unexpected(c)))
    BY <1>9, Starting DEF NodeParamsEquals
  <2>2. QED
    BY <2>1, SharedOutcomes, Finished
<1>10. ASSUME NodeParamsSlashdash PROVE Done
  <2> DEFINE y == [markIgnoreFromContinuation(c) EXCEPT !.ignoreNextArgProp = TRUE]
             z == [markIgnoreFromContinuation(c) EXCEPT !.ignoreNextArgProp = TRUE,
                                                        !.state = "NodeParams"]
  <2>1. /\ Ready /\ c.state = "NodeParams"
        /\ Finish(Unexpected(c)) \/ Finish(y)
    BY <1>10, Starting DEF NodeParamsSlashdash
  <2>2. y = z
    BY <2>1, <1>0 DEF markIgnoreFromContinuation, Context
  <2> HIDE DEF y, z
  <2>3. Advance(z)
    BY <2>1, <1>0, MovedAdvance DEF z
  <2>4. QED
    BY <2>1, <2>2, <2>3, SharedOutcomes, Finished
<1>11. ASSUME NodeParamsSingleLineComment PROVE Done
  <2>1. /\ Ready /\ c.state \in NodeStates
        /\ Finish(c) \/ Finish([c EXCEPT !.state = "NodeEnd"])
    BY <1>11, Starting DEF NodeParamsSingleLineComment
  <2>2. QED
    BY <2>1, <1>0, SharedOutcomes, MovedAdvance, Finished
<1>12. ASSUME NodeParamsParensOpen PROVE Done
  <2>1. /\ Ready /\ c.state = "NodeParams" /\ ~c.afterIgnoredChildBlock
        /\ Finish(pushState(c, "TypeAnnot"))
    BY <1>12, Starting DEF NodeParamsParensOpen, RestKeys
  <2>2. QED
    BY <2>1, TypeEnteredAdvance, Finished
<1>13. ASSUME NodeParamsBareIdentifier PROVE Done
  <2>1. Ready /\ c.state = "NodeParams" /\ tok \in Token
    BY <1>13, Starting DEF NodeParamsBareIdentifier
  <2>2. tok.id = "BareIdentifier"
    BY <1>13, BareIdentifierKey DEF NodeParamsBareIdentifier, On
  <2> DEFINE y == [c EXCEPT !.ident = tok, !.state = "Property"]
             z == [c EXCEPT !.ident = tok, !.state = "ArgProp"]
  <2>3. Finish(y) \/ Finish(z)
    BY <1>13 DEF NodeParamsBareIdentifier
  <2>4. Advance(z)
    BY <2>1, <1>0, MovedAdvance
  <2>5. /\ y.states = c.states /\ y.node = c.node /\ y.doc = c.doc
        /\ y.comment = c.comment /\ y.state = "Property" /\ y.ident = tok
        /\ SameMarks(c, y)
    BY <2>1, <1>0 DEF Context, SameMarks
  <2> HIDE DEF y, z
  <2>6. Named(y)
    BY <2>2, <2>5 DEF Named, PropertyNames
  <2>7. Advance(y)
    BY <2>1, <2>5, <2>6, <1>0, QuietAdvance, QuietContinuation DEF SameMarks
  <2>8. QED
    BY <2>3, <2>4, <2>7, Finished
<1>14. ASSUME NodeParamsSuffixedDecimal PROVE Done
  <2> DEFINE x == clearPending(c)
             y == [x EXCEPT !.ignoreNextArgProp = FALSE]
             z == addArgumentToken(x, tok)
  <2>1. Ready /\ c.state = "NodeParams" /\ (Finish(y) \/ Finish(z))
    BY <1>14, Starting DEF NodeParamsSuffixedDecimal
  <2>2. x \in Context /\ x.err = "none" /\ SameStacks(c, x) /\ Quiet(c, x)
    BY <2>1, <1>0, NoTokenType, QuietTemporaries DEF clearPending, Context, SameStacks, Sound
  <2> HIDE DEF x
  <2>3. Sound(x) /\ x.node # <<>> /\ Len(c.doc) \in Nat
    BY <2>1, <2>2, <1>0, KeepSound, SoundTypes DEF SameStacks
  <2>4. Quiet(c, y)
    BY <2>2, <2>3, QuietTemporaries, QuietTwice
  <2>5. z.err = "none" => Quiet(c, z)
    BY <2>2, <2>3, QuietValues, QuietTwice
  <2> HIDE DEF y, z
  <2>6. ASSUME NEW w, Quiet(c, w) PROVE Advance(w)
    <3>1. w.state = "NodeParams"
      BY <2>1, <2>6 DEF Quiet
    <3>2. QED
      BY <2>1, <2>6, <3>1, NamedElsewhere, QuietAdvance, QuietContinuation DEF Quiet
  <2>7. QED
    BY <2>1, <2>4, <2>5, <2>6, Finished
<1>15. ASSUME NodeParamsValue PROVE Done
  <2>1. /\ Ready /\ c.state \in NodeStates /\ tok \in Token
        /\ Finish([c EXCEPT !.ident = tok, !.state = "ArgProp"])
    BY <1>15, Starting DEF NodeParamsValue
  <2>2. QED
    BY <2>1, <1>0, MovedAdvance, Finished
<1>16. ASSUME NodeParamsBraceOpen PROVE Done
  <2>1. Ready /\ c.state = "NodeParams" /\ ~c.afterIgnoredChildBlock
    BY <1>16, Starting DEF NodeParamsBraceOpen, RestKeys
  <2>2. \/ /\ Finish(pushState(c, "Children")) /\ c.ignoreChildren = 0
        \/ Finish(pushState([openIgnoredBlock(c) EXCEPT !.ignoreNextArgProp = FALSE],
                            "Children"))
    BY <1>16, <2>1, <1>0 DEF NodeParamsBraceOpen
  <2>3. QED
    BY <2>1, <2>2, <1>0, BlockAdvance, Finished
<1>17. ASSUME NodeParamsTerminator PROVE Done
  <2>1. /\ Ready /\ c.state \in NodeStates /\ ~c.afterIgnoredChildBlock
        /\ \/ Finish(c) \/ Finish(Unexpected(c)) \/ Finish(ValueExpected(c))
           \/ Finish(popNodeAndState(c))
    BY <1>17, Starting DEF NodeParamsTerminator, RestKeys
  <2>2. QED
    BY <2>1, <1>0, SharedOutcomes, ClosedAdvance, Finished
<1>18. ASSUME NodeEndWhitespace PROVE Done
  BY <1>18, Starting, SharedOutcomes, Finished DEF NodeEndWhitespace
<1>19. ASSUME NodeEndEndOfLine PROVE Done
  <2>1. /\ Ready /\ c.state \in NodeStates /\ ~c.afterIgnoredChildBlock
        /\ \/ Finish([stopContinuation(c) EXCEPT !.state = "NodeParams"])
           \/ Finish(popNodeAndState(c))
    BY <1>19, Starting DEF NodeEndEndOfLine, RestKeys
  <2>2. QED
    BY <2>1, <1>0, MovedAdvance, ClosedAdvance, Finished
<1>20. QED
  BY <1>1, <1>2, <1>3, <1>4, <1>5, <1>6, <1>7, <1>8, <1>9, <1>10, <1>11, <1>12,
     <1>13, <1>14, <1>15, <1>16, <1>17, <1>18, <1>19 DEF NodeHandler

\* What a handler of stateArgProp may rely on after it has flushed the queued
\* identifier, if there was no error.
FlushedTo(x) == x.err = "none" => x \in Context /\ Sound(x) /\ Quiet(c, x)

\* Both ways of flushing do that.
LEMMA FlushedReady ==
  ASSUME Ready, c.state \in NodeStates
  PROVE  FlushedTo(flushIdent(c)) /\ FlushedTo(flushValidIdent(c))
<1>1. Sound(c)
  BY DEF Ready
<1>2. Flushed(c, flushIdent(c)) /\ Flushed(c, flushValidIdent(c))
  BY <1>1, FlushIdent
<1>3. QED
  BY <1>1, <1>2, QuietFlush DEF Flushed, FlushedTo, Sound

\* The slashdash handler of stateArgProp.
LEMMA ArgPropSlashdashDone ==
  ASSUME TInv, ArgPropSlashdash
  PROVE  Done
<1> DEFINE w == [c EXCEPT !.ignoreNextArgProp = FALSE]
           a == addArgumentToken(c, c.ident)
           x == IF c.ignoreNextArgProp THEN w ELSE IF Valid(c.ident) THEN a ELSE c
           y == IF Valid(c.ident) THEN clearPending(x) ELSE x
           z == [markIgnoreFromContinuation(y) EXCEPT
                    !.ignoreNextArgProp = TRUE, !.state = "NodeParams"]
<1>1. Ready /\ c.state = "ArgProp"
  BY Starting DEF ArgPropSlashdash
<1>2. /\ c \in Context /\ Sound(c) /\ Quiet(c, c) /\ c.node # <<>>
      /\ Len(c.doc) \in Nat /\ c.ident \in Token /\ c.state \in NodeStates
  <2>1. c \in Context /\ Sound(c) /\ c.state \in NodeStates
    BY <1>1 DEF Ready, NodeStates
  <2>2. c.ident \in Token
    BY <2>1 DEF Context
  <2>3. QED
    BY <2>1, <2>2, SoundTypes, QuietTemporaries
<1>3. \/ x.err # "none" /\ Finish(x)
      \/ x.err = "none" /\ Finish(ValueExpected(x))
      \/ x.err = "none" /\ Finish(z)
  BY DEF ArgPropSlashdash
<1>4. x.err = "none" => x \in Context /\ Quiet(c, x)
  <2>1. w \in Context /\ Quiet(c, w)
    BY <1>2, QuietTemporaries DEF Context
  <2>2. a.err = "none" => a \in Context /\ Quiet(c, a)
    BY <1>2, AddArgument, QuietValues DEF Sound
  <2> HIDE DEF w, a
  <2>3. QED
    BY <1>2, <2>1, <2>2
<1> HIDE DEF x
<1>5. CASE x.err = "none"
  <2>1. x \in Context /\ Quiet(c, x)
    BY <1>4, <1>5
  <2>2. clearPending(x) \in Context /\ Quiet(c, clearPending(x))
    <3>1. clearPending(x) \in Context
      BY <2>1, NoTokenType DEF clearPending, Context
    <3>2. Quiet(x, clearPending(x))
      BY <2>1, QuietTemporaries
    <3>3. QED
      BY <1>2, <2>1, <3>1, <3>2, QuietTwice
  <2>3. y \in Context /\ Quiet(c, y)
    BY <2>1, <2>2
  <2> HIDE DEF y
  <2>4. Advance(z)
    BY <1>1, <1>2, <2>3, MovedAdvance DEF OwnerStates
  <2>5. ValueExpected(x).err # "none"
    BY <2>1 DEF ValueExpected, Fail, Context
  <2> HIDE DEF z
  <2>6. QED
    BY <1>3, <1>5, <2>4, <2>5, Finished
<1>6. CASE x.err # "none"
  BY <1>3, <1>6, Finished
<1>7. QED
  BY <1>5, <1>6

\* The handler of stateArgProp for the brace that opens a child block.
LEMMA ArgPropBraceOpenDone ==
  ASSUME TInv, ArgPropBraceOpen
  PROVE  Done
<1> DEFINE x == flushValidIdent(c)
<1>1. Ready /\ c.state = "ArgProp" /\ ~c.afterIgnoredChildBlock
  BY Starting DEF ArgPropBraceOpen, RestKeys
<1>2. c.state \in NodeStates /\ c.state \in OwnerStates
  BY <1>1 DEF NodeStates, OwnerStates
<1>3. FlushedTo(x)
  BY <1>1, <1>2, FlushedReady
<1>4. \/ x.err # "none" /\ Finish(x)
      \/ /\ x.err = "none" /\ ~(x.ignoreNextArgProp \/ x.ignoreChildren > 0)
         /\ Finish(pushState(x, "Children"))
      \/ /\ x.err = "none"
         /\ Finish(pushState([x EXCEPT !.ignoreNextArgProp = FALSE,
                                       !.ignoreChildren = @ + 1], "Children"))
  BY DEF ArgPropBraceOpen
<1> HIDE DEF x
<1>5. CASE x.err # "none"
  BY <1>4, <1>5, Finished
<1>6. CASE x.err = "none"
  <2>1. x \in Context /\ Quiet(c, x)
    BY <1>3, <1>6 DEF FlushedTo
  <2>2. x.ignoreChildren \in Nat
    BY <2>1 DEF Context
  <2>3. /\ x.ignoreChildren = 0 => Advance(pushState(x, "Children"))
        /\ Advance(pushState([x EXCEPT !.ignoreNextArgProp = FALSE,
                                       !.ignoreChildren = @ + 1], "Children"))
    BY <1>1, <1>2, <2>1, BlockAdvance
  <2>4. ~(x.ignoreChildren > 0) => x.ignoreChildren = 0
    BY <2>2
  <2>5. QED
    BY <1>4, <1>6, <2>3, <2>4, Finished
<1>7. QED
  BY <1>5, <1>6

\* The handlers of stateProperty, stateArgProp and statePropertyValue.
LEMMA EntryHandlerDone ==
  ASSUME TInv, EntryHandler
  PROVE  Done
<1> USE DEF OwnerStates, NodeStates
<1>0. ASSUME Ready PROVE c \in Context /\ Sound(c) /\ Quiet(c, c) /\ Named(c)
  BY <1>0, QuietTemporaries DEF Ready, Marks
<1>1. ASSUME PropertyEquals \/ ArgPropEquals PROVE Done
  <2> DEFINE y == [c EXCEPT !.state = "PropertyValue"]
  <2>1. /\ Ready /\ c.state \in {"Property", "ArgProp"}
        /\ \/ Finish(Unexpected(c))
           \/ Finish(y) /\ (c.state = "ArgProp" => c.ident.id \in PropertyNames)
    BY <1>1, Starting DEF PropertyEquals, ArgPropEquals
  <2>2. /\ y.states = c.states /\ y.node = c.node /\ y.doc = c.doc
        /\ y.comment = c.comment /\ y.state = "PropertyValue" /\ y.ident = c.ident
        /\ SameMarks(c, y)
    BY <2>1, <1>0 DEF Context, SameMarks
  <2> HIDE DEF y
  <2>3. c.ident.id \in PropertyNames => Advance(y)
    <3>1. ASSUME c.ident.id \in PropertyNames PROVE Named(y)
      BY <2>2, <3>1 DEF Named
    <3>2. QED
      BY <2>1, <2>2, <3>1, <1>0, QuietAdvance, QuietContinuation DEF SameMarks
  <2>4. c.state = "Property" => c.ident.id \in PropertyNames
    BY <2>1, <1>0 DEF Named
  <2>5. QED
    BY <2>1, <2>3, <2>4, SharedOutcomes, Finished
<1>2. ASSUME PropertyBraceClose \/ PropertyValueBraceClose PROVE Done
  <2>1. /\ Ready /\ c.state \in NodeStates /\ ~c.afterIgnoredChildBlock
        /\ Reenter(popNodeAndState(c))
    BY <1>2, Starting DEF PropertyBraceClose, PropertyValueBraceClose, RestKeys
  <2>2. QED
    BY <2>1, <1>0, ClosedAdvance, Reentered
<1>3. ASSUME ArgPropWhitespace PROVE Done
  <2> DEFINE x == flushIdent(c)
  <2>1. /\ Ready /\ c.state \in NodeStates
        /\ \/ Finish(c)
           \/ x.err # "none" /\ Finish(x)
           \/ x.err = "none" /\ Finish([x EXCEPT !.state = "NodeParams"])
    BY <1>3, Starting DEF ArgPropWhitespace
  <2>2. FlushedTo(x)
    BY <2>1, FlushedReady
  <2> HIDE DEF x
  <2>3. x.err = "none" => Advance([x EXCEPT !.state = "NodeParams"])
    BY <2>1, <2>2, MovedAdvance DEF FlushedTo
  <2>4. QED
    BY <2>1, <2>3, SharedOutcomes, Finished
<1>4. ASSUME ArgPropComment \/ PropertyValueTrivia PROVE Done
  <2>1. Ready /\ Finish(V2Only(c))
    BY <1>4, Starting DEF ArgPropComment, PropertyValueTrivia
  <2>2. QED
    BY <2>1, SharedOutcomes, Finished
<1>5. ASSUME ArgPropContinuation \/ PropertyValueContinuation PROVE Done
  <2>1. Ready /\ (Finish(startContinuation(c)) \/ Finish(Unexpected(c)))
    BY <1>5, Starting DEF ArgPropContinuation, PropertyValueContinuation
  <2>2. QED
    BY <2>1, SharedOutcomes, Finished
<1>6. ASSUME ArgPropTerminator \/ ArgPropBraceClose PROVE Done
  <2> DEFINE x == flushValidIdent(c)
  <2>1. Ready /\ c.state \in NodeStates /\ ~c.afterIgnoredChildBlock
    BY <1>6, Starting DEF ArgPropTerminator, ArgPropBraceClose, RestKeys
  <2>2. \/ Finish(c)
        \/ x.err # "none" /\ (Finish(x) \/ Reenter(x))
        \/ /\ x.err = "none"
           /\ Finish(popNodeAndState(x)) \/ Reenter(popNodeAndState(x))
    BY <1>6 DEF ArgPropTerminator, ArgPropBraceClose
  <2>3. FlushedTo(x)
    BY <2>1, FlushedReady
  <2> HIDE DEF x
  <2>4. x.err = "none" =>
            Advance(popNodeAndState(x)) /\ popNodeAndState(x).state \in ScopeStates
    BY <2>1, <2>3, ClosedAdvance DEF FlushedTo
  <2>5. QED
    BY <2>1, <2>2, <2>4, SharedOutcomes, Finished, Reentered
<1>7. ASSUME ArgPropValue PROVE Done
  <2> DEFINE x == flushIdent(c)
             y == [x EXCEPT !.ident = tok]
             z == [x EXCEPT !.ident = tok, !.state = "ArgProp"]
  <2>1. /\ Ready /\ c.state = "ArgProp" /\ tok \in Token
        /\ \/ x.err # "none" /\ Finish(x)
           \/ x.err = "none" /\ Finish(y)
    BY <1>7, Starting DEF ArgPropValue
  <2>2. FlushedTo(x)
    BY <2>1, FlushedReady
  <2> HIDE DEF x
  <2>3. ASSUME x.err = "none" PROVE Advance(y)
    <3>1. x \in Context /\ Quiet(c, x) /\ x.state = "ArgProp"
      BY <2>1, <2>2, <2>3 DEF FlushedTo, Quiet
    <3>2. y = z
      BY <3>1 DEF Context
    <3>3. Advance(z)
      BY <2>1, <3>1, MovedAdvance
    <3>4. QED
      BY <3>2, <3>3
  <2> HIDE DEF y
  <2>4. QED
    BY <2>1, <2>3, Finished
<1>8. ASSUME PropertyValueParensOpen PROVE Done
  <2>1. /\ Ready /\ c.state = "PropertyValue" /\ ~c.afterIgnoredChildBlock
        /\ Finish(pushState(c, "TypeAnnot"))
    BY <1>8, Starting DEF PropertyValueParensOpen, RestKeys
  <2>2. QED
    BY <2>1, TypeEnteredAdvance, Finished
<1>9. ASSUME PropertyValueValue PROVE Done
  <2> DEFINE w == [c EXCEPT !.ignoreNextArgProp = FALSE]
             a == addPropertyToken(c, tok)
             x == IF c.ignoreNextArgProp THEN w ELSE a
             y == [clearPending(x) EXCEPT !.state = "Node"]
  <2>1. /\ Ready /\ c.state = "PropertyValue" /\ tok \in Token
        /\ \/ x.err # "none" /\ Finish(x)
           \/ x.err = "none" /\ Finish(y)
    BY <1>9, Starting DEF PropertyValueValue
  <2>2. c \in Context /\ Sound(c) /\ c.node # <<>>
    BY <2>1, <1>0, SoundTypes
  <2>3. w \in Context /\ Quiet(c, w)
    BY <2>2, QuietTemporaries DEF Context
  <2>4. a.err = "none" => a \in Context /\ Quiet(c, a)
    <3>1. Outcome(a)
      BY <2>1, <2>2, AddProperty
    <3>2. QED
      BY <2>2, <3>1, SoundOutcome, QuietValues DEF Sound
  <2> HIDE DEF w, a
  <2>5. x.err = "none" => x \in Context /\ Quiet(c, x)
    BY <2>3, <2>4
  <2> HIDE DEF x
  <2>6. x.err = "none" => Advance(y)
    BY <2>1, <2>5, MovedAdvance
  <2> HIDE DEF y
  <2>7. QED
    BY <2>1, <2>6, Finished
<1>10. QED
  BY <1>1, <1>2, <1>3, <1>4, <1>5, <1>6, <1>7, <1>8, <1>9,
     ArgPropSlashdashDone, ArgPropBraceOpenDone DEF EntryHandler

----------------------------------------------------------------------------
(* Every step of parseOne.                                                 *)

\* The checks that precede the transition function arm nothing: they may disarm
\* the rule about the rest of the line, and end a continuation.
LEMMA ParseAdvance ==
  ASSUME TInv, Parse, pc' # "rejected"
  PROVE  /\ pc' = "handle" /\ Advance(c')
         /\ c'.afterIgnoredChildBlock => tok'.id \in RestOfLine
<1> DEFINE a == leaveIgnoredChildBlock(c, tok)
           b == trackContinuation(a, tok)
           y == [b EXCEPT !.recent = prevKind(tok)]
           Same(u, v) == /\ v.states = u.states /\ v.state = u.state /\ v.node = u.node
                         /\ v.doc = u.doc /\ v.comment = u.comment /\ v.ident = u.ident
                         /\ v.ignoreNextNode = u.ignoreNextNode
                         /\ v.ignoreChildren = u.ignoreChildren
                         /\ v.ignoreChildBlockFromContinuation
                                = u.ignoreChildBlockFromContinuation
<1>1. /\ Ready /\ c \in Context /\ tok' = tok /\ pc' = "handle" /\ c' = y
      /\ ~rejectedAfterIgnored(c, tok)
  BY DEF TInv, IInv, Parse, Reject, Ready, Sound
<1>2. /\ a \in Context /\ Same(c, a)
      /\ a.continuation = c.continuation
      /\ a.continuationNewlineSeen = c.continuationNewlineSeen
      /\ a.afterIgnoredChildBlock =>
             c.afterIgnoredChildBlock /\ tok.id \notin {"Newline", "EOF", "Continuation"}
  BY <1>1, ZenonT(60) DEF leaveIgnoredChildBlock, Context
<1>3. c.continuationNewlineSeen => c.continuation
  BY <1>1 DEF Ready, Marks
<1> HIDE DEF a
<1>4. /\ b \in Context /\ Same(a, b)
      /\ b.afterIgnoredChildBlock = a.afterIgnoredChildBlock
      /\ b.continuationNewlineSeen => b.continuation
  BY <1>2, <1>3, ZenonT(60) DEF trackContinuation, stopContinuation, Context
<1> HIDE DEF b
<1>5. /\ Same(b, y) /\ y.afterIgnoredChildBlock = b.afterIgnoredChildBlock
      /\ y.continuationNewlineSeen => y.continuation
  BY <1>4 DEF Context
<1> HIDE DEF y
<1>6. Same(c, y)
  BY <1>2, <1>4, <1>5
<1>7. y.afterIgnoredChildBlock => c.afterIgnoredChildBlock /\ tok'.id \in RestOfLine
  BY <1>1, <1>2, <1>4, <1>5 DEF rejectedAfterIgnored, RestOfLine
<1>8. Len(c.doc) \in Nat /\ Len(c.node) \in Nat
  BY <1>1, SoundTypes DEF Ready
<1>9. OnlyCurrent(c, y.doc) /\ CommentsStay(c, y.doc)
  BY <1>6, <1>8, SameDocument
<1>10. InScope(y) = InScope(c)
  BY <1>6 DEF InScope, Innermost
<1>11. Path(y) /\ Hidden(y)
  BY <1>1, <1>6, <1>9, <1>10, ScopeTree DEF Ready
<1>12. Marks(y)
  <2>1. Named(y) /\ Owners(y)
    BY <1>1, <1>6 DEF Ready, Marks, Named, Owners, Innermost
  <2>2. QED
    BY <1>1, <1>5, <1>6, <1>7, <1>10, <2>1 DEF Ready, Marks
<1>13. ~(Len(y.node) > Len(c.node))
  BY <1>6, <1>8
<1>14. Advance(y)
  BY <1>6, <1>9, <1>11, <1>12, <1>13 DEF Advance
<1>15. QED
  BY <1>1, <1>7, <1>14

\* What every step shows, unless it rejects the document.
Stepped ==
    pc' # "rejected" =>
        /\ Advance(c')
        /\ pc' = "handle" /\ c'.afterIgnoredChildBlock => tok'.id \in RestOfLine
        /\ pc = "handle" /\ pc' = "parse" => c'.state \in ScopeStates

LEMMA NextStepped == TInv /\ [Next]_vars => Stepped
<1> SUFFICES ASSUME TInv, [Next]_vars PROVE Stepped
  OBVIOUS
<1>1. CASE Parse
  BY <1>1, ParseAdvance DEF Stepped, Parse
<1>2. CASE NoHandler
  <2>1. Unexpected(c).err # "none"
    BY <1>2, SharedOutcomes DEF NoHandler, TInv, IInv, Ready, Sound
  <2>2. QED
    BY <1>2, <2>1 DEF NoHandler, Finish, Reject, Stepped
<1>3. CASE ScopeHandler \/ TypeHandler \/ NodeHandler \/ EntryHandler
  BY <1>3, ScopeHandlerDone, TypeHandlerDone, NodeHandlerDone, EntryHandlerDone
     DEF Done, Stepped
<1>4. ASSUME UNCHANGED c, UNCHANGED vars \/ \E t \in Tokens : Scan(t) PROVE Stepped
  <2>1. pc' # "rejected" => Advance(c')
    BY <1>4, SharedOutcomes DEF TInv, IInv, Ready, Sound, Scan, vars
  <2>2. QED
    BY <1>4, <2>1 DEF Stepped, Scan, vars, TInv
<1>5. QED
  BY <1>1, <1>2, <1>3, <1>4 DEF Next, Step, Returned, Scan, vars

\* Parsing starts in the invariant ...
LEMMA InitTInv == Init => TInv
<1> SUFFICES ASSUME Init PROVE TInv
  OBVIOUS
<1>1. c = NewContext /\ pc = "scan"
  BY DEF Init
<1>2. /\ c.states = <<>> /\ c.state = "Document" /\ c.node = <<>>
      /\ ~c.ignoreNextNode /\ ~c.afterIgnoredChildBlock /\ c.ignoreChildren = 0
      /\ ~c.ignoreChildBlockFromContinuation /\ ~c.continuationNewlineSeen
  BY <1>1 DEF NewContext
<1>3. InScope(c)
  BY <1>2, InScopeOf, Kinds
<1>4. Marks(c)
  <2>1. Named(c) /\ Owners(c)
    BY <1>2, Kinds DEF Named, Owners
  <2>2. QED
    BY <1>2, <2>1 DEF Marks
<1>5. Path(c) /\ Hidden(c)
  BY <1>2, <1>3 DEF Path, Hidden, OpenBlocks
<1>6. QED
  BY <1>1, <1>4, <1>5, InitIInv DEF TInv

\* ... and every step keeps it.
LEMMA NextTInv == TInv /\ [Next]_vars => TInv'
<1> SUFFICES ASSUME TInv, [Next]_vars PROVE TInv'
  OBVIOUS
<1>1. IInv'
  BY NextIInv DEF TInv
<1>2. Stepped
  BY NextStepped
<1>3. pc' # "rejected" => (Marks(c) /\ Path(c) /\ Hidden(c))'
  BY <1>2 DEF Stepped, Advance, Marks, Path, Hidden, Named, Owners, Innermost, InScope,
              OpenBlocks
<1>4. (pc = "handle" /\ c.afterIgnoredChildBlock => tok.id \in RestOfLine)'
  BY <1>2 DEF Stepped
<1>5. QED
  BY <1>1, <1>3, <1>4 DEF TInv

\* The invariant holds throughout every call of Parse.
LEMMA SpecTInv == Spec => []TInv
BY InitTInv, NextTInv, PTL DEF Spec

----------------------------------------------------------------------------
(* The theorems.                                                           *)

\* The invariant implies the properties of states, while the document is read ...
LEMMA ReadingProperties ==
  ASSUME TInv, pc # "rejected"
  PROVE  /\ NodeSlashdashInScope /\ PropertyHasName /\ OpenNodesFormPath
         /\ IgnoredBlockMarks /\ IgnoredBlocksDetached
<1>1. Sound(c) /\ Marks(c) /\ Path(c) /\ Hidden(c)
  BY DEF TInv, IInv
<1>2. DOMAIN c.node = 1 .. Len(c.node) /\ DOMAIN c.doc = 1 .. Len(c.doc)
  BY <1>1, SoundTypes
<1>3. NodeSlashdashInScope /\ PropertyHasName
  BY <1>1 DEF Marks, Named, NodeSlashdashInScope, PropertyHasName
<1>4. OpenNodesFormPath
  BY <1>1, <1>2 DEF Path, Sound, NodesExist, OpenNodesFormPath
<1>5. IgnoredBlocksDetached
  BY <1>1, <1>2 DEF Hidden, IgnoredBlocksDetached
<1>6. IgnoredBlockMarks
  BY <1>1, Kinds, SoundTypes DEF Marks, IgnoredBlockMarks
<1>7. QED
  BY <1>3, <1>4, <1>5, <1>6

\* ... and after it was dropped.
LEMMA TInvProperties ==
  ASSUME TInv
  PROVE  /\ NodeSlashdashInScope /\ PropertyHasName /\ OpenNodesFormPath
         /\ IgnoredBlockMarks /\ IgnoredBlocksDetached
<1>1. CASE pc = "rejected"
  <2>1. PICK e : c = Fail(NewContext, e)
    BY <1>1 DEF TInv, IInv
  <2>2. /\ c.states = <<>> /\ c.state = "Document" /\ c.node = <<>>
        /\ ~c.ignoreNextNode /\ ~c.afterIgnoredChildBlock /\ c.ignoreChildren = 0
        /\ ~c.ignoreChildBlockFromContinuation /\ ~c.continuationNewlineSeen
    BY <2>1 DEF NewContext, Fail
  <2>3. InScope(c) /\ OpenBlocks(c) = 0 /\ DOMAIN c.node = {}
    BY <2>2, InScopeOf, Kinds DEF OpenBlocks
  <2>4. PropertyHasName
    BY <2>2, Kinds DEF PropertyHasName
  <2>5. QED
    BY <2>2, <2>3, <2>4 DEF NodeSlashdashInScope, OpenNodesFormPath, IgnoredBlockMarks,
                            IgnoredBlocksDetached
<1>2. QED
  BY <1>1, ReadingProperties

\* A slashdash before a node never leaks into one: it is used up, or refused, in the
\* scope it was read in (ignoreNextNode; stateDocument, stateChildren and stateNode
\* of transitions.go).
THEOREM SlashdashStaysInScope == Spec => []NodeSlashdashInScope
BY SpecTInv, TInvProperties, PTL

\* A value is attached with "=" only to a token that may name a property, however
\* the name was queued (c.ident; stateNodeParams, stateArgProp, stateProperty).
THEOREM PropertiesAreNamed == Spec => []PropertyHasName
BY SpecTInv, TInvProperties, PTL

\* The open nodes are nested in the document as they are on the node stack
\* (addNode and createNode of context.go).
THEOREM OpenNodesNested == Spec => []OpenNodesFormPath
BY SpecTInv, TInvProperties, PTL

\* The marks of an ignored child block agree: what restricts the rest of its line is
\* set when it has closed, and nothing about it outlives it (ignoreChildren,
\* afterIgnoredChildBlock and ignoreChildBlockFromContinuation of context.go).
THEOREM IgnoredMarksAgree == Spec => []IgnoredBlockMarks
BY SpecTInv, TInvProperties, PTL

\* Nothing in an ignored child block becomes part of the document, however blocks are
\* nested in it (ignoreChildren; the BraceOpen and BraceClose handlers).
THEOREM IgnoredBlocksStayOut == Spec => []IgnoredBlocksDetached
BY SpecTInv, TInvProperties, PTL

\* What one step does with the entries, the pending temporaries and the comments.
LEMMA StepProperties ==
  ASSUME TInv, Stepped
  PROVE  /\ pc' # "rejected" => \A i \in DOMAIN c.doc :
                c.node = <<>> \/ i # currentNode(c) =>
                    /\ c'.doc[i].args = c.doc[i].args
                    /\ c'.doc[i].props = c.doc[i].props
                    /\ c'.doc[i].typ = c.doc[i].typ
         /\ Len(c'.node) > Len(c.node) /\ pc' # "rejected" =>
                ~Valid(c'.typeAnnot) /\ ~c'.ignoreNextNode
         /\ pc = "handle" /\ pc' = "parse" => c'.state \in ScopeStates
<1>1. CASE pc' = "rejected"
  BY <1>1
<1>2. CASE pc' # "rejected"
  <2>1. Advance(c')
    BY <1>2 DEF Stepped
  <2>2. pc # "rejected" => DOMAIN c.doc = 1 .. Len(c.doc)
    BY SoundTypes DEF TInv, IInv
  <2>3. pc = "rejected" => DOMAIN c.doc = {}
    BY DEF TInv, IInv, NewContext, Fail
  <2>4. \A i \in DOMAIN c.doc : i \in 1 .. Len(c.doc)
    BY <2>2, <2>3
  <2>5. QED
    BY <1>2, <2>1, <2>4 DEF Stepped, Advance, OnlyCurrent, SameEntries
<1>3. QED
  BY <1>1, <1>2

\* A node that was closed, or that has an open child, keeps its arguments, its
\* properties and its type: addArgumentToken and addPropertyToken (context.go) work
\* on the innermost open node only.
THEOREM EntriesGoInnermost == Spec => OnlyInnermostGrows
<1>1. TInv /\ [Next]_vars =>
        [\A i \in DOMAIN c.doc :
            pc' # "rejected" /\ (c.node = <<>> \/ i # currentNode(c)) =>
                /\ c'.doc[i].args = c.doc[i].args
                /\ c'.doc[i].props = c.doc[i].props
                /\ c'.doc[i].typ = c.doc[i].typ]_vars
  BY NextStepped, StepProperties
<1>2. QED
  BY <1>1, SpecTInv, PTL DEF Spec, OnlyInnermostGrows

\* The pending type and the pending slashdash end with the node they were read for:
\* a node never starts with what was meant for another (the identifier handlers).
THEOREM PendingIsUsed == Spec => OpeningUsesPending
<1>1. TInv /\ [Next]_vars =>
        [Len(c'.node) > Len(c.node) /\ pc' # "rejected" =>
            ~Valid(c'.typeAnnot) /\ ~c'.ignoreNextNode]_vars
  BY NextStepped, StepProperties
<1>2. QED
  BY <1>1, SpecTInv, PTL DEF Spec, OpeningUsesPending

\* A handler that asks for its token to be parsed again has closed its node, so that
\* the second call runs in a scope, whose handlers never ask (ErrReenterState).
THEOREM ReentryFindsScope == Spec => ReentersInScope
<1>1. TInv /\ [Next]_vars =>
        [pc = "handle" /\ pc' = "parse" => c'.state \in ScopeStates]_vars
  BY NextStepped, StepProperties
<1>2. QED
  BY <1>1, SpecTInv, PTL DEF Spec, ReentersInScope

\* No comment is lost or duplicated on its way to a node: what ParseComments keeps is
\* pending until it moves, all of it, to one node (writeComment and attachComments).
THEOREM CommentsArrive == Spec => CommentsKept
<1> DEFINE A ==
        pc' # "rejected" =>
          \/ /\ c'.comment \in {c.comment, c.comment + 1}
             /\ \A i \in DOMAIN c'.doc : c'.doc[i].comments = Attached(i)
          \/ /\ c'.comment = 0
             /\ \E i \in DOMAIN c'.doc :
                   /\ c'.doc[i].comments = Attached(i) + c.comment
                   /\ \A j \in DOMAIN c'.doc \ {i} : c'.doc[j].comments = Attached(j)
<1>1. TInv /\ [Next]_vars => A
  <2> SUFFICES ASSUME TInv, [Next]_vars, pc' # "rejected" PROVE A
    OBVIOUS
  <2>1. Advance(c')
    BY NextStepped DEF Stepped
  <2>2. DOMAIN c'.doc = 1 .. Len(c'.doc)
    <3>1. Sound(c')
      BY NextIInv DEF TInv, IInv
    <3>2. QED
      BY <3>1, SoundTypes
  <2>3. \A i : Attached(i) = Had(c, i)
    <3>1. CASE pc = "rejected"
      BY <3>1 DEF TInv, IInv, NewContext, Fail, Attached, Had
    <3>2. CASE pc # "rejected"
      BY <3>2, SoundTypes DEF TInv, IInv, Attached, Had
    <3>3. QED
      BY <3>1, <3>2
  <2>4. CASE c'.comment \in {c.comment, c.comment + 1} /\ CommentsStay(c, c'.doc)
    BY <2>2, <2>3, <2>4 DEF CommentsStay
  <2>5. CASE c'.comment = 0 /\ \E n \in 1 .. Len(c'.doc) : CommentsGo(c, c'.doc, n)
    <3>1. PICK n \in 1 .. Len(c'.doc) : CommentsGo(c, c'.doc, n)
      BY <2>5
    <3>2. /\ c'.doc[n].comments = Attached(n) + c.comment
          /\ \A j \in DOMAIN c'.doc \ {n} : c'.doc[j].comments = Attached(j)
      BY <2>2, <2>3, <3>1 DEF CommentsGo
    <3>3. QED
      BY <2>2, <2>5, <3>2
  <2>6. QED
    BY <2>1, <2>4, <2>5 DEF Advance
<1>2. TInv /\ [Next]_vars => [A]_vars
  BY <1>1
<1>3. QED
  BY <1>2, SpecTInv, PTL DEF Spec, CommentsKept

----------------------------------------------------------------------------
(* What is reachable from the root of the document.                      *)

\* A node can be reached iff it was added to the root or to a node that can.
LEMMA ReachableParents ==
  ASSUME NEW doc, NEW i \in DOMAIN doc
  PROVE  i \in Reachable(doc) <=> doc[i].parent = 0 \/ doc[i].parent \in Reachable(doc)
<1> DEFINE R == Reachable(doc)
           T == {j \in DOMAIN doc : doc[j].parent = 0 \/ doc[j].parent \in R}
<1>1. HoldsChildren(doc, R)
  <2> SUFFICES ASSUME NEW j \in DOMAIN doc, doc[j].parent = 0 \/ doc[j].parent \in R,
                      NEW S \in SUBSET DOMAIN doc, HoldsChildren(doc, S)
               PROVE  j \in S
    BY DEF Reachable, HoldsChildren
  <2>1. doc[j].parent = 0 \/ doc[j].parent \in S
    BY DEF Reachable
  <2>2. QED
    BY <2>1 DEF HoldsChildren
<1>2. T \subseteq R
  BY <1>1 DEF HoldsChildren
<1>3. HoldsChildren(doc, T)
  BY <1>2 DEF HoldsChildren
<1>4. R \subseteq T
  <2>1. T \in SUBSET DOMAIN doc
    OBVIOUS
  <2> HIDE DEF T
  <2>2. QED
    BY <1>3, <2>1 DEF Reachable
<1>5. QED
  BY <1>2, <1>4

\* What the nodes have does not matter ...
LEMMA SameReachable ==
  ASSUME NEW D, NEW E, DOMAIN E = DOMAIN D,
         \A i \in DOMAIN D : E[i].parent = D[i].parent
  PROVE  Reachable(E) = Reachable(D)
<1>1. \A S : HoldsChildren(E, S) <=> HoldsChildren(D, S)
  BY DEF HoldsChildren
<1>2. QED
  BY <1>1 DEF Reachable

\* ... and a node that is added changes nothing about those before it.
LEMMA GrownReachable ==
  ASSUME NEW D, NEW E, NEW n \in Nat, DOMAIN D = 1 .. n, DOMAIN E = 1 .. n + 1,
         \A i \in 1 .. n : E[i].parent = D[i].parent /\ D[i].parent # n + 1,
         E[n + 1].parent # n + 1
  PROVE  LET p == E[n + 1].parent IN
         Reachable(E) = IF p = 0 \/ p \in Reachable(D) THEN Reachable(D) \cup {n + 1}
                        ELSE Reachable(D)
<1> DEFINE p == E[n + 1].parent
           T == IF p = 0 \/ p \in Reachable(D) THEN Reachable(D) \cup {n + 1}
                ELSE Reachable(D)
           S == Reachable(E) \cap (1 .. n)
<1>0. /\ Reachable(D) \subseteq 1 .. n /\ Reachable(E) \subseteq 1 .. n + 1
      /\ n + 1 \in 1 .. n + 1 /\ n + 1 \notin 1 .. n
      /\ \A i \in 1 .. n + 1 : i \in 1 .. n \/ i = n + 1
      /\ \A i \in 1 .. n : i \in 1 .. n + 1
  BY DEF Reachable
<1>1. T \in SUBSET (1 .. n + 1)
  BY <1>0
<1>2. HoldsChildren(E, T)
  <2> SUFFICES ASSUME NEW i \in 1 .. n + 1, E[i].parent = 0 \/ E[i].parent \in T
               PROVE  i \in T
    BY DEF HoldsChildren
  <2>1. E[i].parent # n + 1
    BY <1>0
  <2>2. E[i].parent = 0 \/ E[i].parent \in Reachable(D)
    BY <2>1
  <2>3. CASE i = n + 1
    BY <2>2, <2>3
  <2>4. CASE i \in 1 .. n
    <3>1. D[i].parent = 0 \/ D[i].parent \in Reachable(D)
      BY <2>2, <2>4
    <3>2. i \in Reachable(D)
      BY <2>4, <3>1, ReachableParents
    <3>3. QED
      BY <3>2
  <2>5. QED
    BY <1>0, <2>3, <2>4
<1> HIDE DEF T
<1>3. Reachable(E) \subseteq T
  BY <1>1, <1>2 DEF Reachable
<1>4. HoldsChildren(D, S)
  <2> SUFFICES ASSUME NEW i \in 1 .. n, D[i].parent = 0 \/ D[i].parent \in S
               PROVE  i \in S
    BY DEF HoldsChildren
  <2>1. E[i].parent = 0 \/ E[i].parent \in Reachable(E)
    OBVIOUS
  <2>2. i \in DOMAIN E
    BY <1>0
  <2>3. i \in Reachable(E)
    BY <2>1, <2>2, ReachableParents
  <2>4. QED
    BY <2>3
<1>5. Reachable(D) \subseteq S
  <2>1. S \in SUBSET DOMAIN D
    OBVIOUS
  <2> HIDE DEF S
  <2>2. QED
    BY <1>4, <2>1 DEF Reachable
<1>6. p = 0 \/ p \in Reachable(D) => n + 1 \in Reachable(E)
  <2>1. p = 0 \/ p \in Reachable(D) => p = 0 \/ p \in Reachable(E)
    BY <1>5
  <2>2. n + 1 \in DOMAIN E
    BY <1>0
  <2>3. QED
    BY <2>1, <2>2, ReachableParents
<1>7. QED
  BY <1>3, <1>5, <1>6 DEF T

\* Inside a node there is one.
LEMMA NodeIsOpen ==
  ASSUME NEW x, Sound(x), ~InScope(x)
  PROVE  Len(x.node) > 0 /\ currentNode(x) \in 1 .. Len(x.doc)
<1>1. /\ x.states \in Seq(States) /\ Len(x.states) \in Nat /\ x.state \in States
      /\ Len(x.node) \in Nat
  BY SoundTypes
<1>2. Len(x.node) > 0
  <2>1. CASE x.state \in NodeStates
    BY <2>1, SoundTypes
  <2>2. CASE x.state \in TypeStates
    <3>1. x.states # <<>> /\ Len(x.states) > 0
      BY <1>1, <2>2, SoundTypes, Kinds
    <3>2. x.states[Len(x.states)] \notin ScopeStates
      BY <2>2, <3>1 DEF InScope, Innermost
    <3>3. 2 * Len(x.node) = Len(x.states)
      BY <2>2, <3>2 DEF Sound, Stacked, NodesMatchStates
    <3>4. QED
      BY <1>1, <3>1, <3>3
  <2>3. CASE x.state \in ScopeStates
    BY <2>3, InScopeOf
  <2>4. QED
    BY <1>1, <2>1, <2>2, <2>3, Kinds
<1>3. Len(x.node) \in 1 .. Len(x.node)
  BY <1>1, <1>2
<1>4. QED
  BY <1>2, <1>3 DEF currentNode, Sound, NodesExist

----------------------------------------------------------------------------
(* The frames of the outline.                                            *)

\* The outline has a frame for every open node and for every open block.
Height(x) == Len(x.node) + OpenBlocks(x)

Frames(x) == [k \in 1 .. Height(x) |-> FrameOf(x, k)]

\* Frame 2 * i - 1 is node i of the stack, frame 2 * i its block.
LEMMA HalfRange ==
  ASSUME NEW n \in Nat, NEW k \in 1 .. 2 * n
  PROVE  /\ (k + 1) \div 2 \in 1 .. n
         /\ k % 2 \in {0, 1}
         /\ k < 2 * n - 1 => (k + 1) \div 2 \in 1 .. n - 1
         /\ k = 2 * n => (k + 1) \div 2 = n /\ k % 2 = 0
         /\ k = 2 * n - 1 => (k + 1) \div 2 = n /\ k % 2 = 1
OBVIOUS

\* The outline has as many frames, and they are these.
LEMMA OutlineFrames ==
  ASSUME NEW x, Sound(x)
  PROVE  LET n == Len(x.node) IN
         /\ n \in Nat /\ Height(x) \in Nat
         /\ InScope(x) => Height(x) = 2 * n
         /\ ~InScope(x) => n > 0 /\ Height(x) = 2 * n - 1
         /\ Len(Frames(x)) = Height(x)
         /\ DOMAIN Frames(x) = 1 .. Height(x)
         /\ \A k \in 1 .. Height(x) : Frames(x)[k] = FrameOf(x, k)
<1> DEFINE n == Len(x.node)
<1>1. n \in Nat /\ (~InScope(x) => n > 0)
  BY SoundTypes, NodeIsOpen
<1>2. /\ InScope(x) => Height(x) = 2 * n
      /\ ~InScope(x) => Height(x) = 2 * n - 1
  <2> HIDE DEF n
  <2>1. Height(x) = n + IF InScope(x) THEN n ELSE n - 1
    BY DEF Height, OpenBlocks, n
  <2>2. QED
    BY <1>1, <2>1
<1>3. Height(x) \in Nat
  BY <1>1, <1>2
<1>4. Len(Frames(x)) = Height(x) /\ DOMAIN Frames(x) = 1 .. Height(x)
  BY <1>3 DEF Frames
<1>5. \A k \in 1 .. Height(x) : Frames(x)[k] = FrameOf(x, k)
  BY DEF Frames
<1>6. QED
  BY <1>1, <1>2, <1>3, <1>4, <1>5

\* A node that hangs off nothing cannot be reached.
LEMMA DetachedUnreachable ==
  ASSUME NEW x, Sound(x), NEW i \in 1 .. Len(x.doc), x.doc[i].parent = Detached
  PROVE  i \notin Reachable(x.doc)
<1>1. DOMAIN x.doc = 1 .. Len(x.doc) /\ Len(x.doc) \in Nat
  BY SoundTypes
<1>2. Detached \notin Reachable(x.doc) /\ Detached # 0
  BY <1>1 DEF Reachable, Detached
<1>3. QED
  BY <1>1, <1>2, ReachableParents

\* The innermost node of an ignored block cannot be reached.
LEMMA IgnoredUnreachable ==
  ASSUME NEW x, Sound(x), Hidden(x), ~InScope(x), x.ignoreChildren > 0
  PROVE  currentNode(x) \notin Reachable(x.doc)
<1>1. /\ Len(x.node) \in Nat /\ Len(x.node) > 0 /\ x.ignoreChildren \in Nat
      /\ currentNode(x) \in 1 .. Len(x.doc)
  BY SoundTypes, NodeIsOpen DEF Sound, Context
<1>2. x.doc[currentNode(x)].parent = Detached
  BY <1>1 DEF Hidden, OpenBlocks, currentNode
<1>3. QED
  BY <1>1, <1>2, DetachedUnreachable

\* An outline, field by field.
Drawing(F, n, r, s, E, b, k) ==
    [frames |-> F, nodes |-> n, read |-> r, slashdashes |-> s, entries |-> E,
     nodeMark |-> b, entryMark |-> k]

Shows(d, F, n, r, s, E, b, k) == d = Drawing(F, n, r, s, E, b, k)

\* There is only one with these fields.
LEMMA ShownAlike ==
  ASSUME NEW F, NEW n, NEW r, NEW s, NEW E, NEW b, NEW k, NEW d, NEW e,
         Shows(d, F, n, r, s, E, b, k), Shows(e, F, n, r, s, E, b, k)
  PROVE  d = e
BY DEF Shows

\* How many entries the nodes have in the outline.
Counts(D) == [i \in Reachable(D) |-> Entries(D[i])]

\* How many entries of the input are settled.
Settled(x, s) == s.entries - Pending(x)

\* What is in the outline of the parser.
LEMMA OutlineDrawn ==
  ASSUME NEW x, NEW s
  PROVE  Shows(OutlineOf(x, s), Frames(x), s.nodes, Settled(x, s), s.slashdashes,
               Counts(x.doc), x.ignoreNextNode, x.ignoreNextArgProp)
BY DEF OutlineOf, Shows, Drawing, Frames, Height, Settled, Counts

\* What the operators of KdlOutline do with an outline.
LEMMA DrawingFields ==
  ASSUME NEW F, NEW n, NEW r, NEW s, NEW E, NEW b, NEW k, NEW d,
         Shows(d, F, n, r, s, E, b, k)
  PROVE  /\ d.frames = F /\ d.nodes = n /\ d.read = r /\ d.slashdashes = s
         /\ d.entries = E /\ d.nodeMark = b /\ d.entryMark = k
         /\ Outline!Top(d) = F[Len(F)]
         /\ Outline!InNode(d) <=> F # <<>> /\ ~F[Len(F)].block
         /\ Outline!Dead(d) <=> F # <<>> /\ F[Len(F)].dead
<1>1. /\ d.frames = F /\ d.nodes = n /\ d.read = r /\ d.slashdashes = s
      /\ d.entries = E /\ d.nodeMark = b /\ d.entryMark = k
  BY DEF Shows, Drawing
<1>2. /\ Outline!Top(d) = F[Len(F)]
      /\ Outline!InNode(d) <=> F # <<>> /\ ~F[Len(F)].block
      /\ Outline!Dead(d) <=> F # <<>> /\ F[Len(F)].dead
  BY <1>1 DEF Outline!Top, Outline!InNode, Outline!Dead
<1>3. QED
  BY <1>1, <1>2

\* A slashdash is read before a node or in one, ...
NodeMarked(d) == [d EXCEPT !.slashdashes = @ + 1, !.nodeMark = TRUE]

EntryMarked(d) == [d EXCEPT !.slashdashes = @ + 1, !.entryMark = TRUE]

LEMMA DrawingMarked ==
  ASSUME NEW F, NEW n, NEW r, NEW s, NEW E, NEW b, NEW k, NEW d,
         Shows(d, F, n, r, s, E, b, k)
  PROVE  /\ Shows(NodeMarked(d), F, n, r, s + 1, E, TRUE, k)
         /\ Shows(EntryMarked(d), F, n, r, s + 1, E, b, TRUE)
<1>1. PICK t, u : t = TRUE /\ u = s + 1
  OBVIOUS
<1>2. d = Drawing(F, n, r, s, E, b, k) /\ d.slashdashes = s
  BY DEF Shows, Drawing
<1>3. PICK y : y = [d EXCEPT !.slashdashes = u]
  OBVIOUS
<1>4. y = Drawing(F, n, r, u, E, b, k)
  BY <1>2, <1>3 DEF Drawing
<1>5. /\ [y EXCEPT !.nodeMark = t] = Drawing(F, n, r, u, E, t, k)
      /\ [y EXCEPT !.entryMark = t] = Drawing(F, n, r, u, E, b, t)
  BY <1>4 DEF Drawing
<1>6. /\ [y EXCEPT !.nodeMark = t] = [d EXCEPT !.slashdashes = u, !.nodeMark = t]
      /\ [y EXCEPT !.entryMark = t] = [d EXCEPT !.slashdashes = u, !.entryMark = t]
  BY <1>3
<1>7. /\ NodeMarked(d) = [d EXCEPT !.slashdashes = u, !.nodeMark = t]
      /\ EntryMarked(d) = [d EXCEPT !.slashdashes = u, !.entryMark = t]
  BY <1>1, <1>2 DEF NodeMarked, EntryMarked
<1>8. QED
  BY <1>1, <1>5, <1>6, <1>7 DEF Shows

\* ... a frame is closed, ...
LEMMA DrawingClosed ==
  ASSUME NEW F, NEW n, NEW r, NEW s, NEW E, NEW b, NEW k, NEW d,
         Shows(d, F, n, r, s, E, b, k)
  PROVE  Shows(Outline!Close(d), SubSeq(F, 1, Len(F) - 1), n, r, s, E, b, k)
<1>1. PICK g : g = SubSeq(F, 1, Len(F) - 1)
  OBVIOUS
<1>2. d = Drawing(F, n, r, s, E, b, k) /\ d.frames = F
  BY DEF Shows, Drawing
<1>3. [d EXCEPT !.frames = g] = Drawing(g, n, r, s, E, b, k)
  BY <1>2 DEF Drawing
<1>4. QED
  BY <1>1, <1>2, <1>3 DEF Outline!Close, Shows

\* ... or one is opened, for a block or for a node.
BlockOpened(d, f) == [Outline!Open(d, f) EXCEPT !.entryMark = FALSE]

NodeOpened(d, f, m, G) ==
    [Outline!Open(d, f) EXCEPT !.nodes = m, !.entries = G, !.nodeMark = FALSE]

LEMMA DrawingOpened ==
  ASSUME NEW F, NEW n, NEW r, NEW s, NEW E, NEW b, NEW k, NEW d,
         Shows(d, F, n, r, s, E, b, k), NEW f, NEW m, NEW G
  PROVE  /\ Shows(BlockOpened(d, f), Append(F, f), n, r, s, E, b, FALSE)
         /\ Shows(NodeOpened(d, f, m, G), Append(F, f), m, r, s, G, FALSE, k)
<1>1. PICK g, t : g = Append(F, f) /\ t = FALSE
  OBVIOUS
<1>2. d = Drawing(F, n, r, s, E, b, k) /\ d.frames = F
  BY DEF Shows, Drawing
<1>3. PICK z : z = [d EXCEPT !.frames = g]
  OBVIOUS
<1>4. z = Drawing(g, n, r, s, E, b, k)
  BY <1>2, <1>3 DEF Drawing
<1>5. [z EXCEPT !.entryMark = t] = Drawing(g, n, r, s, E, b, t)
  BY <1>4 DEF Drawing
<1>6. [z EXCEPT !.nodes = m, !.entries = G, !.nodeMark = t] = Drawing(g, m, r, s, G, t, k)
  <2>1. PICK y : y = [z EXCEPT !.nodes = m, !.entries = G]
    OBVIOUS
  <2>2. y = Drawing(g, m, r, s, G, b, k)
    BY <1>4, <2>1 DEF Drawing
  <2>3. [y EXCEPT !.nodeMark = t] = Drawing(g, m, r, s, G, t, k)
    BY <2>2 DEF Drawing
  <2>4. [y EXCEPT !.nodeMark = t] = [z EXCEPT !.nodes = m, !.entries = G, !.nodeMark = t]
    BY <2>1
  <2>5. QED
    BY <2>3, <2>4
<1>7. Outline!Open(d, f) = z
  BY <1>1, <1>2, <1>3 DEF Outline!Open
<1>8. QED
  BY <1>1, <1>5, <1>6, <1>7 DEF Shows, BlockOpened, NodeOpened

\* The entries E of outline d, with one more that its entry mark k may hide.
WithEntry(d, E, k) ==
    IF k \/ Outline!Dead(d) THEN E ELSE Outline!OneMore(E, Outline!Top(d).node)

\* An entry is read.
LEMMA DrawingEntered ==
  ASSUME NEW F, NEW n, NEW r, NEW s, NEW E, NEW b, NEW k, NEW d,
         Shows(d, F, n, r, s, E, b, k)
  PROVE  Shows(Outline!Entry(d), F, n, r + 1, s, WithEntry(d, E, k), b, FALSE)
<1>1. PICK t, u : t = FALSE /\ u = r + 1
  OBVIOUS
<1>2. PICK G : G = WithEntry(d, E, k)
  OBVIOUS
<1>3. /\ d = Drawing(F, n, r, s, E, b, k)
      /\ d.read = r /\ d.entries = E /\ d.entryMark = k
  BY DEF Shows, Drawing
<1>4. Outline!Entry(d) = [d EXCEPT !.read = u, !.entries = G, !.entryMark = t]
  BY <1>1, <1>2, <1>3 DEF Outline!Entry, WithEntry
<1>5. PICK y : y = [d EXCEPT !.read = u, !.entries = G]
  OBVIOUS
<1>6. y = Drawing(F, n, u, s, G, b, k)
  BY <1>3, <1>5 DEF Drawing
<1>7. [y EXCEPT !.entryMark = t] = Drawing(F, n, u, s, G, b, t)
  BY <1>6 DEF Drawing
<1>8. [y EXCEPT !.entryMark = t] = [d EXCEPT !.read = u, !.entries = G, !.entryMark = t]
  BY <1>5
<1>9. QED
  BY <1>1, <1>2, <1>4, <1>7, <1>8 DEF Shows

\* What the outline says about the innermost frame.
LEMMA OutlineTop ==
  ASSUME NEW x, Sound(x), Hidden(x), NEW s
  PROVE  LET o == OutlineOf(x, s)
             top == Outline!Top(o)
         IN  /\ Outline!InNode(o) <=> ~InScope(x)
             /\ o.frames = <<>> <=> x.node = <<>>
             /\ x.node # <<>> =>
                  /\ top.block <=> InScope(x)
                  /\ top.node = currentNode(x)
                  /\ top.dead <=> \/ currentNode(x) \notin Reachable(x.doc)
                                  \/ InScope(x) /\ x.ignoreChildren > 0
<1> DEFINE n == Len(x.node)
           o == OutlineOf(x, s)
           top == Outline!Top(o)
           h == Height(x)
<1>0. o.frames = Frames(x)
  BY OutlineDrawn, DrawingFields
<1>1. /\ n \in Nat /\ h \in Nat /\ x.ignoreChildren \in Nat /\ x.node \in Seq(Nat)
      /\ InScope(x) => h = 2 * n
      /\ ~InScope(x) => n > 0 /\ h = 2 * n - 1
      /\ Len(o.frames) = h /\ DOMAIN o.frames = 1 .. h
      /\ \A k \in 1 .. h : o.frames[k] = FrameOf(x, k)
  BY <1>0, OutlineFrames, SoundTypes DEF Sound, Context
<1>2. o.frames = <<>> <=> x.node = <<>>
  <2>1. x.node = <<>> <=> n = 0
    BY <1>1
  <2>2. o.frames = <<>> <=> h = 0
    <3>1. o.frames = [k \in 1 .. h |-> FrameOf(x, k)]
      BY <1>0 DEF Frames
    <3>2. QED
      BY <1>1, <3>1
  <2>3. QED
    BY <1>1, <2>1, <2>2
<1>3. ASSUME n > 0
      PROVE  /\ top.block <=> InScope(x)
             /\ top.node = currentNode(x)
             /\ top.dead <=> \/ currentNode(x) \notin Reachable(x.doc)
                             \/ InScope(x) /\ x.ignoreChildren > 0
  <2>1. h > 0 /\ top = FrameOf(x, h)
    BY <1>1, <1>3 DEF Outline!Top
  <2>2. currentNode(x) = x.node[n]
    BY DEF currentNode
  <2> HIDE DEF top, n, h
  <2>3. CASE InScope(x)
    <3>1. h = 2 * n /\ h \in 1 .. 2 * n
      BY <1>1, <1>3, <2>3
    <3>2. (h + 1) \div 2 = n /\ h % 2 = 0
      BY <1>1, <3>1, HalfRange
    <3>3. OpenBlocks(x) = n
      BY <2>3 DEF OpenBlocks, n
    <3>4. n > n - x.ignoreChildren <=> x.ignoreChildren > 0
      BY <1>1
    <3>5. top = [block |-> TRUE,
                 dead |-> x.node[n] \notin Reachable(x.doc) \/ n > n - x.ignoreChildren,
                 node |-> x.node[n]]
      BY <2>1, <3>2, <3>3 DEF FrameOf
    <3>6. QED
      BY <2>2, <2>3, <3>4, <3>5
  <2>4. CASE ~InScope(x)
    <3>1. h = 2 * n - 1 /\ h \in 1 .. 2 * n
      BY <1>1, <1>3, <2>4
    <3>2. (h + 1) \div 2 = n /\ h % 2 = 1
      BY <1>1, <3>1, HalfRange
    <3>3. (h % 2 = 0) = FALSE
      BY <3>2
    <3>5. top = [block |-> FALSE,
                 dead |-> x.node[n] \notin Reachable(x.doc),
                 node |-> x.node[n]]
      BY <2>1, <3>2, <3>3 DEF FrameOf
    <3>6. QED
      BY <2>2, <2>4, <3>5
  <2>5. QED
    BY <2>3, <2>4
<1>4. x.node # <<>> => n > 0
  BY <1>1
<1>5. Outline!InNode(o) <=> ~InScope(x)
  <2>1. CASE n = 0
    BY <1>1, <1>2, <2>1 DEF Outline!InNode
  <2>2. CASE n > 0
    <3>1. x.node # <<>>
      BY <1>1, <2>2
    <3>2. Outline!InNode(o) <=> ~top.block
      BY <1>2, <3>1 DEF Outline!InNode
    <3>3. QED
      BY <1>3, <2>2, <3>2
  <2>3. QED
    BY <1>1, <2>1, <2>2
<1>6. QED
  BY <1>2, <1>3, <1>4, <1>5

\* A sequence without its last element.
LEMMA SequencePrefix ==
  ASSUME NEW S, NEW g \in Seq(S), NEW h \in Nat, Len(g) = h + 1
  PROVE  /\ SubSeq(g, 1, h) \in Seq(S) /\ Len(SubSeq(g, 1, h)) = h
         /\ \A k \in 1 .. h : SubSeq(g, 1, h)[k] = g[k]
<1>1. \A k \in 1 .. h : g[k] \in S
  BY ElementOfSeq
<1>2. h - 1 + 1 = h /\ \A k \in 1 .. h : 1 + k - 1 = k
  OBVIOUS
<1>3. /\ SubSeq(g, 1, h) \in Seq(S)
      /\ Len(SubSeq(g, 1, h)) = IF 1 <= h THEN h - 1 + 1 ELSE 0
      /\ \A k \in 1 .. h - 1 + 1 : SubSeq(g, 1, h)[k] = g[1 + k - 1]
  BY <1>1, SubSeqProperties
<1>4. QED
  BY <1>2, <1>3

\* A sequence, and the same with one element more.
LEMMA OneLonger ==
  ASSUME NEW S, NEW h \in Nat, NEW f \in Seq(S), NEW g \in Seq(S),
         Len(f) = h, Len(g) = h + 1,
         \A k \in 1 .. h : g[k] = f[k]
  PROVE  g = Append(f, g[h + 1]) /\ f = SubSeq(g, 1, Len(g) - 1)
<1>1. f \in Seq(S) /\ Len(f) = h /\ g \in Seq(S) /\ Len(g) = h + 1 /\ g[h + 1] \in S
  <2>1. h + 1 \in 1 .. h + 1
    OBVIOUS
  <2>2. QED
    BY <2>1, ElementOfSeq
<1>2. /\ Append(f, g[h + 1]) \in Seq(S) /\ Len(Append(f, g[h + 1])) = h + 1
      /\ \A k \in 1 .. h : Append(f, g[h + 1])[k] = f[k]
      /\ Append(f, g[h + 1])[h + 1] = g[h + 1]
  BY <1>1, AppendProperties
<1>3. g = Append(f, g[h + 1])
  <2>1. \A k \in 1 .. h + 1 : g[k] = Append(f, g[h + 1])[k]
    <3> SUFFICES ASSUME NEW k \in 1 .. h + 1 PROVE g[k] = Append(f, g[h + 1])[k]
      OBVIOUS
    <3>1. k \in 1 .. h \/ k = h + 1
      OBVIOUS
    <3>2. QED
      BY <1>2, <3>1
  <2>2. QED
    BY <1>1, <1>2, <2>1, SeqEqual
<1>4. f = SubSeq(g, 1, Len(g) - 1)
  <2>1. Len(g) - 1 = h
    BY <1>1
  <2>2. /\ SubSeq(g, 1, h) \in Seq(S) /\ Len(SubSeq(g, 1, h)) = h
        /\ \A k \in 1 .. h : SubSeq(g, 1, h)[k] = g[k]
    BY <1>1, SequencePrefix
  <2>3. \A k \in 1 .. h : f[k] = SubSeq(g, 1, h)[k]
    BY <2>2
  <2>4. f = SubSeq(g, 1, h)
    BY <1>1, <2>2, <2>3, SeqEqual
  <2>5. QED
    BY <2>1, <2>4
<1>5. QED
  BY <1>3, <1>4

\* The blocks above the border are ignored.
Border(x) == OpenBlocks(x) - x.ignoreChildren

\* The frames of nodes and blocks that stay as they are.
LEMMA FramesKept ==
  ASSUME NEW x, NEW y, NEW h,
         \A k \in 1 .. h :
            LET i == (k + 1) \div 2 IN
            /\ y.node[i] = x.node[i]
            /\ y.node[i] \in Reachable(y.doc) <=> x.node[i] \in Reachable(x.doc)
            /\ k % 2 = 0 => (i > Border(y) <=> i > Border(x))
  PROVE  \A k \in 1 .. h : FrameOf(y, k) = FrameOf(x, k)
<1> SUFFICES ASSUME NEW k \in 1 .. h PROVE FrameOf(y, k) = FrameOf(x, k)
  OBVIOUS
<1> DEFINE i == (k + 1) \div 2
           dead(z) == z.node[i] \notin Reachable(z.doc) \/ (k % 2 = 0 /\ i > Border(z))
<1>1. dead(y) = dead(x) /\ y.node[i] = x.node[i]
  OBVIOUS
<1>2. \A z : FrameOf(z, k) = [block |-> k % 2 = 0, dead |-> dead(z), node |-> z.node[i]]
  BY DEF FrameOf, Border
<1> HIDE DEF dead, i
<1>3. PICK b, d, n : b = (k % 2 = 0) /\ d = dead(x) /\ n = x.node[i]
  OBVIOUS
<1>4. /\ FrameOf(x, k) = [block |-> b, dead |-> d, node |-> n]
      /\ FrameOf(y, k) = [block |-> b, dead |-> d, node |-> n]
  BY <1>1, <1>2, <1>3
<1>5. QED
  BY <1>4

\* Nodes do not hang off nodes that come after them.
Rooted(x) == \A i \in 1 .. Len(x.doc) : x.doc[i].parent <= Len(x.doc)

\* Nothing is opened or closed, wherever the step is.
Beside(y) ==
    /\ y.node = c.node /\ Len(y.doc) = Len(c.doc) /\ OnlyCurrent(c, y.doc)
    /\ InScope(y) <=> InScope(c)
    /\ y.ignoreChildren = c.ignoreChildren

\* Then all nodes can be reached that could ...
LEMMA ReachKept ==
  ASSUME Ready, NEW y, Sound(y), Len(y.doc) = Len(c.doc), OnlyCurrent(c, y.doc)
  PROVE  Reachable(y.doc) = Reachable(c.doc)
<1>1. DOMAIN y.doc = DOMAIN c.doc /\ DOMAIN c.doc = 1 .. Len(c.doc)
  BY SoundTypes DEF Ready
<1>2. QED
  BY <1>1, SameReachable DEF OnlyCurrent

\* ... and the frames are what they were.
LEMMA BesideOutline ==
  ASSUME Ready, NEW y, Sound(y), Beside(y)
  PROVE  Reachable(y.doc) = Reachable(c.doc) /\ Frames(y) = Frames(c)
<1>1. Reachable(y.doc) = Reachable(c.doc)
  BY ReachKept DEF Beside
<1>2. Height(y) = Height(c) /\ Border(y) = Border(c)
  BY DEF Beside, Height, Border, OpenBlocks
<1>3. \A k \in 1 .. Height(c) : FrameOf(y, k) = FrameOf(c, k)
  BY <1>1, <1>2, FramesKept DEF Beside
<1>4. QED
  BY <1>1, <1>2, <1>3 DEF Frames

\* No node of c has other entries in D ...
SameCounts(D) == \A i \in 1 .. Len(c.doc) : Entries(D[i]) = Entries(c.doc[i])

\* ... or the innermost one has one more.
OneMore(D) ==
    \A i \in 1 .. Len(c.doc) :
        Entries(D[i]) = IF i = currentNode(c) THEN Entries(c.doc[i]) + 1
                        ELSE Entries(c.doc[i])

\* k entries were settled, none or one: what the entries and the mark m on the next
\* one are then.
Settles(D, m, k) ==
    \/ k = 0 /\ m = c.ignoreNextArgProp /\ SameCounts(D)
    \/ /\ k = 1 /\ m = FALSE /\ ~InScope(c)
       /\ IF c.ignoreNextArgProp THEN SameCounts(D) ELSE OneMore(D)

\* What the tokens of the input were counted as.
Counted ==
    /\ seen \in [nodes : Nat, entries : Int, slashdashes : Nat]
    /\ seen.nodes = Len(c.doc)

\* The outline before the step, ...
SettledOutline(D, m, k) ==
    Drawing(Frames(c), Len(c.doc), Settled(c, seen) + k, seen.slashdashes, Counts(D),
            c.ignoreNextNode, m)

\* ... and with the entry, if one was settled: it is one of the outlines in which a
\* frame may open or close.
LEMMA OutlineSettled ==
  ASSUME Ready, Counted, NEW D, NEW m, NEW k, Settles(D, m, k),
         Reachable(D) = Reachable(c.doc)
  PROVE  \/ k = 0 /\ SettledOutline(D, m, k) = OutlineOf(c, seen)
         \/ k = 1 /\ ~InScope(c) /\ SettledOutline(D, m, k) = Outline!Entry(OutlineOf(c, seen))
<1> DEFINE a == OutlineOf(c, seen)
           R == Reachable(c.doc)
           i == currentNode(c)
           E == Counts(c.doc)
           r == Settled(c, seen)
<1>1. R \subseteq 1 .. Len(c.doc) /\ r \in Int /\ r + 0 = r
  <2>1. R \subseteq 1 .. Len(c.doc)
    BY SoundTypes DEF Reachable, Ready
  <2>2. Pending(c) \in {0, 1} /\ seen.entries \in Int
    BY DEF Pending, Counted
  <2>3. r \in Int
    BY <2>2 DEF Settled
  <2>4. QED
    BY <2>1, <2>3
<1>2. Shows(a, Frames(c), Len(c.doc), r, seen.slashdashes, E, c.ignoreNextNode,
            c.ignoreNextArgProp)
  BY OutlineDrawn DEF Counted
<1>3. SameCounts(D) => Counts(D) = E
  BY <1>1 DEF SameCounts, Counts
<1>4. ASSUME k = 0, m = c.ignoreNextArgProp, SameCounts(D) PROVE SettledOutline(D, m, k) = a
  BY <1>1, <1>2, <1>3, <1>4 DEF SettledOutline, Shows
<1>5. ASSUME k = 1, m = FALSE, ~InScope(c),
             IF c.ignoreNextArgProp THEN SameCounts(D) ELSE OneMore(D)
      PROVE  SettledOutline(D, m, k) = Outline!Entry(a)
  <2>1. /\ Outline!Top(a).node = i
        /\ Outline!Dead(a) <=> i \notin R
    <3>1. c.node # <<>>
      BY <1>5, NodeIsOpen, SoundTypes DEF Ready
    <3>2. QED
      BY <1>5, <3>1, OutlineTop DEF Ready, Outline!Dead
  <2>2. Counts(D) = WithEntry(a, E, c.ignoreNextArgProp)
    <3>1. CASE c.ignoreNextArgProp
      BY <1>3, <1>5, <3>1 DEF WithEntry
    <3>2. CASE ~c.ignoreNextArgProp
      <4>1. Counts(D) = IF i \in R THEN [E EXCEPT ![i] = E[i] + 1] ELSE E
        BY <1>1, <1>5, <3>2 DEF OneMore, Counts
      <4>2. Outline!OneMore(E, i) = [E EXCEPT ![i] = E[i] + 1]
        BY DEF Outline!OneMore
      <4> HIDE DEF a, R, i, E
      <4>3. QED
        BY <2>1, <3>2, <4>1, <4>2 DEF WithEntry
    <3>3. QED
      BY <3>1, <3>2
  <2> HIDE DEF a, E, r
  <2>3. Shows(Outline!Entry(a), Frames(c), Len(c.doc), r + 1, seen.slashdashes,
              WithEntry(a, E, c.ignoreNextArgProp), c.ignoreNextNode, FALSE)
    BY <1>2, DrawingEntered
  <2>4. QED
    BY <1>5, <2>2, <2>3 DEF SettledOutline, r, Shows
<1>6. QED
  BY <1>4, <1>5 DEF Settles

----------------------------------------------------------------------------
(* The steps of the outline.                                             *)

\* How many entries the step settles, if y comes after c.
Gain(y) == Given + Pending(c) - Pending(y)

\* The token is no name of a node and no slashdash.
Neutral == ~NamesNode /\ ~Slashdashed

\* The step goes on, and into no defect: it starts and ends in the invariant.
Continuing ==
    /\ Ready /\ Rooted(c) /\ Counted
    /\ Sound(c') /\ Path(c') /\ Hidden(c') /\ OnlyCurrent(c, c'.doc)
    /\ ~defect /\ ~defect'
    /\ seen' = [nodes |-> seen.nodes + IF NamesNode THEN 1 ELSE 0,
                entries |-> seen.entries + Given,
                slashdashes |-> seen.slashdashes + IF Slashdashed THEN 1 ELSE 0]

\* What a step of the parser must be in the outline.
Outlined ==
    /\ Outline!ONext \/ outline' = outline
    /\ Rooted(c') /\ Counted'

\* What the token adds to the counts.
LEMMA GivenTypes == Given \in {-1, 0, 1} /\ \A x : Pending(x) \in {0, 1}
<1>1. \A x : Pending(x) \in {0, 1}
  BY DEF Pending
<1>2. -Pending(c) \in {-1, 0, 1}
  <2>1. PICK p \in {0, 1} : p = Pending(c)
    BY <1>1
  <2>2. -p \in {-1, 0, 1}
    OBVIOUS
  <2>3. QED
    BY <2>1, <2>2
<1>3. Given \in {-1, 0, 1}
  BY <1>2 DEF Given
<1>4. QED
  BY <1>1, <1>3

\* The counts after the step.
LEMMA CountedAfter ==
  ASSUME Continuing
  PROVE  /\ seen'.nodes = IF NamesNode THEN Len(c.doc) + 1 ELSE Len(c.doc)
         /\ seen'.slashdashes = IF Slashdashed THEN seen.slashdashes + 1 ELSE seen.slashdashes
         /\ Settled(c', seen') = Settled(c, seen) + Gain(c')
         /\ seen' \in [nodes : Nat, entries : Int, slashdashes : Nat]
<1>1. /\ seen.nodes = Len(c.doc) /\ seen.nodes \in Nat /\ seen.entries \in Int
      /\ seen.slashdashes \in Nat
  BY DEF Continuing, Counted
<1>2. /\ seen'.nodes = seen.nodes + IF NamesNode THEN 1 ELSE 0
      /\ seen'.entries = seen.entries + Given
      /\ seen'.slashdashes = seen.slashdashes + IF Slashdashed THEN 1 ELSE 0
      /\ seen' = [nodes |-> seen'.nodes, entries |-> seen'.entries,
                  slashdashes |-> seen'.slashdashes]
  BY DEF Continuing
<1>3. Given \in Int /\ Pending(c) \in Int /\ Pending(c') \in Int
  BY GivenTypes
<1>4. /\ seen'.nodes = IF NamesNode THEN Len(c.doc) + 1 ELSE Len(c.doc)
      /\ seen'.nodes \in Nat
  <2>1. CASE NamesNode
    BY <1>1, <1>2, <2>1
  <2>2. CASE ~NamesNode
    BY <1>1, <1>2, <2>2
  <2>3. QED
    BY <2>1, <2>2
<1>5. /\ seen'.slashdashes = IF Slashdashed THEN seen.slashdashes + 1 ELSE seen.slashdashes
      /\ seen'.slashdashes \in Nat
  <2>1. CASE Slashdashed
    BY <1>1, <1>2, <2>1
  <2>2. CASE ~Slashdashed
    BY <1>1, <1>2, <2>2
  <2>3. QED
    BY <2>1, <2>2
<1>6. Settled(c', seen') = Settled(c, seen) + Gain(c')
  BY <1>1, <1>2, <1>3 DEF Settled, Gain
<1>7. seen'.entries \in Int
  BY <1>1, <1>2, <1>3
<1>8. QED
  BY <1>2, <1>4, <1>5, <1>6, <1>7

\* The outlines before and after the step are those of the two contexts.
LEMMA OutlinePrimed ==
  ASSUME Continuing
  PROVE  outline = OutlineOf(c, seen) /\ outline' = OutlineOf(c', seen')
<1>1. outline = OutlineOf(c, seen)
  BY DEF Continuing, outline
<1>2. outline' = OutlineOf(c', seen')
  BY DEF Continuing, outline, OutlineOf, FrameOf, Reachable, HoldsChildren, OpenBlocks,
         InScope, Innermost, Entries, Pending
<1>3. QED
  BY <1>1, <1>2

\* The outline after the step, field by field.
LEMMA OutlineAfter ==
  ASSUME Continuing
  PROVE  Shows(outline', Frames(c'), seen'.nodes, Settled(c, seen) + Gain(c'),
               seen'.slashdashes, Counts(c'.doc), c'.ignoreNextNode, c'.ignoreNextArgProp)
BY CountedAfter, OutlinePrimed, OutlineDrawn

\* The outline before the step, field by field.
LEMMA OutlineBefore ==
  ASSUME Continuing
  PROVE  /\ outline = OutlineOf(c, seen)
         /\ Shows(outline, Frames(c), Len(c.doc), Settled(c, seen), seen.slashdashes,
                  Counts(c.doc), c.ignoreNextNode, c.ignoreNextArgProp)
         /\ Outline!InNode(outline) <=> ~InScope(c)
BY OutlinePrimed, OutlineDrawn, OutlineTop DEF Continuing, Counted, Ready

\* An outline in which the last entry is settled is one the abstract step may start from.
LEMMA SettledMember ==
  ASSUME Continuing, NEW D, NEW m, NEW k, Settles(D, m, k),
         Reachable(D) = Reachable(c.doc)
  PROVE  /\ SettledOutline(D, m, k) \in Outline!Settled
         /\ \/ SettledOutline(D, m, k) = outline
            \/ Outline!InNode(outline) /\ SettledOutline(D, m, k) = Outline!Entry(outline)
<1>1. outline = OutlineOf(c, seen) /\ (Outline!InNode(outline) <=> ~InScope(c))
  BY OutlineBefore
<1>2. \/ SettledOutline(D, m, k) = OutlineOf(c, seen)
      \/ ~InScope(c) /\ SettledOutline(D, m, k) = Outline!Entry(OutlineOf(c, seen))
  BY OutlineSettled DEF Continuing
<1>3. QED
  BY <1>1, <1>2 DEF Outline!Settled

\* Nodes with the same entries are counted alike.
LEMMA CountsKept ==
  ASSUME Ready, NEW D, SameCounts(D), Reachable(D) = Reachable(c.doc)
  PROVE  Counts(D) = Counts(c.doc)
<1>1. Reachable(c.doc) \subseteq 1 .. Len(c.doc)
  BY SoundTypes DEF Reachable, Ready
<1>2. QED
  BY <1>1 DEF SameCounts, Counts

\* Reading on in the same frame keeps the nodes where they are.
LEMMA RootedBeside ==
  ASSUME Continuing, Len(c'.doc) = Len(c.doc), ~NamesNode
  PROVE  Rooted(c') /\ Counted'
BY CountedAfter DEF Continuing, OnlyCurrent, Rooted, Counted

\* Nothing happens, or an entry of the innermost node is read.
LEMMA EntryOutlined ==
  ASSUME Continuing, Beside(c'), c'.ignoreNextNode = c.ignoreNextNode, Neutral,
         Settles(c'.doc, c'.ignoreNextArgProp, Gain(c'))
  PROVE  Outlined
<1>1. Reachable(c'.doc) = Reachable(c.doc) /\ Frames(c') = Frames(c)
  BY BesideOutline DEF Continuing
<1>2. outline' = SettledOutline(c'.doc, c'.ignoreNextArgProp, Gain(c'))
  BY <1>1, OutlineAfter, CountedAfter DEF SettledOutline, Neutral, Shows
<1>3. Outline!ReadEntry \/ outline' = outline
  BY <1>1, <1>2, SettledMember DEF Outline!ReadEntry
<1>4. QED
  BY <1>3, RootedBeside DEF Outlined, Outline!ONext, Beside, Neutral

\* A slashdash is read where a node may begin ...
LEMMA MarkNodeOutlined ==
  ASSUME Continuing, Beside(c'), InScope(c), c'.ignoreNextNode = TRUE,
         c'.ignoreNextArgProp = c.ignoreNextArgProp, SameCounts(c'.doc),
         Slashdashed, ~NamesNode, Gain(c') = 0
  PROVE  Outlined
<1>1. Reachable(c'.doc) = Reachable(c.doc) /\ Frames(c') = Frames(c)
  BY BesideOutline DEF Continuing
<1>2. Counts(c'.doc) = Counts(c.doc)
  BY <1>1, CountsKept DEF Continuing
<1>3. Settled(c, seen) + Gain(c') = Settled(c, seen)
  <2>1. Settled(c, seen) \in Int
    BY GivenTypes DEF Settled, Continuing, Counted
  <2>2. QED
    BY <2>1
<1>4. Shows(outline', Frames(c), Len(c.doc), Settled(c, seen), seen.slashdashes + 1,
            Counts(c.doc), TRUE, c.ignoreNextArgProp)
  BY <1>1, <1>2, <1>3, OutlineAfter, CountedAfter
<1>5. outline' = NodeMarked(outline)
  <2>1. Shows(NodeMarked(outline), Frames(c), Len(c.doc), Settled(c, seen),
              seen.slashdashes + 1, Counts(c.doc), TRUE, c.ignoreNextArgProp)
    BY OutlineBefore, DrawingMarked
  <2>2. QED
    BY <1>4, <2>1, ShownAlike
<1>6. Outline!MarkNode
  BY <1>5, OutlineBefore DEF Outline!MarkNode, NodeMarked
<1>7. QED
  BY <1>6, RootedBeside DEF Outlined, Outline!ONext, Beside

\* ... or in a node, after its last entry was settled.
LEMMA MarkEntryOutlined ==
  ASSUME Continuing, Beside(c'), ~InScope(c), c'.ignoreNextNode = c.ignoreNextNode,
         NEW m, Settles(c'.doc, m, Gain(c')), c'.ignoreNextArgProp = TRUE,
         Slashdashed, ~NamesNode
  PROVE  Outlined
<1> DEFINE x == SettledOutline(c'.doc, m, Gain(c'))
<1>1. Reachable(c'.doc) = Reachable(c.doc) /\ Frames(c') = Frames(c)
  BY BesideOutline DEF Continuing
<1>2. x \in Outline!Settled
  BY <1>1, SettledMember
<1>3. Shows(x, Frames(c), Len(c.doc), Settled(c, seen) + Gain(c'), seen.slashdashes,
            Counts(c'.doc), c.ignoreNextNode, m)
  BY DEF SettledOutline, Shows
<1> HIDE DEF x
<1>4. Shows(outline', Frames(c), Len(c.doc), Settled(c, seen) + Gain(c'),
            seen.slashdashes + 1, Counts(c'.doc), c.ignoreNextNode, TRUE)
  BY <1>1, OutlineAfter, CountedAfter
<1>5. outline' = EntryMarked(x)
  <2>1. Shows(EntryMarked(x), Frames(c), Len(c.doc), Settled(c, seen) + Gain(c'),
              seen.slashdashes + 1, Counts(c'.doc), c.ignoreNextNode, TRUE)
    BY <1>3, DrawingMarked
  <2>2. QED
    BY <1>4, <2>1, ShownAlike
<1>6. Outline!InNode(outline)
  BY OutlineBefore
<1>7. Outline!MarkEntry
  BY <1>2, <1>5, <1>6 DEF Outline!MarkEntry, EntryMarked
<1>8. QED
  BY <1>7, RootedBeside DEF Outlined, Outline!ONext, Beside

\* The frames of the first m nodes of the stack, the last one without (b = 1) or with
\* (b = 0) its block, stay as they are.
LEMMA StackKept ==
  ASSUME NEW y, NEW m \in Nat, NEW b \in {0, 1}, NEW h, h = 2 * m - b,
         \A i \in 1 .. m : /\ y.node[i] = c.node[i]
                           /\ y.node[i] \in Reachable(y.doc) <=> c.node[i] \in Reachable(c.doc),
         \A i \in 1 .. m - b : i > Border(y) <=> i > Border(c)
  PROVE  \A k \in 1 .. h : FrameOf(y, k) = FrameOf(c, k)
<1>1. \A k \in 1 .. h :
         LET i == (k + 1) \div 2 IN
         /\ y.node[i] = c.node[i]
         /\ y.node[i] \in Reachable(y.doc) <=> c.node[i] \in Reachable(c.doc)
         /\ k % 2 = 0 => (i > Border(y) <=> i > Border(c))
  <2> SUFFICES ASSUME NEW k \in 1 .. h, NEW i, i = (k + 1) \div 2
               PROVE  /\ y.node[i] = c.node[i]
                      /\ y.node[i] \in Reachable(y.doc) <=> c.node[i] \in Reachable(c.doc)
                      /\ k % 2 = 0 => (i > Border(y) <=> i > Border(c))
    OBVIOUS
  <2>1. k \in 1 .. 2 * m
    OBVIOUS
  <2>2. i \in 1 .. m
    BY <2>1, HalfRange
  <2>3. k % 2 = 0 => i \in 1 .. m - b
    <3>1. CASE b = 0
      BY <2>2, <3>1
    <3>2. CASE b = 1
      <4>1. k < 2 * m - 1 \/ k = 2 * m - 1
        BY <3>2
      <4>2. QED
        BY <2>1, <3>2, <4>1, HalfRange
    <3>3. QED
      BY <3>1, <3>2
  <2>4. QED
    BY <2>2, <2>3
<1>2. QED
  BY <1>1, FramesKept, ZenonT(60)

\* The frames before and after the step.
LEMMA StepFrames ==
  ASSUME Continuing
  PROVE  LET n == Len(c.node) IN
         /\ n \in Nat /\ Len(c'.node) \in Nat /\ c.ignoreChildren \in Nat
         /\ c.node \in Seq(Nat)
         /\ c'.ignoreChildren \in Nat
         /\ InScope(c) => Height(c) = 2 * n /\ Border(c) = n - c.ignoreChildren
         /\ ~InScope(c) => n > 0 /\ Height(c) = 2 * n - 1 /\ Border(c) = n - 1 - c.ignoreChildren
         /\ InScope(c') => /\ Height(c') = 2 * Len(c'.node)
                           /\ Border(c') = Len(c'.node) - c'.ignoreChildren
         /\ ~InScope(c') => /\ Height(c') = 2 * Len(c'.node) - 1
                            /\ Border(c') = Len(c'.node) - 1 - c'.ignoreChildren
         /\ Frames(c) = [k \in 1 .. Height(c) |-> FrameOf(c, k)]
         /\ Frames(c') = [k \in 1 .. Height(c') |-> FrameOf(c', k)]
<1>1. Sound(c) /\ Sound(c')
  BY DEF Continuing, Ready
<1>2. /\ c.ignoreChildren \in Nat /\ c'.ignoreChildren \in Nat
      /\ c.node \in Seq(Nat)
  BY <1>1, SoundTypes DEF Sound, Context
<1>3. /\ InScope(c) => Height(c) = 2 * Len(c.node)
      /\ ~InScope(c) => Len(c.node) > 0 /\ Height(c) = 2 * Len(c.node) - 1
      /\ Len(c.node) \in Nat
  BY <1>1, OutlineFrames
<1>4. /\ InScope(c') => Height(c') = 2 * Len(c'.node)
      /\ ~InScope(c') => Height(c') = 2 * Len(c'.node) - 1
      /\ Len(c'.node) \in Nat
  BY <1>1, OutlineFrames
<1>5. /\ Frames(c) = [k \in 1 .. Height(c) |-> FrameOf(c, k)]
      /\ Frames(c') = [k \in 1 .. Height(c') |-> FrameOf(c', k)]
  BY DEF Frames
<1>6. \A x : Border(x) = IF InScope(x) THEN Len(x.node) - x.ignoreChildren
                         ELSE Len(x.node) - 1 - x.ignoreChildren
  BY DEF Border, OpenBlocks
<1>7. QED
  BY <1>2, <1>3, <1>4, <1>5, <1>6

\* Frames that are numbered are a sequence.
LEMMA NumberedFrames ==
  ASSUME NEW S, NEW x, NEW h \in Nat, NEW f, f = [k \in 1 .. h |-> FrameOf(x, k)],
         \A k \in 1 .. h : FrameOf(x, k) \in S
  PROVE  f \in Seq(S) /\ Len(f) = h /\ \A k \in 1 .. h : f[k] = FrameOf(x, k)
OBVIOUS

\* A frame is added ...
LEMMA FrameAdded ==
  ASSUME Continuing, NEW h \in Nat, h = Height(c), Height(c') = h + 1,
         \A k \in 1 .. h : FrameOf(c', k) = FrameOf(c, k)
  PROVE  Frames(c') = Append(Frames(c), FrameOf(c', h + 1))
<1>1. PICK f, g : f = Frames(c) /\ g = Frames(c')
  OBVIOUS
<1>2. f = [k \in 1 .. h |-> FrameOf(c, k)] /\ g = [k \in 1 .. h + 1 |-> FrameOf(c', k)]
  BY <1>1, StepFrames
<1>3. PICK S : /\ \A k \in 1 .. h : FrameOf(c, k) \in S
               /\ \A k \in 1 .. h + 1 : FrameOf(c', k) \in S
  <2> DEFINE S == {FrameOf(c, k) : k \in 1 .. h} \cup {FrameOf(c', k) : k \in 1 .. h + 1}
  <2>1. /\ \A k \in 1 .. h : FrameOf(c, k) \in S
        /\ \A k \in 1 .. h + 1 : FrameOf(c', k) \in S
    OBVIOUS
  <2> HIDE DEF S
  <2>2. QED
    BY <2>1
<1>4. f \in Seq(S) /\ Len(f) = h /\ \A k \in 1 .. h : f[k] = FrameOf(c, k)
  BY <1>2, <1>3, NumberedFrames
<1>5. /\ h + 1 \in Nat /\ h + 1 \in 1 .. h + 1
      /\ \A k \in 1 .. h : k \in 1 .. h + 1
  OBVIOUS
<1>6. g \in Seq(S) /\ Len(g) = h + 1 /\ \A k \in 1 .. h + 1 : g[k] = FrameOf(c', k)
  BY <1>2, <1>3, <1>5, NumberedFrames
<1>7. g = Append(f, g[h + 1])
  BY <1>4, <1>5, <1>6, OneLonger
<1>8. QED
  BY <1>1, <1>5, <1>6, <1>7

\* ... or taken away.
LEMMA FrameRemoved ==
  ASSUME Continuing, NEW h \in Nat, h = Height(c'), Height(c) = h + 1,
         \A k \in 1 .. h : FrameOf(c', k) = FrameOf(c, k)
  PROVE  Frames(c') = SubSeq(Frames(c), 1, Len(Frames(c)) - 1)
<1>1. PICK f, g : f = Frames(c') /\ g = Frames(c)
  OBVIOUS
<1>2. f = [k \in 1 .. h |-> FrameOf(c', k)] /\ g = [k \in 1 .. h + 1 |-> FrameOf(c, k)]
  BY <1>1, StepFrames
<1>3. PICK S : /\ \A k \in 1 .. h : FrameOf(c', k) \in S
               /\ \A k \in 1 .. h + 1 : FrameOf(c, k) \in S
  <2> DEFINE S == {FrameOf(c', k) : k \in 1 .. h} \cup {FrameOf(c, k) : k \in 1 .. h + 1}
  <2>1. /\ \A k \in 1 .. h : FrameOf(c', k) \in S
        /\ \A k \in 1 .. h + 1 : FrameOf(c, k) \in S
    OBVIOUS
  <2> HIDE DEF S
  <2>2. QED
    BY <2>1
<1>4. f \in Seq(S) /\ Len(f) = h /\ \A k \in 1 .. h : f[k] = FrameOf(c', k)
  BY <1>2, <1>3, NumberedFrames
<1>5. h + 1 \in Nat /\ \A k \in 1 .. h : k \in 1 .. h + 1
  OBVIOUS
<1>6. g \in Seq(S) /\ Len(g) = h + 1 /\ \A k \in 1 .. h + 1 : g[k] = FrameOf(c, k)
  BY <1>2, <1>3, <1>5, NumberedFrames
<1>7. f = SubSeq(g, 1, Len(g) - 1)
  BY <1>4, <1>5, <1>6, OneLonger
<1>8. QED
  BY <1>1, <1>7

\* The settled entries are counted.
LEMMA SettledInt ==
  ASSUME Continuing
  PROVE  Settled(c, seen) \in Int /\ Settled(c, seen) + 0 = Settled(c, seen)
<1>1. Settled(c, seen) \in Int
  BY GivenTypes DEF Settled, Continuing, Counted
<1>2. QED
  BY <1>1

\* A child block is closed.
LeavingBlock(y) ==
    /\ LeavesBlock(c, y) /\ c.node # <<>> /\ Len(y.doc) = Len(c.doc)
    /\ ~c.ignoreNextNode /\ ~y.ignoreNextNode
    /\ y.ignoreNextArgProp = c.ignoreNextArgProp
    /\ Neutral /\ Gain(y) = 0 /\ SameCounts(y.doc)

\* Closing a child block closes the frame of that block.
LEMMA CloseBlockOutlined ==
  ASSUME Continuing, LeavingBlock(c')
  PROVE  Outlined
<1> DEFINE n == Len(c.node)
           h == Height(c')
<1>1. Reachable(c'.doc) = Reachable(c.doc)
  BY ReachKept DEF Continuing, LeavingBlock, LeavesBlock
<1>2. /\ n \in Nat /\ n > 0 /\ Height(c) = 2 * n /\ h = 2 * n - 1 /\ h \in Nat /\ Height(c) = h + 1
      /\ c.ignoreChildren \in Nat
      /\ Border(c) = n - c.ignoreChildren /\ Border(c') = n - 1 - c'.ignoreChildren
      /\ c'.ignoreChildren = IF c.ignoreChildren = 0 THEN 0 ELSE c.ignoreChildren - 1
  <2>1. InScope(c) /\ ~InScope(c') /\ c'.node = c.node /\ n \in Nat /\ n > 0
        /\ c'.ignoreChildren = IF c.ignoreChildren = 0 THEN 0 ELSE c.ignoreChildren - 1
    BY StepFrames DEF LeavingBlock, LeavesBlock
  <2> HIDE DEF n, h
  <2>2. h = 2 * n - 1 /\ Height(c) = 2 * n /\ c.ignoreChildren \in Nat
        /\ Border(c) = n - c.ignoreChildren /\ Border(c') = n - 1 - c'.ignoreChildren
    BY <2>1, StepFrames DEF n, h
  <2>3. QED
    BY <2>1, <2>2
<1> HIDE DEF n, h
<1>3. \A i \in 1 .. n - 1 : i > Border(c') <=> i > Border(c)
  BY <1>2
<1>4. \A k \in 1 .. h : FrameOf(c', k) = FrameOf(c, k)
  BY <1>1, <1>2, <1>3, StackKept DEF LeavingBlock, LeavesBlock
<1>5. Frames(c') = SubSeq(Frames(c), 1, Len(Frames(c)) - 1)
  BY <1>2, <1>4, FrameRemoved DEF h
<1>6. outline' = Outline!Close(outline)
  <2>1. Counts(c'.doc) = Counts(c.doc)
    BY <1>1, CountsKept DEF Continuing, LeavingBlock
  <2>2. c'.ignoreNextNode = c.ignoreNextNode
    <3>1. c.ignoreNextNode \in BOOLEAN /\ c'.ignoreNextNode \in BOOLEAN
      BY DEF Continuing, Ready, Sound, Context
    <3>2. QED
      BY <3>1 DEF LeavingBlock
  <2>3. Settled(c, seen) + Gain(c') = Settled(c, seen)
    BY SettledInt DEF LeavingBlock
  <2>4. /\ seen'.nodes = Len(c.doc) /\ seen'.slashdashes = seen.slashdashes
        /\ c'.ignoreNextArgProp = c.ignoreNextArgProp
    BY CountedAfter DEF LeavingBlock, Neutral
  <2>5. Shows(outline', SubSeq(Frames(c), 1, Len(Frames(c)) - 1), Len(c.doc),
              Settled(c, seen), seen.slashdashes, Counts(c.doc), c.ignoreNextNode,
              c.ignoreNextArgProp)
    BY <1>5, <2>1, <2>2, <2>3, <2>4, OutlineAfter
  <2>6. Shows(Outline!Close(outline), SubSeq(Frames(c), 1, Len(Frames(c)) - 1), Len(c.doc),
              Settled(c, seen), seen.slashdashes, Counts(c.doc), c.ignoreNextNode,
              c.ignoreNextArgProp)
    BY OutlineBefore, DrawingClosed
  <2>7. QED
    BY <2>5, <2>6, ShownAlike
<1>7. outline.frames # <<>> /\ Outline!Top(outline).block /\ ~outline.nodeMark
  <2>1. outline.nodeMark = c.ignoreNextNode
    BY OutlineBefore, DrawingFields
  <2>2. QED
    BY <2>1, OutlineTop, OutlineBefore DEF LeavingBlock, LeavesBlock, Continuing, Ready
<1>8. Outline!CloseBlock
  BY <1>6, <1>7 DEF Outline!CloseBlock
<1>9. QED
  BY <1>8, RootedBeside DEF Outlined, Outline!ONext, LeavingBlock, Neutral

\* A node is closed, after its last entry was settled; no slashdash is left in it.
ClosingNode(y) ==
    /\ ~InScope(c) /\ InScope(y)
    /\ y.node = SubSeq(c.node, 1, Len(c.node) - 1)
    /\ Len(y.doc) = Len(c.doc)
    /\ y.ignoreChildren = c.ignoreChildren
    /\ y.ignoreNextNode = c.ignoreNextNode
    /\ y.ignoreNextArgProp = FALSE
    /\ Neutral /\ Settles(y.doc, FALSE, Gain(y))

\* Closing a node settles its last entry and closes its frame.
LEMMA CloseNodeOutlined ==
  ASSUME Continuing, ClosingNode(c')
  PROVE  Outlined
<1> DEFINE n == Len(c.node)
           h == Height(c')
           x == SettledOutline(c'.doc, FALSE, Gain(c'))
<1>1. Reachable(c'.doc) = Reachable(c.doc)
  BY ReachKept DEF Continuing, ClosingNode
<1>2. /\ n \in Nat /\ n > 0 /\ h = 2 * (n - 1) /\ h \in Nat /\ Height(c) = h + 1
      /\ n - 1 \in Nat
      /\ \A i \in 1 .. n - 1 : c'.node[i] = c.node[i]
      /\ Border(c) = Border(c')
  <2>1. ~InScope(c) /\ InScope(c') /\ n \in Nat /\ n > 0 /\ Height(c) = 2 * n - 1
        /\ c.ignoreChildren \in Nat /\ Border(c) = n - 1 - c.ignoreChildren
        /\ c.node \in Seq(Nat)
    BY StepFrames DEF ClosingNode
  <2>2. Len(c'.node) = n - 1 /\ \A i \in 1 .. n - 1 : c'.node[i] = c.node[i]
    BY <2>1 DEF ClosingNode
  <2> HIDE DEF n
  <2>3. h = 2 * (n - 1) /\ Border(c') = n - 1 - c.ignoreChildren
    BY <2>1, <2>2, StepFrames DEF ClosingNode
  <2> HIDE DEF h
  <2>4. h \in Nat /\ Height(c) = h + 1 /\ n - 1 \in Nat /\ Border(c) = Border(c')
    BY <2>1, <2>3
  <2>5. QED
    BY <2>1, <2>2, <2>3, <2>4
<1> HIDE DEF n, h
<1>3. \A k \in 1 .. h : FrameOf(c', k) = FrameOf(c, k)
  <2>1. h = 2 * (n - 1) - 0 /\ n - 1 - 0 = n - 1
    BY <1>2
  <2>2. QED
    BY <1>1, <1>2, <2>1, StackKept
<1>4. Frames(c') = SubSeq(Frames(c), 1, Len(Frames(c)) - 1)
  BY <1>2, <1>3, FrameRemoved DEF h
<1>5. x \in Outline!Settled
  BY <1>1, SettledMember DEF ClosingNode
<1>6. Shows(x, Frames(c), Len(c.doc), Settled(c, seen) + Gain(c'), seen.slashdashes,
            Counts(c'.doc), c.ignoreNextNode, FALSE)
  BY DEF SettledOutline, Shows
<1> HIDE DEF x
<1>7. outline' = Outline!Close(x)
  <2>1. /\ seen'.nodes = Len(c.doc) /\ seen'.slashdashes = seen.slashdashes
        /\ c'.ignoreNextArgProp = FALSE /\ c'.ignoreNextNode = c.ignoreNextNode
    BY CountedAfter DEF ClosingNode, Neutral
  <2>2. Shows(outline', SubSeq(Frames(c), 1, Len(Frames(c)) - 1), Len(c.doc),
              Settled(c, seen) + Gain(c'), seen.slashdashes, Counts(c'.doc),
              c.ignoreNextNode, FALSE)
    BY <1>4, <2>1, OutlineAfter
  <2>3. Shows(Outline!Close(x), SubSeq(Frames(c), 1, Len(Frames(c)) - 1), Len(c.doc),
              Settled(c, seen) + Gain(c'), seen.slashdashes, Counts(c'.doc),
              c.ignoreNextNode, FALSE)
    BY <1>6, DrawingClosed
  <2>4. QED
    BY <2>2, <2>3, ShownAlike
<1>8. Outline!InNode(outline) /\ ~x.entryMark
  <2>1. x.entryMark = FALSE
    BY <1>6 DEF Shows, Drawing
  <2>2. QED
    BY <2>1, OutlineBefore DEF ClosingNode
<1>9. Outline!CloseNode
  BY <1>5, <1>7, <1>8 DEF Outline!CloseNode
<1>10. QED
  BY <1>9, RootedBeside DEF Outlined, Outline!ONext, ClosingNode, Neutral

\* A child block is opened, after the last entry before it was settled (m): the block
\* uses the mark.
EnteringBlock(y, m) ==
    /\ EntersBlock(c, y) /\ Len(y.doc) = Len(c.doc)
    /\ y.ignoreNextNode = c.ignoreNextNode
    /\ Neutral /\ Settles(y.doc, m, Gain(y))
    /\ y.ignoreNextArgProp = FALSE
    /\ y.ignoreChildren > 0 <=> m \/ c.ignoreChildren > 0

\* Opening a child block settles the last entry and opens a frame, dead if it is ignored.
LEMMA OpenBlockOutlined ==
  ASSUME Continuing, NEW m \in BOOLEAN, EnteringBlock(c', m)
  PROVE  Outlined
<1> DEFINE n == Len(c.node)
           h == Height(c)
           s == SettledOutline(c'.doc, m, Gain(c'))
           i == currentNode(c)
           out == i \notin Reachable(c.doc)
           shut == c'.ignoreChildren > 0
<1>1. Reachable(c'.doc) = Reachable(c.doc)
  BY ReachKept DEF Continuing, EnteringBlock, EntersBlock
<1>2. /\ n \in Nat /\ n > 0 /\ h = 2 * n - 1 /\ h \in Nat /\ Height(c') = h + 1
      /\ h + 1 = 2 * n
      /\ c.ignoreChildren \in Nat /\ c'.ignoreChildren \in Nat
      /\ Border(c) = n - 1 - c.ignoreChildren /\ Border(c') = n - c'.ignoreChildren
      /\ \/ c'.ignoreChildren = c.ignoreChildren + 1
         \/ c.ignoreChildren = 0 /\ c'.ignoreChildren = 0
  <2>1. ~InScope(c) /\ InScope(c') /\ c'.node = c.node /\ n \in Nat /\ n > 0
        /\ \/ c'.ignoreChildren = c.ignoreChildren + 1
           \/ c.ignoreChildren = 0 /\ c'.ignoreChildren = 0
    BY StepFrames DEF EnteringBlock, EntersBlock
  <2> HIDE DEF n, h
  <2>2. h = 2 * n - 1 /\ Height(c') = 2 * n /\ c.ignoreChildren \in Nat
        /\ c'.ignoreChildren \in Nat
        /\ Border(c) = n - 1 - c.ignoreChildren /\ Border(c') = n - c'.ignoreChildren
    BY <2>1, StepFrames DEF n, h
  <2>3. QED
    BY <2>1, <2>2
<1> HIDE DEF n, h
<1>3. \A j \in 1 .. n - 1 : j > Border(c') <=> j > Border(c)
  BY <1>2
<1>4. \A k \in 1 .. h : FrameOf(c', k) = FrameOf(c, k)
  BY <1>1, <1>2, <1>3, StackKept DEF EnteringBlock, EntersBlock
<1>5. Frames(c') = Append(Frames(c), FrameOf(c', h + 1))
  BY <1>2, <1>4, FrameAdded DEF h
<1>6. FrameOf(c', h + 1) = [block |-> TRUE, dead |-> out \/ shut, node |-> i]
  <2>1. n \in Nat /\ 2 * n \in 1 .. 2 * n
    BY <1>2
  <2>2. (h + 1 + 1) \div 2 = n /\ (h + 1) % 2 = 0
    BY <1>2, <2>1, HalfRange
  <2>3. n > Border(c') <=> shut
    BY <1>2
  <2>4. c'.node[n] = i
    BY DEF EnteringBlock, EntersBlock, currentNode, n
  <2>5. FrameOf(c', h + 1) = [block |-> (h + 1) % 2 = 0,
                              dead |-> i \notin Reachable(c'.doc)
                                       \/ ((h + 1) % 2 = 0 /\ n > Border(c')),
                              node |-> i]
    BY <2>2, <2>4 DEF FrameOf, Border
  <2> HIDE DEF i
  <2>6. QED
    BY <1>1, <2>2, <2>3, <2>5
<1>7. s \in Outline!Settled
  BY <1>1, SettledMember DEF EnteringBlock
<1>8. /\ Outline!InNode(outline)
      /\ Outline!Top(outline).node = i
      /\ Outline!Dead(outline) <=> out
  <2>1. c.node # <<>>
    BY <1>2 DEF n
  <2>2. QED
    BY <2>1, OutlineTop, OutlineBefore
    DEF EnteringBlock, EntersBlock, Continuing, Ready, Outline!Dead
<1>9. c.ignoreChildren > 0 => out
  BY IgnoredUnreachable DEF EnteringBlock, EntersBlock, Continuing, Ready
<1>10. Shows(s, Frames(c), Len(c.doc), Settled(c, seen) + Gain(c'), seen.slashdashes,
             Counts(c'.doc), c.ignoreNextNode, m)
  BY DEF SettledOutline, Shows
<1> HIDE DEF s, i, out
<1>11. /\ s.entryMark = m
       /\ Outline!Dead(s) <=> out
       /\ Outline!Top(s).node = i
  <2>1. s.frames = outline.frames /\ s.entryMark = m
    BY <1>10, OutlineBefore, DrawingFields
  <2>2. QED
    BY <1>8, <2>1 DEF Outline!Dead, Outline!Top
<1> DEFINE frame == [block |-> TRUE, dead |-> s.entryMark \/ Outline!Dead(s),
                     node |-> Outline!Top(s).node]
<1>12. FrameOf(c', h + 1) = frame
  <2>1. (out \/ shut) <=> (s.entryMark \/ Outline!Dead(s))
    BY <1>9, <1>11 DEF EnteringBlock
  <2>2. (out \/ shut) = (s.entryMark \/ Outline!Dead(s))
    BY <2>1
  <2>3. QED
    BY <1>6, <1>11, <2>2
<1> HIDE DEF frame
<1>13. outline' = BlockOpened(s, frame)
  <2>1. /\ seen'.nodes = Len(c.doc) /\ seen'.slashdashes = seen.slashdashes
        /\ c'.ignoreNextArgProp = FALSE /\ c'.ignoreNextNode = c.ignoreNextNode
    BY CountedAfter DEF EnteringBlock, Neutral
  <2>2. Shows(outline', Append(Frames(c), frame), Len(c.doc), Settled(c, seen) + Gain(c'),
              seen.slashdashes, Counts(c'.doc), c.ignoreNextNode, FALSE)
    BY <1>5, <1>12, <2>1, OutlineAfter
  <2>3. Shows(BlockOpened(s, frame), Append(Frames(c), frame), Len(c.doc),
              Settled(c, seen) + Gain(c'), seen.slashdashes, Counts(c'.doc),
              c.ignoreNextNode, FALSE)
    BY <1>10, DrawingOpened
  <2>4. QED
    BY <2>2, <2>3, ShownAlike
<1>14. Outline!OpenBlock
  BY <1>7, <1>8, <1>13 DEF Outline!OpenBlock, BlockOpened, frame
<1>15. QED
  BY <1>14, RootedBeside DEF EnteringBlock, Outlined, Outline!ONext, Neutral

\* A node is opened under p, or detached if a slashdash waits for it or an ignored block
\* holds it; it has no entries.
OpeningNode(y, p) ==
    /\ Opens(c, y, p)
    /\ p \in {Detached, IF c.node = <<>> THEN 0 ELSE currentNode(c)}
    /\ p = Detached <=> c.ignoreNextNode \/ c.ignoreChildren > 0
    /\ y.ignoreNextNode = FALSE
    /\ y.ignoreNextArgProp = c.ignoreNextArgProp
    /\ SameCounts(y.doc)
    /\ Entries(y.doc[Len(c.doc) + 1]) = 0
    /\ NamesNode /\ ~Slashdashed /\ Gain(y) = 0

\* Where the new node hangs.
LEMMA NewParent ==
  ASSUME Continuing, NEW p, OpeningNode(c', p)
  PROVE  /\ p \in Int /\ p <= Len(c.doc)
         /\ (p = 0 \/ p \in Reachable(c.doc)) <=> ~(outline.nodeMark \/ Outline!Dead(outline))
<1>1. /\ Len(c.doc) \in Nat /\ Len(c.node) \in Nat /\ c.node \in Seq(Nat)
      /\ c.ignoreChildren \in Nat
      /\ Reachable(c.doc) \subseteq 1 .. Len(c.doc)
  BY SoundTypes DEF Continuing, Ready, Context, Reachable
<1>2. outline.nodeMark = c.ignoreNextNode
  BY OutlineBefore, DrawingFields
<1>3. InScope(c)
  BY DEF OpeningNode, Opens
<1>4. CASE c.node = <<>>
  <2>1. c.ignoreChildren = 0
    BY <1>1, <1>3, <1>4 DEF Continuing, Ready, Hidden, OpenBlocks
  <2>2. ~Outline!Dead(outline)
    BY <1>4, OutlineTop, OutlineBefore DEF Outline!Dead, Continuing, Ready
  <2>3. p \in {Detached, 0} /\ (p = Detached <=> c.ignoreNextNode)
    BY <1>4, <2>1 DEF OpeningNode
  <2>4. 0 \notin Reachable(c.doc) /\ Detached \notin Reachable(c.doc)
    BY <1>1 DEF Detached
  <2>5. QED
    BY <1>1, <1>2, <2>2, <2>3, <2>4 DEF Detached
<1>5. CASE c.node # <<>>
  <2> DEFINE i == currentNode(c)
  <2>1. i \in 1 .. Len(c.doc)
    <3>1. Len(c.node) \in 1 .. Len(c.node)
      BY <1>1, <1>5
    <3>2. QED
      BY <3>1 DEF Continuing, Ready, Sound, NodesExist, currentNode
  <2>2. Outline!Dead(outline) <=> i \notin Reachable(c.doc) \/ c.ignoreChildren > 0
    BY <1>3, <1>5, OutlineTop, OutlineBefore DEF Outline!Dead, Continuing, Ready
  <2>3. /\ p \in {Detached, i}
        /\ p = Detached <=> c.ignoreNextNode \/ c.ignoreChildren > 0
    BY <1>5 DEF OpeningNode
  <2>4. Detached \notin Reachable(c.doc)
    BY <1>1 DEF Detached
  <2> HIDE DEF i
  <2>5. QED
    BY <1>1, <1>2, <2>1, <2>2, <2>3, <2>4 DEF Detached
<1>6. QED
  BY <1>4, <1>5

\* The nodes that can be reached then, and how many entries they have.
LEMMA OpenedReachable ==
  ASSUME Continuing, NEW p, OpeningNode(c', p)
  PROVE  LET n == Len(c.doc) + 1
             R == Reachable(c.doc)
         IN  /\ Rooted(c')
             /\ R \subseteq 1 .. Len(c.doc) /\ n \notin R
             /\ Reachable(c'.doc) = IF p = 0 \/ p \in R THEN R \cup {n} ELSE R
             /\ Counts(c'.doc) = IF p = 0 \/ p \in R
                                 THEN [i \in R \cup {n} |-> IF i = n THEN 0
                                                            ELSE Counts(c.doc)[i]]
                                 ELSE Counts(c.doc)
<1> DEFINE n == Len(c.doc) + 1
           R == Reachable(c.doc)
<1>1. /\ Len(c.doc) \in Nat /\ DOMAIN c.doc = 1 .. Len(c.doc) /\ c.doc \in Seq(Node)
      /\ Len(c'.doc) = n /\ DOMAIN c'.doc = 1 .. Len(c.doc) + 1
  <2>1. Len(c'.doc) = n
    BY DEF OpeningNode, Opens
  <2> HIDE DEF n
  <2>2. Sound(c) /\ Sound(c')
    BY DEF Continuing, Ready
  <2>3. DOMAIN c'.doc = 1 .. n
    BY <2>1, <2>2, SoundTypes
  <2>4. QED
    BY <2>1, <2>2, <2>3, SoundTypes DEF n
<1>2. R \subseteq 1 .. Len(c.doc) /\ n \notin R
  BY <1>1 DEF Reachable
<1>3. p \in Int /\ p <= Len(c.doc)
  BY NewParent
<1>4. /\ \A i \in 1 .. Len(c.doc) : /\ c'.doc[i].parent = c.doc[i].parent
                                    /\ c.doc[i].parent \in Int
                                    /\ c.doc[i].parent <= Len(c.doc)
      /\ c'.doc[Len(c.doc) + 1].parent = p
  <2>1. \A i \in 1 .. Len(c.doc) : c.doc[i] \in Node
    BY <1>1, ElementOfSeq
  <2>2. QED
    BY <2>1 DEF OpeningNode, Opens, OnlyCurrent, Continuing, Rooted, Node
<1>5. Rooted(c')
  <2> SUFFICES ASSUME NEW i \in 1 .. Len(c.doc) + 1
               PROVE  c'.doc[i].parent <= Len(c.doc) + 1
    BY <1>1 DEF Rooted
  <2>1. CASE i = Len(c.doc) + 1
    BY <1>1, <1>3, <1>4, <2>1
  <2>2. CASE i \in 1 .. Len(c.doc)
    BY <1>1, <1>4, <2>2
  <2>3. QED
    BY <1>1, <2>1, <2>2
<1>6. Reachable(c'.doc) = IF p = 0 \/ p \in R THEN R \cup {n} ELSE R
  <2>1. /\ \A i \in 1 .. Len(c.doc) : c'.doc[i].parent = c.doc[i].parent
                                      /\ c.doc[i].parent # Len(c.doc) + 1
        /\ c'.doc[Len(c.doc) + 1].parent # Len(c.doc) + 1
    BY <1>1, <1>3, <1>4
  <2>2. QED
    BY <1>1, <1>4, <2>1, GrownReachable
<1>7. /\ \A i \in R : Entries(c'.doc[i]) = Entries(c.doc[i])
      /\ Entries(c'.doc[n]) = 0
  BY <1>2 DEF OpeningNode, SameCounts
<1> HIDE DEF n, R
<1>8. Counts(c.doc) = [i \in R |-> Entries(c.doc[i])]
  BY DEF Counts, R
<1>9. CASE p = 0 \/ p \in R
  <2>1. Counts(c'.doc) = [i \in R \cup {n} |-> Entries(c'.doc[i])]
    BY <1>6, <1>9 DEF Counts
  <2>2. \A i \in R \cup {n} : Entries(c'.doc[i]) = IF i = n THEN 0 ELSE Counts(c.doc)[i]
    BY <1>2, <1>7, <1>8
  <2>3. QED
    BY <1>2, <1>5, <1>6, <1>9, <2>1, <2>2 DEF n, R
<1>10. CASE ~(p = 0 \/ p \in R)
  <2>1. Counts(c'.doc) = [i \in R |-> Entries(c'.doc[i])]
    BY <1>6, <1>10 DEF Counts
  <2>2. Counts(c'.doc) = Counts(c.doc)
    BY <1>7, <1>8, <2>1
  <2>3. QED
    BY <1>2, <1>5, <1>6, <1>10, <2>2 DEF n, R
<1>11. QED
  BY <1>9, <1>10

\* Naming a node opens its frame, dead if the node was made by createNode.
LEMMA OpenNodeOutlined ==
  ASSUME Continuing, NEW p, OpeningNode(c', p)
  PROVE  Outlined
<1> DEFINE m == Len(c.node)
           h == Height(c)
           n == Len(c.doc) + 1
           R == Reachable(c.doc)
           dead == outline.nodeMark \/ Outline!Dead(outline)
           more == [i \in DOMAIN outline.entries \cup {n} |->
                       IF i = n THEN 0 ELSE outline.entries[i]]
           frame == [block |-> FALSE, dead |-> dead, node |-> n]
<1>1. /\ R \subseteq 1 .. Len(c.doc) /\ n \notin R /\ Rooted(c')
      /\ Reachable(c'.doc) = IF dead THEN R ELSE R \cup {n}
      /\ Counts(c'.doc) = IF dead THEN Counts(c.doc)
                          ELSE [i \in R \cup {n} |-> IF i = n THEN 0 ELSE Counts(c.doc)[i]]
  BY NewParent, OpenedReachable
<1>2. outline.entries = Counts(c.doc) /\ outline.nodes = Len(c.doc)
      /\ DOMAIN Counts(c.doc) = R
  <2>1. outline.entries = Counts(c.doc) /\ outline.nodes = Len(c.doc)
    BY OutlineBefore, DrawingFields
  <2>2. DOMAIN Counts(c.doc) = R
    BY DEF Counts
  <2>3. QED
    BY <2>1, <2>2
<1>3. Counts(c'.doc) = IF dead THEN Counts(c.doc) ELSE more
  BY <1>1, <1>2
<1>4. /\ m \in Nat /\ h = 2 * m /\ h \in Nat /\ Height(c') = h + 1
      /\ c'.node[m + 1] = n /\ \A i \in 1 .. m : c'.node[i] = c.node[i]
      /\ Border(c') = Border(c)
  <2>0. c'.node = Append(c.node, n)
    BY DEF OpeningNode, Opens
  <2>1. InScope(c) /\ ~InScope(c') /\ c'.ignoreChildren = c.ignoreChildren
    BY DEF OpeningNode, Opens
  <2>2. m \in Nat /\ c.node \in Seq(Nat) /\ h = 2 * m /\ Border(c) = m - c.ignoreChildren
        /\ c.ignoreChildren \in Nat
    BY <2>1, StepFrames
  <2>3. n \in Nat
    BY SoundTypes DEF Continuing, Ready
  <2> HIDE DEF n
  <2>4. Len(c'.node) = m + 1 /\ c'.node[m + 1] = n /\ \A i \in 1 .. m : c'.node[i] = c.node[i]
    BY <2>0, <2>2, <2>3, AppendProperties
  <2> HIDE DEF m, h
  <2>5. Height(c') = 2 * (m + 1) - 1 /\ Border(c') = m + 1 - 1 - c.ignoreChildren
    BY <2>1, <2>2, <2>4, StepFrames
  <2>6. 2 * (m + 1) - 1 = h + 1 /\ m + 1 - 1 = m /\ h \in Nat
    BY <2>2
  <2>7. QED
    BY <2>2, <2>4, <2>5, <2>6
<1> HIDE DEF h
<1>5. \A k \in 1 .. h : FrameOf(c', k) = FrameOf(c, k)
  <2>1. \A i \in 1 .. m : c.node[i] \in 1 .. Len(c.doc)
    BY DEF Continuing, Ready, Sound, NodesExist
  <2>2. \A i \in 1 .. m : c.node[i] # n
    BY <2>1, SoundTypes DEF Continuing, Ready
  <2> HIDE DEF m, n, R, dead
  <2>3. \A i \in 1 .. m : c.node[i] \in Reachable(c'.doc) <=> c.node[i] \in R
    BY <1>1, <2>2
  <2>4. h = 2 * m - 0 /\ m - 0 = m
    BY <1>4
  <2>5. QED
    BY <1>4, <2>3, <2>4, StackKept DEF R
<1>6. Frames(c') = Append(Frames(c), FrameOf(c', h + 1))
  BY <1>4, <1>5, FrameAdded DEF h
<1> HIDE DEF m, R, more
<1>7. FrameOf(c', h + 1) = frame
  <2>1. (h + 1 + 1) \div 2 = m + 1 /\ (h + 1) % 2 = 1
    BY <1>4
  <2>2. ((h + 1) % 2 = 0) = FALSE
    BY <2>1
  <2>3. (n \notin Reachable(c'.doc)) = dead
    BY <1>1
  <2> HIDE DEF n, dead
  <2>4. FrameOf(c', h + 1) = [block |-> FALSE, dead |-> n \notin Reachable(c'.doc), node |-> n]
    BY <1>4, <2>1, <2>2 DEF FrameOf
  <2>5. QED
    BY <2>3, <2>4
<1> HIDE DEF dead, n
<1> DEFINE E == IF dead THEN outline.entries ELSE more
<1>8. outline' = NodeOpened(outline, frame, n, E)
  <2>1. /\ seen'.nodes = n /\ seen'.slashdashes = seen.slashdashes
        /\ c'.ignoreNextNode = FALSE /\ c'.ignoreNextArgProp = c.ignoreNextArgProp
        /\ Settled(c, seen) + Gain(c') = Settled(c, seen)
    BY CountedAfter, SettledInt DEF OpeningNode, n
  <2>2. Counts(c'.doc) = E
    BY <1>2, <1>3
  <2> HIDE DEF E, frame
  <2>3. Shows(outline', Append(Frames(c), frame), n, Settled(c, seen), seen.slashdashes, E,
              FALSE, c.ignoreNextArgProp)
    BY <1>6, <1>7, <2>1, <2>2, OutlineAfter
  <2>4. Shows(NodeOpened(outline, frame, n, E), Append(Frames(c), frame), n,
              Settled(c, seen), seen.slashdashes, E, FALSE, c.ignoreNextArgProp)
    BY OutlineBefore, DrawingOpened
  <2>5. QED
    BY <2>3, <2>4, ShownAlike
<1>9. ~Outline!InNode(outline)
  BY OutlineBefore DEF OpeningNode, Opens
<1>10. Outline!OpenNode
  <2>1. n = outline.nodes + 1
    BY <1>2 DEF n
  <2>2. Outline!Open(outline, frame).entries = outline.entries
    <3>1. PICK g : g = Append(outline.frames, frame)
      OBVIOUS
    <3>2. [outline EXCEPT !.frames = g].entries = outline.entries
      BY OutlineBefore DEF Shows, Drawing
    <3>3. QED
      BY <3>1, <3>2 DEF Outline!Open
  <2>3. outline' = [Outline!Open(outline, frame) EXCEPT
                      !.nodes = n,
                      !.entries = IF dead THEN @ ELSE more,
                      !.nodeMark = FALSE]
    BY <1>8, <2>2 DEF NodeOpened
  <2>4. QED
    BY <1>9, <2>1, <2>3 DEF Outline!OpenNode, dead, more
<1>11. Counted'
  BY CountedAfter DEF OpeningNode, Opens, Counted
<1>12. QED
  BY <1>1, <1>10, <1>11 DEF Outlined, Outline!ONext

----------------------------------------------------------------------------
(* What the handler that runs says of the token.                          *)

\* The classes of values, and those of the other tokens.
EntryClasses == {"ClassNumber", "ClassValue", "ClassNonStringValue", "ClassIdentifier",
                 "ClassString"}

OtherClasses == {"ClassTerminator", "ClassWhitespace", "ClassEndOfLine", "ClassComment"}

\* Values have the one, other tokens the others, and some none.
LEMMA ClassesOfKinds ==
  ASSUME NEW id
  PROVE  /\ id \in EntryTokens => Classes(id) \in Seq(EntryClasses)
         /\ id \notin EntryTokens => Classes(id) \in Seq(OtherClasses)
         /\ id \notin Identifiers => Classes(id) \in Seq(ClassNames \ {"ClassIdentifier"})
         /\ id \in {"TokenComment", "Equals"} => Classes(id) \in Seq({})
<1>0. \A S : /\ <<>> \in Seq(S)
             /\ \A a, b, d \in S : /\ <<a>> \in Seq(S) /\ <<a, b>> \in Seq(S)
                                   /\ <<a, b, d>> \in Seq(S)
  OBVIOUS
<1>1. ASSUME id \in EntryTokens PROVE Classes(id) \in Seq(EntryClasses)
  <2>1. Classes(id) \in {<<"ClassNumber", "ClassValue", "ClassNonStringValue">>,
                         <<"ClassValue", "ClassNonStringValue">>,
                         <<"ClassValue", "ClassIdentifier">>,
                         <<"ClassValue", "ClassString", "ClassIdentifier">>,
                         <<"ClassValue", "ClassString">>}
    BY <1>1 DEF Classes, EntryTokens, ValueLike, Numbers
  <2>2. QED
    BY <1>0, <2>1 DEF EntryClasses
<1>2. ASSUME id \notin EntryTokens PROVE Classes(id) \in Seq(OtherClasses)
  <2>1. Classes(id) \in {<<"ClassTerminator", "ClassWhitespace", "ClassEndOfLine">>,
                         <<"ClassWhitespace">>, <<"ClassComment">>,
                         <<"ClassTerminator">>, <<"ClassTerminator", "ClassEndOfLine">>,
                         <<>>}
    BY <1>2 DEF Classes, EntryTokens, ValueLike, Numbers
  <2>2. QED
    BY <1>0, <2>1 DEF OtherClasses
<1>3. ASSUME id \notin Identifiers
      PROVE  Classes(id) \in Seq(ClassNames \ {"ClassIdentifier"})
  <2>1. Classes(id) \in {<<"ClassTerminator", "ClassWhitespace", "ClassEndOfLine">>,
                         <<"ClassWhitespace">>, <<"ClassComment">>,
                         <<"ClassNumber", "ClassValue", "ClassNonStringValue">>,
                         <<"ClassValue", "ClassNonStringValue">>,
                         <<"ClassValue", "ClassString">>,
                         <<"ClassTerminator">>, <<"ClassTerminator", "ClassEndOfLine">>,
                         <<>>}
    BY <1>3 DEF Classes, Identifiers, Numbers
  <2> DEFINE S == ClassNames \ {"ClassIdentifier"}
  <2>2. {"ClassTerminator", "ClassWhitespace", "ClassEndOfLine", "ClassComment",
         "ClassNumber", "ClassValue", "ClassNonStringValue", "ClassString"} \subseteq S
    BY DEF ClassNames
  <2> HIDE DEF S
  <2>3. Classes(id) \in Seq(S)
    BY <1>0, <2>1, <2>2
  <2>4. QED
    BY <2>3 DEF S
<1>4. ASSUME id \in {"TokenComment", "Equals"} PROVE Classes(id) \in Seq({})
  <2>1. Classes(id) = <<>>
    BY <1>4 DEF Classes, Numbers
  <2>2. QED
    BY <1>0, <2>1
<1>5. QED
  BY <1>1, <1>2, <1>3, <1>4

\* So the handler that runs tells the kinds of tokens apart.
LEMMA KeyOfKinds ==
  ASSUME NEW s, NEW id
  PROVE  /\ id \in EntryTokens => HandlerKey(s, id) \in {id, "none"} \cup EntryClasses
         /\ id \notin EntryTokens => HandlerKey(s, id) \in {id, "none"} \cup OtherClasses
         /\ id \notin Identifiers =>
                HandlerKey(s, id) \in {id, "none"} \cup (ClassNames \ {"ClassIdentifier"})
         /\ id \in {"TokenComment", "Equals"} => HandlerKey(s, id) \in {id, "none"}
<1>1. Len(Classes(id)) <= 3
  BY ClassesShape
<1>2. \A S : Classes(id) \in Seq(S) => HandlerKey(s, id) \in {id, "none"} \cup S
  BY <1>1, KeyAmong
<1>3. QED
  BY <1>2, ClassesOfKinds

\* The handlers of tokens that are no entries, slashdashes, names or equals signs.
PlainKeys == {"Whitespace", "ClassTerminator", "ClassComment", "SingleLineComment",
              "ClassEndOfLine", "Newline", "Continuation", "ParensOpen", "ParensClose",
              "BraceOpen", "BraceClose"}

\* The handlers of values.
ValueKeys == {"ClassValue", "ClassString", "ClassNonStringValue", "SuffixedDecimal",
              "BareIdentifier"}

\* Plain tokens count for nothing.
LEMMA PlainToken ==
  ASSUME NEW s, NEW k \in PlainKeys, On(s, k)
  PROVE  Neutral /\ Given = 0 /\ tok.id \notin EntryTokens
<1>1. HandlerKey(s, tok.id) = k /\ pc = "handle"
  BY DEF On
<1>2. tok.id \notin EntryTokens /\ tok.id # "TokenComment" /\ tok.id # "Equals"
  <2>1. k \notin EntryClasses \cup EntryTokens \cup {"none", "TokenComment", "Equals"}
    BY DEF PlainKeys, EntryClasses, EntryTokens, ValueLike, Numbers
  <2>2. QED
    BY <1>1, <2>1, KeyOfKinds
<1>3. tok.id \notin Identifiers
  BY <1>2 DEF Identifiers, EntryTokens, ValueLike
<1>4. QED
  BY <1>2, <1>3 DEF Neutral, NamesNode, Slashdashed, Given

\* A slashdash is one.
LEMMA SlashdashToken ==
  ASSUME NEW s, On(s, "TokenComment")
  PROVE  Slashdashed /\ ~NamesNode /\ Given = 0 /\ tok.id = "TokenComment"
<1>1. HandlerKey(s, tok.id) = "TokenComment" /\ pc = "handle"
  BY DEF On
<1>2. tok.id = "TokenComment"
  BY <1>1, KeyOfKinds DEF EntryTokens, ValueLike, Numbers, EntryClasses, OtherClasses
<1>3. QED
  BY <1>1, <1>2
     DEF Slashdashed, NamesNode, Given, Identifiers, EntryTokens, ValueLike, Numbers

\* An equals sign takes back the queued identifier.
LEMMA EqualsToken ==
  ASSUME NEW s, On(s, "Equals")
  PROVE  Neutral /\ Given = -Pending(c) /\ tok.id = "Equals"
<1>1. HandlerKey(s, tok.id) = "Equals" /\ pc = "handle"
  BY DEF On
<1>2. tok.id = "Equals"
  BY <1>1, KeyOfKinds DEF EntryTokens, ValueLike, Numbers, EntryClasses, OtherClasses
<1>3. QED
  BY <1>1, <1>2
     DEF Neutral, Slashdashed, NamesNode, Given, Identifiers, EntryTokens, ValueLike, Numbers

\* A name between nodes names one.
LEMMA NameToken ==
  ASSUME tok \in Token, NEW s \in ScopeStates, On(s, "ClassIdentifier")
  PROVE  NamesNode /\ ~Slashdashed /\ Given = 0
<1>1. HandlerKey(s, tok.id) = "ClassIdentifier" /\ pc = "handle" /\ c.state = s
  BY DEF On
<1>2. tok.id # "ClassIdentifier"
  BY DEF Token, TokenIDs, Numbers, Unknown
<1>3. tok.id \in Identifiers
  BY <1>1, <1>2, KeyOfKinds
<1>4. tok.id \notin {"TokenComment", "Equals"} /\ c.state \notin NodeStates
  BY <1>1, <1>3, Kinds DEF Identifiers
<1>5. QED
  BY <1>1, <1>3, <1>4 DEF NamesNode, Slashdashed, Given

\* A value in a node is an entry, and in parentheses it is none.
LEMMA ValueToken ==
  ASSUME tok \in Token, NEW s \in NodeStates \cup TypeStates, NEW k \in ValueKeys, On(s, k)
  PROVE  /\ Neutral /\ tok.id \in EntryTokens
         /\ s \in NodeStates => Given = 1
         /\ s \in TypeStates => Given = 0
<1>1. HandlerKey(s, tok.id) = k /\ pc = "handle" /\ c.state = s
  BY DEF On
<1>2. tok.id \in EntryTokens
  <2>1. k \notin {"none"} \cup OtherClasses
    BY DEF ValueKeys, OtherClasses
  <2>2. tok.id = k => tok.id \in EntryTokens
    BY DEF ValueKeys, EntryTokens, ValueLike, Numbers, Token, TokenIDs, Unknown
  <2>3. QED
    BY <1>1, <2>1, <2>2, KeyOfKinds
<1>3. tok.id \notin {"TokenComment", "Equals"} /\ c.state \notin ScopeStates
  BY <1>1, <1>2, Kinds DEF EntryTokens, ValueLike, Numbers
<1>4. s \in TypeStates => c.state \notin NodeStates
  BY <1>1, Kinds
<1>5. QED
  BY <1>1, <1>2, <1>3, <1>4 DEF Neutral, NamesNode, Slashdashed, Given

\* Outside the handlers nothing is counted.
LEMMA NothingRead ==
  ASSUME pc # "handle"
  PROVE  Neutral /\ Given = 0
BY DEF Neutral, NamesNode, Slashdashed, Given

----------------------------------------------------------------------------
(* What the methods of ParseContext do with the outline.                 *)

\* An identifier is queued, and a slashdash waits for an entry, only where they are used.
Clean(x) ==
    /\ Valid(x.ident) => Innermost(x) \in {"ArgProp", "Property", "PropertyValue"}
    /\ x.ignoreNextArgProp =>
          \/ Innermost(x) \in {"NodeParams", "Property", "PropertyValue"}
          \/ x.state = "ArgProp" /\ Valid(x.ident)

\* None of the three defects is met in this step.
Intact == pc = "handle" => ~LeaksSlashdash /\ ~InventsArgument /\ ~LeavesName

\* What the step from c to y does with the outline: it reads on, perhaps an entry, ...
Reads(y) ==
    /\ Beside(y) /\ y.ignoreNextNode = c.ignoreNextNode
    /\ Neutral /\ Settles(y.doc, y.ignoreNextArgProp, Gain(y))

\* ... or a slashdash before a node ...
MarksNode(y) ==
    /\ Beside(y) /\ InScope(c)
    /\ y.ignoreNextNode = TRUE /\ y.ignoreNextArgProp = c.ignoreNextArgProp
    /\ Slashdashed /\ ~NamesNode /\ Gain(y) = 0 /\ SameCounts(y.doc)

\* ... or in one, or it opens or closes a frame.
MarksEntry(y) ==
    /\ Beside(y) /\ ~InScope(c)
    /\ y.ignoreNextNode = c.ignoreNextNode /\ y.ignoreNextArgProp = TRUE
    /\ Slashdashed /\ ~NamesNode /\ \E m \in BOOLEAN : Settles(y.doc, m, Gain(y))

\* The step from c to y is one of these.
Draws(y) ==
    /\ Clean(y)
    /\ \/ Reads(y) \/ MarksNode(y) \/ MarksEntry(y)
       \/ \E p \in Int : OpeningNode(y, p)
       \/ \E m \in BOOLEAN : EnteringBlock(y, m)
       \/ LeavingBlock(y) \/ ClosingNode(y)

\* Each of these is a step of the outline.
LEMMA DrawsOutlined ==
  ASSUME Continuing, Draws(c')
  PROVE  Outlined
<1>1. CASE Reads(c')
  BY <1>1, EntryOutlined DEF Reads
<1>2. CASE MarksNode(c')
  BY <1>2, MarkNodeOutlined DEF MarksNode
<1>3. CASE MarksEntry(c')
  BY <1>3, MarkEntryOutlined DEF MarksEntry
<1>4. CASE \E p \in Int : OpeningNode(c', p)
  BY <1>4, OpenNodeOutlined
<1>5. CASE \E m \in BOOLEAN : EnteringBlock(c', m)
  BY <1>5, OpenBlockOutlined
<1>6. CASE LeavingBlock(c') \/ ClosingNode(c')
  BY <1>6, CloseBlockOutlined, CloseNodeOutlined
<1>7. QED
  BY <1>1, <1>2, <1>3, <1>4, <1>5, <1>6 DEF Draws

\* Unless the document is dropped, the step is one of them.
Drawn == pc' # "rejected" => Draws(c')

\* The handler returns.
LEMMA FinishDrawn ==
  ASSUME NEW x, Finish(x), x.err = "none" => Draws(x)
  PROVE  Drawn
BY DEF Finish, Reject, Drawn

\* The handler asks to be called again.
LEMMA ReenterDrawn ==
  ASSUME NEW x, Reenter(x), x.err = "none" => Draws(x)
  PROVE  Drawn
BY DEF Reenter, Reject, Drawn

\* The token, and what was queued before it.
Brought == Given + Pending(c)

\* The token is of no account.
Idle == Neutral /\ Given = 0

\* What the step settles is what it has and does not queue.
LEMMA GainOf ==
  ASSUME NEW y
  PROVE  /\ Brought \in Int
         /\ Pending(y) = 0 => Gain(y) = Brought
         /\ Pending(y) = 1 => Gain(y) = Brought - 1
         /\ Given = 0 /\ Pending(y) = Pending(c) => Gain(y) = 0
<1>1. PICK g \in Int : g = Given
  BY GivenTypes
<1>2. PICK p \in Int : p = Pending(c)
  BY GivenTypes
<1>3. Brought = g + p /\ Gain(y) = g + p - Pending(y)
  BY <1>1, <1>2 DEF Brought, Gain
<1>4. Pending(y) = 0 => Gain(y) = Brought
  BY <1>3
<1>5. Pending(y) = 1 => Gain(y) = Brought - 1
  BY <1>3
<1>6. Given = 0 /\ Pending(y) = Pending(c) => Gain(y) = 0
  BY <1>1, <1>2, <1>3
<1>7. QED
  BY <1>3, <1>4, <1>5, <1>6

\* Where nothing is queued.
LEMMA CleanStates ==
  ASSUME NEW y
  PROVE  /\ y.state \in ScopeStates \cup {"Node", "NodeEnd"} /\ ~Valid(y.ident)
                /\ ~y.ignoreNextArgProp => Clean(y) /\ Pending(y) = 0
         /\ y.state = "NodeParams" /\ ~Valid(y.ident) => Clean(y) /\ Pending(y) = 0
         /\ y.state = "PropertyValue" => Clean(y) /\ Pending(y) = 0
         /\ y.state \in {"ArgProp", "Property"} /\ Valid(y.ident) =>
                Clean(y) /\ Pending(y) = 1
         /\ y.state \in OwnerStates /\ ~Valid(y.ident) /\ ~y.ignoreNextArgProp =>
                Clean(y) /\ Pending(y) = 0
<1>1. y.state \notin TypeStates => Innermost(y) = y.state
  BY DEF Innermost
<1>2. y.state \in ScopeStates \cup OwnerStates
                  \cup {"Node", "NodeEnd", "NodeParams", "PropertyValue", "ArgProp", "Property"}
      => y.state \notin TypeStates
  BY DEF ScopeStates, TypeStates, OwnerStates
<1>3. y.state \in ScopeStates => y.state \notin {"ArgProp", "Property"}
  BY DEF ScopeStates
<1>4. QED
  BY <1>1, <1>2, <1>3 DEF Clean, Pending

\* Where a clean context has nothing queued.
LEMMA NothingQueued ==
  ASSUME Ready, Clean(c)
  PROVE  /\ c.state \in ScopeStates \cup {"Node", "NodeEnd"} =>
                /\ ~Valid(c.ident) /\ c.ignoreNextArgProp = FALSE
                /\ Pending(c) = 0 /\ Brought = Given
         /\ c.state = "NodeParams" => ~Valid(c.ident) /\ Pending(c) = 0 /\ Brought = Given
         /\ c.state \in TypeStates \cup {"PropertyValue"} => Pending(c) = 0 /\ Brought = Given
         /\ c.state = "ArgProp" => (Valid(c.ident) => Pending(c) = 1)
                /\ (~Valid(c.ident) => Pending(c) = 0 /\ c.ignoreNextArgProp = FALSE)
<1>1. c.state \notin TypeStates => Innermost(c) = c.state
  BY DEF Innermost
<1>2. c.ignoreNextArgProp \in BOOLEAN /\ Given \in Int
  BY GivenTypes DEF Ready, Context
<1>3. Pending(c) = 0 => Brought = Given
  BY <1>2 DEF Brought
<1>4. QED
  BY <1>1, <1>2, <1>3 DEF Clean, Pending, ScopeStates, TypeStates

\* A context with k entries settled, that is in the same frame.
Settling(x, k) == x \in Context /\ Quiet(c, x) /\ Settles(x.doc, x.ignoreNextArgProp, k)

\* The context itself has none.
LEMMA SettlingItself == Ready => Settling(c, 0)
BY QuietTemporaries DEF Ready, Settling, Settles, SameCounts

\* Steps between states of a kind are beside the frames.
LEMMA QuietBeside ==
  ASSUME Ready, NEW x, Quiet(c, x), NEW y,
         y.states = x.states, y.node = x.node, y.doc = x.doc,
         \/ y.state = c.state
         \/ c.state \in NodeStates /\ y.state \in NodeStates
         \/ c.state \in TypeStates /\ y.state \in TypeStates,
         y.ignoreNextNode = x.ignoreNextNode, y.ignoreChildren = x.ignoreChildren
  PROVE  Beside(y) /\ y.ignoreNextNode = c.ignoreNextNode
<1>1. Stays(c, y)
  BY DEF Stays, Quiet
<1>2. InScope(y) = InScope(c)
  BY <1>1, StaysInScope
<1>3. QED
  BY <1>2 DEF Beside, Quiet, SameMarks

\* So they read on if they keep the mark.
LEMMA QuietReads ==
  ASSUME Ready, Neutral, NEW x, NEW k, Settling(x, k), NEW y,
         y.states = x.states, y.node = x.node, y.doc = x.doc,
         \/ y.state = c.state
         \/ c.state \in NodeStates /\ y.state \in NodeStates
         \/ c.state \in TypeStates /\ y.state \in TypeStates,
         y.ignoreNextNode = x.ignoreNextNode, y.ignoreChildren = x.ignoreChildren,
         y.ignoreNextArgProp = x.ignoreNextArgProp,
         Clean(y), Gain(y) = k
  PROVE  Draws(y)
<1>1. Quiet(c, x) /\ Settles(x.doc, x.ignoreNextArgProp, k)
  BY DEF Settling
<1>2. Beside(y) /\ y.ignoreNextNode = c.ignoreNextNode
  BY <1>1, QuietBeside
<1>3. QED
  BY <1>1, <1>2 DEF Reads, Draws

\* The outcomes handlers share.
LEMMA SharedDraws ==
  ASSUME Ready, Clean(c), Idle
  PROVE  /\ Draws(c)
         /\ TriviaAfterType(c).err = "none" => Draws(TriviaAfterType(c))
         /\ V2Only(c).err = "none" => Draws(V2Only(c))
         /\ Draws(startContinuation(c))
<1>1. c \in Context /\ Settling(c, 0) /\ Neutral /\ Given = 0
  BY SettlingItself DEF Ready, Idle
<1>2. Draws(c)
  <2>1. Gain(c) = 0
    BY <1>1, GainOf
  <2>2. QED
    BY <1>1, <2>1, QuietReads
<1>3. Draws(startContinuation(c))
  <2> DEFINE y == startContinuation(c)
  <2>1. /\ y.states = c.states /\ y.node = c.node /\ y.doc = c.doc /\ y.state = c.state
        /\ y.ignoreNextNode = c.ignoreNextNode /\ y.ignoreChildren = c.ignoreChildren
        /\ y.ignoreNextArgProp = c.ignoreNextArgProp /\ y.ident = c.ident
    BY <1>1 DEF startContinuation, Context
  <2> HIDE DEF y
  <2>2. Clean(y) /\ Pending(y) = Pending(c)
    BY <2>1 DEF Clean, Pending, Innermost
  <2>3. Gain(y) = 0
    BY <1>1, <2>2, GainOf
  <2>4. QED
    BY <1>1, <2>1, <2>2, <2>3, QuietReads DEF y
<1>4. QED
  BY <1>2, <1>3, SharedOutcomes DEF TriviaAfterType, V2Only

\* A move between the states of a node, with a value that is queued or without.
LEMMA MovedDraws ==
  ASSUME Ready, c.state \in NodeStates, Neutral, NEW x, NEW k, Settling(x, k)
  PROVE  /\ Brought = k /\ ~Valid(x.ident) =>
                /\ Draws([x EXCEPT !.state = "NodeParams"])
                /\ Draws([stopContinuation(x) EXCEPT !.state = "NodeParams"])
                /\ ~x.ignoreNextArgProp => Draws([x EXCEPT !.state = "NodeEnd"])
         /\ Brought = k => Draws([x EXCEPT !.state = "PropertyValue"])
         /\ Brought = k /\ ~x.ignoreNextArgProp =>
                Draws([clearPending(x) EXCEPT !.state = "Node"])
         /\ \A t \in Token, s \in {"ArgProp", "Property"} :
                Brought - 1 = k /\ Valid(t) => Draws([x EXCEPT !.ident = t, !.state = s])
<1> DEFINE Moved(y, s) == /\ y.states = x.states /\ y.node = x.node /\ y.doc = x.doc
                          /\ y.state = s
                          /\ y.ignoreNextNode = x.ignoreNextNode
                          /\ y.ignoreChildren = x.ignoreChildren
                          /\ y.ignoreNextArgProp = x.ignoreNextArgProp
<1>1. x \in Context
  BY DEF Settling
<1>2. ASSUME NEW y, NEW s \in NodeStates, Moved(y, s), Clean(y), Gain(y) = k PROVE Draws(y)
  BY <1>2, QuietReads
<1>3. {"NodeParams", "NodeEnd", "PropertyValue", "Node", "ArgProp", "Property"} = NodeStates
  BY Kinds
<1>4. ASSUME Brought = k, ~Valid(x.ident)
      PROVE  /\ Draws([x EXCEPT !.state = "NodeParams"])
             /\ Draws([stopContinuation(x) EXCEPT !.state = "NodeParams"])
             /\ ~x.ignoreNextArgProp => Draws([x EXCEPT !.state = "NodeEnd"])
  <2>1. ASSUME NEW y, NEW s \in {"NodeParams", "NodeEnd"}, Moved(y, s), y.ident = x.ident,
               s = "NodeEnd" => ~x.ignoreNextArgProp
        PROVE  Draws(y)
    <3>1. Clean(y) /\ Pending(y) = 0
      BY <1>4, <2>1, CleanStates
    <3>2. Gain(y) = k
      BY <1>4, <3>1, GainOf
    <3> HIDE DEF Moved
    <3>3. QED
      BY <1>2, <1>3, <2>1, <3>1, <3>2
  <2>2. LET y == [x EXCEPT !.state = "NodeParams"] IN Moved(y, "NodeParams") /\ y.ident = x.ident
    BY <1>1 DEF Context
  <2>3. LET y == [stopContinuation(x) EXCEPT !.state = "NodeParams"] IN
        Moved(y, "NodeParams") /\ y.ident = x.ident
    BY <1>1 DEF stopContinuation, Context
  <2>4. LET y == [x EXCEPT !.state = "NodeEnd"] IN Moved(y, "NodeEnd") /\ y.ident = x.ident
    BY <1>1 DEF Context
  <2> HIDE DEF Moved
  <2>5. QED
    BY <2>1, <2>2, <2>3, <2>4
<1>5. ASSUME Brought = k PROVE Draws([x EXCEPT !.state = "PropertyValue"])
  <2> DEFINE y == [x EXCEPT !.state = "PropertyValue"]
  <2>1. Moved(y, "PropertyValue")
    BY <1>1 DEF Context
  <2>2. y.state = "PropertyValue"
    BY <2>1
  <2> HIDE DEF y
  <2>3. Clean(y) /\ Pending(y) = 0
    BY <2>2, CleanStates
  <2>4. Gain(y) = k
    BY <1>5, <2>3, GainOf
  <2> HIDE DEF Moved
  <2>5. Draws(y)
    BY <1>2, <1>3, <2>1, <2>3, <2>4
  <2>6. QED
    BY <2>5 DEF y
<1>6. ASSUME Brought = k, ~x.ignoreNextArgProp
      PROVE  Draws([clearPending(x) EXCEPT !.state = "Node"])
  <2> DEFINE y == [clearPending(x) EXCEPT !.state = "Node"]
  <2>1. Moved(y, "Node") /\ y.ident = NoToken
    BY <1>1 DEF clearPending, Context
  <2>2. y.state = "Node" /\ ~y.ignoreNextArgProp /\ ~Valid(y.ident)
    BY <1>6, <2>1 DEF Valid, NoToken
  <2> HIDE DEF y
  <2>3. Clean(y) /\ Pending(y) = 0
    BY <2>2, CleanStates
  <2>4. Gain(y) = k
    BY <1>6, <2>3, GainOf
  <2> HIDE DEF Moved
  <2>5. Draws(y)
    BY <1>2, <1>3, <2>1, <2>3, <2>4
  <2>6. QED
    BY <2>5 DEF y
<1>7. ASSUME NEW t \in Token, NEW s \in {"ArgProp", "Property"}, Brought - 1 = k, Valid(t)
      PROVE  Draws([x EXCEPT !.ident = t, !.state = s])
  <2> DEFINE y == [x EXCEPT !.ident = t, !.state = s]
  <2>1. Moved(y, s) /\ y.ident = t
    BY <1>1 DEF Context
  <2>2. y.state = s /\ Valid(y.ident)
    BY <1>7, <2>1
  <2> HIDE DEF y
  <2>3. Clean(y) /\ Pending(y) = 1
    BY <2>2, CleanStates
  <2>4. Gain(y) = k
    BY <1>7, <2>3, GainOf
  <2> HIDE DEF Moved
  <2>5. Draws(y)
    BY <1>2, <1>3, <2>1, <2>3, <2>4
  <2>6. QED
    BY <2>5 DEF y
<1>8. QED
  BY <1>4, <1>5, <1>6, <1>7

\* A slashdash in a node marks the entry behind it.
LEMMA MarkedDraws ==
  ASSUME Ready, c.state \in NodeStates, Slashdashed, ~NamesNode,
         NEW x, NEW k, Settling(x, k), Brought = k, ~Valid(x.ident)
  PROVE  Draws([markIgnoreFromContinuation(x) EXCEPT !.ignoreNextArgProp = TRUE,
                                                     !.state = "NodeParams"])
<1> DEFINE y == [markIgnoreFromContinuation(x) EXCEPT !.ignoreNextArgProp = TRUE,
                                                      !.state = "NodeParams"]
<1>1. x \in Context /\ Quiet(c, x) /\ Settles(x.doc, x.ignoreNextArgProp, k)
  BY DEF Settling
<1>2. /\ y.states = x.states /\ y.node = x.node /\ y.doc = x.doc
      /\ y.state = "NodeParams" /\ y.ident = x.ident
      /\ y.ignoreNextNode = x.ignoreNextNode
      /\ y.ignoreChildren = x.ignoreChildren
      /\ y.ignoreNextArgProp = TRUE
  BY <1>1 DEF markIgnoreFromContinuation, Context
<1> HIDE DEF y
<1>3. Clean(y) /\ Pending(y) = 0
  BY <1>2, CleanStates
<1>4. Gain(y) = k
  BY <1>3, GainOf
<1>5. Beside(y) /\ y.ignoreNextNode = c.ignoreNextNode
  BY <1>1, <1>2, Kinds, QuietBeside
<1>6. x.ignoreNextArgProp \in BOOLEAN /\ Settles(y.doc, x.ignoreNextArgProp, Gain(y))
  BY <1>1, <1>2, <1>4 DEF Context
<1>7. QED
  BY <1>2, <1>3, <1>5, <1>6, InScopeOf DEF MarksEntry, Draws, y

\* addArgumentToken and addPropertyToken give the innermost node one entry.
LEMMA AddedEntry ==
  ASSUME NEW x, Sound(x), x.node # <<>>, NEW t,
         NEW y \in {addArgumentToken(x, t), addPropertyToken(x, t)}, y.err = "none"
  PROVE  /\ y.ignoreNextArgProp = x.ignoreNextArgProp
         /\ \A i \in 1 .. Len(x.doc) :
               Entries(y.doc[i]) = IF i = currentNode(x) THEN Entries(x.doc[i]) + 1
                                   ELSE Entries(x.doc[i])
<1> DEFINE i == currentNode(x)
           v == [id |-> t.id, typ |-> Valid(x.typeAnnot)]
           args == Append(x.doc[i].args, v)
           props == Append(x.doc[i].props, v)
           arg == [x.doc[i] EXCEPT !.args = args]
           prop == [x.doc[i] EXCEPT !.props = props]
<1>1. x \in Context /\ x.err = "none" /\ x.doc \in Seq(Node) /\ i \in 1 .. Len(x.doc)
      /\ DOMAIN x.doc = 1 .. Len(x.doc)
  <2>1. Len(x.node) \in 1 .. Len(x.node)
    BY SoundTypes
  <2>2. QED
    BY <2>1, SoundTypes DEF Sound, NodesExist, currentNode
<1>2. x.doc[i] \in Node
  BY <1>1, ElementOfSeq
<1>3. /\ Len(args) = Len(x.doc[i].args) + 1
      /\ Len(props) = Len(x.doc[i].props) + 1
      /\ Len(x.doc[i].args) \in Nat /\ Len(x.doc[i].props) \in Nat
  BY <1>2 DEF Node
<1> HIDE DEF args, props
<1>4. /\ arg.args = args /\ arg.props = x.doc[i].props
      /\ prop.args = x.doc[i].args /\ prop.props = props
  BY <1>2 DEF Node
<1>5. y = [x EXCEPT !.doc[i] = arg] \/ y = [x EXCEPT !.doc[i] = prop]
  BY <1>1 DEF addArgumentToken, addPropertyToken, Fail, Context, args, props
<1> HIDE DEF arg, prop
<1>6. /\ Entries(arg) = Entries(x.doc[i]) + 1
      /\ Entries(prop) = Entries(x.doc[i]) + 1
  <2>1. PICK k, l \in Nat : k = Len(x.doc[i].args) /\ l = Len(x.doc[i].props)
    BY <1>3
  <2>2. Entries(x.doc[i]) = k + l
    BY <2>1 DEF Entries
  <2>3. Entries(arg) = k + 1 + l
    BY <1>3, <1>4, <2>1 DEF Entries
  <2>4. Entries(prop) = k + (l + 1)
    BY <1>3, <1>4, <2>1 DEF Entries
  <2>5. k + 1 + l = k + l + 1 /\ k + (l + 1) = k + l + 1
    OBVIOUS
  <2>6. QED
    BY <2>2, <2>3, <2>4, <2>5
<1>7. PICK e : /\ y.ignoreNextArgProp = x.ignoreNextArgProp
               /\ y.doc = [x.doc EXCEPT ![i] = e]
               /\ Entries(e) = Entries(x.doc[i]) + 1
  BY <1>1, <1>5, <1>6 DEF Context
<1> HIDE DEF i
<1>8. \A j \in 1 .. Len(x.doc) : y.doc[j] = IF j = i THEN e ELSE x.doc[j]
  BY <1>1, <1>7
<1>9. QED
  BY <1>7, <1>8 DEF i

\* So both ways of flushing the queued identifier settle it.
LEMMA FlushedSettling ==
  ASSUME Ready, Clean(c), c.state = "ArgProp"
  PROVE  /\ LET y == flushIdent(c) IN
            y.err = "none" => /\ Settling(y, 1) /\ Sound(y)
                              /\ ~Valid(y.ident) /\ y.ignoreNextArgProp = FALSE
         /\ LET y == flushValidIdent(c) IN
            y.err = "none" => /\ Settling(y, Pending(c)) /\ Sound(y)
                              /\ ~Valid(y.ident) /\ y.ignoreNextArgProp = FALSE
<1> DEFINE w == [c EXCEPT !.ignoreNextArgProp = FALSE]
           a == addArgumentToken(c, c.ident)
           y == IF c.ignoreNextArgProp THEN w ELSE a
           z == flushIdent(c)
<1>1. /\ c \in Context /\ Sound(c) /\ c.node # <<>> /\ c.ident \in Token /\ ~InScope(c)
      /\ c.state \in NodeStates
  BY SoundTypes, InScopeOf, Kinds DEF Ready, Context
<1>2. w.doc = c.doc /\ w.ignoreNextArgProp = FALSE /\ w \in Context
  BY <1>1 DEF Context
<1>3. a.err = "none" => /\ a.ignoreNextArgProp = c.ignoreNextArgProp /\ OneMore(a.doc)
                        /\ a \in Context
  BY <1>1, AddedEntry, AddArgument DEF OneMore, Sound
<1> HIDE DEF w, a
<1>4. y.err = "none" => /\ Settles(y.doc, y.ignoreNextArgProp, 1) /\ y \in Context
                        /\ y.ignoreNextArgProp = FALSE
  <2>1. CASE c.ignoreNextArgProp
    BY <1>1, <1>2, <2>1 DEF Settles, SameCounts
  <2>2. CASE ~c.ignoreNextArgProp
    <3>1. c.ignoreNextArgProp = FALSE
      BY <1>1, <2>2 DEF Context
    <3>2. QED
      BY <1>1, <1>3, <2>2, <3>1 DEF Settles
  <2>3. QED
    BY <2>1, <2>2
<1>5. z = IF y.err # "none" THEN y ELSE clearPending(y)
  BY DEF flushIdent, w, a
<1> HIDE DEF y
<1>6. y.err = "none" => /\ clearPending(y).doc = y.doc
                        /\ clearPending(y).ignoreNextArgProp = y.ignoreNextArgProp
                        /\ clearPending(y).ident = NoToken
  BY <1>4 DEF clearPending, Context
<1> HIDE DEF z
<1>7. z.err = "none" => /\ Settles(z.doc, z.ignoreNextArgProp, 1)
                        /\ ~Valid(z.ident) /\ z.ignoreNextArgProp = FALSE
  BY <1>4, <1>5, <1>6 DEF Valid, NoToken
<1>8. z.err = "none" => Settling(z, 1) /\ Sound(z)
  BY <1>1, <1>7, FlushedReady DEF FlushedTo, Settling, z
<1>9. Settling(c, 0) /\ (Valid(c.ident) => Pending(c) = 1)
      /\ (~Valid(c.ident) => Pending(c) = 0 /\ c.ignoreNextArgProp = FALSE)
  BY SettlingItself, NothingQueued
<1>10. flushValidIdent(c) = IF Valid(c.ident) THEN z ELSE c
  BY DEF flushValidIdent, z
<1>11. QED
  <2>1. CASE Valid(c.ident)
    BY <1>7, <1>8, <1>9, <1>10, <2>1 DEF z
  <2>2. CASE ~Valid(c.ident)
    BY <1>1, <1>7, <1>8, <1>9, <1>10, <2>2 DEF z
  <2>3. QED
    BY <2>1, <2>2

\* A type annotation begins or ends beside the frames.
LEMMA TypeDraws ==
  ASSUME Ready, Clean(c), Idle, NEW y, y.node = c.node, y.doc = c.doc,
         Innermost(y) = Innermost(c), c.state # "ArgProp", Pending(c) = 0, Pending(y) = 0,
         y.ignoreNextNode = c.ignoreNextNode, y.ignoreChildren = c.ignoreChildren,
         y.ignoreNextArgProp = c.ignoreNextArgProp, y.ident = c.ident
  PROVE  Draws(y)
<1>1. OnlyCurrent(c, y.doc)
  BY SoundTypes, SameDocument DEF Ready
<1>2. Beside(y)
  BY <1>1 DEF Beside, InScope
<1>3. Gain(y) = 0 /\ Neutral
  BY GainOf DEF Idle
<1>4. Clean(y)
  BY DEF Clean
<1>5. QED
  BY <1>2, <1>3, <1>4 DEF Reads, Settles, SameCounts, Draws

\* The parenthesis that opens one does.
LEMMA TypeEnteredDraws ==
  ASSUME Ready, Clean(c), Idle, c.state \in ScopeStates \cup {"NodeParams", "PropertyValue"}
  PROVE  Draws(pushState(c, "TypeAnnot"))
<1> DEFINE y == pushState(c, "TypeAnnot")
<1>1. c.states \in Seq(States) /\ c.state \in States
  BY SoundTypes DEF Ready
<1>2. /\ y.states = Append(c.states, c.state) /\ y.state = "TypeAnnot"
      /\ y.node = c.node /\ y.doc = c.doc /\ y.ident = c.ident
      /\ y.ignoreNextNode = c.ignoreNextNode /\ y.ignoreChildren = c.ignoreChildren
      /\ y.ignoreNextArgProp = c.ignoreNextArgProp
  BY DEF pushState, Context, Ready
<1>3. /\ Append(c.states, c.state) # <<>>
      /\ Append(c.states, c.state)[Len(Append(c.states, c.state))] = c.state
  BY <1>1
<1> HIDE DEF y
<1>4. Innermost(y) = c.state /\ Innermost(c) = c.state
  BY <1>2, <1>3, Kinds DEF Innermost
<1>5. Pending(y) = 0 /\ Pending(c) = 0 /\ c.state # "ArgProp"
  BY <1>2 DEF Pending, ScopeStates
<1>6. QED
  BY <1>2, <1>4, <1>5, TypeDraws DEF y

\* So does the one that closes it.
LEMMA TypeLeftDraws ==
  ASSUME Ready, Clean(c), Idle, c.state = "TypeDone"
  PROVE  Draws(popState(c))
<1> DEFINE y == popState(c)
<1>1. c.states \in Seq(States) /\ c.states # <<>>
  BY SoundTypes DEF Ready
<1>2. c.states[Len(c.states)] \in ScopeStates \cup {"NodeParams", "PropertyValue"}
  BY <1>1, Kinds, PopStacked DEF Ready, Sound
<1>3. /\ y.state = c.states[Len(c.states)]
      /\ y.node = c.node /\ y.doc = c.doc /\ y.ident = c.ident
      /\ y.ignoreNextNode = c.ignoreNextNode /\ y.ignoreChildren = c.ignoreChildren
      /\ y.ignoreNextArgProp = c.ignoreNextArgProp
  BY <1>1 DEF popState, Context, Ready
<1> HIDE DEF y
<1>4. Innermost(y) = y.state /\ Innermost(c) = y.state
  BY <1>1, <1>2, <1>3, Kinds DEF Innermost
<1>5. Pending(y) = 0 /\ Pending(c) = 0 /\ c.state # "ArgProp"
  BY <1>2, <1>3 DEF Pending, ScopeStates
<1>6. QED
  BY <1>3, <1>4, <1>5, TypeDraws DEF y

\* popNodeAndState, after the queued identifier was flushed.
LEMMA ClosedDraws ==
  ASSUME Ready, c.state \in NodeStates, Neutral, NEW x, NEW k, Sound(x), Settling(x, k),
         Brought = k, ~Valid(x.ident), x.ignoreNextArgProp = FALSE
  PROVE  Draws(popNodeAndState(x))
<1> DEFINE y == popNodeAndState(x)
           N == SubSeq(x.node, 1, Len(x.node) - 1)
           top == x.states[Len(x.states)]
           below == SubSeq(x.states, 1, Len(x.states) - 1)
<1>1. x \in Context /\ x.state \in NodeStates /\ x.states # <<>> /\ x.node # <<>>
      /\ Quiet(c, x) /\ Settles(x.doc, FALSE, k)
  BY SoundTypes, Kinds DEF Sound, Quiet, Settling
<1>2. y = [x EXCEPT !.state = top, !.states = below, !.node = N]
  BY <1>1 DEF popNodeAndState, popState, popNode, Sound
<1>3. y.state \in ScopeStates
  BY <1>1, PopNodeAndState
<1> HIDE DEF y, N, top, below
<1>4. /\ y.node = N /\ y.doc = x.doc /\ y.ignoreNextNode = x.ignoreNextNode
      /\ y.ignoreChildren = x.ignoreChildren
      /\ y.ignoreNextArgProp = FALSE /\ y.ident = x.ident
  BY <1>1, <1>2 DEF Context
<1>5. ~InScope(c) /\ InScope(y)
  BY <1>1, <1>3, InScopeOf
<1>6. N = SubSeq(c.node, 1, Len(c.node) - 1)
  BY <1>1 DEF Quiet, N
<1>7. Clean(y) /\ Gain(y) = k
  BY <1>3, <1>4, CleanStates, GainOf
<1>8. ClosingNode(y)
  BY <1>1, <1>4, <1>5, <1>6, <1>7 DEF ClosingNode, Quiet, SameMarks
<1>9. QED
  BY <1>7, <1>8 DEF Draws, y

\* pushState of a child block, after the marks were moved from x to y.
LEMMA BlockEnteredDraws ==
  ASSUME Ready, c.state \in NodeStates, Neutral, NEW x, NEW k, Settling(x, k), Brought = k,
         NEW y \in Context,
         y.node = x.node, y.doc = x.doc, y.ignoreNextNode = c.ignoreNextNode,
         \/ y.ignoreChildren = c.ignoreChildren + 1
         \/ c.ignoreChildren = 0 /\ y.ignoreChildren = 0,
         y.ignoreNextArgProp = FALSE, ~Valid(y.ident),
         y.ignoreChildren > 0 <=> x.ignoreNextArgProp \/ c.ignoreChildren > 0
  PROVE  Draws(pushState(y, "Children"))
<1> DEFINE z == pushState(y, "Children")
           m == x.ignoreNextArgProp
<1>1. m \in BOOLEAN /\ Quiet(c, x) /\ Settles(x.doc, m, k)
  BY DEF Settling, Context
<1>2. /\ z.state = "Children" /\ z.node = y.node /\ z.doc = y.doc /\ z.ident = y.ident
      /\ z.ignoreNextNode = y.ignoreNextNode /\ z.ignoreChildren = y.ignoreChildren
      /\ z.ignoreNextArgProp = y.ignoreNextArgProp
  BY DEF pushState, Context
<1> HIDE DEF z
<1>3. InScope(z) /\ ~InScope(c)
  BY <1>2, InScopeOf, Kinds
<1>4. EntersBlock(c, z)
  BY <1>1, <1>2, <1>3 DEF EntersBlock, Quiet
<1>5. Clean(z) /\ Gain(z) = k
  BY <1>2, CleanStates, GainOf, Kinds
<1>6. EnteringBlock(z, m)
  BY <1>1, <1>2, <1>4, <1>5 DEF EnteringBlock, Quiet
<1>7. QED
  BY <1>1, <1>5, <1>6 DEF Draws, z

\* A child block opens, ignored or not.
LEMMA BlockDraws ==
  ASSUME Ready, c.state \in NodeStates, Neutral, NEW x, NEW g, Settling(x, g), Brought = g,
         ~Valid(x.ident)
  PROVE  /\ x.ignoreChildren = 0 /\ x.ignoreNextArgProp = FALSE =>
                Draws(pushState(x, "Children"))
         /\ x.ignoreChildren > 0 /\ x.ignoreNextArgProp = FALSE =>
                Draws(pushState([openIgnoredBlock(x) EXCEPT !.ignoreNextNode = FALSE],
                                "Children"))
         /\ x.ignoreNextArgProp \/ x.ignoreChildren > 0 =>
                /\ Draws(pushState([openIgnoredBlock(x) EXCEPT !.ignoreNextArgProp = FALSE],
                                   "Children"))
                /\ Draws(pushState([x EXCEPT !.ignoreNextArgProp = FALSE,
                                             !.ignoreChildren = @ + 1], "Children"))
<1> DEFINE k == x.ignoreChildren + 1
           a == [x EXCEPT !.ignoreChildBlockFromContinuation = x.ignoreFromContinuation,
                          !.ignoreFromContinuation = FALSE, !.ignoreChildren = k]
           d == [a EXCEPT !.ignoreNextNode = FALSE]
           e == [a EXCEPT !.ignoreNextArgProp = FALSE]
           f == [x EXCEPT !.ignoreNextArgProp = FALSE, !.ignoreChildren = k]
           Block(y) == /\ y \in Context /\ y.node = x.node /\ y.doc = x.doc
                       /\ y.ident = x.ident
                       /\ y.ignoreNextNode = x.ignoreNextNode
<1>1. /\ x \in Context /\ x.ignoreChildren = c.ignoreChildren
      /\ x.ignoreNextNode = c.ignoreNextNode /\ c.ignoreNextNode = FALSE
      /\ x.ignoreChildren \in Nat
  <2>1. ~c.ignoreNextNode /\ c.ignoreNextNode \in BOOLEAN
    BY InScopeOf DEF Ready, Marks, Context
  <2>2. QED
    BY <2>1 DEF Settling, Quiet, SameMarks, Context
<1>2. k \in Nat /\ k = c.ignoreChildren + 1 /\ k > 0 /\ k = x.ignoreChildren + 1
  BY <1>1
<1> HIDE DEF k
<1>3. /\ a \in Context /\ a.node = x.node /\ a.doc = x.doc /\ a.ignoreChildren = k
      /\ a.ident = x.ident
      /\ a.ignoreNextNode = x.ignoreNextNode /\ a.ignoreNextArgProp = x.ignoreNextArgProp
      /\ openIgnoredBlock(x) = a
  BY <1>1, <1>2 DEF Context, openIgnoredBlock
<1> HIDE DEF a
<1>4. /\ Block(d) /\ d.ignoreChildren = k /\ d.ignoreNextArgProp = x.ignoreNextArgProp
  BY <1>1, <1>3 DEF Context
<1>5. /\ Block(e) /\ e.ignoreChildren = k /\ e.ignoreNextArgProp = FALSE
  BY <1>3 DEF Context
<1>6. /\ Block(f) /\ f.ignoreChildren = k /\ f.ignoreNextArgProp = FALSE
  BY <1>1, <1>2 DEF Context
<1>7. Block(x)
  BY <1>1
<1> HIDE DEF d, e, f
<1>8. x.ignoreChildren = 0 /\ x.ignoreNextArgProp = FALSE => Draws(pushState(x, "Children"))
  BY <1>1, <1>7, BlockEnteredDraws
<1>9. x.ignoreChildren > 0 /\ x.ignoreNextArgProp = FALSE => Draws(pushState(d, "Children"))
  BY <1>1, <1>2, <1>4, BlockEnteredDraws
<1>10. x.ignoreNextArgProp \/ x.ignoreChildren > 0 => Draws(pushState(e, "Children"))
  BY <1>1, <1>2, <1>5, BlockEnteredDraws
<1>11. x.ignoreNextArgProp \/ x.ignoreChildren > 0 => Draws(pushState(f, "Children"))
  BY <1>1, <1>2, <1>6, BlockEnteredDraws
<1>12. QED
  BY <1>3, <1>8, <1>9, <1>10, <1>11 DEF d, e, f, k

\* Comments are no entries, and attaching them leaves the slashdash of an entry, and
\* what is queued, alone.
LEMMA CommentsNoEntries ==
  ASSUME NEW x \in Context, x.err = "none", NEW n \in 1 .. Len(x.doc)
  PROVE  LET y == attachComments(x, n) IN
         /\ y.ignoreNextArgProp = x.ignoreNextArgProp /\ y.ident = x.ident
         /\ \A i \in 1 .. Len(x.doc) : Entries(y.doc[i]) = Entries(x.doc[i])
<1>1. \A i \in 1 .. Len(x.doc) : SameEntries(x.doc[i], attachComments(x, n).doc[i])
  BY AttachedComments
<1>2. /\ attachComments(x, n).ignoreNextArgProp = x.ignoreNextArgProp
      /\ attachComments(x, n).ident = x.ident
  BY DEF attachComments, Context
<1>3. QED
  BY <1>1, <1>2 DEF SameEntries, Entries

\* Closing a child block.
LEMMA BlockLeftDraws ==
  ASSUME Ready, Clean(c), Idle, c.state = "Children", ~c.ignoreNextNode
  PROVE  Draws(popState(attachToLastAdded(closeIgnoredBlock(c))))
<1> DEFINE a == closeIgnoredBlock(c)
           b == attachToLastAdded(a)
           y == popState(b)
           n == c.lastAddedNode
<1>1. /\ c.states # <<>> /\ c.states \in Seq(States)
      /\ c.node # <<>> /\ Len(c.doc) \in Nat
      /\ n \in 1 .. Len(c.doc) /\ c.ignoreChildren \in Nat
  BY SoundTypes DEF Ready, Context
<1>2. c.states[Len(c.states)] \in NodeStates
  BY <1>1, PopStacked, Kinds DEF Ready, Sound
<1>3. /\ a \in Context /\ a.err = "none"
      /\ a.states = c.states /\ a.node = c.node /\ a.doc = c.doc
      /\ a.lastAddedNode = c.lastAddedNode
      /\ ~a.ignoreNextNode
      /\ a.ignoreChildren = IF c.ignoreChildren = 0 THEN 0 ELSE c.ignoreChildren - 1
  BY IgnoredBlockClosed
<1>4. a.ignoreNextArgProp = c.ignoreNextArgProp /\ a.ident = c.ident
  BY DEF closeIgnoredBlock, Ready, Context
<1> HIDE DEF a
<1>5. b = attachComments(a, n)
  <2>1. a.lastAddedNode # 0
    BY <1>1, <1>3
  <2>2. QED
    BY <1>3, <2>1 DEF attachToLastAdded
<1>6. b \in Context /\ b.err = "none"
  BY <1>1, <1>3, <1>5, AttachComments
<1>7. /\ b.states = c.states /\ b.node = c.node /\ SameMarks(a, b)
      /\ Len(b.doc) = Len(c.doc)
      /\ \A i \in 1 .. Len(c.doc) :
             b.doc[i].parent = c.doc[i].parent /\ SameEntries(c.doc[i], b.doc[i])
  BY <1>1, <1>3, <1>5, AttachedComments
<1>8. b.ignoreNextArgProp = c.ignoreNextArgProp /\ b.ident = c.ident /\ SameCounts(b.doc)
  BY <1>1, <1>3, <1>4, <1>5, CommentsNoEntries DEF SameCounts
<1> HIDE DEF b
<1>9. OnlyCurrent(c, b.doc)
  BY <1>1, <1>7 DEF OnlyCurrent
<1>10. /\ y.state = c.states[Len(c.states)] /\ y.node = c.node /\ y.doc = b.doc
       /\ SameMarks(b, y) /\ y.ignoreNextArgProp = b.ignoreNextArgProp
       /\ y.ident = b.ident
  BY <1>1, <1>6, <1>7 DEF popState, Context, SameMarks
<1> HIDE DEF y
<1>11. InScope(c) /\ ~InScope(y)
  BY <1>2, <1>10, InScopeOf, Kinds
<1>12. LeavesBlock(c, y)
  BY <1>3, <1>7, <1>9, <1>10, <1>11 DEF LeavesBlock, SameMarks
<1>13. Clean(y) /\ Gain(y) = 0
  <2>1. ~Valid(c.ident) /\ c.ignoreNextArgProp = FALSE /\ Brought = 0 /\ Neutral
    BY NothingQueued DEF ScopeStates, Idle
  <2>2. y.state \in OwnerStates
    <3>1. Len(c.states) \in 1 .. Len(c.states) /\ c.state \notin TypeStates
      BY <1>1 DEF TypeStates
    <3>2. Owners(c)
      BY DEF Ready, Marks
    <3>3. QED
      BY <1>2, <1>10, <3>1, <3>2 DEF Owners
  <2>3. QED
    BY <1>8, <1>10, <2>1, <2>2, CleanStates, GainOf
<1>14. LeavingBlock(y)
  BY <1>1, <1>3, <1>7, <1>8, <1>10, <1>12, <1>13 DEF LeavingBlock, SameMarks, Idle
<1>15. QED
  BY <1>13, <1>14 DEF Draws, y, b, a

\* Naming a node that was added under p.
LEMMA OpenedDraws ==
  ASSUME Ready, Clean(c), NamesNode, ~Slashdashed, Given = 0, c.state \in ScopeStates,
         NEW p \in {Detached, IF c.node = <<>> THEN 0 ELSE currentNode(c)}, p \in Int,
         p = Detached <=> c.ignoreNextNode \/ c.ignoreChildren > 0,
         NEW x, NewNodeUnder(x, p), openNode(x).err = "none"
  PROVE  Draws(openNode(x))
<1> DEFINE n == Len(c.doc) + 1
           a == attachComments(x, n)
           e == [a.doc[n] EXCEPT !.typ = Valid(a.typeAnnot)]
           D == [a.doc EXCEPT ![n] = e]
           b == [a EXCEPT !.doc = D, !.typeAnnot = NoToken]
           y == pushState(b, "Node")
<1>1. Len(c.doc) \in Nat /\ c.node \in Seq(Nat) /\ c \in Context
  BY SoundTypes DEF Ready
<1>2. /\ x \in Context /\ x.err = "none"
      /\ x.state = c.state /\ x.node = Append(c.node, n)
      /\ Len(x.doc) = n
      /\ \A i \in 1 .. Len(c.doc) : x.doc[i] = c.doc[i]
      /\ x.doc[n].parent = p /\ ~x.ignoreNextNode
      /\ x.ignoreChildren = c.ignoreChildren
  BY AddedNode
<1>3. n \in Nat /\ n \in 1 .. Len(x.doc) /\ n = Len(c.doc) + 1
  BY <1>1, <1>2
<1>4. x.ignoreNextArgProp = c.ignoreNextArgProp /\ x.ident = c.ident /\ Entries(x.doc[n]) = 0
  <2> DEFINE new == [parent |-> p, typ |-> FALSE, args |-> <<>>, props |-> <<>>,
                     comments |-> 0]
             d == Append(c.doc, new)
             N == Append(c.node, n)
             z == [c EXCEPT !.doc = d, !.node = N, !.lastAddedNode = n]
  <2>1. x = z \/ x = [z EXCEPT !.ignoreNextNode = FALSE]
    BY DEF NewNodeUnder, push
  <2>2. d[n] = new
    BY <1>1, <1>3 DEF Context
  <2>3. Entries(new) = 0
    BY DEF Entries
  <2> HIDE DEF d, N, new
  <2>4. x.ignoreNextArgProp = c.ignoreNextArgProp /\ x.doc = d /\ x.ident = c.ident
    BY <1>1, <2>1 DEF Context
  <2>5. QED
    BY <2>2, <2>3, <2>4
<1>5. a \in Context /\ a.err = "none" /\ SameStacks(x, a)
  BY <1>2, <1>3, AttachComments
<1>6. /\ SameMarks(x, a)
      /\ \A i \in 1 .. Len(x.doc) :
             a.doc[i].parent = x.doc[i].parent /\ SameEntries(x.doc[i], a.doc[i])
  BY <1>2, <1>3, AttachedComments
<1>7. /\ a.ignoreNextArgProp = x.ignoreNextArgProp /\ a.ident = x.ident
      /\ \A i \in 1 .. n : Entries(a.doc[i]) = Entries(x.doc[i])
  BY <1>2, <1>3, CommentsNoEntries
<1>8. currentNode(x) = n /\ currentNode(a) = n
  BY <1>1, <1>2, <1>5 DEF currentNode, SameStacks
<1>9. openNode(x) = y
  <2>1. ~tok.bad
    BY <1>2 DEF openNode, Fail, Context
  <2>2. QED
    BY <1>8, <2>1 DEF openNode
<1> HIDE DEF a, n
<1>10. /\ e.parent = a.doc[n].parent /\ e.args = a.doc[n].args /\ e.props = a.doc[n].props
       /\ a.doc \in Seq(Node) /\ Len(a.doc) = n /\ DOMAIN a.doc = 1 .. n
  <2>1. a.doc \in Seq(Node) /\ Len(a.doc) = n
    BY <1>2, <1>5 DEF Context, SameStacks
  <2>2. a.doc[n] \in Node
    BY <1>2, <1>3, <2>1, ElementOfSeq
  <2>3. QED
    BY <1>3, <2>1, <2>2 DEF Node
<1> HIDE DEF e
<1>11. Len(D) = n /\ \A i \in 1 .. n : D[i] = IF i = n THEN e ELSE a.doc[i]
  BY <1>3, <1>10
<1> HIDE DEF D
<1>12. /\ y.state = "Node" /\ y.node = Append(c.node, n) /\ y.doc = D
       /\ SameMarks(x, y) /\ y.ignoreNextArgProp = a.ignoreNextArgProp
       /\ y.ident = a.ident
  BY <1>2, <1>5, <1>6 DEF pushState, Context, SameStacks, SameMarks
<1> HIDE DEF b, y
<1>13. \A i \in 1 .. Len(c.doc) : /\ D[i].parent = c.doc[i].parent
                                  /\ SameEntries(c.doc[i], D[i])
  <2> SUFFICES ASSUME NEW i \in 1 .. Len(c.doc)
               PROVE  D[i].parent = c.doc[i].parent /\ SameEntries(c.doc[i], D[i])
    OBVIOUS
  <2>1. i \in 1 .. n /\ i # n
    BY <1>1, <1>3
  <2>2. D[i] = a.doc[i] /\ x.doc[i] = c.doc[i]
    BY <1>2, <1>11, <2>1
  <2>3. QED
    BY <1>2, <1>6, <2>1, <2>2
<1>14. D[n].parent = p /\ Entries(D[n]) = 0
  <2>1. D[n] = e /\ a.doc[n].parent = p /\ Entries(a.doc[n]) = 0
    BY <1>2, <1>3, <1>4, <1>6, <1>7, <1>11
  <2>2. Entries(e) = Entries(a.doc[n])
    BY <1>10 DEF Entries
  <2>3. QED
    BY <1>10, <2>1, <2>2
<1>15. OnlyCurrent(c, y.doc) /\ SameCounts(y.doc)
  <2>1. OnlyCurrent(c, y.doc)
    BY <1>1, <1>3, <1>11, <1>12, <1>13 DEF OnlyCurrent
  <2>2. SameCounts(y.doc)
    BY <1>12, <1>13 DEF SameCounts, SameEntries, Entries
  <2>3. QED
    BY <2>1, <2>2
<1>16. InScope(c) /\ ~InScope(y)
  BY <1>12, InScopeOf, Kinds
<1>17. Opens(c, y, p)
  BY <1>2, <1>3, <1>11, <1>12, <1>14, <1>15, <1>16 DEF Opens, SameMarks
<1>18. y.ignoreNextNode = FALSE
  BY <1>2, <1>12 DEF SameMarks, Context
<1>19. Clean(y) /\ Gain(y) = 0
  <2>1. ~Valid(c.ident) /\ c.ignoreNextArgProp = FALSE /\ Brought = 0
    BY NothingQueued
  <2>2. QED
    BY <1>4, <1>7, <1>12, <2>1, CleanStates, GainOf
<1>20. OpeningNode(y, p)
  BY <1>3, <1>4, <1>7, <1>12, <1>14, <1>15, <1>17, <1>18, <1>19 DEF OpeningNode
<1>21. QED
  BY <1>9, <1>19, <1>20 DEF Draws

----------------------------------------------------------------------------
(* The transition functions, one step each, as steps of the outline.     *)

\* addNode and createNode, followed by what both identifier handlers do.
LEMMA NewNodeDraws ==
  ASSUME Ready, Clean(c), NamesNode, ~Slashdashed, Given = 0, c.state \in ScopeStates
  PROVE  LET y == openNode([createNode(c) EXCEPT !.ignoreNextNode = FALSE])
             z == openNode(addNode(c))
         IN  /\ (c.ignoreNextNode \/ c.ignoreChildren > 0) /\ y.err = "none" => Draws(y)
             /\ ~c.ignoreNextNode /\ c.ignoreChildren = 0 /\ z.err = "none" => Draws(z)
<1>1. c \in Context /\ c.node \in Seq(Nat) /\ Len(c.node) \in Nat
      /\ \A i \in 1 .. Len(c.node) : c.node[i] \in 1 .. Len(c.doc)
  BY SoundTypes DEF Ready, Sound, NodesExist
<1> DEFINE p == IF c.node = <<>> THEN 0 ELSE currentNode(c)
           hidden == [createNode(c) EXCEPT !.ignoreNextNode = FALSE]
<1>2. p \in Nat /\ p # Detached
  <2>1. CASE c.node = <<>>
    BY <2>1 DEF Detached
  <2>2. CASE c.node # <<>>
    <3>1. Len(c.node) \in 1 .. Len(c.node)
      BY <1>1, <2>2
    <3>2. QED
      BY <1>1, <2>2, <3>1 DEF currentNode, Detached
  <2>3. QED
    BY <2>1, <2>2
<1>3. NewNodeUnder(hidden, Detached)
  <2>1. Pushed(c, createNode(c))
    BY PushNode DEF createNode, Detached, Ready
  <2>2. ~hidden.ignoreNextNode
    BY <2>1 DEF Pushed, Context
  <2>3. QED
    BY <2>2 DEF NewNodeUnder, createNode
<1>4. ASSUME ~c.ignoreNextNode PROVE NewNodeUnder(addNode(c), p)
  <2>1. push(c, p).ignoreNextNode = c.ignoreNextNode
    BY <1>1 DEF push, Context
  <2>2. QED
    BY <1>4, <2>1 DEF NewNodeUnder, addNode
<1> HIDE DEF hidden, p
<1>5. p \in {Detached, IF c.node = <<>> THEN 0 ELSE currentNode(c)}
      /\ Detached \in {Detached, IF c.node = <<>> THEN 0 ELSE currentNode(c)}
      /\ p \in Int /\ Detached \in Int
  BY <1>2 DEF p, Detached
<1>6. ASSUME c.ignoreNextNode \/ c.ignoreChildren > 0, openNode(hidden).err = "none"
      PROVE  Draws(openNode(hidden))
  BY <1>3, <1>5, <1>6, OpenedDraws
<1>7. ASSUME ~c.ignoreNextNode, c.ignoreChildren = 0, openNode(addNode(c)).err = "none"
      PROVE  Draws(openNode(addNode(c)))
  <2>1. p = Detached <=> c.ignoreNextNode \/ c.ignoreChildren > 0
    BY <1>2, <1>7
  <2>2. QED
    BY <1>4, <1>5, <1>7, <2>1, OpenedDraws
<1>8. QED
  BY <1>6, <1>7 DEF hidden

\* A comment or a slashdash between nodes.
LEMMA ScopeMarksDraws ==
  ASSUME Ready, Clean(c), c.state \in ScopeStates
  PROVE  /\ Idle /\ ScopeComment(c).err = "none" => Draws(ScopeComment(c))
         /\ Slashdashed /\ ~NamesNode /\ Given = 0 /\ ScopeSlashdash(c).err = "none" =>
                Draws(ScopeSlashdash(c))
<1>1. /\ c \in Context /\ c.err = "none" /\ InScope(c) /\ Settling(c, 0) /\ Quiet(c, c)
  BY InScopeOf, SettlingItself, QuietTemporaries DEF Ready, Sound
<1>2. Idle /\ ScopeComment(c).err = "none" => Draws(ScopeComment(c))
  <2> SUFFICES ASSUME Idle, ScopeComment(c).err = "none" PROVE Draws(ScopeComment(c))
    OBVIOUS
  <2>1. TriviaAfterType(c) = c
    BY <1>1, SharedOutcomes DEF ScopeComment, TriviaAfterType
  <2>2. ScopeComment(c) = writeComment(c)
    BY <1>1, <2>1 DEF ScopeComment
  <2> DEFINE y == [c EXCEPT !.comment = @ + 1]
  <2>3. writeComment(c) = c \/ writeComment(c) = y
    BY DEF writeComment
  <2>4. /\ y.states = c.states /\ y.state = c.state /\ y.node = c.node /\ y.doc = c.doc
        /\ y.ignoreNextNode = c.ignoreNextNode /\ y.ignoreChildren = c.ignoreChildren
        /\ y.ignoreNextArgProp = c.ignoreNextArgProp /\ y.ident = c.ident
    BY <1>1 DEF Context
  <2> HIDE DEF y
  <2>5. Draws(y)
    <3>1. Clean(y) /\ Pending(y) = Pending(c)
      BY <2>4 DEF Clean, Pending, Innermost
    <3>2. Gain(y) = 0 /\ Neutral
      BY <3>1, GainOf DEF Idle
    <3>3. QED
      BY <1>1, <2>4, <3>1, <3>2, QuietReads
  <2>6. QED
    BY <2>2, <2>3, <2>5, SharedDraws
<1>3. Slashdashed /\ ~NamesNode /\ Given = 0 /\ ScopeSlashdash(c).err = "none" =>
          Draws(ScopeSlashdash(c))
  <2> SUFFICES ASSUME Slashdashed, ~NamesNode, Given = 0, ScopeSlashdash(c).err = "none"
               PROVE  Draws(ScopeSlashdash(c))
    OBVIOUS
  <2> DEFINE y == [markIgnoreFromContinuation(c) EXCEPT !.ignoreNextNode = TRUE]
  <2>1. ScopeSlashdash(c) = y
    BY SharedOutcomes DEF ScopeSlashdash
  <2>2. /\ y.states = c.states /\ y.state = c.state /\ y.node = c.node /\ y.doc = c.doc
        /\ y.ignoreNextNode = TRUE /\ y.ignoreChildren = c.ignoreChildren
        /\ y.ignoreNextArgProp = c.ignoreNextArgProp /\ y.ident = c.ident
    BY <1>1 DEF Context, markIgnoreFromContinuation
  <2> HIDE DEF y
  <2>3. OnlyCurrent(c, y.doc)
    BY <1>1, <2>2 DEF Quiet
  <2>4. Beside(y)
    BY <2>2, <2>3 DEF Beside, InScope, Innermost
  <2>5. Clean(y) /\ Gain(y) = 0
    <3>1. Clean(y) /\ Pending(y) = Pending(c)
      BY <2>2 DEF Clean, Pending, Innermost
    <3>2. QED
      BY <3>1, GainOf
  <2>6. MarksNode(y)
    BY <1>1, <2>2, <2>4, <2>5 DEF MarksNode, SameCounts
  <2>7. QED
    BY <2>1, <2>5, <2>6 DEF Draws
<1>4. QED
  BY <1>2, <1>3

\* The handlers of stateDocument and stateChildren.
LEMMA ScopeHandlerDrawn ==
  ASSUME TInv, Clean(c), ScopeHandler
  PROVE  Drawn
<1>0. ASSUME NEW s, NEW k \in PlainKeys, On(s, k) PROVE Ready /\ c.state = s /\ Idle
  BY <1>0, Starting, PlainToken DEF Idle
<1> USE DEF PlainKeys
<1>1. ASSUME DocumentWhitespace \/ ChildrenWhitespace PROVE Drawn
  BY <1>1, <1>0, SharedDraws, FinishDrawn DEF DocumentWhitespace, ChildrenWhitespace
<1>2. ASSUME DocumentIdentifier PROVE Drawn
  <2>1. /\ Ready /\ c.state = "Document" /\ c.state \in ScopeStates
        /\ NamesNode /\ ~Slashdashed /\ Given = 0
    BY <1>2, Starting, Kinds, NameToken DEF DocumentIdentifier
  <2>2. c.ignoreChildren = 0
    BY <2>1, NoBlockInDocument
  <2>3. QED
    BY <1>2, <2>1, <2>2, NewNodeDraws, FinishDrawn DEF DocumentIdentifier
<1>3. ASSUME ChildrenIdentifier PROVE Drawn
  <2>1. /\ Ready /\ c.state \in ScopeStates /\ c.ignoreChildren \in Nat
        /\ NamesNode /\ ~Slashdashed /\ Given = 0
    BY <1>3, Starting, Kinds, NameToken DEF ChildrenIdentifier, Ready, Context
  <2>2. CASE c.ignoreNextNode \/ c.ignoreChildren > 0
    BY <1>3, <2>1, <2>2, NewNodeDraws, FinishDrawn DEF ChildrenIdentifier
  <2>3. CASE ~(c.ignoreNextNode \/ c.ignoreChildren > 0)
    <3>1. ~c.ignoreNextNode /\ c.ignoreChildren = 0
      BY <2>1, <2>3
    <3>2. QED
      BY <1>3, <2>1, <2>3, <3>1, NewNodeDraws, FinishDrawn DEF ChildrenIdentifier
  <2>4. QED
    BY <2>2, <2>3
<1>4. ASSUME DocumentParensOpen \/ ChildrenParensOpen PROVE Drawn
  <2>1. Ready /\ Idle /\ c.state \in ScopeStates /\ Finish(pushState(c, "TypeAnnot"))
    BY <1>4, <1>0, Kinds DEF DocumentParensOpen, ChildrenParensOpen
  <2>2. QED
    BY <2>1, TypeEnteredDraws, FinishDrawn
<1>5. ASSUME DocumentTerminator PROVE Drawn
  <2>1. Ready /\ Idle /\ (Finish(c) \/ Finish(ValueExpected(c)))
    BY <1>5, <1>0 DEF DocumentTerminator
  <2>2. QED
    BY <2>1, SharedOutcomes, SharedDraws, FinishDrawn
<1>6. ASSUME DocumentComment \/ ChildrenComment PROVE Drawn
  <2>1. Ready /\ Idle /\ c.state \in ScopeStates /\ Finish(ScopeComment(c))
    BY <1>6, <1>0, Kinds DEF DocumentComment, ChildrenComment
  <2>2. QED
    BY <2>1, ScopeMarksDraws, FinishDrawn
<1>7. ASSUME DocumentSlashdash \/ ChildrenSlashdash PROVE Drawn
  <2>1. /\ Ready /\ c.state \in ScopeStates /\ Finish(ScopeSlashdash(c))
        /\ Slashdashed /\ ~NamesNode /\ Given = 0
    BY <1>7, Starting, Kinds, SlashdashToken DEF DocumentSlashdash, ChildrenSlashdash
  <2>2. QED
    BY <2>1, ScopeMarksDraws, FinishDrawn
<1>8. ASSUME DocumentContinuation \/ ChildrenContinuation PROVE Drawn
  BY <1>8, <1>0, SharedDraws, FinishDrawn DEF DocumentContinuation, ChildrenContinuation
<1>9. ASSUME ChildrenNewline PROVE Drawn
  BY <1>9, <1>0, SharedDraws, FinishDrawn DEF ChildrenNewline
<1>10. ASSUME ChildrenBraceClose PROVE Drawn
  <2>1. Ready /\ Idle /\ c.state = "Children"
    BY <1>10, <1>0 DEF ChildrenBraceClose
  <2>2. CASE c.ignoreNextNode
    BY <1>10, <2>1, <2>2, SharedOutcomes, FinishDrawn DEF ChildrenBraceClose
  <2>3. CASE ~c.ignoreNextNode
    <3> DEFINE b == attachToLastAdded(closeIgnoredBlock(c))
    <3>1. b.err = "none" /\ Draws(popState(b))
      BY <2>1, <2>3, CloseBlock, BlockLeftDraws DEF Ready
    <3>2. Finish(popState(b))
      BY <1>10, <2>3, <3>1 DEF ChildrenBraceClose
    <3>3. QED
      BY <3>1, <3>2, FinishDrawn
  <2>4. QED
    BY <2>2, <2>3
<1>11. QED
  BY <1>1, <1>2, <1>3, <1>4, <1>5, <1>6, <1>7, <1>8, <1>9, <1>10 DEF ScopeHandler

\* The handlers of stateTypeAnnot and stateTypeDone.
LEMMA TypeHandlerDrawn ==
  ASSUME TInv, Clean(c), TypeHandler
  PROVE  Drawn
<1>0. ASSUME NEW s, NEW k \in PlainKeys, On(s, k) PROVE Ready /\ c.state = s /\ Idle
  BY <1>0, Starting, PlainToken DEF Idle
<1> USE DEF PlainKeys
<1>1. ASSUME TypeTrivia PROVE Drawn
  BY <1>1, <1>0, SharedDraws, FinishDrawn DEF TypeTrivia
<1>2. ASSUME TypeContinuation PROVE Drawn
  <2>1. Ready /\ Idle /\ (Finish(startContinuation(c)) \/ Finish(Unexpected(c)))
    BY <1>2, <1>0 DEF TypeContinuation
  <2>2. QED
    BY <2>1, SharedOutcomes, SharedDraws, FinishDrawn
<1>3. ASSUME TypeName PROVE Drawn
  <2> DEFINE y == [c EXCEPT !.typeAnnot = tok, !.state = "TypeDone"]
  <2>1. Ready /\ c.state = "TypeAnnot" /\ Finish(y) /\ Neutral /\ Given = 0
    BY <1>3, Starting, ValueToken, Kinds DEF TypeName, ValueKeys
  <2>2. c \in Context /\ Settling(c, 0)
    BY <2>1, SettlingItself DEF Ready
  <2>3. /\ y.states = c.states /\ y.node = c.node /\ y.doc = c.doc /\ y.state = "TypeDone"
        /\ y.ignoreNextNode = c.ignoreNextNode /\ y.ignoreChildren = c.ignoreChildren
        /\ y.ignoreNextArgProp = c.ignoreNextArgProp /\ y.ident = c.ident
    BY <2>2 DEF Context
  <2> HIDE DEF y
  <2>4. Draws(y)
    <3>1. Clean(y) /\ Pending(y) = Pending(c)
      BY <2>1, <2>3 DEF Clean, Pending, Innermost, TypeStates
    <3>2. Gain(y) = 0
      BY <2>1, <3>1, GainOf
    <3>3. QED
      BY <2>1, <2>2, <2>3, <3>1, <3>2, Kinds, QuietReads
  <2>5. QED
    BY <2>1, <2>4, FinishDrawn
<1>4. ASSUME TypeDoneParensClose PROVE Drawn
  <2>1. Ready /\ Idle /\ c.state = "TypeDone" /\ Finish(popState(c))
    BY <1>4, <1>0 DEF TypeDoneParensClose
  <2>2. QED
    BY <2>1, TypeLeftDraws, FinishDrawn
<1>5. QED
  BY <1>1, <1>2, <1>3, <1>4 DEF TypeHandler

\* A type annotation was read or not: NodeParams takes a suffixed decimal at once.
LEMMA SuffixedDecimalDrawn ==
  ASSUME TInv, Clean(c), NodeParamsSuffixedDecimal
  PROVE  Drawn
<1> DEFINE x == clearPending(c)
           y == [x EXCEPT !.ignoreNextArgProp = FALSE]
           z == addArgumentToken(x, tok)
<1>1. /\ Ready /\ c.state = "NodeParams" /\ c.state \in NodeStates
      /\ \/ x.ignoreNextArgProp /\ Finish(y)
         \/ ~x.ignoreNextArgProp /\ Finish(z)
  BY Starting, Kinds DEF NodeParamsSuffixedDecimal
<1>2. Neutral /\ Given = 1 /\ Brought = 1
  <2>1. Neutral /\ Given = 1
    BY <1>1, ValueToken DEF NodeParamsSuffixedDecimal, ValueKeys, TInv, IInv, Ready
  <2>2. QED
    BY <1>1, <2>1, NothingQueued
<1>3. c \in Context /\ Sound(c)
  BY <1>1 DEF Ready
<1>4. x \in Context /\ x.err = "none" /\ SameStacks(c, x) /\ Quiet(c, x)
  BY <1>1, <1>3, NoTokenType, QuietTemporaries
     DEF clearPending, Context, SameStacks, Sound
<1>5. x.doc = c.doc /\ x.ignoreNextArgProp = c.ignoreNextArgProp
      /\ x.node = c.node /\ ~InScope(c) /\ ~Valid(x.ident) /\ x.state = "NodeParams"
  BY <1>1, <1>3, InScopeOf DEF clearPending, Context, Valid, NoToken
<1> HIDE DEF x
<1>6. Sound(x) /\ x.node # <<>> /\ Len(c.doc) \in Nat
  BY <1>1, <1>3, <1>4, KeepSound, SoundTypes DEF SameStacks
<1>7. /\ Quiet(c, y) /\ y.ignoreNextArgProp = FALSE /\ y.ident = x.ident
      /\ x.ignoreNextArgProp => Settles(y.doc, FALSE, 1)
  <2>1. Quiet(c, y)
    BY <1>4, <1>6, QuietTemporaries, QuietTwice
  <2>2. y.doc = c.doc /\ y.ignoreNextArgProp = FALSE /\ y.ident = x.ident
    BY <1>4, <1>5 DEF Context
  <2>3. QED
    BY <1>5, <2>1, <2>2 DEF Settles, SameCounts
<1>8. z.err = "none" /\ ~x.ignoreNextArgProp =>
          /\ Quiet(c, z) /\ z.ignoreNextArgProp = FALSE /\ z.ident = x.ident
          /\ Settles(z.doc, FALSE, 1)
  <2> SUFFICES ASSUME z.err = "none", ~x.ignoreNextArgProp
               PROVE  /\ Quiet(c, z) /\ z.ignoreNextArgProp = FALSE /\ z.ident = x.ident
                      /\ Settles(z.doc, FALSE, 1)
    OBVIOUS
  <2>1. Quiet(c, z) /\ z.ident = x.ident
    BY <1>4, <1>6, QuietValues, QuietTwice
  <2>2. z.ignoreNextArgProp = x.ignoreNextArgProp /\ OneMore(z.doc)
    BY <1>5, <1>6, AddedEntry DEF OneMore, currentNode
  <2>3. x.ignoreNextArgProp = FALSE
    BY <1>4 DEF Context
  <2>4. QED
    BY <1>5, <2>1, <2>2, <2>3 DEF Settles
<1> HIDE DEF y, z
<1>9. ASSUME NEW w, Quiet(c, w), w.ignoreNextArgProp = FALSE, w.ident = x.ident,
             Settles(w.doc, FALSE, 1)
      PROVE  Draws(w)
  <2>1. w.state = c.state
    BY <1>9 DEF Quiet
  <2>2. Beside(w) /\ w.ignoreNextNode = c.ignoreNextNode
    BY <1>1, <1>9, <2>1, QuietBeside
  <2>3. Clean(w) /\ Pending(w) = 0
    BY <1>1, <1>5, <1>9, <2>1, CleanStates
  <2>4. Gain(w) = 1
    BY <1>2, <2>3, GainOf
  <2>5. QED
    BY <1>2, <1>9, <2>2, <2>3, <2>4 DEF Reads, Draws
<1>10. QED
  BY <1>1, <1>7, <1>8, <1>9, FinishDrawn

\* The brace that closes the block around a node closes the node, too, unless a
\* slashdash waits in it.
LEMMA BraceCloseDrawn ==
  ASSUME TInv, Clean(c), Intact, NodeBraceClose \/ NodeParamsBraceClose
  PROVE  Drawn
<1> DEFINE y == popNodeAndState(c)
<1>1. /\ Ready /\ c.state \in {"Node", "NodeParams"} /\ c.state \in NodeStates
      /\ Idle /\ pc = "handle" /\ Reenter(y)
  BY Starting, PlainToken, Kinds DEF NodeBraceClose, NodeParamsBraceClose, PlainKeys, Idle, On
<1>2. c \in Context /\ Sound(c) /\ Settling(c, 0) /\ c.ignoreNextArgProp \in BOOLEAN
      /\ Len(c.node) \in Nat /\ c.node # <<>> /\ c.states # <<>>
  BY <1>1, SettlingItself, SoundTypes DEF Ready, Context
<1>3. ~Valid(c.ident) /\ Brought = 0
  BY <1>1, NothingQueued DEF Idle
<1>4. c.ignoreNextArgProp = FALSE
  <2>1. CASE c.state = "Node"
    BY <1>1, <2>1, NothingQueued
  <2>2. CASE c.state = "NodeParams"
    <3>1. tok.id = "BraceClose"
      <4>1. HandlerKey("NodeParams", tok.id) = "BraceClose"
        BY <1>1, <2>2 DEF NodeBraceClose, NodeParamsBraceClose, On
      <4>2. QED
        BY <4>1, KeyOfToken DEF ClassNames
    <3>2. QED
      BY <1>1, <1>2, <2>2, <3>1 DEF Intact, LeaksSlashdash
  <2>3. QED
    BY <1>1, <2>1, <2>2
<1>5. Draws(y)
  BY <1>1, <1>2, <1>3, <1>4, ClosedDraws DEF Idle
<1> HIDE DEF y
<1>6. QED
  BY <1>1, <1>5, ReenterDrawn

\* The handlers of stateNode, stateNodeParams and stateNodeEnd.
LEMMA NodeHandlerDrawn ==
  ASSUME TInv, Clean(c), Intact, NodeHandler
  PROVE  Drawn
<1> USE DEF NodeStates
<1>0. ASSUME Ready
      PROVE  /\ c \in Context /\ Sound(c) /\ Settling(c, 0)
             /\ c.ignoreChildren \in Nat
             /\ ~(c.ignoreChildren > 0) => c.ignoreChildren = 0
             /\ c.ignoreNextArgProp \in BOOLEAN
             /\ ~c.ignoreNextArgProp <=> c.ignoreNextArgProp = FALSE
  <2>1. c \in Context /\ Sound(c)
    BY <1>0 DEF Ready
  <2>2. c.ignoreChildren \in Nat /\ c.ignoreNextArgProp \in BOOLEAN
    BY <2>1 DEF Context
  <2>3. QED
    BY <1>0, <2>1, <2>2, SettlingItself
<1>p. ASSUME NEW s \in {"Node", "NodeParams", "NodeEnd"}, NEW k \in PlainKeys, On(s, k)
      PROVE  /\ Ready /\ c.state = s /\ c.state \in NodeStates /\ Idle /\ Neutral
             /\ Brought = 0 /\ ~Valid(c.ident)
             /\ s # "NodeParams" => c.ignoreNextArgProp = FALSE
  <2>1. Ready /\ c.state = s /\ Idle
    BY <1>p, Starting, PlainToken DEF Idle
  <2>2. QED
    BY <2>1, NothingQueued DEF Idle
<1>v. ASSUME NEW k \in ValueKeys, On("NodeParams", k)
      PROVE  /\ Ready /\ c.state = "NodeParams" /\ c.state \in NodeStates /\ Neutral
             /\ tok \in Token /\ Valid(tok) /\ Brought - 1 = 0
  <2>1. Ready /\ c.state = "NodeParams" /\ tok \in Token
    BY <1>v, Starting
  <2>2. Neutral /\ tok.id \in EntryTokens /\ Given = 1
    BY <1>v, <2>1, ValueToken
  <2>3. QED
    BY <2>1, <2>2, NothingQueued
       DEF Valid, EntryTokens, ValueLike, Numbers, Unknown
<1>e. ASSUME NEW s \in {"Node", "NodeParams"}, On(s, "Equals")
      PROVE  /\ Ready /\ c.state = s /\ c.state \in NodeStates /\ Idle /\ Neutral
             /\ Brought = 0 /\ ~Valid(c.ident)
  <2>1. Ready /\ c.state = s /\ Neutral /\ Given = -Pending(c)
    BY <1>e, Starting, EqualsToken
  <2>2. Pending(c) = 0 /\ ~Valid(c.ident) /\ Brought = Given
    BY <2>1, NothingQueued
  <2>3. Given = 0
    <3>1. Brought = 0
      BY <2>1, GivenTypes DEF Brought
    <3>2. QED
      BY <2>2, <3>1
  <2>4. QED
    BY <2>1, <2>2, <2>3 DEF Idle
<1> USE DEF PlainKeys
<1>1. ASSUME NodeWhitespace PROVE Drawn
  <2>1. On("Node", "Whitespace") /\ Finish([c EXCEPT !.state = "NodeParams"])
    BY <1>1 DEF NodeWhitespace
  <2>2. QED
    BY <2>1, <1>0, <1>p, MovedDraws, FinishDrawn
<1>2. ASSUME NodeTerminator PROVE Drawn
  <2>1. /\ On("Node", "ClassTerminator")
        /\ Finish(c) \/ Finish(popNodeAndState(c))
    BY <1>2 DEF NodeTerminator
  <2>2. QED
    BY <2>1, <1>0, <1>p, SharedDraws, ClosedDraws, FinishDrawn
<1>3. ASSUME NodeEquals PROVE Drawn
  <2>1. /\ On("Node", "Equals")
        /\ Finish(Unexpected(c)) \/ Finish([c EXCEPT !.state = "NodeParams"])
    BY <1>3 DEF NodeEquals
  <2>2. QED
    BY <2>1, <1>0, <1>e, SharedOutcomes, MovedDraws, FinishDrawn
<1>4. ASSUME NodeBraceOpen PROVE Drawn
  <2>1. /\ On("Node", "BraceOpen") /\ Ready /\ c.state = "Node" /\ ~c.ignoreNextNode
    BY <1>4, <1>p, InScopeOf DEF NodeBraceOpen, Ready, Marks
  <2>2. \/ /\ Finish(pushState(c, "Children")) /\ c.ignoreChildren = 0
        \/ /\ Finish(pushState([openIgnoredBlock(c) EXCEPT !.ignoreNextNode = FALSE],
                               "Children"))
           /\ c.ignoreChildren > 0
    BY <1>4, <2>1, <1>0 DEF NodeBraceOpen
  <2>3. c.ignoreNextArgProp = FALSE /\ c.state \in NodeStates
    BY <2>1, <1>p
  <2>4. QED
    BY <2>1, <2>2, <2>3, <1>0, <1>p, BlockDraws, FinishDrawn
<1>5. ASSUME NodeContinuation \/ NodeParamsContinuation PROVE Drawn
  BY <1>5, <1>p, SharedDraws, FinishDrawn DEF NodeContinuation, NodeParamsContinuation
<1>6. ASSUME NodeComment PROVE Drawn
  BY <1>6, <1>p, SharedDraws, FinishDrawn DEF NodeComment
<1>7. ASSUME NodeBraceClose \/ NodeParamsBraceClose PROVE Drawn
  BY <1>7, BraceCloseDrawn
<1>8. ASSUME NodeParamsWhitespace \/ NodeParamsComment PROVE Drawn
  BY <1>8, <1>p, SharedDraws, FinishDrawn DEF NodeParamsWhitespace, NodeParamsComment
<1>9. ASSUME NodeParamsEquals PROVE Drawn
  <2>1. On("NodeParams", "Equals") /\ (Finish(c) \/ Finish(Unexpected(c)))
    BY <1>9 DEF NodeParamsEquals
  <2>2. QED
    BY <2>1, <1>e, SharedOutcomes, SharedDraws, FinishDrawn
<1>10. ASSUME NodeParamsSlashdash PROVE Drawn
  <2> DEFINE y == [markIgnoreFromContinuation(c) EXCEPT !.ignoreNextArgProp = TRUE]
             z == [markIgnoreFromContinuation(c) EXCEPT !.ignoreNextArgProp = TRUE,
                                                        !.state = "NodeParams"]
  <2>1. /\ Ready /\ c.state = "NodeParams"
        /\ Slashdashed /\ ~NamesNode /\ Given = 0
        /\ Finish(Unexpected(c)) \/ Finish(y)
    BY <1>10, Starting, SlashdashToken DEF NodeParamsSlashdash
  <2>2. y = z
    BY <2>1, <1>0 DEF markIgnoreFromContinuation, Context
  <2>3. Brought = 0 /\ ~Valid(c.ident)
    BY <2>1, NothingQueued
  <2> HIDE DEF y, z
  <2>4. Draws(z)
    BY <2>1, <2>3, <1>0, MarkedDraws DEF z
  <2>5. QED
    BY <2>1, <2>2, <2>4, SharedOutcomes, FinishDrawn
<1>11. ASSUME NodeParamsSingleLineComment PROVE Drawn
  <2>1. /\ On("NodeParams", "SingleLineComment")
        /\ \/ Finish(c)
           \/ ~c.ignoreNextArgProp /\ Finish([c EXCEPT !.state = "NodeEnd"])
    BY <1>11 DEF NodeParamsSingleLineComment
  <2>2. QED
    BY <2>1, <1>0, <1>p, SharedDraws, MovedDraws, FinishDrawn
<1>12. ASSUME NodeParamsParensOpen PROVE Drawn
  <2>1. On("NodeParams", "ParensOpen") /\ Finish(pushState(c, "TypeAnnot"))
    BY <1>12 DEF NodeParamsParensOpen
  <2>2. QED
    BY <2>1, <1>p, TypeEnteredDraws, FinishDrawn
<1>13. ASSUME NodeParamsBareIdentifier \/ NodeParamsValue PROVE Drawn
  <2>1. /\ \/ On("NodeParams", "BareIdentifier") \/ On("NodeParams", "ClassString")
           \/ On("NodeParams", "ClassNonStringValue")
        /\ \E s \in {"ArgProp", "Property"} : Finish([c EXCEPT !.ident = tok, !.state = s])
    BY <1>13 DEF NodeParamsBareIdentifier, NodeParamsValue
  <2>2. /\ Ready /\ c.state \in NodeStates /\ Neutral
        /\ tok \in Token /\ Valid(tok) /\ Brought - 1 = 0
    BY <2>1, <1>v DEF ValueKeys
  <2>3. PICK s \in {"ArgProp", "Property"} : Finish([c EXCEPT !.ident = tok, !.state = s])
    BY <2>1
  <2>4. Draws([c EXCEPT !.ident = tok, !.state = s])
    BY <2>2, <1>0, MovedDraws
  <2>5. QED
    BY <2>3, <2>4, FinishDrawn
<1>14. ASSUME NodeParamsSuffixedDecimal PROVE Drawn
  BY <1>14, SuffixedDecimalDrawn
<1>16. ASSUME NodeParamsBraceOpen PROVE Drawn
  <2>1. On("NodeParams", "BraceOpen")
    BY <1>16 DEF NodeParamsBraceOpen
  <2>2. /\ Ready /\ c.state = "NodeParams" /\ c.state \in NodeStates /\ Neutral
        /\ Brought = 0 /\ ~Valid(c.ident)
    BY <2>1, <1>p
  <2>3. \/ /\ Finish(pushState(c, "Children"))
           /\ c.ignoreChildren = 0 /\ c.ignoreNextArgProp = FALSE
        \/ /\ Finish(pushState([openIgnoredBlock(c) EXCEPT !.ignoreNextArgProp = FALSE],
                               "Children"))
           /\ c.ignoreNextArgProp \/ c.ignoreChildren > 0
    BY <1>16, <2>2, <1>0 DEF NodeParamsBraceOpen
  <2>4. QED
    BY <2>2, <2>3, <1>0, BlockDraws, FinishDrawn
<1>17. ASSUME NodeParamsTerminator PROVE Drawn
  <2>1. /\ On("NodeParams", "ClassTerminator")
        /\ \/ Finish(c) \/ Finish(Unexpected(c)) \/ Finish(ValueExpected(c))
           \/ ~c.ignoreNextArgProp /\ Finish(popNodeAndState(c))
    BY <1>17 DEF NodeParamsTerminator
  <2>2. QED
    BY <2>1, <1>0, <1>p, SharedOutcomes, SharedDraws, ClosedDraws, FinishDrawn
<1>18. ASSUME NodeEndWhitespace PROVE Drawn
  BY <1>18, <1>p, SharedDraws, FinishDrawn DEF NodeEndWhitespace
<1>19. ASSUME NodeEndEndOfLine PROVE Drawn
  <2>1. /\ On("NodeEnd", "ClassEndOfLine")
        /\ \/ Finish([stopContinuation(c) EXCEPT !.state = "NodeParams"])
           \/ Finish(popNodeAndState(c))
    BY <1>19 DEF NodeEndEndOfLine
  <2>2. QED
    BY <2>1, <1>0, <1>p, MovedDraws, ClosedDraws, FinishDrawn
<1>20. QED
  BY <1>1, <1>2, <1>3, <1>4, <1>5, <1>6, <1>7, <1>8, <1>9, <1>10, <1>11, <1>12,
     <1>13, <1>14, <1>16, <1>17, <1>18, <1>19 DEF NodeHandler

\* The slashdash handler of stateArgProp: the queued identifier is settled, and the
\* next entry is marked.
LEMMA ArgPropSlashdashDrawn ==
  ASSUME TInv, Clean(c), ArgPropSlashdash
  PROVE  Drawn
<1> DEFINE x == flushValidIdent(c)
           z == [markIgnoreFromContinuation(x) EXCEPT
                    !.ignoreNextArgProp = TRUE, !.state = "NodeParams"]
<1>1. /\ Ready /\ c.state = "ArgProp" /\ c.state \in NodeStates
      /\ Slashdashed /\ ~NamesNode /\ Given = 0
  BY Starting, SlashdashToken, Kinds DEF ArgPropSlashdash
<1>2. /\ c \in Context /\ c.ident \in Token /\ c.err = "none"
      /\ c.ignoreNextArgProp \in BOOLEAN /\ Pending(c) \in {0, 1}
      /\ Valid(c.ident) => Pending(c) = 1
      /\ ~Valid(c.ident) => Pending(c) = 0 /\ c.ignoreNextArgProp = FALSE
  BY <1>1, NothingQueued, GivenTypes DEF Ready, Context, Sound
<1>3. Brought = Pending(c)
  BY <1>1, <1>2 DEF Brought
<1>4. x.err = "none" => Draws(z)
  <2> DEFINE Flushed1(y) == /\ Settling(y, Pending(c)) /\ ~Valid(y.ident)
  <2>1. x.err = "none" => Flushed1(x)
    BY <1>1, FlushedSettling
  <2> HIDE DEF x
  <2>2. QED
    BY <1>1, <1>3, <2>1, MarkedDraws
<1>5. \/ pc' = "rejected"
      \/ x.err = "none" /\ Finish(z)
  <2> DEFINE w == [c EXCEPT !.ignoreNextArgProp = FALSE]
             a == addArgumentToken(c, c.ident)
             u == IF c.ignoreNextArgProp THEN w ELSE IF Valid(c.ident) THEN a ELSE c
             y == IF Valid(c.ident) THEN clearPending(u) ELSE u
             v == [markIgnoreFromContinuation(y) EXCEPT
                      !.ignoreNextArgProp = TRUE, !.state = "NodeParams"]
  <2>1. \/ u.err # "none" /\ Finish(u)
        \/ u.err = "none" /\ Finish(ValueExpected(u))
        \/ u.err = "none" /\ Finish(v)
    BY DEF ArgPropSlashdash
  <2>2. u.err = "none" => ValueExpected(u).err # "none"
    <3>1. w \in Context /\ c \in Context
      BY <1>2 DEF Context
    <3>2. a.err = "none" => a \in Context
      BY <1>1, <1>2, AddArgument, SoundTypes DEF Sound, Ready
    <3> HIDE DEF w, a
    <3>3. u.err = "none" => u \in Context
      BY <3>1, <3>2
    <3> HIDE DEF u
    <3>4. QED
      BY <3>3 DEF ValueExpected, Fail, Context
  <2>3. u.err = "none" => x.err = "none" /\ x = y
    <3>1. clearPending(u).err = u.err \/ u.err # "none"
      <4>1. w \in Context /\ c \in Context
        BY <1>2 DEF Context
      <4>2. a.err = "none" => a \in Context
        BY <1>1, <1>2, AddArgument, SoundTypes DEF Sound, Ready
      <4> HIDE DEF w, a
      <4>3. u.err = "none" => u \in Context
        BY <4>1, <4>2
      <4> HIDE DEF u
      <4>4. QED
        BY <4>3 DEF clearPending, Context
    <3>2. CASE Valid(c.ident)
      <4>1. flushIdent(c) = IF u.err # "none" THEN u ELSE clearPending(u)
        BY <3>2 DEF flushIdent
      <4>2. x = flushIdent(c) /\ y = clearPending(u)
        BY <3>2 DEF flushValidIdent
      <4> HIDE DEF x, y, u
      <4>3. QED
        BY <3>1, <4>1, <4>2
    <3>3. CASE ~Valid(c.ident)
      <4>1. u = c
        BY <1>2, <3>3
      <4>2. x = c /\ y = c
        BY <3>3, <4>1 DEF flushValidIdent
      <4>3. QED
        BY <1>2, <4>2
    <3>4. QED
      BY <3>2, <3>3
  <2>4. x = y => v = z
    OBVIOUS
  <2> HIDE DEF u, v, x, y, z
  <2>5. QED
    BY <2>1, <2>2, <2>3, <2>4 DEF Finish, Reject
<1> HIDE DEF x, z
<1>6. QED
  BY <1>4, <1>5, FinishDrawn DEF Drawn

\* The handler of stateArgProp for the brace that opens a child block.
LEMMA ArgPropBraceOpenDrawn ==
  ASSUME TInv, Clean(c), ArgPropBraceOpen
  PROVE  Drawn
<1> DEFINE x == flushValidIdent(c)
<1>1. Ready /\ c.state = "ArgProp" /\ c.state \in NodeStates /\ Neutral /\ Given = 0
  BY Starting, PlainToken, Kinds DEF ArgPropBraceOpen, PlainKeys
<1>2. Brought = Pending(c)
  BY <1>1, GivenTypes DEF Brought
<1>3. x.err = "none" => /\ Settling(x, Pending(c)) /\ ~Valid(x.ident)
                        /\ x.ignoreNextArgProp = FALSE
  BY <1>1, FlushedSettling
<1>4. \/ x.err # "none" /\ Finish(x)
      \/ /\ x.err = "none" /\ ~(x.ignoreNextArgProp \/ x.ignoreChildren > 0)
         /\ Finish(pushState(x, "Children"))
      \/ /\ x.err = "none"
         /\ x.ignoreNextArgProp \/ x.ignoreChildren > 0
         /\ Finish(pushState([x EXCEPT !.ignoreNextArgProp = FALSE,
                                       !.ignoreChildren = @ + 1], "Children"))
  BY DEF ArgPropBraceOpen
<1> HIDE DEF x
<1>5. CASE x.err # "none"
  BY <1>4, <1>5, FinishDrawn
<1>6. CASE x.err = "none"
  <2>1. /\ Settling(x, Pending(c)) /\ x.ignoreChildren \in Nat /\ ~Valid(x.ident)
        /\ x.ignoreNextArgProp = FALSE
    BY <1>3, <1>6 DEF Settling, Context
  <2>2. ~(x.ignoreChildren > 0) => x.ignoreChildren = 0
    BY <2>1
  <2>3. /\ x.ignoreChildren = 0 => Draws(pushState(x, "Children"))
        /\ x.ignoreNextArgProp \/ x.ignoreChildren > 0 =>
               Draws(pushState([x EXCEPT !.ignoreNextArgProp = FALSE,
                                         !.ignoreChildren = @ + 1], "Children"))
    BY <1>1, <1>2, <2>1, BlockDraws
  <2>4. QED
    BY <1>4, <1>6, <2>2, <2>3, FinishDrawn
<1>7. QED
  BY <1>5, <1>6

\* The value of a property is its entry.
LEMMA PropertyValueDrawn ==
  ASSUME TInv, Clean(c), PropertyValueValue
  PROVE  Drawn
<1> DEFINE w == [c EXCEPT !.ignoreNextArgProp = FALSE]
           a == addPropertyToken(c, tok)
           x == IF c.ignoreNextArgProp THEN w ELSE a
           y == [clearPending(x) EXCEPT !.state = "Node"]
<1>1. /\ Ready /\ c.state = "PropertyValue" /\ c.state \in NodeStates /\ tok \in Token
      /\ \/ x.err # "none" /\ Finish(x)
         \/ x.err = "none" /\ Finish(y)
  BY Starting, Kinds DEF PropertyValueValue
<1>2. c \in Context /\ Sound(c) /\ c.node # <<>> /\ ~InScope(c)
  BY <1>1, SoundTypes, InScopeOf DEF Ready
<1>3. Neutral /\ Brought = 1
  <2>1. Neutral /\ Given = 1
    BY <1>1, ValueToken DEF PropertyValueValue, ValueKeys
  <2>2. QED
    BY <1>1, <2>1, NothingQueued
<1>4. w \in Context /\ Quiet(c, w) /\ w.doc = c.doc /\ w.ignoreNextArgProp = FALSE
  BY <1>2, QuietTemporaries DEF Context
<1>5. a.err = "none" => /\ a \in Context /\ Quiet(c, a)
                        /\ a.ignoreNextArgProp = c.ignoreNextArgProp /\ OneMore(a.doc)
  <2>1. Outcome(a)
    BY <1>1, <1>2, AddProperty
  <2>2. a.err = "none" => a \in Context /\ Quiet(c, a)
    BY <1>2, <2>1, SoundOutcome, QuietValues DEF Sound
  <2>3. QED
    BY <1>2, <2>2, AddedEntry DEF OneMore
<1>6. c.ignoreNextArgProp \in BOOLEAN
  BY <1>2 DEF Context
<1> HIDE DEF w, a
<1>7. x.err = "none" => Settling(x, 1) /\ x.ignoreNextArgProp = FALSE
  <2>1. CASE c.ignoreNextArgProp
    BY <1>2, <1>4, <2>1 DEF Settling, Settles, SameCounts
  <2>2. CASE ~c.ignoreNextArgProp
    BY <1>2, <1>5, <1>6, <2>2 DEF Settling, Settles
  <2>3. QED
    BY <2>1, <2>2
<1> HIDE DEF x
<1>8. x.err = "none" => Draws(y)
  BY <1>1, <1>3, <1>7, MovedDraws
<1> HIDE DEF y
<1>9. QED
  BY <1>1, <1>8, FinishDrawn

\* The next value settles the queued one, and takes its place.
LEMMA ArgPropValueDrawn ==
  ASSUME TInv, Clean(c), Intact, ArgPropValue
  PROVE  Drawn
<1> DEFINE x == flushIdent(c)
           y == [x EXCEPT !.ident = tok]
           z == [x EXCEPT !.ident = tok, !.state = "ArgProp"]
<1>1. /\ Ready /\ c.state = "ArgProp" /\ c.state \in NodeStates /\ tok \in Token
      /\ Neutral /\ tok.id \in EntryTokens /\ Given = 1 /\ pc = "handle"
      /\ \/ x.err # "none" /\ Finish(x)
         \/ x.err = "none" /\ Finish(y)
  <2>1. Ready /\ c.state = "ArgProp" /\ tok \in Token /\ On("ArgProp", "ClassValue")
    BY Starting DEF ArgPropValue
  <2>2. Neutral /\ tok.id \in EntryTokens /\ Given = 1
    BY <2>1, ValueToken, Kinds DEF ValueKeys
  <2>3. \/ x.err # "none" /\ Finish(x)
        \/ x.err = "none" /\ Finish(y)
    BY DEF ArgPropValue
  <2>4. QED
    BY <2>1, <2>2, <2>3, Kinds DEF On
<1>2. x.err = "none" => Settling(x, 1)
  BY <1>1, FlushedSettling
<1>3. Valid(tok)
  BY <1>1 DEF Valid, EntryTokens, ValueLike, Numbers, Unknown
<1>4. Valid(c.ident)
  BY <1>1 DEF Intact, InventsArgument
<1>5. Brought - 1 = 1
  <2>1. Given = 1 /\ Pending(c) = 1
    BY <1>1, <1>4, NothingQueued
  <2>2. QED
    BY <2>1 DEF Brought
<1> HIDE DEF x
<1>6. ASSUME x.err = "none" PROVE Draws(y)
  <2>1. x \in Context /\ x.state = "ArgProp"
    BY <1>1, <1>2, <1>6 DEF Settling, Quiet
  <2>2. y = z
    BY <2>1 DEF Context
  <2>3. Draws(z)
    BY <1>1, <1>2, <1>3, <1>5, <1>6, MovedDraws
  <2>4. QED
    BY <2>2, <2>3
<1> HIDE DEF y
<1>7. QED
  BY <1>1, <1>6, FinishDrawn

\* The handlers of stateProperty, stateArgProp and statePropertyValue.
LEMMA EntryHandlerDrawn ==
  ASSUME TInv, Clean(c), Intact, EntryHandler
  PROVE  Drawn
<1> USE DEF NodeStates
<1>0. ASSUME Ready PROVE c \in Context /\ Sound(c) /\ Settling(c, 0)
  BY <1>0, SettlingItself DEF Ready
<1>p. ASSUME NEW s \in NodeStates, NEW k \in PlainKeys, On(s, k)
      PROVE  /\ Ready /\ c.state = s /\ c.state \in NodeStates /\ Idle /\ Neutral
             /\ Brought = Pending(c)
  <2>1. Ready /\ c.state = s /\ Idle
    BY <1>p, Starting, PlainToken DEF Idle
  <2>2. QED
    BY <2>1, GivenTypes DEF Idle, Brought
<1> USE DEF PlainKeys
<1>1. ASSUME PropertyEquals \/ ArgPropEquals PROVE Drawn
  <2>1. /\ Ready /\ c.state \in NodeStates
        /\ Neutral /\ Given = -Pending(c)
        /\ Finish(Unexpected(c)) \/ Finish([c EXCEPT !.state = "PropertyValue"])
    BY <1>1, Starting, EqualsToken DEF PropertyEquals, ArgPropEquals
  <2>2. Brought = 0
    BY <2>1, GivenTypes DEF Brought
  <2>3. QED
    BY <2>1, <2>2, <1>0, MovedDraws, SharedOutcomes, FinishDrawn
<1>2. ASSUME PropertyBraceClose \/ PropertyValueBraceClose PROVE Drawn
  <2>1. /\ c.state \in {"Property", "PropertyValue"} /\ pc = "handle"
        /\ HandlerKey(c.state, tok.id) = "BraceClose" /\ tok \in Token
    BY <1>2, Starting DEF PropertyBraceClose, PropertyValueBraceClose, On
  <2>2. tok.id = "BraceClose"
    BY <2>1, KeyOfToken DEF ClassNames
  <2>3. QED
    BY <2>1, <2>2 DEF Intact, LeavesName
<1>3. ASSUME ArgPropWhitespace PROVE Drawn
  <2> DEFINE x == flushIdent(c)
  <2>1. /\ On("ArgProp", "Whitespace")
        /\ \/ Finish(c)
           \/ ~V2 /\ x.err # "none" /\ Finish(x)
           \/ ~V2 /\ x.err = "none" /\ Finish([x EXCEPT !.state = "NodeParams"])
    BY <1>3 DEF ArgPropWhitespace
  <2>2. /\ Ready /\ c.state = "ArgProp" /\ c.state \in NodeStates /\ Idle /\ Neutral
        /\ Brought = Pending(c) /\ pc = "handle"
    BY <2>1, <1>p DEF On
  <2>3. tok.id = "Whitespace" \/ tok.id # "Whitespace"
    OBVIOUS
  <2>4. x.err = "none" => Settling(x, 1) /\ ~Valid(x.ident)
    BY <2>2, FlushedSettling
  <2>5. ~V2 => Brought = 1
    <3>1. tok.id = "Whitespace"
      BY <2>1, KeyOfToken DEF ClassNames, On
    <3>2. ~V2 => Valid(c.ident)
      BY <2>2, <3>1 DEF Intact, InventsArgument
    <3>3. QED
      BY <2>2, <3>2, NothingQueued
  <2> HIDE DEF x
  <2>6. x.err = "none" /\ ~V2 => Draws([x EXCEPT !.state = "NodeParams"])
    BY <2>2, <2>4, <2>5, MovedDraws
  <2>7. QED
    BY <2>1, <2>2, <2>6, SharedDraws, FinishDrawn
<1>4. ASSUME ArgPropComment \/ PropertyValueTrivia PROVE Drawn
  <2>1. Ready /\ Idle /\ Finish(V2Only(c))
    BY <1>4, <1>p DEF ArgPropComment, PropertyValueTrivia
  <2>2. QED
    BY <2>1, SharedDraws, FinishDrawn
<1>5. ASSUME ArgPropContinuation \/ PropertyValueContinuation PROVE Drawn
  <2>1. Ready /\ Idle /\ (Finish(startContinuation(c)) \/ Finish(Unexpected(c)))
    BY <1>5, <1>p DEF ArgPropContinuation, PropertyValueContinuation
  <2>2. QED
    BY <2>1, SharedOutcomes, SharedDraws, FinishDrawn
<1>6. ASSUME ArgPropTerminator \/ ArgPropBraceClose PROVE Drawn
  <2> DEFINE x == flushValidIdent(c)
  <2>1. /\ Ready /\ c.state = "ArgProp" /\ c.state \in NodeStates /\ Idle /\ Neutral
        /\ Brought = Pending(c)
    BY <1>6, <1>p DEF ArgPropTerminator, ArgPropBraceClose
  <2>2. \/ Finish(c)
        \/ x.err # "none" /\ (Finish(x) \/ Reenter(x))
        \/ /\ x.err = "none"
           /\ Finish(popNodeAndState(x)) \/ Reenter(popNodeAndState(x))
    BY <1>6 DEF ArgPropTerminator, ArgPropBraceClose
  <2>3. x.err = "none" => /\ Settling(x, Pending(c)) /\ Sound(x)
                          /\ ~Valid(x.ident) /\ x.ignoreNextArgProp = FALSE
    BY <2>1, FlushedSettling
  <2> HIDE DEF x
  <2>4. x.err = "none" => Draws(popNodeAndState(x))
    BY <2>1, <2>3, ClosedDraws
  <2>5. QED
    BY <2>1, <2>2, <2>4, SharedDraws, FinishDrawn, ReenterDrawn
<1>7. ASSUME ArgPropValue PROVE Drawn
  BY <1>7, ArgPropValueDrawn
<1>8. ASSUME PropertyValueParensOpen PROVE Drawn
  <2>1. /\ Ready /\ Idle /\ c.state = "PropertyValue"
        /\ Finish(pushState(c, "TypeAnnot"))
    BY <1>8, <1>p DEF PropertyValueParensOpen
  <2>2. QED
    BY <2>1, TypeEnteredDraws, FinishDrawn
<1>9. ASSUME PropertyValueValue PROVE Drawn
  BY <1>9, PropertyValueDrawn
<1>10. QED
  BY <1>1, <1>2, <1>3, <1>4, <1>5, <1>6, <1>7, <1>8, <1>9,
     ArgPropSlashdashDrawn, ArgPropBraceOpenDrawn DEF EntryHandler

----------------------------------------------------------------------------
(* The parser implements the outline.                                    *)

\* The checks that precede the transition function read on.
LEMMA ParseDrawn ==
  ASSUME TInv, Clean(c), Parse
  PROVE  Drawn
<1> DEFINE a == leaveIgnoredChildBlock(c, tok)
           b == trackContinuation(a, tok)
           y == [b EXCEPT !.recent = prevKind(tok)]
           Same(u, v) == /\ v.states = u.states /\ v.state = u.state /\ v.node = u.node
                         /\ v.doc = u.doc /\ v.ident = u.ident
                         /\ v.ignoreNextNode = u.ignoreNextNode
                         /\ v.ignoreNextArgProp = u.ignoreNextArgProp
                         /\ v.ignoreChildren = u.ignoreChildren
<1> SUFFICES ASSUME pc' # "rejected" PROVE Draws(c')
  BY DEF Drawn
<1>1. Ready /\ c \in Context /\ c' = y
  BY DEF TInv, IInv, Parse, Reject, Ready, Sound
<1>2. a \in Context /\ Same(c, a)
  BY <1>1 DEF leaveIgnoredChildBlock, Context
<1> HIDE DEF a
<1>3. b \in Context /\ Same(a, b)
  BY <1>2, ZenonT(60) DEF trackContinuation, stopContinuation, Context
<1> HIDE DEF b
<1>4. Same(b, y)
  BY <1>3 DEF Context
<1> HIDE DEF y
<1>5. Same(c, y)
  BY <1>2, <1>3, <1>4
<1>6. Neutral /\ Given = 0
  BY NothingRead DEF Parse
<1>7. Clean(y) /\ Pending(y) = Pending(c)
  BY <1>5 DEF Clean, Pending, Innermost
<1>8. Gain(y) = 0
  BY <1>6, <1>7, GainOf
<1>9. QED
  BY <1>1, <1>5, <1>6, <1>7, <1>8, SettlingItself, QuietReads

\* While the document is read and no defect was met, nodes hang off nodes that were
\* there before them, what is queued will be used, and the tokens were counted.
OInv ==
    /\ TInv /\ defect \in BOOLEAN
    /\ pc = "rejected" => seen = Nothing /\ ~defect
    /\ pc # "rejected" /\ ~defect => Rooted(c) /\ Clean(c) /\ Counted

\* A rejected document has no outline.
LEMMA RejectedOutline ==
  ASSUME NEW e
  PROVE  OutlineOf(Fail(NewContext, e), Nothing) = Outline!Empty
<1> DEFINE y == Fail(NewContext, e)
           E == [n \in {} |-> 0]
<1>1. /\ y.node = <<>> /\ y.doc = <<>> /\ y.states = <<>> /\ y.state = "Document"
      /\ y.ignoreNextNode = FALSE /\ y.ignoreNextArgProp = FALSE
  BY DEF Fail, NewContext
<1>2. PICK f : f = FALSE
  OBVIOUS
<1> HIDE DEF y, E
<1>3. Height(y) = 0
  <2>1. InScope(y)
    BY <1>1, InScopeOf, Kinds
  <2>2. QED
    BY <1>1, <2>1 DEF OpenBlocks, Height
<1>4. Reachable(y.doc) = {}
  BY <1>1 DEF Reachable
<1>5. Frames(y) = <<>>
  <2>1. Frames(y) = [k \in 1 .. 0 |-> FrameOf(y, k)]
    BY <1>3 DEF Frames
  <2>2. QED
    BY <2>1
<1>6. Counts(y.doc) = E
  BY <1>4 DEF Counts, E
<1>7. Settled(y, Nothing) = 0
  <2>1. Pending(y) = 0
    BY <1>1 DEF Pending
  <2>2. QED
    BY <2>1 DEF Settled, Nothing
<1>8. Nothing.nodes = 0 /\ Nothing.slashdashes = 0
  BY DEF Nothing
<1>9. Shows(OutlineOf(y, Nothing), <<>>, 0, 0, 0, E, f, f)
  BY <1>1, <1>2, <1>5, <1>6, <1>7, <1>8, OutlineDrawn
<1>10. Shows(Outline!Empty, <<>>, 0, 0, 0, E, f, f)
  BY <1>2 DEF Shows, Drawing, Outline!Empty, E
<1>11. QED
  BY <1>9, <1>10, ShownAlike DEF y

\* Nor has the empty context.
LEMMA EmptyOutline == OutlineOf(NewContext, Nothing) = Outline!Empty
<1>1. NewContext = Fail(NewContext, "none")
  <2>1. NewContext.err = "none" /\ NewContext = [NewContext EXCEPT !.err = NewContext.err]
    BY DEF NewContext
  <2>2. QED
    BY <2>1 DEF Fail
<1>2. QED
  BY <1>1, RejectedOutline

\* The outline after a step.
LEMMA OutlineNext ==
  outline' = OutlineOf(IF defect' THEN NewContext ELSE c', IF defect' THEN Nothing ELSE seen')
BY DEF outline, OutlineOf, FrameOf, Reachable, HoldsChildren, OpenBlocks, InScope, Innermost,
       Entries, Pending, NewContext

\* A rejected input stays rejected.
LEMMA RejectedStays ==
  ASSUME OInv, Next, History, pc = "rejected"
  PROVE  outline' = outline /\ OInv'
<1>1. ~Step /\ ~(\E t \in Tokens : Scan(t))
  <2>1. ~Step
    BY DEF Step, Parse, NoHandler, On, ScopeHandler, DocumentWhitespace, DocumentIdentifier,
        DocumentParensOpen, DocumentTerminator, DocumentComment, DocumentSlashdash,
        DocumentContinuation, ChildrenWhitespace, ChildrenComment, ChildrenContinuation,
        ChildrenSlashdash, ChildrenParensOpen, ChildrenNewline, ChildrenIdentifier,
        ChildrenBraceClose, TypeHandler, TypeTrivia, TypeContinuation, TypeName,
        TypeDoneParensClose, NodeHandler, NodeWhitespace, NodeTerminator, NodeEquals,
        NodeBraceOpen, NodeContinuation, NodeComment, NodeBraceClose, NodeParamsWhitespace,
        NodeParamsEquals, NodeParamsSlashdash, NodeParamsComment,
        NodeParamsSingleLineComment, NodeParamsContinuation, NodeParamsParensOpen,
        NodeParamsBareIdentifier, NodeParamsBraceClose, NodeParamsSuffixedDecimal,
        NodeParamsValue, NodeParamsBraceOpen, NodeParamsTerminator, NodeEndWhitespace,
        NodeEndEndOfLine, EntryHandler, PropertyEquals, PropertyBraceClose,
        ArgPropSlashdash, ArgPropBraceOpen, ArgPropEquals, ArgPropWhitespace,
        ArgPropComment, ArgPropContinuation, ArgPropTerminator, ArgPropValue,
        ArgPropBraceClose, PropertyValueTrivia, PropertyValueContinuation,
        PropertyValueParensOpen, PropertyValueValue, PropertyValueBraceClose
  <2>2. QED
    BY <2>1 DEF Scan
<1>2. c' = c /\ pc' = "rejected" /\ UNCHANGED vars
  BY <1>1 DEF Next, Returned, vars
<1>3. seen = Nothing /\ ~defect /\ seen' = Nothing /\ ~defect' /\ defect' \in BOOLEAN
  BY <1>2 DEF OInv, History
<1>4. outline = OutlineOf(c, Nothing) /\ outline' = OutlineOf(c, Nothing)
  BY <1>2, <1>3, OutlineNext DEF outline
<1>5. TInv'
  BY <1>2, NextTInv DEF OInv
<1>6. QED
  BY <1>2, <1>3, <1>4, <1>5 DEF OInv

\* A step that runs into a defect, or rejects the input, drops the outline.
LEMMA AbandonedOutline ==
  ASSUME OInv, Next, History, pc' = "rejected" \/ defect'
  PROVE  Outline!ONext /\ OInv'
<1>1. TInv'
  BY NextTInv DEF OInv
<1>2. defect' \in BOOLEAN
  <2>1. CASE defect' = FALSE
    BY <2>1
  <2>2. CASE defect' # FALSE
    BY <2>2 DEF History
  <2>3. QED
    BY <2>1, <2>2
<1>3. CASE pc' = "rejected"
  <2>1. PICK e : c' = Fail(NewContext, e)
    BY <1>3, NextIInv DEF OInv, TInv, IInv
  <2>2. seen' = Nothing /\ ~defect'
    BY <1>3 DEF History
  <2>3. outline' = Outline!Empty
    BY <2>1, <2>2, RejectedOutline, OutlineNext
  <2>4. QED
    BY <1>1, <1>2, <1>3, <2>2, <2>3 DEF Outline!ONext, Outline!Abandon, OInv
<1>4. CASE pc' # "rejected" /\ defect'
  <2>1. outline' = Outline!Empty
    BY <1>4, EmptyOutline, OutlineNext
  <2>2. QED
    BY <1>1, <1>2, <1>4, <2>1 DEF Outline!ONext, Outline!Abandon, OInv
<1>5. QED
  BY <1>3, <1>4

\* Every other step of a handler is a step of the outline.
LEMMA StepOutlined ==
  ASSUME OInv, Step, History, pc # "rejected", pc' # "rejected", ~defect'
  PROVE  Outlined /\ Clean(c')
<1>1. /\ ~defect /\ Intact
      /\ seen' = [nodes |-> seen.nodes + IF NamesNode THEN 1 ELSE 0,
                  entries |-> seen.entries + Given,
                  slashdashes |-> seen.slashdashes + IF Slashdashed THEN 1 ELSE 0]
  BY DEF History, Intact
<1>2. TInv /\ Ready /\ Rooted(c) /\ Clean(c) /\ Counted
  BY <1>1 DEF OInv, TInv, IInv, Ready, Sound
<1>3. Drawn
  <2>1. CASE NoHandler
    <3>1. Unexpected(c).err # "none"
      BY <1>2, SharedOutcomes
    <3>2. QED
      BY <2>1, <3>1, FinishDrawn DEF NoHandler
  <2>2. QED
    BY <1>1, <1>2, <2>1, ParseDrawn, ScopeHandlerDrawn, TypeHandlerDrawn, NodeHandlerDrawn,
       EntryHandlerDrawn DEF Step
<1>4. Draws(c')
  BY <1>3 DEF Drawn
<1>5. Next
  BY DEF Next
<1>6. Sound(c')
  BY <1>2, <1>5, NextIInv DEF TInv, IInv, Sound, NodesExist
<1>7. Path(c') /\ Hidden(c') /\ OnlyCurrent(c, c'.doc)
  BY <1>2, <1>5, NextStepped DEF Stepped, Advance
<1>8. Continuing
  BY <1>1, <1>2, <1>6, <1>7 DEF Continuing
<1>9. QED
  BY <1>4, <1>8, DrawsOutlined DEF Draws

\* So every step of parseOne is one, and keeps the invariant.
LEMMA NextOutlined ==
  ASSUME OInv, Next, History
  PROVE  (Outline!ONext \/ outline' = outline) /\ OInv'
<1>1. CASE pc = "rejected"
  BY <1>1, RejectedStays
<1>2. CASE pc' = "rejected" \/ defect'
  BY <1>2, AbandonedOutline
<1>3. CASE pc # "rejected" /\ pc' # "rejected" /\ ~defect' /\ Step
  <2>1. Outlined /\ Clean(c')
    BY <1>3, StepOutlined
  <2>2. TInv' /\ defect' \in BOOLEAN
    BY <1>3, NextTInv DEF OInv, History
  <2>3. QED
    BY <1>3, <2>1, <2>2 DEF Outlined, OInv, Rooted, Clean, Innermost
<1>4. CASE pc # "rejected" /\ pc' # "rejected" /\ ~defect' /\ ~Step
  <2>1. c' = c /\ pc # "handle"
    BY <1>4 DEF Next, Scan, Returned, vars
  <2>2. ~defect /\ ~NamesNode /\ ~Slashdashed /\ Given = 0
    BY <1>4, <2>1, NothingRead DEF History, Neutral
  <2>3. Rooted(c) /\ Clean(c) /\ Counted
    BY <1>4, <2>2 DEF OInv
  <2>4. seen' = seen
    <3>1. PICK n, e, s \in Int : seen = [nodes |-> n, entries |-> e, slashdashes |-> s]
      BY <2>3 DEF Counted
    <3>2. seen' = [nodes |-> n + 0, entries |-> e + 0, slashdashes |-> s + 0]
      BY <1>4, <2>2, <3>1 DEF History
    <3>3. n + 0 = n /\ e + 0 = e /\ s + 0 = s
      OBVIOUS
    <3>4. QED
      BY <3>1, <3>2, <3>3
  <2>5. outline' = outline
    BY <1>4, <2>1, <2>2, <2>4, OutlineNext DEF outline
  <2>6. TInv' /\ defect' \in BOOLEAN
    BY <1>4, NextTInv DEF OInv, History
  <2>7. Counted'
    BY <2>1, <2>3, <2>4 DEF Counted
  <2>8. QED
    BY <1>4, <2>1, <2>3, <2>5, <2>6, <2>7 DEF OInv, Rooted, Clean, Innermost
<1>5. QED
  BY <1>1, <1>2, <1>3, <1>4

\* The outline starts empty.
LEMMA InitOutlined == Init /\ seen = Nothing /\ defect = FALSE => OInv /\ Outline!OInit
<1> SUFFICES ASSUME Init, seen = Nothing, defect = FALSE PROVE OInv /\ Outline!OInit
  OBVIOUS
<1>1. c = NewContext /\ pc = "scan"
  BY DEF Init
<1>2. outline = Outline!Empty
  BY <1>1, EmptyOutline DEF outline
<1>3. Rooted(c)
  BY <1>1 DEF Rooted, NewContext
<1>4. Clean(c)
  BY <1>1 DEF Clean, NewContext, Valid, NoToken
<1>5. Counted
  BY <1>1 DEF Counted, Nothing, NewContext
<1>6. QED
  BY <1>1, <1>2, <1>3, <1>4, <1>5, InitTInv DEF OInv, Outline!OInit

\* Until the input runs into one of the three defects KdlParserOutline names, the marks
\* of ParseContext that slashdash sets (context.go:53-64), the queued identifier, the
\* two stacks and the parent links of the document together do what KdlOutline
\* promises: the nodes that can be reached are those that no slashdash hides, and each
\* has as many entries as the input gave it without a slashdash.
THEOREM ParserImplementsOutline == OutlineSpec => ImplementsOutline
<1>1. Init /\ seen = Nothing /\ defect = FALSE => OInv /\ Outline!OInit
  BY InitOutlined
<1>2. OInv /\ [Next /\ History]_<<vars, seen, defect>> => OInv' /\ [Outline!ONext]_outline
  <2>1. ASSUME OInv, UNCHANGED <<vars, seen, defect>> PROVE OInv' /\ outline' = outline
    <3>1. c' = c /\ pc' = pc /\ seen' = seen /\ defect' = defect /\ UNCHANGED vars
      BY <2>1 DEF vars
    <3>2. outline' = outline
      BY <3>1, OutlineNext DEF outline
    <3>3. TInv'
      BY <2>1, <3>1, NextTInv DEF OInv
    <3>4. QED
      BY <2>1, <3>1, <3>2, <3>3 DEF OInv, Rooted, Clean, Innermost, Counted
  <2>2. QED
    BY <2>1, NextOutlined
<1>3. QED
  BY <1>1, <1>2, PTL DEF OutlineSpec, ImplementsOutline, Outline!OSpec
============================================================================
