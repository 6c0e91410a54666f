-------------------------- MODULE KdlParserProofs --------------------------
(***************************************************************************)
(* Proofs about the parser of KdlParser, for every alphabet, every set of  *)
(* options and every bound.                                                *)
(*                                                                         *)
(* The argument has three layers: what pushing and popping does to a well- *)
(* formed state stack (over plain sequences), what each ParseContext       *)
(* method does to a sound context, and one step per transition function,   *)
(* grouped by the state it serves.  IInv says that the context is sound    *)
(* until it is thrown away.                                                *)
(***************************************************************************)
EXTENDS KdlParser, SequenceTheorems, TLAPS

----------------------------------------------------------------------------
(* The state stack, as sequences.                                          *)

\* Entering a type annotation (pushState of a ParensOpen handler) keeps the
\* state stack well formed, with the same number of open nodes.
LEMMA PushTypeStacked ==
  ASSUME NEW S \in Seq(States), NEW s \in States, NEW k \in Nat,
         Stacked(S, s, k), s \in ScopeStates \cup {"NodeParams", "PropertyValue"}
  PROVE  Stacked(Append(S, s), "TypeAnnot", k)
<1> DEFINE T == Append(S, s)
<1>1. /\ Len(T) = Len(S) + 1 /\ Len(S) \in Nat
      /\ \A i \in 1 .. Len(S) : T[i] = S[i]
      /\ T[Len(S) + 1] = s
  BY AppendProperties, LenProperties
<1> HIDE DEF T
<1>2. StatesAlternate(T, "TypeAnnot")
  BY <1>1 DEF Stacked, StatesAlternate, Alternate, ScopeStates, NodeStates, TypeStates
<1>3. NodesMatchStates(T, "TypeAnnot", k)
  BY <1>1 DEF Stacked, NodesMatchStates, ScopeStates, NodeStates, TypeStates
<1>4. QED
  BY <1>2, <1>3 DEF Stacked, T

\* Entering a child block (pushState of a BraceOpen handler) keeps the state
\* stack well formed, with the same number of open nodes.
LEMMA PushChildrenStacked ==
  ASSUME NEW S \in Seq(States), NEW s \in NodeStates, NEW k \in Nat,
         Stacked(S, s, k)
  PROVE  Stacked(Append(S, s), "Children", k)
<1> DEFINE T == Append(S, s)
<1>1. /\ Len(T) = Len(S) + 1 /\ Len(S) \in Nat
      /\ \A i \in 1 .. Len(S) : T[i] = S[i]
      /\ T[Len(S) + 1] = s
  BY AppendProperties, LenProperties DEF States
<1> HIDE DEF T
<1>2. StatesAlternate(T, "Children")
  BY <1>1 DEF Stacked, StatesAlternate, Alternate, ScopeStates, NodeStates, TypeStates
<1>3. NodesMatchStates(T, "Children", k)
  BY <1>1 DEF Stacked, NodesMatchStates, ScopeStates, NodeStates, TypeStates
<1>4. QED
  BY <1>2, <1>3 DEF Stacked, T

\* Opening a node (addNode or createNode, then pushState) keeps the state stack
\* well formed, with one node more.
LEMMA PushNodeStacked ==
  ASSUME NEW S \in Seq(States), NEW s \in ScopeStates, NEW k \in Nat,
         Stacked(S, s, k)
  PROVE  Stacked(Append(S, s), "Node", k + 1)
<1> DEFINE T == Append(S, s)
<1>1. /\ Len(T) = Len(S) + 1 /\ Len(S) \in Nat
      /\ \A i \in 1 .. Len(S) : T[i] = S[i]
      /\ T[Len(S) + 1] = s
  BY AppendProperties, LenProperties DEF States
<1> HIDE DEF T
<1>2. StatesAlternate(T, "Node")
  BY <1>1 DEF Stacked, StatesAlternate, Alternate, ScopeStates, NodeStates, TypeStates
<1>3. NodesMatchStates(T, "Node", k + 1)
  BY <1>1 DEF Stacked, NodesMatchStates, ScopeStates, NodeStates, TypeStates
<1>4. QED
  BY <1>2, <1>3 DEF Stacked, T

\* Only the document has an empty state stack, and a node is open wherever a
\* handler dereferences the current node: popState and popNode find something.
LEMMA NotEmptyStacked ==
  ASSUME NEW S \in Seq(States), NEW s \in States, NEW k \in Nat, Stacked(S, s, k)
  PROVE  /\ s # "Document" => S # <<>> /\ Len(S) > 0
         /\ s \in NodeStates \cup {"Children"} => k > 0
<1>1. Len(S) \in Nat
  BY LenProperties
<1>2. s # "Document" => Len(S) > 0
  BY <1>1 DEF Stacked, StatesAlternate
<1>3. s \in NodeStates => k > 0
  BY <1>1 DEF Stacked, NodesMatchStates
<1>4. s = "Children" => k > 0
  BY <1>1, <1>2 DEF Stacked, NodesMatchStates, ScopeStates
<1>5. QED
  BY <1>2, <1>3, <1>4

\* popState leaves a well-formed stack, in a state of the right kind; leaving a
\* node state also leaves one node.
LEMMA PopStacked ==
  ASSUME NEW S \in Seq(States), NEW s \in States, NEW k \in Nat,
         Stacked(S, s, k), s # "Document"
  PROVE  LET T == SubSeq(S, 1, Len(S) - 1)
             t == S[Len(S)]
         IN  /\ T \in Seq(States) /\ t \in States
             /\ Stacked(T, t, IF s \in NodeStates THEN k - 1 ELSE k)
             /\ s \in NodeStates => t \in ScopeStates
             /\ s = "Children" => t \in NodeStates
             /\ s \in TypeStates => t \in ScopeStates \cup {"NodeParams", "PropertyValue"}
<1> DEFINE n == Len(S)
           T == SubSeq(S, 1, n - 1)
           t == S[n]
<1>1. n \in Nat /\ n > 0
  BY LenProperties, NotEmptyStacked
<1>2. \A i \in 1 .. n : S[i] \in States
  BY ElementOfSeq
<1>3. T \in Seq(States) /\ Len(T) = n - 1 /\ \A i \in 1 .. n - 1 : T[i] = S[i]
  <2>1. \A i \in 1 .. n - 1 : S[i] \in States
    BY <1>1, <1>2
  <2>2. /\ T \in Seq(States)
        /\ Len(T) = IF 1 <= n - 1 THEN n - 1 - 1 + 1 ELSE 0
        /\ \A i \in 1 .. n - 1 - 1 + 1 : T[i] = S[1 + i - 1]
    BY <1>1, <2>1, SubSeqProperties
  <2> HIDE DEF T, n
  <2>3. n - 1 - 1 + 1 = n - 1 /\ \A i \in 1 .. n - 1 : 1 + i - 1 = i
    BY <1>1
  <2>4. QED
    BY <1>1, <2>2, <2>3
<1>4. StatesAlternate(S, s) /\ NodesMatchStates(S, s, k)
  BY DEF Stacked
<1>5. /\ \A i \in 1 .. n : /\ S[i] \in ScopeStates \cup NodeStates
                           /\ S[i] = "Document" <=> i = 1
      /\ \A i \in 1 .. n - 1 : Alternate(S[i], S[i + 1])
      /\ s \notin TypeStates => Alternate(S[n], s)
      /\ s \in TypeStates => S[n] \in ScopeStates \cup {"NodeParams", "PropertyValue"}
  BY <1>1, <1>4 DEF StatesAlternate
<1>6. /\ t \in States /\ t \in ScopeStates \cup NodeStates
      /\ t = "Document" <=> n = 1
  <2>1. n \in 1 .. n
    BY <1>1
  <2>2. QED
    BY <2>1, <1>2, <1>5
<1>7. /\ s \in NodeStates => t \in ScopeStates
      /\ s \in ScopeStates => t \in NodeStates
      /\ s \in TypeStates => t \in ScopeStates \cup {"NodeParams", "PropertyValue"}
  BY <1>5, <1>6 DEF Alternate, ScopeStates, NodeStates, TypeStates
<1> HIDE DEF n, T, t
<1>8. StatesAlternate(T, t)
  <2>1. \A i \in 1 .. n - 1 : /\ T[i] \in ScopeStates \cup NodeStates
                              /\ T[i] = "Document" <=> i = 1
    <3>1. \A i \in 1 .. n - 1 : i \in 1 .. n /\ T[i] = S[i]
      BY <1>1, <1>3
    <3>2. QED
      BY <3>1, <1>5
  <2>2. \A i \in 1 .. n - 2 : Alternate(T[i], T[i + 1])
    BY <1>1, <1>3, <1>5
  <2>3. n - 1 > 0 => Alternate(T[n - 1], t)
    BY <1>1, <1>3, <1>5 DEF t
  <2>4. t \notin TypeStates
    BY <1>6 DEF ScopeStates, NodeStates, TypeStates
  <2>5. QED
    BY <1>1, <1>3, <1>6, <2>1, <2>2, <2>3, <2>4 DEF StatesAlternate
<1>9. NodesMatchStates(T, t, IF s \in NodeStates THEN k - 1 ELSE k)
  <2>1. CASE s \in NodeStates
    BY <2>1, <1>1, <1>3, <1>4, <1>7 DEF NodesMatchStates, n, ScopeStates, NodeStates, TypeStates
  <2>2. CASE s \in ScopeStates
    BY <2>2, <1>1, <1>3, <1>4, <1>7 DEF NodesMatchStates, n, ScopeStates, NodeStates, TypeStates
  <2>3. CASE s \in TypeStates
    BY <2>3, <1>1, <1>3, <1>4, <1>7 DEF NodesMatchStates, n, t, ScopeStates, NodeStates, TypeStates
  <2>4. QED
    BY <2>1, <2>2, <2>3 DEF States
<1>10. QED
  BY <1>3, <1>6, <1>7, <1>8, <1>9 DEF Stacked, n, T, t, ScopeStates

\* Handlers that assign c.state directly move between the states of one node, or
\* of one type annotation, which the stack does not tell apart.
LEMMA SameKindStacked ==
  ASSUME NEW S \in Seq(States), NEW s, NEW t, NEW k \in Nat, Stacked(S, s, k),
         \/ s \in NodeStates /\ t \in NodeStates
         \/ s \in TypeStates /\ t \in TypeStates
  PROVE  Stacked(S, t, k)
BY DEF Stacked, StatesAlternate, NodesMatchStates, Alternate,
       ScopeStates, NodeStates, TypeStates

----------------------------------------------------------------------------
(* Contexts: what a handler may return.                                    *)

\* The nodes on the stack, and the last one created, are in the document.
NodesExist(x) ==
    /\ \A i \in 1 .. Len(x.node) : x.node[i] \in 1 .. Len(x.doc)
    /\ x.lastAddedNode \in 0 .. Len(x.doc)
    /\ x.node # <<>> => x.lastAddedNode # 0

\* A context in which parsing can go on.
Sound(x) ==
    /\ x \in Context
    /\ x.err = "none"
    /\ Stacked(x.states, x.state, Len(x.node))
    /\ NodesExist(x)

InputErrors == Errors \ {"none", "state stack empty", "node stack empty", "nil node"}

Outcome(x) == Sound(x) \/ x.err \in InputErrors

SameStacks(x, y) ==
    /\ y.states = x.states /\ y.state = x.state /\ y.node = x.node
    /\ Len(y.doc) = Len(x.doc) /\ y.lastAddedNode = x.lastAddedNode

\* A handler that changes only flags and temporaries keeps the context sound.
LEMMA KeepSound ==
  ASSUME NEW x, Sound(x), NEW y \in Context, y.err = "none", SameStacks(x, y)
  PROVE  Sound(y)
BY DEF Sound, NodesExist, SameStacks

\* So does one that also moves between the states of one node or one type.
LEMMA MoveSound ==
  ASSUME NEW x, Sound(x), NEW y \in Context, y.err = "none",
         y.states = x.states, y.node = x.node,
         Len(y.doc) = Len(x.doc), y.lastAddedNode = x.lastAddedNode,
         \/ x.state \in NodeStates /\ y.state \in NodeStates
         \/ x.state \in TypeStates /\ y.state \in TypeStates
  PROVE  Sound(y)
<1>1. x.states \in Seq(States) /\ Len(x.node) \in Nat
  BY LenProperties DEF Sound, Context
<1>2. Stacked(y.states, y.state, Len(y.node))
  BY <1>1, SameKindStacked DEF Sound
<1>3. QED
  BY <1>2 DEF Sound, NodesExist

\* What a sound context offers its handlers: typed stacks, and a current node
\* wherever one is dereferenced.
LEMMA SoundTypes ==
  ASSUME NEW x, Sound(x)
  PROVE  /\ x.states \in Seq(States) /\ x.state \in States
         /\ x.node \in Seq(Nat) /\ Len(x.node) \in Nat
         /\ x.doc \in Seq(Node) /\ Len(x.doc) \in Nat /\ DOMAIN x.doc = 1 .. Len(x.doc)
         /\ x.state # "Document" => x.states # <<>>
         /\ x.state \in NodeStates \cup {"Children"} =>
               /\ x.node # <<>> /\ Len(x.node) > 0
               /\ currentNode(x) \in 1 .. Len(x.doc)
               /\ x.lastAddedNode \in 1 .. Len(x.doc)
<1>1. /\ x.states \in Seq(States) /\ x.state \in States
      /\ x.node \in Seq(Nat) /\ x.doc \in Seq(Node)
  BY DEF Sound, Context
<1>2. /\ Len(x.node) \in Nat /\ Len(x.doc) \in Nat
      /\ DOMAIN x.doc = 1 .. Len(x.doc)
  BY <1>1, LenProperties
<1>3. /\ x.state # "Document" => x.states # <<>>
      /\ x.state \in NodeStates \cup {"Children"} => Len(x.node) > 0
  BY <1>1, <1>2, NotEmptyStacked DEF Sound
<1>4. x.state \in NodeStates \cup {"Children"} => x.node # <<>>
  BY <1>3
<1>5. x.state \in NodeStates \cup {"Children"} =>
         currentNode(x) \in 1 .. Len(x.doc) /\ x.lastAddedNode \in 1 .. Len(x.doc)
  BY <1>2, <1>3, <1>4 DEF Sound, NodesExist, currentNode
<1>6. QED
  BY <1>1, <1>2, <1>3, <1>4, <1>5

\* Returning an error of the input is a legal outcome of a handler.
LEMMA FailOutcome ==
  ASSUME NEW x \in Context, NEW e \in InputErrors
  PROVE  Outcome(Fail(x, e)) /\ Fail(x, e).err # "none"
BY DEF Outcome, Fail, Context, InputErrors

\* Updating one node of the document keeps it a document of the same length.
LEMMA ReplacedNode ==
  ASSUME NEW D \in Seq(Node), NEW i \in 1 .. Len(D), NEW e \in Node
  PROVE  /\ [D EXCEPT ![i] = e] \in Seq(Node)
         /\ Len([D EXCEPT ![i] = e]) = Len(D)
BY ExceptSeq

\* addArgumentToken changes the document only inside the current node.
LEMMA AddArgument ==
  ASSUME NEW x, Sound(x), x.state \in NodeStates, NEW t \in Token
  PROVE  LET y == addArgumentToken(x, t) IN
         /\ Outcome(y)
         /\ y.err = "none" => Sound(y) /\ SameStacks(x, y)
<1> DEFINE y == addArgumentToken(x, t)
           i == currentNode(x)
           v == [id |-> t.id, typ |-> Valid(x.typeAnnot)]
           e == [x.doc[i] EXCEPT !.args = Append(@, v)]
<1>1. i \in 1 .. Len(x.doc) /\ x.node # <<>> /\ x.doc \in Seq(Node)
      /\ x \in Context /\ x.err = "none"
  BY SoundTypes DEF Sound
<1>2. CASE t.bad
  BY <1>1, <1>2, FailOutcome DEF addArgumentToken, InputErrors, Errors
<1>3. CASE ~t.bad
  <2>1. y = [x EXCEPT !.doc = [x.doc EXCEPT ![i] = e]]
    BY <1>1, <1>3 DEF addArgumentToken
  <2>2. v \in Value
    BY DEF Value, Token, Valid
  <2>3. x.doc[i] \in Node
    BY <1>1, ElementOfSeq
  <2>4. e \in Node
    BY <2>2, <2>3, AppendProperties DEF Node
  <2> HIDE DEF e, v
  <2>5. /\ [x.doc EXCEPT ![i] = e] \in Seq(Node)
        /\ Len([x.doc EXCEPT ![i] = e]) = Len(x.doc)
    BY <1>1, <2>4, ReplacedNode
  <2>6. y \in Context /\ y.err = "none" /\ SameStacks(x, y)
    BY <2>1, <2>5, <1>1 DEF Context, SameStacks
  <2>7. QED
    BY <2>6, KeepSound DEF Outcome
<1>4. QED
  BY <1>2, <1>3

\* addPropertyToken changes the document only inside the current node.
LEMMA AddProperty ==
  ASSUME NEW x, Sound(x), x.state \in NodeStates, NEW t \in Token
  PROVE  Outcome(addPropertyToken(x, t))
<1> DEFINE y == addPropertyToken(x, t)
           i == currentNode(x)
           v == [id |-> t.id, typ |-> Valid(x.typeAnnot)]
           e == [x.doc[i] EXCEPT !.props = Append(@, v)]
<1>1. i \in 1 .. Len(x.doc) /\ x.node # <<>> /\ x.doc \in Seq(Node)
      /\ x \in Context /\ x.err = "none"
  BY SoundTypes DEF Sound
<1>2. CASE x.ident.bad \/ t.bad
  BY <1>1, <1>2, FailOutcome DEF addPropertyToken, InputErrors, Errors
<1>3. CASE ~(x.ident.bad \/ t.bad)
  <2>1. y = [x EXCEPT !.doc = [x.doc EXCEPT ![i] = e]]
    BY <1>1, <1>3 DEF addPropertyToken
  <2>2. v \in Value
    BY DEF Value, Token, Valid
  <2>3. x.doc[i] \in Node
    BY <1>1, ElementOfSeq
  <2>4. e \in Node
    BY <2>2, <2>3, AppendProperties DEF Node
  <2> HIDE DEF e, v
  <2>5. /\ [x.doc EXCEPT ![i] = e] \in Seq(Node)
        /\ Len([x.doc EXCEPT ![i] = e]) = Len(x.doc)
    BY <1>1, <2>4, ReplacedNode
  <2>6. y \in Context /\ y.err = "none" /\ SameStacks(x, y)
    BY <2>1, <2>5, <1>1 DEF Context, SameStacks
  <2>7. QED
    BY <2>6, KeepSound DEF Outcome
<1>4. QED
  BY <1>2, <1>3

\* The cleared token is a token.
LEMMA NoTokenType == NoToken \in Token
BY DEF NoToken, Token

\* An outcome without an error is a sound context.
LEMMA SoundOutcome ==
  ASSUME NEW x, Outcome(x), x.err = "none"
  PROVE  Sound(x)
BY DEF Outcome, InputErrors

\* Flushing the queued identifier keeps the stacks.
Flushed(x, y) ==
    /\ Outcome(y)
    /\ y.err = "none" => Sound(y) /\ SameStacks(x, y)

\* Flushing the queued identifier, as the ArgProp handlers do, keeps the stacks.
LEMMA FlushIdent ==
  ASSUME NEW x, Sound(x), x.state \in NodeStates
  PROVE  Flushed(x, flushIdent(x)) /\ Flushed(x, flushValidIdent(x))
<1> DEFINE y == IF x.ignoreNextArgProp
                THEN [x EXCEPT !.ignoreNextArgProp = FALSE]
                ELSE addArgumentToken(x, x.ident)
           z == clearPending(y)
<1>1. x \in Context /\ x.err = "none" /\ x.ident \in Token
  BY DEF Sound, Context
<1>2. Outcome(y) /\ (y.err = "none" => Sound(y) /\ SameStacks(x, y))
  <2>1. CASE x.ignoreNextArgProp
    <3>1. y \in Context /\ y.err = "none" /\ SameStacks(x, y)
      BY <1>1, <2>1 DEF Context, SameStacks
    <3>2. QED
      BY <3>1, KeepSound DEF Outcome
  <2>2. CASE ~x.ignoreNextArgProp
    BY <1>1, <2>2, AddArgument
  <2>3. QED
    BY <2>1, <2>2
<1>3. flushIdent(x) = IF y.err # "none" THEN y ELSE z
  BY DEF flushIdent
<1> HIDE DEF y
<1>4. y.err = "none" => Sound(z) /\ SameStacks(x, z)
  <2> SUFFICES ASSUME y.err = "none" PROVE Sound(z) /\ SameStacks(x, z)
    OBVIOUS
  <2>1. Sound(y) /\ SameStacks(x, y) /\ y \in Context
    BY <1>2 DEF Sound
  <2>2. z \in Context /\ z.err = "none" /\ SameStacks(y, z)
    BY <2>1, NoTokenType DEF clearPending, Context, SameStacks
  <2>3. QED
    BY <2>1, <2>2, KeepSound DEF SameStacks
<1>5. Flushed(x, flushIdent(x))
  BY <1>2, <1>3, <1>4 DEF Flushed, Outcome
<1>6. Flushed(x, x)
  BY DEF Flushed, Outcome, SameStacks
<1>7. QED
  BY <1>5, <1>6 DEF flushValidIdent

\* A node that gains comments is a node.
LEMMA CommentedNode ==
  ASSUME NEW d \in Node, NEW k \in Nat
  PROVE  [d EXCEPT !.comments = @ + k] \in Node
<1>1. d.comments \in Nat
  BY DEF Node
<1>2. d.comments + k \in Nat
  BY <1>1
<1>3. QED
  BY <1>2 DEF Node

\* Moving the comment buffer to a node keeps the stacks.
LEMMA AttachComments ==
  ASSUME NEW x \in Context, x.err = "none", NEW n \in 1 .. Len(x.doc)
  PROVE  LET y == attachComments(x, n) IN
         y \in Context /\ y.err = "none" /\ SameStacks(x, y)
<1> DEFINE y == attachComments(x, n)
           e == [x.doc[n] EXCEPT !.comments = @ + x.comment]
<1>1. x.doc \in Seq(Node) /\ x.comment \in Nat
  BY DEF Context
<1>2. CASE ~(opts.comments /\ x.comment > 0)
  BY <1>2 DEF attachComments, SameStacks
<1>3. CASE opts.comments /\ x.comment > 0
  <2>1. y = [x EXCEPT !.doc = [x.doc EXCEPT ![n] = e], !.comment = 0]
    BY <1>3, <1>1 DEF attachComments
  <2>2. x.doc[n] \in Node
    BY <1>1, ElementOfSeq
  <2>3. e \in Node
    BY <1>1, <2>2, CommentedNode
  <2> HIDE DEF e, y
  <2>4. /\ [x.doc EXCEPT ![n] = e] \in Seq(Node)
        /\ Len([x.doc EXCEPT ![n] = e]) = Len(x.doc)
    BY <1>1, <2>3, ReplacedNode
  <2>5. y \in Context /\ y.err = "none" /\ SameStacks(x, y)
    BY <2>1, <2>4, <1>1 DEF Context, SameStacks
  <2>6. QED
    BY <2>5 DEF y
<1>4. QED
  BY <1>2, <1>3

\* pushState of a type annotation, on contexts.
LEMMA PushType ==
  ASSUME NEW x, Sound(x), x.state \in ScopeStates \cup {"NodeParams", "PropertyValue"}
  PROVE  Sound(pushState(x, "TypeAnnot"))
<1> DEFINE y == pushState(x, "TypeAnnot")
<1>1. /\ x \in Context /\ x.err = "none"
      /\ x.states \in Seq(States) /\ x.state \in States /\ Len(x.node) \in Nat
  BY SoundTypes DEF Sound
<1>2. Stacked(Append(x.states, x.state), "TypeAnnot", Len(x.node))
  BY <1>1, PushTypeStacked DEF Sound
<1>3. Append(x.states, x.state) \in Seq(States)
  BY <1>1, AppendProperties
<1>4. /\ y \in Context /\ y.err = "none" /\ y.node = x.node /\ y.doc = x.doc
      /\ y.lastAddedNode = x.lastAddedNode
      /\ y.states = Append(x.states, x.state) /\ y.state = "TypeAnnot"
  BY <1>1, <1>3 DEF pushState, Context, States, TypeStates
<1>5. QED
  BY <1>2, <1>4 DEF Sound, NodesExist

\* pushState of a child block, on contexts.
LEMMA PushChildren ==
  ASSUME NEW x, Sound(x), x.state \in NodeStates
  PROVE  Sound(pushState(x, "Children"))
<1> DEFINE y == pushState(x, "Children")
<1>1. /\ x \in Context /\ x.err = "none"
      /\ x.states \in Seq(States) /\ x.state \in States /\ Len(x.node) \in Nat
  BY SoundTypes DEF Sound
<1>2. Stacked(Append(x.states, x.state), "Children", Len(x.node))
  BY <1>1, PushChildrenStacked DEF Sound
<1>3. Append(x.states, x.state) \in Seq(States)
  BY <1>1, AppendProperties
<1>4. /\ y \in Context /\ y.err = "none" /\ y.node = x.node /\ y.doc = x.doc
      /\ y.lastAddedNode = x.lastAddedNode
      /\ y.states = Append(x.states, x.state) /\ y.state = "Children"
  BY <1>1, <1>3 DEF pushState, Context, States, ScopeStates
<1>5. QED
  BY <1>2, <1>4 DEF Sound, NodesExist

\* y is x after addNode or createNode, its state not entered yet.
Pushed(x, y) ==
    /\ y \in Context /\ y.err = "none"
    /\ y.states = x.states /\ y.state = x.state
    /\ y.node = Append(x.node, Len(x.doc) + 1)
    /\ Len(y.doc) = Len(x.doc) + 1
    /\ y.lastAddedNode = Len(x.doc) + 1

\* newNode appends one node to the document and to the node stack.
LEMMA PushNode ==
  ASSUME NEW x, Sound(x), NEW p \in Int
  PROVE  Pushed(x, push(x, p))
<1> DEFINE n == [parent |-> p, typ |-> FALSE, args |-> <<>>, props |-> <<>>,
                 comments |-> 0]
           i == Len(x.doc) + 1
           y == push(x, p)
<1>1. x \in Context /\ x.err = "none" /\ x.doc \in Seq(Node) /\ x.node \in Seq(Nat)
      /\ Len(x.doc) \in Nat
  BY SoundTypes DEF Sound
<1>2. n \in Node
  BY DEF Node
<1>3. y = [x EXCEPT !.doc = Append(x.doc, n), !.node = Append(x.node, i),
                    !.lastAddedNode = i]
  BY DEF push
<1> HIDE DEF n, y
<1>4. /\ Append(x.doc, n) \in Seq(Node) /\ Len(Append(x.doc, n)) = i
      /\ Append(x.node, i) \in Seq(Nat) /\ i \in Nat
  BY <1>1, <1>2, AppendProperties
<1>5. y \in Context
  BY <1>1, <1>3, <1>4 DEF Context
<1>6. QED
  BY <1>1, <1>3, <1>4, <1>5 DEF Pushed, Context, y

\* The tail of the identifier handlers completes what addNode or createNode began:
\* the state stack catches up with the node stack, or the name was bad.
LEMMA OpenNode ==
  ASSUME NEW x, Sound(x), x.state \in ScopeStates, NEW y, Pushed(x, y)
  PROVE  Outcome(openNode(y))
<1> DEFINE n == Len(x.doc) + 1
           a == attachComments(y, n)
           e == [a.doc[n] EXCEPT !.typ = Valid(a.typeAnnot)]
           b == [a EXCEPT !.doc = [a.doc EXCEPT ![n] = e], !.typeAnnot = NoToken]
           z == pushState(b, "Node")
<1>1. CASE tok.bad
  BY <1>1, FailOutcome DEF openNode, Pushed, InputErrors, Errors
<1>2. CASE ~tok.bad
  <2>1. /\ x.states \in Seq(States) /\ x.state \in States /\ x.node \in Seq(Nat)
        /\ Len(x.node) \in Nat /\ Len(x.doc) \in Nat
    BY SoundTypes
  <2>2. n \in Nat /\ n \in 1 .. Len(y.doc) /\ y \in Context /\ y.err = "none"
    BY <2>1 DEF Pushed
  <2>3. a \in Context /\ a.err = "none" /\ SameStacks(y, a)
    BY <2>2, AttachComments
  <2>4. /\ y.node = Append(x.node, n) /\ Len(y.node) = Len(x.node) + 1
        /\ y.node[Len(x.node) + 1] = n
        /\ \A i \in 1 .. Len(x.node) : y.node[i] = x.node[i]
    BY <2>1, <2>2, AppendProperties DEF Pushed
  <2>5. currentNode(y) = n /\ currentNode(a) = n
    BY <2>3, <2>4 DEF currentNode, SameStacks
  <2>6. openNode(y) = z
    BY <1>2, <2>5 DEF openNode
  <2> HIDE DEF a, n
  <2>7. e \in Node
    <3>1. a.doc \in Seq(Node) /\ n \in 1 .. Len(a.doc)
      BY <2>2, <2>3 DEF Context, SameStacks
    <3>2. a.doc[n] \in Node
      BY <3>1, ElementOfSeq
    <3>3. QED
      BY <3>2 DEF Node, Valid
  <2> HIDE DEF e
  <2>8. /\ [a.doc EXCEPT ![n] = e] \in Seq(Node)
        /\ Len([a.doc EXCEPT ![n] = e]) = Len(a.doc)
    BY <2>2, <2>3, <2>7, ReplacedNode DEF Context, SameStacks
  <2>9. b \in Context /\ b.err = "none" /\ SameStacks(y, b)
    BY <2>3, <2>8, NoTokenType DEF Context, SameStacks
  <2> HIDE DEF b
  <2>10. /\ Append(x.states, x.state) \in Seq(States)
         /\ Stacked(Append(x.states, x.state), "Node", Len(x.node) + 1)
    BY <2>1, AppendProperties, PushNodeStacked DEF Sound
  <2>11. /\ z \in Context /\ z.err = "none"
         /\ z.states = Append(x.states, x.state) /\ z.state = "Node"
         /\ z.node = y.node /\ Len(z.doc) = n /\ z.lastAddedNode = n
    BY <2>9, <2>10 DEF pushState, Context, SameStacks, Pushed, States, NodeStates, n
  <2> HIDE DEF z
  <2>12. NodesExist(z)
    <3>1. \A i \in 1 .. Len(x.node) : x.node[i] \in 1 .. Len(x.doc)
      BY DEF Sound, NodesExist
    <3>2. Len(z.doc) = Len(x.doc) + 1 /\ n = Len(x.doc) + 1
      BY <2>11 DEF n
    <3>3. Len(z.node) = Len(x.node) + 1
      BY <2>4, <2>11
    <3>4. \A i \in 1 .. Len(z.node) : z.node[i] \in 1 .. Len(z.doc)
      <4>1. TAKE i \in 1 .. Len(z.node)
      <4>2. CASE i = Len(x.node) + 1
        BY <2>1, <2>4, <2>11, <3>2, <4>2
      <4>3. CASE i \in 1 .. Len(x.node)
        BY <2>1, <2>4, <2>11, <3>1, <3>2, <4>3
      <4>4. QED
        BY <2>1, <3>3, <4>2, <4>3
    <3>5. QED
      BY <2>1, <2>11, <3>2, <3>4 DEF NodesExist
  <2>13. QED
    BY <2>4, <2>6, <2>10, <2>11, <2>12 DEF Outcome, Sound, z
<1>3. QED
  BY <1>1, <1>2

\* popState, on contexts, when no node is left by it.
LEMMA PopState ==
  ASSUME NEW x, Sound(x), x.state \notin NodeStates, x.state # "Document"
  PROVE  Sound(popState(x))
<1> DEFINE y == popState(x)
           T == SubSeq(x.states, 1, Len(x.states) - 1)
           t == x.states[Len(x.states)]
<1>1. /\ x \in Context /\ x.err = "none" /\ x.states # <<>>
      /\ x.states \in Seq(States) /\ x.state \in States /\ Len(x.node) \in Nat
  BY SoundTypes DEF Sound
<1>2. T \in Seq(States) /\ t \in States /\ Stacked(T, t, Len(x.node))
  BY <1>1, PopStacked DEF Sound
<1>3. y = [x EXCEPT !.state = t, !.states = T]
  BY <1>1 DEF popState
<1> HIDE DEF T, t, y
<1>4. /\ y \in Context /\ y.err = "none" /\ y.states = T /\ y.state = t
      /\ y.node = x.node /\ y.doc = x.doc /\ y.lastAddedNode = x.lastAddedNode
  BY <1>1, <1>2, <1>3 DEF Context
<1>5. QED
  BY <1>2, <1>4 DEF Sound, NodesExist, y

\* popNodeAndState finds both stacks non-empty and returns to a scope.
LEMMA PopNodeAndState ==
  ASSUME NEW x, Sound(x), x.state \in NodeStates
  PROVE  Sound(popNodeAndState(x)) /\ popNodeAndState(x).state \in ScopeStates
<1> DEFINE z == popNodeAndState(x)
           T == SubSeq(x.states, 1, Len(x.states) - 1)
           t == x.states[Len(x.states)]
           k == Len(x.node)
           N == SubSeq(x.node, 1, k - 1)
<1>1. /\ x \in Context /\ x.err = "none" /\ x.states # <<>> /\ x.state # "Document"
      /\ x.states \in Seq(States) /\ x.state \in States
      /\ x.node \in Seq(Nat) /\ k \in Nat /\ k > 0 /\ x.node # <<>>
  BY SoundTypes DEF Sound, NodeStates
<1>2. T \in Seq(States) /\ t \in ScopeStates /\ t \in States /\ Stacked(T, t, k - 1)
  BY <1>1, PopStacked DEF Sound
<1>3. N \in Seq(Nat) /\ Len(N) = k - 1 /\ \A i \in 1 .. k - 1 : N[i] = x.node[i]
  <2>1. \A i \in 1 .. k - 1 : x.node[i] \in Nat
    BY <1>1, ElementOfSeq
  <2>2. /\ N \in Seq(Nat)
        /\ Len(N) = IF 1 <= k - 1 THEN k - 1 - 1 + 1 ELSE 0
        /\ \A i \in 1 .. k - 1 - 1 + 1 : N[i] = x.node[1 + i - 1]
    BY <1>1, <2>1, SubSeqProperties
  <2> HIDE DEF N, k
  <2>3. k - 1 - 1 + 1 = k - 1 /\ \A i \in 1 .. k - 1 : 1 + i - 1 = i
    BY <1>1
  <2>4. QED
    BY <1>1, <2>2, <2>3
<1>4. z = [x EXCEPT !.state = t, !.states = T, !.node = N]
  BY <1>1 DEF popNodeAndState, popState, popNode
<1> HIDE DEF T, t, N, k, z
<1>5. /\ z \in Context /\ z.err = "none" /\ z.states = T /\ z.state = t
      /\ z.node = N /\ z.doc = x.doc /\ z.lastAddedNode = x.lastAddedNode
  BY <1>1, <1>2, <1>3, <1>4 DEF Context
<1>6. NodesExist(z)
  <2>1. \A i \in 1 .. k : x.node[i] \in 1 .. Len(x.doc)
    BY DEF Sound, NodesExist, k
  <2>2. \A i \in 1 .. k - 1 : N[i] \in 1 .. Len(x.doc)
    BY <1>1, <1>3, <2>1
  <2>3. x.lastAddedNode \in 0 .. Len(x.doc) /\ x.lastAddedNode # 0
    BY <1>1 DEF Sound, NodesExist
  <2>4. QED
    BY <1>3, <1>5, <2>2, <2>3 DEF NodesExist
<1>7. Len(z.node) = k - 1
  BY <1>3, <1>5
<1>8. QED
  BY <1>2, <1>5, <1>6, <1>7 DEF Sound, z

\* Closing a child block finds a node for its trailing comments and a state to
\* return to.
LEMMA CloseBlock ==
  ASSUME NEW x, Sound(x), x.state = "Children"
  PROVE  LET y == attachToLastAdded(closeIgnoredBlock(x)) IN
         y.err = "none" /\ Sound(popState(y))
<1> DEFINE a == closeIgnoredBlock(x)
           y == attachToLastAdded(a)
<1>1. x \in Context /\ x.err = "none" /\ x.ignoreChildren \in Nat
  BY DEF Sound, Context
<1>2. a \in Context /\ a.err = "none" /\ SameStacks(x, a)
  <2>1. CASE x.ignoreChildren = 0
    BY <1>1, <2>1 DEF closeIgnoredBlock, SameStacks
  <2>2. CASE x.ignoreChildren = 1
    BY <1>1, <2>2 DEF closeIgnoredBlock, SameStacks, Context
  <2>3. CASE x.ignoreChildren # 0 /\ x.ignoreChildren # 1
    <3>1. x.ignoreChildren - 1 \in Nat
      BY <1>1, <2>3
    <3> DEFINE k == x.ignoreChildren - 1
    <3>2. a = [x EXCEPT !.ignoreChildren = k]
      BY <2>3 DEF closeIgnoredBlock
    <3> HIDE DEF k
    <3>3. QED
      BY <1>1, <3>1, <3>2 DEF SameStacks, Context, k
  <2>4. QED
    BY <2>1, <2>2, <2>3
<1> HIDE DEF a
<1>3. Sound(a)
  BY <1>2, KeepSound
<1>4. a.lastAddedNode \in 1 .. Len(a.doc) /\ Len(a.doc) \in Nat
  BY <1>2, <1>3, SoundTypes DEF SameStacks
<1>5. y = attachComments(a, a.lastAddedNode)
  <2>1. a.lastAddedNode # 0
    BY <1>4
  <2>2. QED
    BY <2>1 DEF attachToLastAdded
<1>6. y \in Context /\ y.err = "none" /\ SameStacks(a, y)
  BY <1>2, <1>4, <1>5, AttachComments
<1> HIDE DEF y
<1>7. Sound(y) /\ y.state = "Children"
  BY <1>2, <1>3, <1>6, KeepSound DEF SameStacks
<1>8. QED
  BY <1>6, <1>7, PopState DEF NodeStates, y, a

----------------------------------------------------------------------------
(* The inductive invariant.                                                *)

\* While parsing goes on the context is sound; a rejected document leaves
\* nothing but the reason, which is an error of the input.
IInv ==
    /\ opts \in Options
    /\ tok \in Token
    /\ pc \in {"scan", "parse", "handle", "accepted", "rejected"}
    /\ pc # "rejected" => Sound(c)
    /\ pc = "rejected" => \E e \in InputErrors : c = Fail(NewContext, e)

\* The context NewContextOptions returns is sound.
LEMMA NewContextSound == Sound(NewContext)
<1>1. NewContext \in Context
  BY NoTokenType DEF NewContext, Context, States, ScopeStates, PrevKinds, Errors
<1>2. Stacked(<<>>, "Document", 0)
  BY DEF Stacked, StatesAlternate, NodesMatchStates, Alternate,
         ScopeStates, NodeStates, TypeStates
<1>3. QED
  BY <1>1, <1>2 DEF Sound, NodesExist, NewContext

\* Returning an error of the input from parseOne keeps the invariant.
LEMMA RejectInv ==
  ASSUME IInv, NEW e \in InputErrors, Reject(e)
  PROVE  IInv'
BY NoTokenType DEF IInv, Reject

\* A handler with a legal outcome keeps the invariant, whether parseOne goes on,
\* stops, or calls Parse again.
LEMMA FinishInv ==
  ASSUME IInv, NEW x, Outcome(x), Finish(x) \/ Reenter(x)
  PROVE  IInv'
<1>1. CASE x.err # "none"
  <2>1. x.err \in InputErrors
    BY <1>1 DEF Outcome, Sound
  <2>2. Reject(x.err)
    BY <1>1 DEF Finish, Reenter
  <2>3. QED
    BY <2>1, <2>2, RejectInv
<1>2. CASE x.err = "none"
  <2>1. Sound(x)
    BY <1>2, SoundOutcome
  <2>2. QED
    BY <1>2, <2>1, NoTokenType DEF Finish, Reenter, IInv
<1>3. QED
  BY <1>1, <1>2

\* The outcomes handlers share: unchanged, refused, or a started continuation.
LEMMA Refusals ==
  ASSUME NEW x, Sound(x)
  PROVE  /\ Outcome(x) /\ Outcome(Unexpected(x)) /\ Outcome(ValueExpected(x))
         /\ Outcome(TriviaAfterType(x)) /\ Outcome(V2Only(x))
         /\ Outcome(startContinuation(x))
<1>1. x \in Context /\ x.err = "none"
  BY DEF Sound
<1>2. /\ Outcome(x) /\ Outcome(Unexpected(x)) /\ Outcome(ValueExpected(x))
  BY <1>1, FailOutcome DEF Outcome, Unexpected, ValueExpected, InputErrors, Errors
<1> DEFINE y == startContinuation(x)
<1>3. y \in Context /\ y.err = "none" /\ SameStacks(x, y)
  BY <1>1 DEF startContinuation, Context, SameStacks
<1>4. Outcome(y)
  BY <1>3, KeepSound DEF Outcome
<1>5. QED
  BY <1>2, <1>4 DEF TriviaAfterType, V2Only

\* The checks of Parser.parse that precede the handler keep the invariant.
LEMMA ParseInv ==
  ASSUME IInv, Parse
  PROVE  IInv'
<1>1. pc = "parse" /\ Sound(c) /\ c \in Context /\ c.err = "none"
  BY DEF Parse, IInv, Sound
<1>2. CASE Reject("missing separator")
  BY <1>2, RejectInv DEF InputErrors, Errors
<1>3. CASE Reject("after ignored child block")
  BY <1>3, RejectInv DEF InputErrors, Errors
<1>4. CASE /\ c' = [trackContinuation(leaveIgnoredChildBlock(c, tok), tok)
                      EXCEPT !.recent = prevKind(tok)]
           /\ pc' = "handle" /\ UNCHANGED <<opts, tok>>
  <2> DEFINE a == leaveIgnoredChildBlock(c, tok)
             b == trackContinuation(a, tok)
             d == [b EXCEPT !.recent = prevKind(tok)]
  <2>1. a \in Context /\ a.err = "none" /\ SameStacks(c, a)
    BY <1>1 DEF leaveIgnoredChildBlock, Context, SameStacks
  <2> HIDE DEF a
  <2>2. b \in Context /\ b.err = "none" /\ SameStacks(a, b)
    BY <2>1 DEF trackContinuation, stopContinuation, Context, SameStacks
  <2> HIDE DEF b
  <2>3. prevKind(tok) \in PrevKinds
    BY DEF prevKind, PrevKinds
  <2>4. d \in Context /\ d.err = "none" /\ SameStacks(b, d)
    BY <2>2, <2>3 DEF Context, SameStacks
  <2>5. c' = d
    BY <1>4 DEF b, a
  <2> HIDE DEF d
  <2>6. Sound(d)
    BY <1>1, <2>1, <2>2, <2>4, KeepSound DEF SameStacks
  <2>7. QED
    BY <1>4, <2>5, <2>6 DEF IInv
<1>5. QED
  BY <1>2, <1>3, <1>4 DEF Parse

----------------------------------------------------------------------------
(* The transition functions, one step each.                                *)

\* A handler starts in a sound context, in its own state.
LEMMA Handling ==
  ASSUME IInv, NEW s, NEW k, On(s, k)
  PROVE  Sound(c) /\ c \in Context /\ c.err = "none" /\ c.state = s /\ tok \in Token
BY DEF IInv, On, Sound

\* Both identifier handlers, visible and slashdashed, have a legal outcome.
LEMMA NewNode ==
  ASSUME NEW x, Sound(x), x.state \in ScopeStates
  PROVE  /\ Outcome(openNode(addNode(x)))
         /\ Outcome(openNode([createNode(x) EXCEPT !.ignoreNextNode = FALSE]))
<1>1. /\ x.node \in Seq(Nat) /\ Len(x.node) \in Nat /\ x.doc \in Seq(Node)
      /\ Len(x.doc) \in Nat
  BY SoundTypes
<1>2. Pushed(x, createNode(x))
  BY PushNode DEF createNode, Detached
<1>3. Pushed(x, [createNode(x) EXCEPT !.ignoreNextNode = FALSE])
  BY <1>2 DEF Pushed, Context
<1>4. (IF x.node = <<>> THEN 0 ELSE currentNode(x)) \in Int
  <2>1. CASE x.node = <<>>
    BY <2>1
  <2>2. CASE x.node # <<>>
    <3>1. Len(x.node) \in 1 .. Len(x.node)
      BY <1>1, <2>2
    <3>2. currentNode(x) \in Nat
      BY <1>1, <3>1, ElementOfSeq DEF currentNode
    <3>3. QED
      BY <2>2, <3>2
  <2>3. QED
    BY <2>1, <2>2
<1>5. Pushed(x, addNode(x))
  BY <1>4, PushNode DEF addNode
<1>6. QED
  BY <1>3, <1>5, OpenNode

\* A comment or a slashdash between nodes has a legal outcome.
LEMMA ScopeMarks ==
  ASSUME NEW x, Sound(x)
  PROVE  Outcome(ScopeComment(x)) /\ Outcome(ScopeSlashdash(x))
<1>1. x \in Context /\ x.err = "none"
  BY DEF Sound
<1>2. Outcome(ScopeComment(x))
  <2> DEFINE y == TriviaAfterType(x)
  <2>1. Outcome(y)
    BY Refusals
  <2> HIDE DEF y
  <2>2. CASE y.err = "none"
    <3>1. Sound(y) /\ y \in Context /\ y.comment \in Nat
      BY <2>1, <2>2, SoundOutcome DEF Sound, Context
    <3> DEFINE k == y.comment + 1
    <3>2. k \in Nat
      BY <3>1
    <3> HIDE DEF k
    <3> DEFINE z == [y EXCEPT !.comment = k]
    <3>3. z \in Context /\ z.err = "none" /\ SameStacks(y, z)
      BY <2>2, <3>1, <3>2 DEF Context, SameStacks
    <3>4. Sound(z)
      BY <3>1, <3>3, KeepSound
    <3>5. Outcome(writeComment(y))
      BY <2>1, <3>4 DEF writeComment, Outcome, k
    <3>6. QED
      BY <2>2, <3>5 DEF ScopeComment, y
  <2>3. QED
    BY <2>1, <2>2 DEF ScopeComment, y
<1>3. Outcome(ScopeSlashdash(x))
  <2> DEFINE y == [markIgnoreFromContinuation(x) EXCEPT !.ignoreNextNode = TRUE]
  <2>1. y \in Context /\ y.err = "none" /\ SameStacks(x, y)
    BY <1>1 DEF markIgnoreFromContinuation, Context, SameStacks
  <2>2. Outcome(y)
    BY <2>1, KeepSound DEF Outcome
  <2>3. QED
    BY <2>2, Refusals DEF ScopeSlashdash
<1>4. QED
  BY <1>2, <1>3

\* The handlers of stateDocument and stateChildren keep the invariant.
LEMMA ScopeHandlerInv ==
  ASSUME IInv, ScopeHandler
  PROVE  IInv'
<1>1. ASSUME DocumentWhitespace \/ ChildrenWhitespace PROVE IInv'
  BY <1>1, Handling, Refusals, FinishInv DEF DocumentWhitespace, ChildrenWhitespace
<1>2. ASSUME DocumentIdentifier PROVE IInv'
  <2>1. Sound(c) /\ c.state \in ScopeStates
    BY <1>2, Handling DEF DocumentIdentifier, ScopeStates
  <2>2. PICK x : Finish(x) /\ x \in {openNode(addNode(c)),
                  openNode([createNode(c) EXCEPT !.ignoreNextNode = FALSE])}
    BY <1>2 DEF DocumentIdentifier
  <2>3. QED
    BY <2>1, <2>2, NewNode, FinishInv
<1>3. ASSUME ChildrenIdentifier PROVE IInv'
  <2>1. Sound(c) /\ c.state \in ScopeStates
    BY <1>3, Handling DEF ChildrenIdentifier, ScopeStates
  <2>2. PICK x : Finish(x) /\ x \in {openNode(addNode(c)),
                  openNode([createNode(c) EXCEPT !.ignoreNextNode = FALSE])}
    BY <1>3 DEF ChildrenIdentifier
  <2>3. QED
    BY <2>1, <2>2, NewNode, FinishInv
<1>4. ASSUME DocumentParensOpen \/ ChildrenParensOpen PROVE IInv'
  <2>1. Sound(c) /\ c.state \in ScopeStates /\ Finish(pushState(c, "TypeAnnot"))
    BY <1>4, Handling DEF DocumentParensOpen, ChildrenParensOpen, ScopeStates
  <2>2. Outcome(pushState(c, "TypeAnnot"))
    BY <2>1, PushType DEF Outcome
  <2>3. QED
    BY <2>1, <2>2, FinishInv
<1>5. ASSUME DocumentTerminator PROVE IInv'
  <2>1. Sound(c) /\ (Finish(c) \/ Finish(ValueExpected(c)))
    BY <1>5, Handling DEF DocumentTerminator
  <2>2. QED
    BY <2>1, Refusals, FinishInv
<1>6. ASSUME DocumentComment \/ ChildrenComment PROVE IInv'
  BY <1>6, Handling, ScopeMarks, FinishInv DEF DocumentComment, ChildrenComment
<1>7. ASSUME DocumentSlashdash \/ ChildrenSlashdash PROVE IInv'
  BY <1>7, Handling, ScopeMarks, FinishInv DEF DocumentSlashdash, ChildrenSlashdash
<1>8. ASSUME DocumentContinuation \/ ChildrenContinuation PROVE IInv'
  BY <1>8, Handling, Refusals, FinishInv DEF DocumentContinuation, ChildrenContinuation
<1>9. ASSUME ChildrenNewline PROVE IInv'
  BY <1>9, Handling, Refusals, FinishInv DEF ChildrenNewline
<1>10. ASSUME ChildrenBraceClose PROVE IInv'
  <2> DEFINE y == attachToLastAdded(closeIgnoredBlock(c))
  <2>1. Sound(c) /\ c.state = "Children"
    BY <1>10, Handling DEF ChildrenBraceClose
  <2>2. y.err = "none" /\ Outcome(popState(y)) /\ Outcome(Unexpected(c))
    BY <2>1, CloseBlock, Refusals DEF Outcome
  <2>3. Finish(Unexpected(c)) \/ Finish(popState(y))
    BY <1>10, <2>2 DEF ChildrenBraceClose
  <2>4. QED
    BY <2>2, <2>3, FinishInv
<1>11. QED
  BY <1>1, <1>2, <1>3, <1>4, <1>5, <1>6, <1>7, <1>8, <1>9, <1>10 DEF ScopeHandler

\* The handlers of stateTypeAnnot and stateTypeDone keep the invariant.
LEMMA TypeHandlerInv ==
  ASSUME IInv, TypeHandler
  PROVE  IInv'
<1>1. ASSUME TypeTrivia PROVE IInv'
  <2>1. Sound(c) /\ Finish(V2Only(c))
    BY <1>1, Handling DEF TypeTrivia
  <2>2. QED
    BY <2>1, Refusals, FinishInv
<1>2. ASSUME TypeContinuation PROVE IInv'
  <2>1. Sound(c) /\ (Finish(startContinuation(c)) \/ Finish(Unexpected(c)))
    BY <1>2, Handling DEF TypeContinuation
  <2>2. QED
    BY <2>1, Refusals, FinishInv
<1>3. ASSUME TypeName PROVE IInv'
  <2> DEFINE y == [c EXCEPT !.typeAnnot = tok, !.state = "TypeDone"]
  <2>1. Sound(c) /\ c \in Context /\ c.err = "none" /\ c.state = "TypeAnnot"
        /\ tok \in Token /\ Finish(y)
    BY <1>3, Handling DEF TypeName
  <2>2. /\ y \in Context /\ y.err = "none" /\ y.state = "TypeDone"
        /\ y.states = c.states /\ y.node = c.node
        /\ y.doc = c.doc /\ y.lastAddedNode = c.lastAddedNode
    BY <2>1 DEF Context, States, TypeStates
  <2> HIDE DEF y
  <2>3. Outcome(y)
    BY <2>1, <2>2, MoveSound DEF TypeStates, Outcome
  <2>4. QED
    BY <2>1, <2>3, FinishInv
<1>4. ASSUME TypeDoneParensClose PROVE IInv'
  <2>1. Sound(c) /\ c.state = "TypeDone" /\ Finish(popState(c))
    BY <1>4, Handling DEF TypeDoneParensClose
  <2>2. Outcome(popState(c))
    BY <2>1, PopState DEF NodeStates, Outcome
  <2>3. QED
    BY <2>1, <2>2, FinishInv
<1>5. QED
  BY <1>1, <1>2, <1>3, <1>4 DEF TypeHandler

\* The state of an open node changes, and perhaps its temporaries.
LEMMA NodeMove ==
  ASSUME NEW x, Sound(x), x.state \in NodeStates, NEW s \in NodeStates
  PROVE  /\ Outcome([x EXCEPT !.state = s])
         /\ Outcome([stopContinuation(x) EXCEPT !.state = s])
         /\ Outcome([clearPending(x) EXCEPT !.state = s])
         /\ \A t \in Token : Outcome([x EXCEPT !.ident = t, !.state = s])
<1>1. x \in Context /\ x.err = "none" /\ s \in States
  BY DEF Sound, States
<1> DEFINE Moved(y) == /\ y \in Context /\ y.err = "none"
                       /\ y.states = x.states /\ y.node = x.node
                       /\ Len(y.doc) = Len(x.doc)
                       /\ y.lastAddedNode = x.lastAddedNode /\ y.state = s
<1>2. ASSUME NEW y, Moved(y) PROVE Outcome(y)
  BY <1>2, MoveSound DEF Outcome
<1>3. Moved([x EXCEPT !.state = s])
  BY <1>1 DEF Context
<1>4. Moved([stopContinuation(x) EXCEPT !.state = s])
  BY <1>1 DEF stopContinuation, Context
<1>5. Moved([clearPending(x) EXCEPT !.state = s])
  BY <1>1, NoTokenType DEF clearPending, Context
<1>6. \A t \in Token : Moved([x EXCEPT !.ident = t, !.state = s])
  BY <1>1 DEF Context
<1> HIDE DEF Moved
<1>7. QED
  BY <1>2, <1>3, <1>4, <1>5, <1>6

\* Closing a node is a legal outcome in every state of a node.
LEMMA ClosedNode ==
  ASSUME NEW x, Sound(x), x.state \in NodeStates
  PROVE  Outcome(popNodeAndState(x))
BY PopNodeAndState DEF Outcome

\* A child block is entered, after the marks of a slashdash have moved.
LEMMA OpenBlock ==
  ASSUME NEW x, Sound(x), x.state \in NodeStates
  PROVE  /\ Outcome(pushState(x, "Children"))
         /\ Outcome(pushState([openIgnoredBlock(x) EXCEPT !.ignoreNextNode = FALSE],
                              "Children"))
         /\ Outcome(pushState([openIgnoredBlock(x) EXCEPT !.ignoreNextArgProp = FALSE],
                              "Children"))
         /\ Outcome(pushState([x EXCEPT !.ignoreNextArgProp = FALSE,
                                        !.ignoreChildren = @ + 1], "Children"))
<1>1. x \in Context /\ x.err = "none" /\ x.ignoreChildren \in Nat
  BY DEF Sound, Context
<1> DEFINE k == x.ignoreChildren + 1
<1>2. k \in Nat
  BY <1>1
<1> HIDE DEF k
<1> DEFINE Marked(y) == y \in Context /\ y.err = "none" /\ SameStacks(x, y)
<1>3. ASSUME NEW y, Marked(y) PROVE Outcome(pushState(y, "Children"))
  <2>1. Sound(y) /\ y.state \in NodeStates
    BY <1>3, KeepSound DEF SameStacks
  <2>2. QED
    BY <2>1, PushChildren DEF Outcome
<1> DEFINE a == [x EXCEPT !.ignoreChildBlockFromContinuation = x.ignoreFromContinuation,
                          !.ignoreFromContinuation = FALSE, !.ignoreChildren = k]
<1>4. a \in Context /\ a.err = "none" /\ SameStacks(x, a)
  BY <1>1, <1>2 DEF Context, SameStacks
<1>5. a = openIgnoredBlock(x)
  BY DEF openIgnoredBlock, k
<1> HIDE DEF a
<1>6. Marked([a EXCEPT !.ignoreNextNode = FALSE])
  BY <1>4 DEF Context, SameStacks
<1>7. Marked([a EXCEPT !.ignoreNextArgProp = FALSE])
  BY <1>4 DEF Context, SameStacks
<1>8. Marked([x EXCEPT !.ignoreNextArgProp = FALSE, !.ignoreChildren = k])
  BY <1>1, <1>2 DEF Context, SameStacks
<1>9. Marked(x)
  BY <1>1 DEF SameStacks
<1> HIDE DEF Marked
<1>10. QED
  BY <1>3, <1>5, <1>6, <1>7, <1>8, <1>9 DEF k

\* The handlers of stateNode, stateNodeParams and stateNodeEnd keep the invariant.
LEMMA NodeHandlerInv ==
  ASSUME IInv, NodeHandler
  PROVE  IInv'
<1> USE DEF NodeStates
<1>1. ASSUME NodeWhitespace PROVE IInv'
  <2>1. Sound(c) /\ c.state \in NodeStates /\ Finish([c EXCEPT !.state = "NodeParams"])
    BY <1>1, Handling DEF NodeWhitespace
  <2>2. QED
    BY <2>1, NodeMove, FinishInv
<1>2. ASSUME NodeTerminator PROVE IInv'
  <2>1. /\ Sound(c) /\ c.state \in NodeStates
        /\ Finish(c) \/ Finish(popNodeAndState(c))
    BY <1>2, Handling DEF NodeTerminator
  <2>2. QED
    BY <2>1, Refusals, ClosedNode, FinishInv
<1>3. ASSUME NodeEquals PROVE IInv'
  <2>1. /\ Sound(c) /\ c.state \in NodeStates
        /\ Finish(Unexpected(c)) \/ Finish([c EXCEPT !.state = "NodeParams"])
    BY <1>3, Handling DEF NodeEquals
  <2>2. QED
    BY <2>1, Refusals, NodeMove, FinishInv
<1>4. ASSUME NodeBraceOpen PROVE IInv'
  <2>1. /\ Sound(c) /\ c.state \in NodeStates
        /\ \/ Finish(pushState(c, "Children"))
           \/ Finish(pushState([openIgnoredBlock(c) EXCEPT !.ignoreNextNode = FALSE],
                               "Children"))
    BY <1>4, Handling DEF NodeBraceOpen
  <2>2. QED
    BY <2>1, OpenBlock, FinishInv
<1>5. ASSUME NodeContinuation \/ NodeParamsContinuation PROVE IInv'
  <2>1. Sound(c) /\ Finish(startContinuation(c))
    BY <1>5, Handling DEF NodeContinuation, NodeParamsContinuation
  <2>2. QED
    BY <2>1, Refusals, FinishInv
<1>6. ASSUME NodeComment PROVE IInv'
  BY <1>6, Handling, Refusals, FinishInv DEF NodeComment
<1>7. ASSUME NodeBraceClose \/ NodeParamsBraceClose PROVE IInv'
  <2>1. Sound(c) /\ c.state \in NodeStates /\ Reenter(popNodeAndState(c))
    BY <1>7, Handling DEF NodeBraceClose, NodeParamsBraceClose
  <2>2. QED
    BY <2>1, ClosedNode, FinishInv
<1>8. ASSUME NodeParamsWhitespace \/ NodeParamsComment PROVE IInv'
  BY <1>8, Handling, Refusals, FinishInv DEF NodeParamsWhitespace, NodeParamsComment
<1>9. ASSUME NodeParamsEquals PROVE IInv'
  <2>1. Sound(c) /\ (Finish(c) \/ Finish(Unexpected(c)))
    BY <1>9, Handling DEF NodeParamsEquals
  <2>2. QED
    BY <2>1, Refusals, FinishInv
<1>10. ASSUME NodeParamsSlashdash PROVE IInv'
  <2> DEFINE y == [markIgnoreFromContinuation(c) EXCEPT !.ignoreNextArgProp = TRUE]
  <2>1. /\ Sound(c) /\ c \in Context /\ c.err = "none"
        /\ Finish(Unexpected(c)) \/ Finish(y)
    BY <1>10, Handling DEF NodeParamsSlashdash
  <2>2. y \in Context /\ y.err = "none" /\ SameStacks(c, y)
    BY <2>1 DEF markIgnoreFromContinuation, Context, SameStacks
  <2> HIDE DEF y
  <2>3. Outcome(y)
    BY <2>1, <2>2, KeepSound DEF Outcome
  <2>4. QED
    BY <2>1, <2>3, Refusals, FinishInv
<1>11. ASSUME NodeParamsSingleLineComment PROVE IInv'
  <2>1. /\ Sound(c) /\ c.state \in NodeStates
        /\ Finish(c) \/ Finish([c EXCEPT !.state = "NodeEnd"])
    BY <1>11, Handling DEF NodeParamsSingleLineComment
  <2>2. QED
    BY <2>1, Refusals, NodeMove, FinishInv
<1>12. ASSUME NodeParamsParensOpen PROVE IInv'
  <2>1. Sound(c) /\ c.state = "NodeParams" /\ Finish(pushState(c, "TypeAnnot"))
    BY <1>12, Handling DEF NodeParamsParensOpen
  <2>2. Outcome(pushState(c, "TypeAnnot"))
    BY <2>1, PushType DEF Outcome
  <2>3. QED
    BY <2>1, <2>2, FinishInv
<1>13. ASSUME NodeParamsBareIdentifier PROVE IInv'
  <2>1. /\ Sound(c) /\ c.state \in NodeStates /\ tok \in Token
        /\ \E s \in NodeStates : Finish([c EXCEPT !.ident = tok, !.state = s])
    BY <1>13, Handling DEF NodeParamsBareIdentifier
  <2>2. PICK s \in NodeStates : Finish([c EXCEPT !.ident = tok, !.state = s])
    BY <2>1
  <2>3. Outcome([c EXCEPT !.ident = tok, !.state = s])
    BY <2>1, NodeMove
  <2>4. QED
    BY <2>2, <2>3, FinishInv
<1>14. ASSUME NodeParamsSuffixedDecimal PROVE IInv'
  <2> DEFINE x == clearPending(c)
             y == [x EXCEPT !.ignoreNextArgProp = FALSE]
  <2>1. /\ Sound(c) /\ c \in Context /\ c.err = "none" /\ tok \in Token
        /\ c.state = "NodeParams"
        /\ Finish(y) \/ Finish(addArgumentToken(x, tok))
    BY <1>14, Handling DEF NodeParamsSuffixedDecimal
  <2>2. x \in Context /\ x.err = "none" /\ SameStacks(c, x)
    BY <2>1, NoTokenType DEF clearPending, Context, SameStacks
  <2> HIDE DEF x
  <2>3. Sound(x) /\ x.state \in NodeStates
    BY <2>1, <2>2, KeepSound DEF SameStacks
  <2>4. y \in Context /\ y.err = "none" /\ SameStacks(x, y)
    BY <2>2 DEF Context, SameStacks
  <2>5. Outcome(y) /\ Outcome(addArgumentToken(x, tok))
    BY <2>1, <2>3, <2>4, KeepSound, AddArgument DEF Outcome
  <2>6. QED
    BY <2>1, <2>5, FinishInv
<1>15. ASSUME NodeParamsValue PROVE IInv'
  <2>1. /\ Sound(c) /\ c.state \in NodeStates /\ tok \in Token
        /\ Finish([c EXCEPT !.ident = tok, !.state = "ArgProp"])
    BY <1>15, Handling DEF NodeParamsValue
  <2>2. Outcome([c EXCEPT !.ident = tok, !.state = "ArgProp"])
    BY <2>1, NodeMove
  <2>3. QED
    BY <2>1, <2>2, FinishInv
<1>16. ASSUME NodeParamsBraceOpen PROVE IInv'
  <2>1. /\ Sound(c) /\ c.state \in NodeStates
        /\ \/ Finish(pushState(c, "Children"))
           \/ Finish(pushState([openIgnoredBlock(c) EXCEPT !.ignoreNextArgProp = FALSE],
                               "Children"))
    BY <1>16, Handling DEF NodeParamsBraceOpen
  <2>2. QED
    BY <2>1, OpenBlock, FinishInv
<1>17. ASSUME NodeParamsTerminator PROVE IInv'
  <2>1. /\ Sound(c) /\ c.state \in NodeStates
        /\ \/ Finish(c) \/ Finish(Unexpected(c)) \/ Finish(ValueExpected(c))
           \/ Finish(popNodeAndState(c))
    BY <1>17, Handling DEF NodeParamsTerminator
  <2>2. QED
    BY <2>1, Refusals, ClosedNode, FinishInv
<1>18. ASSUME NodeEndWhitespace PROVE IInv'
  BY <1>18, Handling, Refusals, FinishInv DEF NodeEndWhitespace
<1>19. ASSUME NodeEndEndOfLine PROVE IInv'
  <2>1. /\ Sound(c) /\ c.state \in NodeStates
        /\ \/ Finish([stopContinuation(c) EXCEPT !.state = "NodeParams"])
           \/ Finish(popNodeAndState(c))
    BY <1>19, Handling DEF NodeEndEndOfLine
  <2>2. QED
    BY <2>1, NodeMove, ClosedNode, FinishInv
<1>20. QED
  BY <1>1, <1>2, <1>3, <1>4, <1>5, <1>6, <1>7, <1>8, <1>9, <1>10, <1>11, <1>12,
     <1>13, <1>14, <1>15, <1>16, <1>17, <1>18, <1>19 DEF NodeHandler

\* The handlers of stateProperty, stateArgProp and statePropertyValue keep the
\* invariant.
LEMMA EntryHandlerInv ==
  ASSUME IInv, EntryHandler
  PROVE  IInv'
<1> USE DEF NodeStates
<1>1. ASSUME PropertyEquals \/ ArgPropEquals PROVE IInv'
  <2>1. /\ Sound(c) /\ c.state \in NodeStates
        /\ Finish(Unexpected(c)) \/ Finish([c EXCEPT !.state = "PropertyValue"])
    BY <1>1, Handling DEF PropertyEquals, ArgPropEquals
  <2>2. QED
    BY <2>1, Refusals, NodeMove, FinishInv
<1>2. ASSUME PropertyBraceClose \/ PropertyValueBraceClose PROVE IInv'
  <2>1. Sound(c) /\ c.state \in NodeStates /\ Reenter(popNodeAndState(c))
    BY <1>2, Handling DEF PropertyBraceClose, PropertyValueBraceClose
  <2>2. QED
    BY <2>1, ClosedNode, FinishInv
<1>3. ASSUME ArgPropSlashdash PROVE IInv'
  <2> DEFINE x == IF c.ignoreNextArgProp
                  THEN [c EXCEPT !.ignoreNextArgProp = FALSE]
                  ELSE IF Valid(c.ident) THEN addArgumentToken(c, c.ident) ELSE c
             y == IF Valid(c.ident) THEN clearPending(x) ELSE x
             z == [markIgnoreFromContinuation(y) EXCEPT
                      !.ignoreNextArgProp = TRUE, !.state = "NodeParams"]
  <2>1. /\ Sound(c) /\ c \in Context /\ c.err = "none" /\ c.state = "ArgProp"
        /\ c.ident \in Token
        /\ \/ x.err # "none" /\ Finish(x)
           \/ x.err = "none" /\ Finish(ValueExpected(x))
           \/ x.err = "none" /\ Finish(z)
    <3>1. Sound(c) /\ c \in Context /\ c.err = "none" /\ c.state = "ArgProp"
      BY <1>3, Handling DEF ArgPropSlashdash
    <3>2. \/ x.err # "none" /\ Finish(x)
          \/ x.err = "none" /\ Finish(ValueExpected(x))
          \/ x.err = "none" /\ Finish(z)
      BY <1>3 DEF ArgPropSlashdash
    <3>3. c.ident \in Token
      BY <3>1 DEF Context
    <3>4. QED
      BY <3>1, <3>2, <3>3
  <2>2. Outcome(x) /\ (x.err = "none" => Sound(x) /\ SameStacks(c, x))
    <3> DEFINE w == [c EXCEPT !.ignoreNextArgProp = FALSE]
    <3>1. w \in Context /\ w.err = "none" /\ SameStacks(c, w)
      BY <2>1 DEF Context, SameStacks
    <3>2. Sound(w)
      BY <2>1, <3>1, KeepSound
    <3>3. SameStacks(c, c)
      BY DEF SameStacks
    <3>4. /\ Outcome(addArgumentToken(c, c.ident))
          /\ addArgumentToken(c, c.ident).err = "none" =>
                /\ Sound(addArgumentToken(c, c.ident))
                /\ SameStacks(c, addArgumentToken(c, c.ident))
      BY <2>1, AddArgument
    <3> HIDE DEF w
    <3>5. QED
      BY <2>1, <3>1, <3>2, <3>3, <3>4 DEF Outcome, w
  <2> HIDE DEF x
  <2>3. CASE x.err # "none"
    BY <2>1, <2>2, <2>3, FinishInv
  <2>4. CASE x.err = "none"
    <3>1. Sound(x) /\ x \in Context /\ SameStacks(c, x)
      BY <2>2, <2>4 DEF Sound
    <3>2. y \in Context /\ y.err = "none" /\ SameStacks(x, y)
      BY <2>4, <3>1, NoTokenType DEF clearPending, Context, SameStacks
    <3> HIDE DEF y
    <3>3. Sound(y) /\ y.state = "ArgProp"
      BY <2>1, <3>1, <3>2, KeepSound DEF SameStacks
    <3>4. /\ z \in Context /\ z.err = "none" /\ z.state = "NodeParams"
          /\ z.states = y.states /\ z.node = y.node /\ z.doc = y.doc
          /\ z.lastAddedNode = y.lastAddedNode
      BY <3>2 DEF markIgnoreFromContinuation, Context, States
    <3> HIDE DEF z
    <3>5. Outcome(z)
      BY <3>3, <3>4, MoveSound DEF Outcome
    <3>6. Outcome(ValueExpected(x))
      BY <3>1, Refusals
    <3>7. QED
      BY <2>1, <2>4, <3>5, <3>6, FinishInv
  <2>5. QED
    BY <2>3, <2>4
<1>4. ASSUME ArgPropBraceOpen PROVE IInv'
  <2> DEFINE x == flushValidIdent(c)
  <2>1. /\ Sound(c) /\ c.state = "ArgProp"
        /\ \/ x.err # "none" /\ Finish(x)
           \/ x.err = "none" /\ Finish(pushState(x, "Children"))
           \/ /\ x.err = "none"
              /\ Finish(pushState([x EXCEPT !.ignoreNextArgProp = FALSE,
                                            !.ignoreChildren = @ + 1], "Children"))
    BY <1>4, Handling DEF ArgPropBraceOpen
  <2>2. Outcome(x) /\ (x.err = "none" => Sound(x) /\ SameStacks(c, x))
    BY <2>1, FlushIdent DEF Flushed
  <2> HIDE DEF x
  <2>3. x.err = "none" => x.state = "ArgProp"
    BY <2>1, <2>2 DEF SameStacks
  <2>4. QED
    BY <2>1, <2>2, <2>3, OpenBlock, FinishInv
<1>5. ASSUME ArgPropWhitespace PROVE IInv'
  <2> DEFINE x == flushIdent(c)
  <2>1. /\ Sound(c) /\ c.state = "ArgProp"
        /\ \/ Finish(c)
           \/ x.err # "none" /\ Finish(x)
           \/ x.err = "none" /\ Finish([x EXCEPT !.state = "NodeParams"])
    BY <1>5, Handling DEF ArgPropWhitespace
  <2>2. Outcome(x) /\ (x.err = "none" => Sound(x) /\ SameStacks(c, x))
    BY <2>1, FlushIdent DEF Flushed
  <2> HIDE DEF x
  <2>3. x.err = "none" => x.state = "ArgProp"
    BY <2>1, <2>2 DEF SameStacks
  <2>4. QED
    BY <2>1, <2>2, <2>3, Refusals, NodeMove, FinishInv
<1>6. ASSUME ArgPropComment PROVE IInv'
  BY <1>6, Handling, Refusals, FinishInv DEF ArgPropComment
<1>7. ASSUME ArgPropContinuation PROVE IInv'
  BY <1>7, Handling, Refusals, FinishInv DEF ArgPropContinuation
<1>8. ASSUME ArgPropTerminator \/ ArgPropBraceClose PROVE IInv'
  <2> DEFINE x == flushValidIdent(c)
  <2>1. Sound(c) /\ c.state = "ArgProp"
    BY <1>8, Handling DEF ArgPropTerminator, ArgPropBraceClose
  <2>2. \/ Finish(c)
        \/ x.err # "none" /\ (Finish(x) \/ Reenter(x))
        \/ /\ x.err = "none"
           /\ Finish(popNodeAndState(x)) \/ Reenter(popNodeAndState(x))
    BY <1>8 DEF ArgPropTerminator, ArgPropBraceClose
  <2>3. Outcome(x) /\ (x.err = "none" => Sound(x) /\ SameStacks(c, x))
    BY <2>1, FlushIdent DEF Flushed
  <2> HIDE DEF x
  <2>4. x.err = "none" => x.state = "ArgProp"
    BY <2>1, <2>3 DEF SameStacks
  <2>5. QED
    BY <2>1, <2>2, <2>3, <2>4, Refusals, ClosedNode, FinishInv
<1>9. ASSUME ArgPropValue PROVE IInv'
  <2> DEFINE x == flushIdent(c)
             y == [x EXCEPT !.ident = tok]
  <2>1. /\ Sound(c) /\ c.state = "ArgProp" /\ tok \in Token
        /\ \/ x.err # "none" /\ Finish(x)
           \/ x.err = "none" /\ Finish(y)
    BY <1>9, Handling DEF ArgPropValue
  <2>2. Outcome(x) /\ (x.err = "none" => Sound(x))
    BY <2>1, FlushIdent DEF Flushed
  <2> HIDE DEF x
  <2>3. x.err = "none" => y \in Context /\ y.err = "none" /\ SameStacks(x, y)
    BY <2>1, <2>2 DEF Sound, Context, SameStacks
  <2> HIDE DEF y
  <2>4. x.err = "none" => Outcome(y)
    BY <2>2, <2>3, KeepSound DEF Outcome
  <2>5. QED
    BY <2>1, <2>2, <2>4, FinishInv
<1>10. ASSUME PropertyValueTrivia PROVE IInv'
  <2>1. Sound(c) /\ Finish(V2Only(c))
    BY <1>10, Handling DEF PropertyValueTrivia
  <2>2. QED
    BY <2>1, Refusals, FinishInv
<1>11. ASSUME PropertyValueContinuation PROVE IInv'
  <2>1. Sound(c) /\ (Finish(startContinuation(c)) \/ Finish(Unexpected(c)))
    BY <1>11, Handling DEF PropertyValueContinuation
  <2>2. QED
    BY <2>1, Refusals, FinishInv
<1>12. ASSUME PropertyValueParensOpen PROVE IInv'
  <2>1. Sound(c) /\ c.state = "PropertyValue" /\ Finish(pushState(c, "TypeAnnot"))
    BY <1>12, Handling DEF PropertyValueParensOpen
  <2>2. Outcome(pushState(c, "TypeAnnot"))
    BY <2>1, PushType DEF Outcome
  <2>3. QED
    BY <2>1, <2>2, FinishInv
<1>13. ASSUME PropertyValueValue PROVE IInv'
  <2> DEFINE w == [c EXCEPT !.ignoreNextArgProp = FALSE]
             x == IF c.ignoreNextArgProp THEN w ELSE addPropertyToken(c, tok)
             y == [clearPending(x) EXCEPT !.state = "Node"]
  <2>1. /\ Sound(c) /\ c \in Context /\ c.err = "none" /\ tok \in Token
        /\ c.state = "PropertyValue"
        /\ \/ x.err # "none" /\ Finish(x)
           \/ x.err = "none" /\ Finish(y)
    BY <1>13, Handling DEF PropertyValueValue
  <2>2. w \in Context /\ w.err = "none" /\ SameStacks(c, w)
    BY <2>1 DEF Context, SameStacks
  <2>3. Sound(w) /\ w.state = "PropertyValue"
    BY <2>1, <2>2, KeepSound DEF SameStacks
  <2>4. x.err = "none" => x.state = "PropertyValue"
    BY <2>1, <2>3 DEF addPropertyToken, Fail, Context
  <2>5. Outcome(x)
    BY <2>1, <2>3, AddProperty DEF Outcome
  <2> HIDE DEF x, w
  <2>6. x.err = "none" => Outcome(y)
    BY <2>4, <2>5, SoundOutcome, NodeMove
  <2>7. QED
    BY <2>1, <2>5, <2>6, FinishInv
<1>14. QED
  BY <1>1, <1>2, <1>3, <1>4, <1>5, <1>6, <1>7, <1>8, <1>9, <1>10, <1>11, <1>12,
     <1>13 DEF EntryHandler

----------------------------------------------------------------------------
(* The theorems.                                                           *)

\* Parsing starts in the invariant.
LEMMA InitIInv == Init => IInv
BY NewContextSound, NoTokenType DEF Init, IInv

\* Every step of parseOne keeps the invariant.
LEMMA NextIInv == IInv /\ [Next]_vars => IInv'
<1> SUFFICES ASSUME IInv, [Next]_vars PROVE IInv'
  OBVIOUS
<1>1. CASE Parse
  BY <1>1, ParseInv
<1>2. CASE NoHandler
  <2>1. Outcome(Unexpected(c))
    BY <1>2, Refusals DEF NoHandler, IInv
  <2>2. QED
    BY <1>2, <2>1, FinishInv DEF NoHandler
<1>3. CASE ScopeHandler
  BY <1>3, ScopeHandlerInv
<1>4. CASE TypeHandler
  BY <1>4, TypeHandlerInv
<1>5. CASE NodeHandler
  BY <1>5, NodeHandlerInv
<1>6. CASE EntryHandler
  BY <1>6, EntryHandlerInv
<1>7. ASSUME NEW t \in Tokens, Scan(t) PROVE IInv'
  <2>1. t \in Token
    BY TokensAssumption DEF Token
  <2>2. QED
    BY <1>7, <2>1 DEF Scan, IInv
<1>8. CASE UNCHANGED vars
  BY <1>8 DEF vars, IInv
<1>9. QED
  BY <1>1, <1>2, <1>3, <1>4, <1>5, <1>6, <1>7, <1>8 DEF Next, Step, Returned

\* The invariant holds throughout every call of Parse.
LEMMA SpecIInv == Spec => []IInv
BY InitIInv, NextIInv, PTL DEF Spec

\* The invariant implies the properties that the runs check.
LEMMA IInvProperties == IInv => TypeOK /\ StackDiscipline /\ NoInternalError
<1> SUFFICES ASSUME IInv PROVE TypeOK /\ StackDiscipline /\ NoInternalError
  OBVIOUS
<1>1. CASE pc # "rejected"
  <2>1. Sound(c)
    BY <1>1 DEF IInv
  <2>2. QED
    BY <2>1 DEF IInv, Sound, TypeOK, StackDiscipline, NoInternalError
<1>2. CASE pc = "rejected"
  <2>1. PICK e \in InputErrors : c = Fail(NewContext, e)
    BY <1>2 DEF IInv
  <2>2. /\ NewContext \in Context
        /\ Stacked(NewContext.states, NewContext.state, Len(NewContext.node))
    BY NewContextSound DEF Sound
  <2>3. /\ c \in Context /\ c.err = e /\ c.states = NewContext.states
        /\ c.state = NewContext.state /\ c.node = NewContext.node
    BY <2>1, <2>2 DEF Fail, Context, InputErrors
  <2>4. StackDiscipline
    BY <2>2, <2>3 DEF StackDiscipline
  <2>5. QED
    BY <2>3, <2>4 DEF IInv, TypeOK, NoInternalError, InputErrors
<1>3. QED
  BY <1>1, <1>2

\* The fields of ParseContext keep their types, for every alphabet of tokens, every
\* set of options and every bound: no handler stores a state, a mark or a node that
\* the rest of the parser does not expect.
THEOREM TypeCorrect == Spec => []TypeOK
BY SpecIInv, IInvProperties, PTL

\* The state stack and the node stack never disagree, whatever is parsed: what
\* pushState pushed and what addNode pushed is popped together, so a handler of a
\* node state always works on the node it belongs to (context.go, transitions.go).
THEOREM StacksAgree == Spec => []StackDiscipline
BY SpecIInv, IInvProperties, PTL

\* Parse never fails with an empty-stack error or a nil node, whatever is parsed:
\* the error paths of popState and popNode (context.go) are unreachable.
THEOREM ErrorsAreOfTheInput == Spec => []NoInternalError
BY SpecIInv, IInvProperties, PTL
============================================================================
