----------------------------- MODULE KdlParser -----------------------------
(***************************************************************************)
(* The KDL parser, internal/parser: a pushdown machine that is fed one     *)
(* token at a time and builds a document.                                  *)
(*                                                                         *)
(* c is the ParseContext (context.go).  The loop of parseOne (kdl.go) is   *)
(* the control variable pc:                                                *)
(*                                                                         *)
(*   "scan"      the loop asks the scanner for the next token;             *)
(*   "parse"     Parser.Parse is about to be called with tok;              *)
(*   "handle"    the checks of Parser.parse are done, the transition       *)
(*               function for (c.state, tok) is about to run;              *)
(*   "accepted"  the end-of-input token went through, the document is      *)
(*               returned;                                                 *)
(*   "rejected"  an error is returned, the document is dropped.            *)
(*                                                                         *)
(* There is one action per transition function of transitions.go, named    *)
(* <state><token>.  Errors are the field c.err: a function that returns an *)
(* error sets it, and Finish turns it into "rejected".                     *)
(***************************************************************************)
EXTENDS KdlTokens, Integers

CONSTANTS
    Tokens,         \* the tokens the scanner may deliver
    Options,        \* the ParseContextOptions to choose from
    MaxDepth,       \* bound on len(c.states)
    MaxNodes,       \* bound on the nodes created
    MaxValues,      \* bound on the arguments and properties of one node
    MaxComments     \* bound on the comments waiting for a node

ASSUME TokensAssumption ==
    /\ Tokens \subseteq [id : TokenIDs, bad : BOOLEAN, wide : BOOLEAN]
    /\ Plain("EOF") \in Tokens

ASSUME OptionsAssumption ==
    Options \subseteq [version : {"V1", "V2"}, yaml : BOOLEAN,
                       nginx : BOOLEAN, comments : BOOLEAN]

ASSUME BoundsAssumption ==
    {MaxDepth, MaxNodes, MaxValues, MaxComments} \subseteq Nat

VARIABLES
    opts,           \* c.opts
    c,              \* the ParseContext
    tok,            \* the token being parsed
    pc              \* where parseOne is

vars == <<opts, c, tok, pc>>

----------------------------------------------------------------------------
(* Parser states and contexts.                                             *)

\* The states in which a node is open ...
NodeStates == {"Node", "NodeParams", "NodeEnd", "ArgProp", "Property", "PropertyValue"}
\* ... in which nodes may begin ...
ScopeStates == {"Document", "Children"}
\* ... and in which a type annotation is being read.
TypeStates == {"TypeAnnot", "TypeDone"}

States == NodeStates \cup ScopeStates \cup TypeStates

\* The parent of a node createNode made: it hangs off nothing.
Detached == -1

Value == [id : TokenIDs \cup {Unknown}, typ : BOOLEAN]

\* A document.Node: the node it was added to (0 is the document), whether it
\* has a type annotation, its arguments and properties in the order they were
\* added, and the comments attached to it.
Node == [parent : Int, typ : BOOLEAN, args : Seq(Value), props : Seq(Value),
         comments : Nat]

Errors == {"none", "unexpected token", "value expected after type",
           "missing separator", "after ignored child block", "bad value",
           "state stack empty", "node stack empty", "nil node"}

\* What requiresV2Separation sees of the previous token.
PrevKinds == {"none", "value", "wide value", "parens close", "other"}

Context ==
    [states : Seq(States), state : States, node : Seq(Nat),
     ident : Token, typeAnnot : Token,
     continuation : BOOLEAN, continuationNewlineSeen : BOOLEAN,
     justContinuedLine : BOOLEAN,
     ignoreNextNode : BOOLEAN, ignoreNextArgProp : BOOLEAN,
     ignoreChildren : Nat, afterIgnoredChildBlock : BOOLEAN,
     ignoreChildBlockFromContinuation : BOOLEAN,
     ignoreFromContinuation : BOOLEAN,
     comment : Nat, lastAddedNode : Nat, recent : PrevKinds,
     doc : Seq(Node), err : Errors]

V2 == opts.version = "V2"

\* NewContextOptions: the zero ParseContext.
NewContext ==
    [states |-> <<>>, state |-> "Document", node |-> <<>>,
     ident |-> NoToken, typeAnnot |-> NoToken,
     continuation |-> FALSE, continuationNewlineSeen |-> FALSE,
     justContinuedLine |-> FALSE,
     ignoreNextNode |-> FALSE, ignoreNextArgProp |-> FALSE,
     ignoreChildren |-> 0, afterIgnoredChildBlock |-> FALSE,
     ignoreChildBlockFromContinuation |-> FALSE,
     ignoreFromContinuation |-> FALSE,
     comment |-> 0, lastAddedNode |-> 0, recent |-> "none",
     doc |-> <<>>, err |-> "none"]

Fail(x, e) == [x EXCEPT !.err = e]

----------------------------------------------------------------------------
(* The methods of ParseContext (context.go).                               *)

currentNode(x) == x.node[Len(x.node)]

\* newNode, append to the node stack, remember it.
push(x, parent) ==
    LET n == [parent |-> parent, typ |-> FALSE, args |-> <<>>, props |-> <<>>,
              comments |-> 0]
        i == Len(x.doc) + 1
    IN  [x EXCEPT !.doc = Append(x.doc, n), !.node = Append(x.node, i),
                  !.lastAddedNode = i]

\* Mutant: the new node hangs off the node created last.
addNodeToLast(x) == push(x, x.lastAddedNode)

addNode(x) == push(x, IF x.node = <<>> THEN 0 ELSE currentNode(x))

createNode(x) == push(x, Detached)

\* Mutant: the argument goes to the node created last.
addArgumentToLast(x, t) ==
    IF t.bad THEN Fail(x, "bad value")
    ELSE [x EXCEPT !.doc[x.lastAddedNode].args =
             Append(@, [id |-> t.id, typ |-> Valid(x.typeAnnot)])]

\* A value is decoded from t and given the pending type annotation.
addArgumentToken(x, t) ==
    IF t.bad THEN Fail(x, "bad value")
    ELSE IF x.node = <<>> THEN Fail(x, "nil node")
    ELSE [x EXCEPT !.doc[currentNode(x)].args =
             Append(@, [id |-> t.id, typ |-> Valid(x.typeAnnot)])]

\* The key is c.ident, decoded before the value.
addPropertyToken(x, t) ==
    IF x.ident.bad \/ t.bad THEN Fail(x, "bad value")
    ELSE IF x.node = <<>> THEN Fail(x, "nil node")
    ELSE [x EXCEPT !.doc[currentNode(x)].props =
             Append(@, [id |-> t.id, typ |-> Valid(x.typeAnnot)])]

pushState(x, s) == [x EXCEPT !.states = Append(x.states, x.state), !.state = s]

popState(x) ==
    IF x.states = <<>> THEN Fail(x, "state stack empty")
    ELSE [x EXCEPT !.state = x.states[Len(x.states)],
                   !.states = SubSeq(x.states, 1, Len(x.states) - 1)]

popNode(x) ==
    IF x.node = <<>> THEN Fail(x, "node stack empty")
    ELSE [x EXCEPT !.node = SubSeq(x.node, 1, Len(x.node) - 1)]

\* Mutant: the node stays on its stack.
popStateOnly(x) == popState(x)

\* Mutant: the node is popped when its child block closes, too.
popNodeTwice(x) ==
    LET y == popState(x) IN IF y.err # "none" THEN y ELSE popNode(popNode(y))

popNodeAndState(x) ==
    LET y == popState(x) IN IF y.err # "none" THEN y ELSE popNode(y)

startContinuation(x) ==
    [x EXCEPT !.continuation = TRUE, !.continuationNewlineSeen = FALSE]

stopContinuation(x) ==
    [x EXCEPT !.continuation = FALSE, !.continuationNewlineSeen = FALSE]

markIgnoreFromContinuation(x) ==
    [x EXCEPT !.ignoreFromContinuation = x.justContinuedLine,
              !.justContinuedLine = FALSE]

\* The idiom of the handlers: the slashdash, if any, swallows the queued
\* identifier, otherwise it becomes an argument; both temporaries are cleared.
clearPending(x) == [x EXCEPT !.typeAnnot = NoToken, !.ident = NoToken]

\* Mutant: the slashdash that swallows the queued identifier stays.
flushIdentKeepingMark(x) ==
    LET y == IF x.ignoreNextArgProp THEN x ELSE addArgumentToken(x, x.ident)
    IN  IF y.err # "none" THEN y ELSE clearPending(y)

flushIdent(x) ==
    LET y == IF x.ignoreNextArgProp
             THEN [x EXCEPT !.ignoreNextArgProp = FALSE]
             ELSE addArgumentToken(x, x.ident)
    IN  IF y.err # "none" THEN y ELSE clearPending(y)

flushValidIdent(x) == IF Valid(x.ident) THEN flushIdent(x) ELSE x

\* Mutant: the buffer is not reset after it is copied.
attachCommentsKeeping(x, n) ==
    IF opts.comments /\ x.comment > 0
    THEN [x EXCEPT !.doc[n].comments = @ + x.comment]
    ELSE x

\* The pending comments move to node n of the document.
attachComments(x, n) ==
    IF opts.comments /\ x.comment > 0
    THEN [x EXCEPT !.doc[n].comments = @ + x.comment, !.comment = 0]
    ELSE x

----------------------------------------------------------------------------
(* Parser.Parse: the checks that precede the transition function.          *)

ValueLike == Numbers \cup {"BareIdentifier", "RawString", "QuotedString",
                           "Boolean", "Null", "Keyword"}

Comments == {"SingleLineComment", "MultiLineComment"}

isTriviaToken(id) == id \in Comments \cup {"Whitespace", "Newline"}

prevKind(t) ==
    CASE t.id \in ValueLike \cup {"BraceClose"} ->
             IF t.wide THEN "wide value" ELSE "value"
      [] t.id = "ParensClose" -> "parens close"
      [] OTHER -> "other"

\* Consecutive tokens always touch in the input.  tokensAdjacent compares a
\* column, counted in runes, with a length in bytes on the same line, and so
\* answers no after a wide token.
requiresV2Separation(prev, t) ==
    \/ prev = "value" /\ t.id \in ValueLike
    \/ prev = "parens close" /\ t.id = "TokenComment"

\* Only the end of the line may follow an ignored child block.
rejectedAfterIgnored(x, t) ==
    /\ x.afterIgnoredChildBlock
    /\ t.id \notin Comments \cup {"Whitespace", "Newline", "EOF", "Continuation"}

leaveIgnoredChildBlock(x, t) ==
    IF t.id \in {"Newline", "EOF", "Continuation"}
    THEN [x EXCEPT !.afterIgnoredChildBlock = FALSE]
    ELSE x

\* The first newline after a backslash is part of the continuation, a second
\* one ends it, and so does the first token of the continued line.
trackContinuation(x, t) ==
    CASE x.continuation /\ t.id = "Newline" ->
             IF x.continuationNewlineSeen THEN stopContinuation(x)
             ELSE [x EXCEPT !.continuationNewlineSeen = TRUE]
      [] x.continuation /\ t.id \notin Comments \cup {"Newline", "Whitespace"} ->
             [stopContinuation(x) EXCEPT !.justContinuedLine = TRUE]
      [] ~x.continuation /\ ~isTriviaToken(t.id) ->
             [x EXCEPT !.justContinuedLine = FALSE]
      [] OTHER -> x

\* parseOne returns the error e; the context and its document are dropped.
Reject(e) ==
    /\ c' = Fail(NewContext, e)
    /\ pc' = "rejected"
    /\ tok' = NoToken
    /\ UNCHANGED opts

\* recent.Add and the checks of Parser.parse.
Parse ==
    /\ pc = "parse"
    /\ \/ V2 /\ requiresV2Separation(c.recent, tok) /\ Reject("missing separator")
       \/ /\ ~(V2 /\ requiresV2Separation(c.recent, tok))
          /\ rejectedAfterIgnored(c, tok)
          /\ Reject("after ignored child block")
       \/ /\ ~(V2 /\ requiresV2Separation(c.recent, tok))
          /\ ~rejectedAfterIgnored(c, tok)
          /\ c' = [trackContinuation(leaveIgnoredChildBlock(c, tok), tok)
                      EXCEPT !.recent = prevKind(tok)]
          /\ pc' = "handle"
          /\ UNCHANGED <<opts, tok>>

----------------------------------------------------------------------------
(* Dispatch: the keys of stateTransitions, and how Parser.parse picks one. *)

Handled(s) ==
    CASE s = "Document" ->
             {"Whitespace", "ClassIdentifier", "ParensOpen", "ClassTerminator",
              "ClassComment", "TokenComment", "Continuation"}
      [] s = "Children" ->
             {"Whitespace", "ClassComment", "Continuation", "TokenComment",
              "ParensOpen", "Newline", "ClassIdentifier", "BraceClose"}
      [] s = "TypeAnnot" ->
             {"Whitespace", "ClassComment", "Continuation", "BareIdentifier",
              "ClassString"}
      [] s = "TypeDone" ->
             {"Whitespace", "ClassComment", "Continuation", "ParensClose"}
      [] s = "Node" ->
             {"Whitespace", "ClassTerminator", "Equals", "BraceOpen",
              "Continuation", "ClassComment", "BraceClose"}
      [] s = "NodeParams" ->
             {"Whitespace", "Equals", "TokenComment", "ClassComment",
              "SingleLineComment", "Continuation", "ParensOpen",
              "BareIdentifier", "BraceClose", "SuffixedDecimal", "ClassString",
              "ClassNonStringValue", "BraceOpen", "ClassTerminator"}
      [] s = "NodeEnd" -> {"Whitespace", "ClassEndOfLine"}
      [] s = "Property" -> {"Equals", "BraceClose"}
      [] s = "ArgProp" ->
             {"TokenComment", "BraceOpen", "Equals", "Whitespace",
              "ClassComment", "Continuation", "ClassTerminator", "ClassValue",
              "BraceClose"}
      [] s = "PropertyValue" ->
             {"Whitespace", "ClassComment", "Continuation", "ParensOpen",
              "ClassValue", "BraceClose"}

\* The token's own handler, else that of the first of its classes with one.
HandlerKey(s, id) ==
    LET ks == <<id>> \o Classes(id)
        hits == {i \in DOMAIN ks : ks[i] \in Handled(s)}
    IN  IF hits = {} THEN "none"
        ELSE ks[CHOOSE i \in hits : \A j \in hits : i <= j]

On(s, k) ==
    /\ pc = "handle"
    /\ c.state = s
    /\ HandlerKey(s, tok.id) = k

\* The handler returned x; x.err is its result.
Finish(x) ==
    \/ x.err # "none" /\ Reject(x.err)
    \/ /\ x.err = "none"
       /\ c' = x
       /\ pc' = IF tok.id = "EOF" THEN "accepted" ELSE "scan"
       /\ tok' = NoToken
       /\ UNCHANGED opts

\* The handler returned ErrReenterState: Parse is called again with tok.
Reenter(x) ==
    \/ x.err # "none" /\ Reject(x.err)
    \/ /\ x.err = "none"
       /\ c' = x
       /\ pc' = "parse"
       /\ UNCHANGED <<opts, tok>>

Unexpected(x) == Fail(x, "unexpected token")

ValueExpected(x) == Fail(x, "value expected after type")

\* Trivia may not separate a type annotation from what it annotates in v1.
TriviaAfterType(x) ==
    IF Valid(x.typeAnnot) /\ ~V2 THEN Unexpected(x) ELSE x

\* Trivia that only KDL v2 allows.
V2Only(x) == IF V2 THEN x ELSE Unexpected(x)

\* No transition function for this token: unexpectedToken.
NoHandler ==
    /\ pc = "handle"
    /\ HandlerKey(c.state, tok.id) = "none"
    /\ Finish(Unexpected(c))

----------------------------------------------------------------------------
(* stateDocument                                                           *)

DocumentWhitespace == On("Document", "Whitespace") /\ Finish(TriviaAfterType(c))

\* Mutant: the type annotation is copied to the node but not cleared.
openNodeKeepingType(x) ==
    IF tok.bad THEN Fail(x, "bad value")
    ELSE LET y == attachComments(x, currentNode(x))
             z == [y EXCEPT !.doc[currentNode(y)].typ = Valid(y.typeAnnot)]
         IN  pushState(z, "Node")

\* What naming a node does after it is created: decode the name, give it the
\* pending comments and the pending type, and open its frame.
openNode(x) ==
    IF tok.bad THEN Fail(x, "bad value")
    ELSE LET y == attachComments(x, currentNode(x))
             z == [y EXCEPT !.doc[currentNode(y)].typ = Valid(y.typeAnnot),
                            !.typeAnnot = NoToken]
         IN  pushState(z, "Node")

\* Mutant: the slashdash is not reset by the node it hides.
DocumentIdentifierKeepingMark ==
    /\ On("Document", "ClassIdentifier")
    /\ Finish(openNode(IF c.ignoreNextNode THEN createNode(c) ELSE addNode(c)))

DocumentIdentifier ==
    /\ On("Document", "ClassIdentifier")
    /\ Finish(openNode(IF c.ignoreNextNode
                       THEN [createNode(c) EXCEPT !.ignoreNextNode = FALSE]
                       ELSE addNode(c)))

DocumentParensOpen == On("Document", "ParensOpen") /\ Finish(pushState(c, "TypeAnnot"))

DocumentTerminator ==
    /\ On("Document", "ClassTerminator")
    /\ Finish(IF Valid(c.typeAnnot) THEN ValueExpected(c) ELSE c)

\* ParseComments: the comment waits for the node that follows.
writeComment(x) == IF opts.comments THEN [x EXCEPT !.comment = @ + 1] ELSE x

ScopeComment(x) ==
    LET y == TriviaAfterType(x) IN IF y.err # "none" THEN y ELSE writeComment(y)

DocumentComment == On("Document", "ClassComment") /\ Finish(ScopeComment(c))

ScopeSlashdash(x) ==
    IF Valid(x.typeAnnot) THEN Unexpected(x)
    ELSE [markIgnoreFromContinuation(x) EXCEPT !.ignoreNextNode = TRUE]

DocumentSlashdash == On("Document", "TokenComment") /\ Finish(ScopeSlashdash(c))

DocumentContinuation == On("Document", "Continuation") /\ Finish(startContinuation(c))

----------------------------------------------------------------------------
(* stateChildren                                                           *)

ChildrenWhitespace == On("Children", "Whitespace") /\ Finish(TriviaAfterType(c))

ChildrenComment == On("Children", "ClassComment") /\ Finish(ScopeComment(c))

ChildrenContinuation == On("Children", "Continuation") /\ Finish(startContinuation(c))

ChildrenSlashdash == On("Children", "TokenComment") /\ Finish(ScopeSlashdash(c))

ChildrenParensOpen == On("Children", "ParensOpen") /\ Finish(pushState(c, "TypeAnnot"))

ChildrenNewline == On("Children", "Newline") /\ Finish(c)

\* Mutant: only the slashdash before the node itself is looked at.
ChildrenIdentifierInBlock ==
    /\ On("Children", "ClassIdentifier")
    /\ Finish(openNode(IF c.ignoreNextNode
                       THEN [createNode(c) EXCEPT !.ignoreNextNode = FALSE]
                       ELSE addNode(c)))

ChildrenIdentifier ==
    /\ On("Children", "ClassIdentifier")
    /\ Finish(openNode(IF c.ignoreNextNode \/ c.ignoreChildren > 0
                       THEN [createNode(c) EXCEPT !.ignoreNextNode = FALSE]
                       ELSE addNode(c)))

\* Mutant: every block counts down.
closeAnyBlock(x) == [x EXCEPT !.ignoreChildren = @ - 1]

\* Mutant: the continuation mark of the ignored block is not reset.
closeIgnoredBlockKeepingMark(x) ==
    CASE x.ignoreChildren = 0 -> x
      [] x.ignoreChildren = 1 ->
             [x EXCEPT !.ignoreChildren = 0,
                       !.afterIgnoredChildBlock = ~x.ignoreChildBlockFromContinuation]
      [] OTHER -> [x EXCEPT !.ignoreChildren = @ - 1]

\* One ignored block fewer; after the outermost one the rest of the line must
\* be empty, unless the slashdash began a continued line.
closeIgnoredBlock(x) ==
    CASE x.ignoreChildren = 0 -> x
      [] x.ignoreChildren = 1 ->
             [x EXCEPT !.ignoreChildren = 0,
                       !.afterIgnoredChildBlock = ~x.ignoreChildBlockFromContinuation,
                       !.ignoreChildBlockFromContinuation = FALSE]
      [] OTHER -> [x EXCEPT !.ignoreChildren = @ - 1]

\* Trailing comments of the block go to the last node created.
attachToLastAdded(x) ==
    IF opts.comments /\ x.comment > 0 /\ x.lastAddedNode = 0
    THEN Fail(x, "nil node")
    ELSE attachComments(x, x.lastAddedNode)

ChildrenBraceClose ==
    /\ On("Children", "BraceClose")
    /\ Finish(IF c.ignoreNextNode THEN Unexpected(c)
              ELSE LET x == attachToLastAdded(closeIgnoredBlock(c))
                   IN  IF x.err # "none" THEN x ELSE popState(x))

----------------------------------------------------------------------------
(* stateTypeAnnot and stateTypeDone                                        *)

TypeTrivia ==
    /\ \/ On("TypeAnnot", "Whitespace") \/ On("TypeAnnot", "ClassComment")
       \/ On("TypeDone", "Whitespace") \/ On("TypeDone", "ClassComment")
    /\ Finish(V2Only(c))

TypeContinuation ==
    /\ On("TypeAnnot", "Continuation") \/ On("TypeDone", "Continuation")
    /\ Finish(IF V2 THEN startContinuation(c) ELSE Unexpected(c))

TypeName ==
    /\ On("TypeAnnot", "BareIdentifier") \/ On("TypeAnnot", "ClassString")
    /\ Finish([c EXCEPT !.typeAnnot = tok, !.state = "TypeDone"])

TypeDoneParensClose == On("TypeDone", "ParensClose") /\ Finish(popState(c))

----------------------------------------------------------------------------
(* stateNode: the name, or a property, has just been read                  *)

NodeWhitespace ==
    On("Node", "Whitespace") /\ Finish([c EXCEPT !.state = "NodeParams"])

\* A terminator on a continued line is part of the continuation.
NodeTerminator ==
    /\ On("Node", "ClassTerminator")
    /\ Finish(IF c.continuation THEN c ELSE popNodeAndState(c))

NodeEquals ==
    /\ On("Node", "Equals")
    /\ Finish(IF opts.yaml THEN [c EXCEPT !.state = "NodeParams"] ELSE Unexpected(c))

\* An ignored child block opens, at the outermost level or inside another one.
openIgnoredBlock(x) ==
    [x EXCEPT !.ignoreChildBlockFromContinuation = x.ignoreFromContinuation,
              !.ignoreFromContinuation = FALSE,
              !.ignoreChildren = @ + 1]

\* Mutant: a block inside an ignored block is not counted.
NodeBraceOpenUncounted ==
    /\ On("Node", "BraceOpen")
    /\ Finish(pushState(IF c.ignoreNextNode
                        THEN [openIgnoredBlock(c) EXCEPT !.ignoreNextNode = FALSE]
                        ELSE c,
                        "Children"))

NodeBraceOpen ==
    /\ On("Node", "BraceOpen")
    /\ Finish(pushState(IF c.ignoreNextNode \/ c.ignoreChildren > 0
                        THEN [openIgnoredBlock(c) EXCEPT !.ignoreNextNode = FALSE]
                        ELSE c,
                        "Children"))

NodeContinuation == On("Node", "Continuation") /\ Finish(startContinuation(c))

NodeComment == On("Node", "ClassComment") /\ Finish(V2Only(c))

\* Mutant: the state is entered again without closing the node.
NodeBraceCloseUnpopped == On("Node", "BraceClose") /\ Reenter(c)

NodeBraceClose == On("Node", "BraceClose") /\ Reenter(popNodeAndState(c))

----------------------------------------------------------------------------
(* stateNodeParams: an argument, a property or a child block may follow    *)

NodeParamsWhitespace ==
    On("NodeParams", "Whitespace") /\ Finish(TriviaAfterType(c))

NodeParamsEquals ==
    /\ On("NodeParams", "Equals")
    /\ Finish(IF opts.yaml /\ ~Valid(c.typeAnnot) /\ ~Valid(c.ident)
              THEN c ELSE Unexpected(c))

NodeParamsSlashdash ==
    /\ On("NodeParams", "TokenComment")
    /\ Finish(IF Valid(c.typeAnnot) THEN Unexpected(c)
              ELSE [markIgnoreFromContinuation(c) EXCEPT !.ignoreNextArgProp = TRUE])

NodeParamsComment ==
    On("NodeParams", "ClassComment") /\ Finish(TriviaAfterType(c))

NodeParamsSingleLineComment ==
    /\ On("NodeParams", "SingleLineComment")
    /\ Finish(IF c.ignoreNextArgProp THEN c ELSE [c EXCEPT !.state = "NodeEnd"])

NodeParamsContinuation ==
    On("NodeParams", "Continuation") /\ Finish(startContinuation(c))

NodeParamsParensOpen ==
    On("NodeParams", "ParensOpen") /\ Finish(pushState(c, "TypeAnnot"))

\* In v1 a bare identifier can only be a property name.
NodeParamsBareIdentifier ==
    /\ On("NodeParams", "BareIdentifier")
    /\ Finish([c EXCEPT !.ident = tok,
                        !.state = IF opts.nginx \/ V2 THEN "ArgProp" ELSE "Property"])

NodeParamsBraceClose == On("NodeParams", "BraceClose") /\ Reenter(popNodeAndState(c))

\* The temporaries are cleared before the value is added.
NodeParamsSuffixedDecimal ==
    /\ On("NodeParams", "SuffixedDecimal")
    /\ LET x == clearPending(c)
       IN  Finish(IF x.ignoreNextArgProp
                  THEN [x EXCEPT !.ignoreNextArgProp = FALSE]
                  ELSE addArgumentToken(x, tok))

\* Strings and other values are queued: an equals sign may follow.
NodeParamsValue ==
    /\ On("NodeParams", "ClassString") \/ On("NodeParams", "ClassNonStringValue")
    /\ Finish([c EXCEPT !.ident = tok, !.state = "ArgProp"])

NodeParamsBraceOpen ==
    /\ On("NodeParams", "BraceOpen")
    /\ Finish(pushState(IF c.ignoreNextArgProp \/ c.ignoreChildren > 0
                        THEN [openIgnoredBlock(c) EXCEPT !.ignoreNextArgProp = FALSE]
                        ELSE c,
                        "Children"))

NodeParamsTerminator ==
    /\ On("NodeParams", "ClassTerminator")
    /\ Finish(CASE c.continuation -> c
                [] ~c.continuation /\ c.ignoreNextArgProp ->
                       IF tok.id = "Newline" THEN c ELSE Unexpected(c)
                [] ~c.continuation /\ ~c.ignoreNextArgProp /\ Valid(c.typeAnnot) ->
                       ValueExpected(c)
                [] OTHER -> popNodeAndState(c))

----------------------------------------------------------------------------
(* stateNodeEnd: a line comment has ended the parameters                   *)

NodeEndWhitespace == On("NodeEnd", "Whitespace") /\ Finish(c)

NodeEndEndOfLine ==
    /\ On("NodeEnd", "ClassEndOfLine")
    /\ Finish(IF c.continuation
              THEN [stopContinuation(c) EXCEPT !.state = "NodeParams"]
              ELSE popNodeAndState(c))

----------------------------------------------------------------------------
(* stateProperty: a v1 property name waits for its equals sign             *)

PropertyEquals ==
    /\ On("Property", "Equals")
    /\ Finish(IF Valid(c.typeAnnot) THEN Unexpected(c)
              ELSE [c EXCEPT !.state = "PropertyValue"])

PropertyBraceClose == On("Property", "BraceClose") /\ Reenter(popNodeAndState(c))

----------------------------------------------------------------------------
(* stateArgProp: c.ident is an argument, or the name of a property         *)

ArgPropSlashdash ==
    /\ On("ArgProp", "TokenComment")
    /\ LET x == IF c.ignoreNextArgProp
                THEN [c EXCEPT !.ignoreNextArgProp = FALSE]
                ELSE IF Valid(c.ident) THEN addArgumentToken(c, c.ident) ELSE c
           y == IF Valid(c.ident) THEN clearPending(x) ELSE x
       IN  Finish(CASE x.err # "none" -> x
                    [] x.err = "none" /\ ~Valid(c.ident) /\ Valid(c.typeAnnot) ->
                           ValueExpected(x)
                    [] OTHER ->
                           [markIgnoreFromContinuation(y) EXCEPT
                               !.ignoreNextArgProp = TRUE, !.state = "NodeParams"])

ArgPropBraceOpen ==
    /\ On("ArgProp", "BraceOpen")
    /\ LET x == flushValidIdent(c)
       IN  Finish(IF x.err # "none" THEN x
                  ELSE pushState(IF x.ignoreNextArgProp \/ x.ignoreChildren > 0
                                 THEN [x EXCEPT !.ignoreNextArgProp = FALSE,
                                                !.ignoreChildren = @ + 1]
                                 ELSE x,
                                 "Children"))

PropertyNames == {"BareIdentifier", "QuotedString", "RawString"}

\* Mutant: any value may name a property.
ArgPropEqualsAnyName ==
    /\ On("ArgProp", "Equals")
    /\ Finish(IF Valid(c.typeAnnot) THEN Unexpected(c)
              ELSE [c EXCEPT !.state = "PropertyValue"])

ArgPropEquals ==
    /\ On("ArgProp", "Equals")
    /\ Finish(IF Valid(c.typeAnnot) \/ c.ident.id \notin PropertyNames
              THEN Unexpected(c)
              ELSE [c EXCEPT !.state = "PropertyValue"])

\* In v1 whitespace decides that it was an argument.
ArgPropWhitespace ==
    /\ On("ArgProp", "Whitespace")
    /\ LET x == flushIdent(c)
       IN  Finish(IF V2 THEN c
                  ELSE IF x.err # "none" THEN x
                  ELSE [x EXCEPT !.state = "NodeParams"])

ArgPropComment == On("ArgProp", "ClassComment") /\ Finish(V2Only(c))

ArgPropContinuation == On("ArgProp", "Continuation") /\ Finish(startContinuation(c))

ArgPropTerminator ==
    /\ On("ArgProp", "ClassTerminator")
    /\ LET x == flushValidIdent(c)
       IN  Finish(IF c.continuation THEN c
                  ELSE IF x.err # "none" THEN x
                  ELSE popNodeAndState(x))

\* The queued identifier was an argument; the new value takes its place.
ArgPropValue ==
    /\ On("ArgProp", "ClassValue")
    /\ LET x == flushIdent(c)
       IN  Finish(IF x.err # "none" THEN x ELSE [x EXCEPT !.ident = tok])

\* Mutant: the argument is added, the node stays open.
ArgPropBraceCloseUnpopped ==
    On("ArgProp", "BraceClose") /\ Reenter(flushValidIdent(c))

ArgPropBraceClose ==
    /\ On("ArgProp", "BraceClose")
    /\ LET x == flushValidIdent(c)
       IN  Reenter(IF x.err # "none" THEN x ELSE popNodeAndState(x))

----------------------------------------------------------------------------
(* statePropertyValue: the equals sign of a property has been read         *)

PropertyValueTrivia ==
    /\ On("PropertyValue", "Whitespace") \/ On("PropertyValue", "ClassComment")
    /\ Finish(V2Only(c))

PropertyValueContinuation ==
    /\ On("PropertyValue", "Continuation")
    /\ Finish(IF V2 THEN startContinuation(c) ELSE Unexpected(c))

PropertyValueParensOpen ==
    On("PropertyValue", "ParensOpen") /\ Finish(pushState(c, "TypeAnnot"))

PropertyValueValue ==
    /\ On("PropertyValue", "ClassValue")
    /\ LET x == IF c.ignoreNextArgProp
                THEN [c EXCEPT !.ignoreNextArgProp = FALSE]
                ELSE addPropertyToken(c, tok)
       IN  Finish(IF x.err # "none" THEN x
                  ELSE [clearPending(x) EXCEPT !.state = "Node"])

PropertyValueBraceClose ==
    On("PropertyValue", "BraceClose") /\ Reenter(popNodeAndState(c))

----------------------------------------------------------------------------
(* The loop of parseOne, and the specification                             *)

Identifiers == {"BareIdentifier", "RawString", "QuotedString"}

\* The bounds: a token that would grow the context past them is not delivered.
Fits(t) ==
    /\ \/ t.id \in {"BraceOpen", "ParensOpen"}
       \/ t.id \in Identifiers /\ c.state \in ScopeStates
       => Len(c.states) < MaxDepth
    /\ t.id \in Identifiers /\ c.state \in ScopeStates => Len(c.doc) < MaxNodes
    /\ t.id \in ValueLike \cup {"ExpressionString"} /\ c.node # <<>> =>
           Len(c.doc[currentNode(c)].args) + Len(c.doc[currentNode(c)].props) < MaxValues
    /\ opts.comments /\ t.id \in Comments =>
           c.comment + (IF c.lastAddedNode = 0 THEN 0
                        ELSE c.doc[c.lastAddedNode].comments) < MaxComments

\* s.Scan() returned a token.
Scan(t) ==
    /\ pc = "scan"
    /\ Fits(t)
    /\ tok' = t
    /\ pc' = "parse"
    /\ UNCHANGED <<opts, c>>

Init ==
    /\ opts \in Options
    /\ c = NewContext
    /\ tok = NoToken
    /\ pc = "scan"

ScopeHandler ==
    \/ DocumentWhitespace \/ DocumentIdentifier \/ DocumentParensOpen
    \/ DocumentTerminator \/ DocumentComment \/ DocumentSlashdash
    \/ DocumentContinuation
    \/ ChildrenWhitespace \/ ChildrenComment \/ ChildrenContinuation
    \/ ChildrenSlashdash \/ ChildrenParensOpen \/ ChildrenNewline
    \/ ChildrenIdentifier \/ ChildrenBraceClose

TypeHandler == TypeTrivia \/ TypeContinuation \/ TypeName \/ TypeDoneParensClose

NodeHandler ==
    \/ NodeWhitespace \/ NodeTerminator \/ NodeEquals \/ NodeBraceOpen
    \/ NodeContinuation \/ NodeComment \/ NodeBraceClose
    \/ NodeParamsWhitespace \/ NodeParamsEquals \/ NodeParamsSlashdash
    \/ NodeParamsComment \/ NodeParamsSingleLineComment
    \/ NodeParamsContinuation \/ NodeParamsParensOpen
    \/ NodeParamsBareIdentifier \/ NodeParamsBraceClose
    \/ NodeParamsSuffixedDecimal \/ NodeParamsValue \/ NodeParamsBraceOpen
    \/ NodeParamsTerminator
    \/ NodeEndWhitespace \/ NodeEndEndOfLine

EntryHandler ==
    \/ PropertyEquals \/ PropertyBraceClose
    \/ ArgPropSlashdash \/ ArgPropBraceOpen \/ ArgPropEquals
    \/ ArgPropWhitespace \/ ArgPropComment \/ ArgPropContinuation
    \/ ArgPropTerminator \/ ArgPropValue \/ ArgPropBraceClose
    \/ PropertyValueTrivia \/ PropertyValueContinuation
    \/ PropertyValueParensOpen \/ PropertyValueValue
    \/ PropertyValueBraceClose

\* Parser.Parse, and the transition function it selects.
Step == Parse \/ NoHandler \/ ScopeHandler \/ TypeHandler \/ NodeHandler \/ EntryHandler

\* parseOne has returned.
Returned == pc \in {"accepted", "rejected"} /\ UNCHANGED vars

Next == Step \/ Returned \/ \E t \in Tokens : Scan(t)

\* A call of Parse runs to its end; nothing promises that the reader behind
\* the scanner ever delivers.
Spec == Init /\ [][Next]_vars /\ WF_vars(Step)

----------------------------------------------------------------------------
(* Invariants.                                                             *)

\* Every variable has its type (the fields of ParseContext, context.go).
TypeOK ==
    /\ opts \in Options
    /\ c \in Context
    /\ tok \in Token
    /\ pc \in {"scan", "parse", "handle", "accepted", "rejected"}

\* The frame a type annotation interrupts, or the current one.
Innermost(x) ==
    IF x.state \in TypeStates /\ x.states # <<>> THEN x.states[Len(x.states)]
    ELSE x.state

InScope(x) == Innermost(x) \in ScopeStates

\* A scope state and a node state follow each other on the stack.
Alternate(s, t) == s \in ScopeStates <=> t \in NodeStates

\* The states under s alternate between scopes and nodes, starting with the
\* document; a type annotation sits on top only.
StatesAlternate(under, s) ==
    LET n == Len(under) IN
    /\ \A i \in 1 .. n : /\ under[i] \in ScopeStates \cup NodeStates
                         /\ under[i] = "Document" <=> i = 1
    /\ \A i \in 1 .. n - 1 : Alternate(under[i], under[i + 1])
    /\ s = "Document" <=> n = 0
    /\ s \notin TypeStates /\ n > 0 => Alternate(under[n], s)
    /\ s \in TypeStates => under[n] \in ScopeStates \cup {"NodeParams", "PropertyValue"}

\* There are as many nodes on the node stack as node states.
NodesMatchStates(under, s, nodes) ==
    LET n == Len(under) IN
    /\ s \in ScopeStates => 2 * nodes = n
    /\ s \in NodeStates => 2 * nodes = n + 1
    /\ s \in TypeStates => 2 * nodes = IF under[n] \in ScopeStates THEN n - 1 ELSE n

Stacked(under, s, nodes) ==
    StatesAlternate(under, s) /\ NodesMatchStates(under, s, nodes)

\* The two stacks are separate slices, pushed and popped by different functions
\* (pushState, addNode, popNodeAndState), and nothing in the code compares them.
StackDiscipline == Stacked(c.states, c.state, Len(c.node))

\* errStateStackEmpty and errNodeStackEmpty (context.go) are never returned,
\* and no handler dereferences a nil node: whatever the input, a rejected
\* document is rejected for its syntax or for one of its values.
NoInternalError ==
    c.err \notin {"state stack empty", "node stack empty", "nil node"}

\* A pending slashdash on a node (ignoreNextNode) is consumed in the scope it
\* was read in: it is never pending inside a node, where stateNode's own test
\* of it would turn it against the child block.
NodeSlashdashInScope == c.ignoreNextNode => InScope(c)

\* When "=" is about to attach a value, c.ident is a token that may name a
\* property, whatever blocks, types and continuations came between.
PropertyHasName ==
    \/ c.state \in {"Property", "PropertyValue"}
    \/ c.state \in TypeStates /\ Innermost(c) = "PropertyValue"
    => c.ident.id \in PropertyNames

\* The open nodes form a path of the document: each was added to the one below
\* it on the stack, or to nothing.
OpenNodesFormPath ==
    \A i \in DOMAIN c.node :
        /\ c.node[i] \in DOMAIN c.doc
        /\ c.doc[c.node[i]].parent \in {Detached, IF i = 1 THEN 0 ELSE c.node[i - 1]}

\* The child blocks that are open: block i belongs to node i of the stack.
OpenBlocks(x) == IF InScope(x) THEN Len(x.node) ELSE Len(x.node) - 1

\* ignoreChildren counts the innermost open blocks, never more than are open, and
\* every node in one of them but its owner is detached.
IgnoredBlocksDetached ==
    /\ c.ignoreChildren <= OpenBlocks(c)
    /\ \A i \in DOMAIN c.node :
           i > OpenBlocks(c) - c.ignoreChildren + 1 => c.doc[c.node[i]].parent = Detached

\* The one-line rule after an ignored block is armed only once that block and
\* all blocks in it are closed, and an ignored block's continuation mark never
\* outlives it.
IgnoredBlockMarks ==
    /\ c.afterIgnoredChildBlock => c.ignoreChildren = 0 /\ c.states # <<>>
    /\ c.ignoreChildBlockFromContinuation => c.ignoreChildren > 0
    /\ c.continuationNewlineSeen => c.continuation

----------------------------------------------------------------------------
(* Action properties and liveness.                                         *)

\* Only the innermost open node may gain an argument, a property or a type:
\* a node that was closed, or that has an open child, keeps what it has.
OnlyInnermostGrows ==
    [][\A i \in DOMAIN c.doc :
          pc' # "rejected" /\ (c.node = <<>> \/ i # currentNode(c)) =>
              /\ c'.doc[i].args = c.doc[i].args
              /\ c'.doc[i].props = c.doc[i].props
              /\ c'.doc[i].typ = c.doc[i].typ]_vars

\* What is pending for the next node or the next entry belongs to the frame it
\* was read in: opening a node uses up the pending type and slashdash, so the
\* node's entries never inherit them.
OpeningUsesPending ==
    [][Len(c'.node) > Len(c.node) /\ pc' # "rejected" =>
          ~Valid(c'.typeAnnot) /\ ~c'.ignoreNextNode]_vars

\* ErrReenterState is returned at most once per token: the node has closed, and
\* the second call finds a scope, which consumes the brace or rejects it.
ReentersInScope ==
    [][pc = "handle" /\ pc' = "parse" => c'.state \in ScopeStates]_vars

\* The comments node i has.
Attached(i) == IF i \in DOMAIN c.doc THEN c.doc[i].comments ELSE 0

\* A comment read between nodes is pending until it moves, as a whole and once,
\* to one node: the one that follows it, or the last one of its block.
CommentsKept ==
    [][pc' # "rejected" =>
          \/ /\ c'.comment \in {c.comment, c.comment + 1}
             /\ \A i \in DOMAIN c'.doc : c'.doc[i].comments = Attached(i)
          \/ /\ c'.comment = 0
             /\ \E i \in DOMAIN c'.doc :
                   /\ c'.doc[i].comments = Attached(i) + c.comment
                   /\ \A j \in DOMAIN c'.doc \ {i} : c'.doc[j].comments = Attached(j)]_vars

\* Every token that is handed to Parse is consumed or rejected: the retry loop
\* of parseOne ends.
TokenSettled == pc = "parse" ~> pc \in {"scan", "accepted", "rejected"}
============================================================================
