----------------------------- MODULE KdlWriter -----------------------------
(***************************************************************************)
(* Generation of a document: Generator.Generate (generator.go) and         *)
(* Node.WriteToOptions (node.go), as calls that perform writes which may   *)
(* fail.                                                                   *)
(*                                                                         *)
(* A node has the values of its tokens, and its properties as they were    *)
(* added; a call of WriteToOptions is a frame with the steps it has left   *)
(* and its err.                                                            *)
(***************************************************************************)
EXTENDS KdlStrings

CONSTANTS
    Cases,          \* sets of documents, each with the version they were read in,
                    \* the options to write them with and how many writes may fail
    AllNodes        \* the nodes of the documents, at any depth

IsSequence(s) == s \in Seq(ToSet(s))

\* A string has a text and a type annotation, and an integer that is called int64 is one.
IsValue(x) ==
    /\ x.kind = "string" => IsSequence(x.text) /\ IsSequence(x.type)
    /\ x.kind = "int64" => x.number \in -IntLimit .. IntLimit - 1
    /\ x.kind = "big.Int" => x.number \in Int

\* The lists that a node keeps are lists, its children are nodes, its entries values.
ASSUME NodesAssumption ==
    /\ \A c \in Cases : c.documents \subseteq Seq(AllNodes)
    /\ \A n \in AllNodes :
           /\ n.children \in Seq(AllNodes)
           /\ IsSequence(n.args) /\ IsSequence(n.before) /\ IsSequence(n.after)
           /\ \A i \in DOMAIN n.args : IsValue(n.args[i])
           /\ \A i \in DOMAIN n.pairs : IsValue(n.pairs[i].value)

VARIABLES
    case,           \* the document and its options
    stack,          \* the calls, innermost first
    out,            \* what has been written
    lost,           \* the writes that failed
    result          \* what Generate has returned

vars == <<case, stack, out, lost, result>>

----------------------------------------------------------------------------
(* The document.                                                           *)

\* Mutant: a key that is added again goes to the end.
AddLast(props, p) ==
    Append(SelectSeq(props, LAMBDA q : q.key # p.key), p)

\* Properties.Add: a key keeps its first place and takes the last value.
Add(props, p) ==
    IF \E i \in DOMAIN props : props[i].key = p.key
    THEN [i \in DOMAIN props |-> IF props[i].key = p.key THEN p ELSE props[i]]
    ELSE Append(props, p)

Properties(n) == FoldLeft(Add, <<>>, n.pairs)

\* Properties.string
propertyText(p, o) ==
    <<" ">> \o (IF isBare(p.key, o.version) THEN p.key ELSE AppendQuotedString(p.key, "QUOTE"))
    \o <<"=">> \o valueText(p.value, IF o.ignore THEN Unformatted(o.version) ELSE Formatted(o.version))

----------------------------------------------------------------------------
(* The steps of a call.                                                    *)

\* write(t), write(t) under "if err == nil", a call for a child, and the lines of
\* the comment behind the node, under "if err == nil" once for all of them.
Say(t) == [op |-> "write", text |-> t]
IfOk(t) == [op |-> "write if ok", text |-> t]
Child(n) == [op |-> "child", node |-> n]
Lines(t) == [op |-> "lines if ok", writes |-> t]

Indentation(o, depth) == FlattenSeq([k \in 1 .. depth |-> o.indent])

\* The comment before a node: no more than one empty line at a time is kept.
commentBefore(lines, indent) ==
    FlattenSeq([k \in DOMAIN lines |->
        (IF lines[k] = <<>> THEN <<>> ELSE <<Say(indent), Say(lines[k])>>)
        \o (IF k > 1 /\ lines[k] = <<>> /\ lines[k - 1] = <<>> THEN <<>> ELSE <<Say(<<"\n">>)>>)])

commentAfter(lines, indent) ==
    FlattenSeq([k \in DOMAIN lines |-> <<Say(indent), Say(lines[k]), Say(<<"\n">>)>>])

\* The type annotation and the name.
header(n, o) ==
    (IF n.type = <<>> THEN <<>> ELSE <<IfOk(<<"(">>), IfOk(n.type), IfOk(<<")">>)>>)
    \o <<IfOk(valueText(n.name, NodeName(o.version)))>>

\* The sign between a name and its arguments that is not KDL.
Assigned(n) == n.args # <<>> /\ n.pairs = <<>> /\ n.children = <<>>

assignment(n, o) ==
    CASE ~Assigned(n) -> <<>>
      [] o.equals -> <<Say(<<" ", "=">>)>>
      [] o.colons -> <<Say(<<":">>)>>
      [] OTHER -> <<>>

entries(n, o) ==
    LET opts == IF o.ignore THEN Unformatted(o.version) ELSE Formatted(o.version)
        props == Properties(n)
    IN  FlattenSeq([k \in DOMAIN n.args |->
                       <<IfOk(<<" ">>), IfOk(valueText(n.args[k], opts))>>])
        \o (IF props = <<>> THEN <<>>
            ELSE <<IfOk(FlattenSeq([k \in DOMAIN props |-> propertyText(props[k], o)]))>>)

block(n, o, depth) ==
    CASE n.children # <<>> ->
             <<IfOk(<<" ", "{", "\n">>)>>
             \o [k \in DOMAIN n.children |-> Child(n.children[k])]
             \o (IF depth > 0 THEN <<IfOk(Indentation(o, depth))>> ELSE <<>>)
             \o <<IfOk(<<"}">>)>>
      [] o.semicolons -> <<IfOk(<<";">>)>>
      [] OTHER -> <<>>

\* Node.WriteToOptions, as Generate calls it: with leading space, name and type.
WriteToOptions(n, o, depth) ==
    LET indent == Indentation(o, depth)
    IN  commentBefore(n.before, indent)
        \o (IF depth > 0 THEN <<Say(indent)>> ELSE <<>>)
        \o header(n, o) \o assignment(n, o) \o entries(n, o) \o block(n, o, depth)
        \o <<IF n.after = <<>> THEN IfOk(<<"\n">>) ELSE Lines(commentAfter(n.after, indent))>>

\* Generator.Generate: the marker, and the nodes of the document.
Generate(c) ==
    (IF c.options.marker
     THEN <<IfOk(<<"/", "-", " ", "kdl-version", " ",
                   IF c.options.version = "V2" THEN "2" ELSE "1", "\n">>)>>
     ELSE <<>>)
    \o [k \in DOMAIN c.nodes |-> Child(c.nodes[k])]

\* A call at a depth of the document, -1 for Generate: the steps it has left, its
\* err, and whether it has left its loop over the children.
Frame(steps, depth) == [steps |-> steps, depth |-> depth, err |-> FALSE, broken |-> FALSE]

Init ==
    /\ \E c \in Cases : \E o \in c.options, nodes \in c.documents :
           case = [nodes |-> nodes, options |-> o, read |-> c.read, failures |-> c.failures]
    /\ stack = <<Frame(Generate(case), -1)>>
    /\ out = <<>>
    /\ lost = {}
    /\ result = "none"

----------------------------------------------------------------------------
(* The actions.                                                            *)

top == Head(stack)
step == Head(top.steps)

Running == stack # <<>> /\ top.steps # <<>>

\* The frames after the innermost call has done its step with the given err.
stepped(e) == <<[top EXCEPT !.steps = Tail(@), !.err = e]>> \o Tail(stack)

Writes == step.op = "write" \/ (step.op = "write if ok" /\ ~top.err)

\* write: err is what this write returned, whatever it was before.
Write ==
    /\ Running
    /\ Writes
    /\ out' = out \o step.text
    /\ stack' = stepped(FALSE)
    /\ UNCHANGED <<case, lost, result>>

\* A write that fails; again is whether the same call may write after it.
WriteFails ==
    /\ Running
    /\ Writes
    /\ Cardinality(lost) < case.failures
    /\ lost' = lost \cup {[at |-> Len(out), depth |-> top.depth,
                           again |-> \E k \in DOMAIN top.steps : k > 1 /\ top.steps[k].op = "write"]}
    /\ stack' = stepped(TRUE)
    /\ UNCHANGED <<case, out, result>>

\* "if err == nil" fails, or the loop has been left.
Skip ==
    /\ Running
    /\ \/ step.op # "write" /\ top.err
       \/ step.op = "child" /\ top.broken
    /\ stack' = stepped(top.err)
    /\ UNCHANGED <<case, out, lost, result>>

WriteLines ==
    /\ Running
    /\ step.op = "lines if ok" /\ ~top.err
    /\ stack' = <<[top EXCEPT !.steps = step.writes \o Tail(@)]>> \o Tail(stack)
    /\ UNCHANGED <<case, out, lost, result>>

CallChild ==
    /\ Running
    /\ step.op = "child" /\ ~top.err /\ ~top.broken
    /\ stack' = <<Frame(WriteToOptions(step.node, case.options, top.depth + 1), top.depth + 1)>>
                \o stepped(FALSE)
    /\ UNCHANGED <<case, out, lost, result>>

\* Mutant: the error of a node is not looked at.
ReturnQuietly(caller, e) == [caller EXCEPT !.broken = e]

\* What a caller makes of the err of a call: Generate returns it; WriteToOptions
\* leaves its loop, and keeps its own err, which the loop's variable shadows.
returned(caller, e) ==
    IF caller.depth = -1 THEN [caller EXCEPT !.err = e] ELSE [caller EXCEPT !.broken = e]

Return ==
    /\ stack # <<>> /\ top.steps = <<>>
    /\ IF Len(stack) = 1
       THEN /\ stack' = <<>>
            /\ result' = IF top.err THEN "error" ELSE "nil"
       ELSE /\ stack' = <<returned(stack[2], top.err)>> \o SubSeq(stack, 3, Len(stack))
            /\ UNCHANGED result
    /\ UNCHANGED <<case, out, lost>>

Returned == stack = <<>> /\ UNCHANGED vars

Next == Write \/ WriteFails \/ Skip \/ WriteLines \/ CallChild \/ Return \/ Returned

Spec == Init /\ [][Next]_vars

----------------------------------------------------------------------------
(* What Generate reports.                                                  *)

\* Generate returns no error for a write that failed only if that write was in a
\* node with a parent, or if its call had a write to make behind it that does not ask
\* for the error.
LostIsConfined ==
    result = "nil" => \A w \in lost : w.depth > 0 \/ w.again
============================================================================
