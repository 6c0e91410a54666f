-------------------------- MODULE KdlWriterProofs --------------------------
(***************************************************************************)
(* What Generate reports of the writes that fail, for every document, and  *)
(* what becomes in a Go variable of the integers that are read back.       *)
(*                                                                         *)
(* The frames are counted from the bottom, where Generate is at depth -1   *)
(* and the call for a node of the document above it at depth 0.  An err    *)
(* that a caller looks at keeps it from calling again, so that a failed    *)
(* write is in the err of Generate or on its way there.                    *)
(***************************************************************************)
EXTENDS KdlReadback, KdlSequenceProofs

----------------------------------------------------------------------------
(* The invariant.                                                          *)

Ops == {"write", "write if ok", "child", "lines if ok"}

IsWrites(q) == IsSequence(q) /\ \A i \in DOMAIN q : q[i].op = "write"

\* A step names a node of the document, or lines that are only written.
IsStep(s) ==
    /\ s.op \in Ops
    /\ s.op = "child" => s.node \in AllNodes
    /\ s.op = "lines if ok" => IsWrites(s.writes)

IsSteps(q) == IsSequence(q) /\ \A i \in DOMAIN q : IsStep(q[i])

IsFrame(f) ==
    /\ f = [steps |-> f.steps, depth |-> f.depth, err |-> f.err, broken |-> f.broken]
    /\ f.err \in BOOLEAN /\ f.broken \in BOOLEAN
    /\ IsSteps(f.steps)

\* The calls of a document's nodes, each one deeper than its caller.
Nested ==
    /\ IsSequence(stack)
    /\ \A k \in DOMAIN stack : IsFrame(stack[k]) /\ stack[k].depth = Len(stack) - k - 1

bottom == stack[Len(stack)]

\* Generate writes only under "if err == nil", and calls no node after an err.
GenerateStops ==
    stack # <<>> =>
        /\ result = "none"
        /\ \A i \in DOMAIN bottom.steps : bottom.steps[i].op \in {"write if ok", "child"}
        /\ bottom.err => Len(stack) = 1

\* An err is with Generate, or with the call of a node of the document, which will
\* neither write nor call before it returns.
Known ==
    IF stack = <<>> THEN result = "error"
    ELSE \/ bottom.err
         \/ /\ Len(stack) = 2
            /\ stack[1].err
            /\ \A i \in DOMAIN stack[1].steps : stack[1].steps[i].op # "write"

Accounted == \A w \in lost : w.depth > 0 \/ w.again \/ Known

Inv == Nested /\ GenerateStops /\ Accounted

----------------------------------------------------------------------------
(* The steps of a call.                                                    *)

LEMMA StepsOf ==
  ASSUME NEW S, \A s \in S : IsStep(s), NEW q \in Seq(S)
  PROVE  IsSteps(q)
BY OwnElements DEF IsSteps, IsSequence

LEMMA Joined ==
  ASSUME NEW p, NEW q, IsSteps(p), IsSteps(q)
  PROVE  IsSteps(p \o q)
<1> DEFINE S == {s \in ToSet(p) \cup ToSet(q) : IsStep(s)}
<1>1. p \in Seq(S) /\ q \in Seq(S)
  <2>1. p \in Seq(ToSet(p)) /\ q \in Seq(ToSet(q))
    BY DEF IsSteps, IsSequence
  <2>2. \A i \in DOMAIN p : p[i] \in S
    BY DEF IsSteps, ToSet
  <2>3. \A i \in DOMAIN q : q[i] \in S
    BY DEF IsSteps, ToSet
  <2> HIDE DEF S
  <2> QED
    BY <2>1, <2>2, <2>3
<1>2. \A s \in S : IsStep(s)
  OBVIOUS
<1> HIDE DEF S
<1>3. p \o q \in Seq(S)
  BY <1>1, ConcatProperties
<1> QED
  BY <1>2, <1>3, StepsOf

LEMMA NoSteps == IsSteps(<<>>)
<1>1. <<>> \in Seq({})
  BY EmptySeq
<1> QED
  BY <1>1, StepsOf

LEMMA OneStep ==
  ASSUME NEW s, IsStep(s)
  PROVE  IsSteps(<<s>>)
<1>1. <<s>> \in Seq({s})
  OBVIOUS
<1> QED
  BY <1>1, StepsOf

LEMMA Flattened ==
  ASSUME NEW S, \A s \in S : IsStep(s), NEW q \in Seq(Seq(S))
  PROVE  IsSteps(FlattenSeq(q))
BY FlattenTyped, StepsOf

LEMMA WritesAreSteps == \A t : IsStep(Say(t)) /\ IsStep(IfOk(t))
BY DEF IsStep, Say, IfOk, Ops

LEMMA CommentBeforeSteps ==
  ASSUME NEW lines, IsSequence(lines), NEW indent
  PROVE  IsSteps(commentBefore(lines, indent))
<1> DEFINE S == {Say(t) : t \in ToSet(lines) \cup {indent, <<"\n">>}}
           above(k) == IF lines[k] = <<>> THEN <<>> ELSE <<Say(indent), Say(lines[k])>>
           end(k) == IF k > 1 /\ lines[k] = <<>> /\ lines[k - 1] = <<>> THEN <<>> ELSE <<Say(<<"\n">>)>>
           q == [k \in DOMAIN lines |-> above(k) \o end(k)]
<1>1. DOMAIN lines = 1 .. Len(lines) /\ Len(lines) \in Nat
  BY OwnElements DEF IsSequence
<1>2. ASSUME NEW k \in DOMAIN lines PROVE above(k) \o end(k) \in Seq(S)
  <2>1. Say(indent) \in S /\ Say(lines[k]) \in S /\ Say(<<"\n">>) \in S
    BY DEF ToSet
  <2> HIDE DEF S
  <2>2. above(k) \in Seq(S) /\ end(k) \in Seq(S)
    BY <2>1
  <2> QED
    BY <2>2, ConcatProperties
<1>3. q \in Seq(Seq(S))
  <2> HIDE DEF S
  <2>1. \A k \in 1 .. Len(lines) : q[k] \in Seq(S)
    BY <1>1, <1>2
  <2>2. q = [k \in 1 .. Len(lines) |-> q[k]]
    BY <1>1
  <2> HIDE DEF q
  <2> QED
    BY <1>1, <2>1, <2>2, IsASeq
<1>4. \A s \in S : IsStep(s)
  BY WritesAreSteps
<1>5. commentBefore(lines, indent) = FlattenSeq(q)
  BY DEF commentBefore
<1> HIDE DEF S, q
<1> QED
  BY <1>3, <1>4, <1>5, Flattened

\* The lines behind a node are written without a look at the err before them.
LEMMA CommentAfterWrites ==
  ASSUME NEW lines, IsSequence(lines), NEW indent
  PROVE  IsWrites(commentAfter(lines, indent))
<1> DEFINE S == {Say(t) : t \in ToSet(lines) \cup {indent, <<"\n">>}}
           q == [k \in DOMAIN lines |-> <<Say(indent), Say(lines[k]), Say(<<"\n">>)>>]
<1>1. DOMAIN lines = 1 .. Len(lines) /\ Len(lines) \in Nat
  BY OwnElements DEF IsSequence
<1>2. ASSUME NEW k \in DOMAIN lines PROVE q[k] \in Seq(S)
  <2>1. Say(indent) \in S /\ Say(lines[k]) \in S /\ Say(<<"\n">>) \in S
    BY DEF ToSet
  <2> HIDE DEF S
  <2> QED
    BY <2>1
<1>3. q \in Seq(Seq(S))
  <2>1. q = [k \in 1 .. Len(lines) |-> q[k]]
    BY <1>1
  <2> HIDE DEF S, q
  <2> QED
    BY <1>1, <1>2, <2>1, IsASeq
<1>4. \A s \in S : s.op = "write"
  BY DEF Say
<1>5. commentAfter(lines, indent) = FlattenSeq(q)
  BY DEF commentAfter
<1> HIDE DEF S, q
<1>6. commentAfter(lines, indent) \in Seq(S)
  BY <1>3, <1>5, FlattenTyped
<1> QED
  BY <1>4, <1>6, OwnElements DEF IsWrites, IsSequence

LEMMA EntriesSteps ==
  ASSUME NEW n \in AllNodes, NEW o
  PROVE  IsSteps(entries(n, o))
<1> DEFINE opts == IF o.ignore THEN Unformatted(o.version) ELSE Formatted(o.version)
           props == Properties(n)
           S == {IfOk(<<" ">>)} \cup {IfOk(valueText(n.args[k], opts)) : k \in DOMAIN n.args}
           q == [k \in DOMAIN n.args |-> <<IfOk(<<" ">>), IfOk(valueText(n.args[k], opts))>>]
           last == IF props = <<>> THEN <<>>
                   ELSE <<IfOk(FlattenSeq([k \in DOMAIN props |-> propertyText(props[k], o)]))>>
<1>1. DOMAIN n.args = 1 .. Len(n.args) /\ Len(n.args) \in Nat
  BY NodesAssumption, OwnElements DEF IsSequence
<1>2. ASSUME NEW k \in DOMAIN n.args PROVE q[k] \in Seq(S)
  <2> DEFINE space == IfOk(<<" ">>)
             text == IfOk(valueText(n.args[k], opts))
  <2>1. space \in S /\ text \in S
    OBVIOUS
  <2>2. q[k] = <<space, text>>
    OBVIOUS
  <2> HIDE DEF S, q, space, text
  <2> QED
    BY <2>1, <2>2
<1>3. q \in Seq(Seq(S))
  <2>1. q = [k \in 1 .. Len(n.args) |-> q[k]]
    BY <1>1
  <2> HIDE DEF S, q
  <2> QED
    BY <1>1, <1>2, <2>1, IsASeq
<1>4. \A s \in S : IsStep(s)
  BY WritesAreSteps
<1>5. IsSteps(FlattenSeq(q))
  <2> HIDE DEF S, q
  <2> QED
    BY <1>3, <1>4, Flattened
<1>6. IsSteps(last)
  BY WritesAreSteps, OneStep, NoSteps
<1>7. entries(n, o) = FlattenSeq(q) \o last
  BY DEF entries
<1> HIDE DEF last, q
<1> QED
  BY <1>5, <1>6, <1>7, Joined

LEMMA HeaderSteps ==
  ASSUME NEW n, NEW o
  PROVE  IsSteps(header(n, o)) /\ IsSteps(assignment(n, o))
<1> DEFINE typed == IF n.type = <<>> THEN <<>> ELSE <<IfOk(<<"(">>), IfOk(n.type), IfOk(<<")">>)>>
           S == {IfOk(<<"(">>), IfOk(n.type), IfOk(<<")">>)}
<1>1. IsSteps(typed)
  <2>1. \A s \in S : IsStep(s)
    BY WritesAreSteps
  <2>2. typed \in Seq(S)
    <3> DEFINE o1 == IfOk(<<"(">>)
               o2 == IfOk(n.type)
               o3 == IfOk(<<")">>)
    <3>1. o1 \in S /\ o2 \in S /\ o3 \in S
      OBVIOUS
    <3>2. typed = <<>> \/ typed = <<o1, o2, o3>>
      OBVIOUS
    <3> HIDE DEF S, typed, o1, o2, o3
    <3>3. <<>> \in Seq(S) /\ <<o1, o2, o3>> \in Seq(S)
      BY <3>1, EmptySeq
    <3> QED
      BY <3>2, <3>3
  <2> HIDE DEF S, typed
  <2> QED
    BY <2>1, <2>2, StepsOf
<1>2. IsSteps(<<IfOk(valueText(n.name, NodeName(o.version)))>>)
  BY WritesAreSteps, OneStep
<1>3. IsSteps(header(n, o))
  <2> HIDE DEF typed
  <2>1. header(n, o) = typed \o <<IfOk(valueText(n.name, NodeName(o.version)))>>
    BY DEF header, typed
  <2> QED
    BY <1>1, <1>2, <2>1, Joined
<1>4. IsSteps(<<Say(<<" ", "=">>)>>) /\ IsSteps(<<Say(<<":">>)>>)
  BY WritesAreSteps, OneStep
<1>5. IsSteps(assignment(n, o))
  BY <1>4, NoSteps DEF assignment
<1> QED
  BY <1>3, <1>5

LEMMA ChildrenSteps ==
  ASSUME NEW nodes \in Seq(AllNodes)
  PROVE  /\ IsSteps([k \in DOMAIN nodes |-> Child(nodes[k])])
         /\ \A k \in DOMAIN nodes : Child(nodes[k]).op = "child"
<1> DEFINE S == {Child(n) : n \in AllNodes}
           q == [k \in DOMAIN nodes |-> Child(nodes[k])]
<1>1. \A s \in S : IsStep(s) /\ s.op = "child"
  <2>1. ASSUME NEW n \in AllNodes PROVE IsStep(Child(n)) /\ Child(n).op = "child"
    BY DEF IsStep, Child, Ops
  <2> QED
    BY <2>1
<1>2. q \in Seq(S)
  <2>1. DOMAIN nodes = 1 .. Len(nodes) /\ Len(nodes) \in Nat /\ \A k \in DOMAIN nodes : nodes[k] \in AllNodes
    OBVIOUS
  <2>2. \A k \in 1 .. Len(nodes) : q[k] \in S
    BY <2>1
  <2>3. q = [k \in 1 .. Len(nodes) |-> q[k]]
    BY <2>1
  <2> HIDE DEF S, q
  <2> QED
    BY <2>1, <2>2, <2>3, IsASeq
<1> QED
  BY <1>1, <1>2, StepsOf DEF Child

LEMMA BlockSteps ==
  ASSUME NEW n \in AllNodes, NEW o, NEW depth
  PROVE  IsSteps(block(n, o, depth))
<1> DEFINE children == [k \in DOMAIN n.children |-> Child(n.children[k])]
           indented == IF depth > 0 THEN <<IfOk(Indentation(o, depth))>> ELSE <<>>
<1>1. IsSteps(children)
  BY NodesAssumption, ChildrenSteps
<1>2. IsSteps(indented)
  BY WritesAreSteps, OneStep, NoSteps
<1>3. IsSteps(<<IfOk(<<" ", "{", "\n">>)>>) /\ IsSteps(<<IfOk(<<"}">>)>>) /\ IsSteps(<<IfOk(<<";">>)>>)
  BY WritesAreSteps, OneStep
<1> HIDE DEF children, indented
<1>4. IsSteps(<<IfOk(<<" ", "{", "\n">>)>> \o children \o indented \o <<IfOk(<<"}">>)>>)
  BY <1>1, <1>2, <1>3, Joined
<1> QED
  BY <1>3, <1>4, NoSteps DEF block, children, indented

LEMMA NodeSteps ==
  ASSUME NEW n \in AllNodes, NEW o, NEW depth
  PROVE  IsSteps(WriteToOptions(n, o, depth))
<1> DEFINE indent == Indentation(o, depth)
           indented == IF depth > 0 THEN <<Say(indent)>> ELSE <<>>
           last == <<IF n.after = <<>> THEN IfOk(<<"\n">>) ELSE Lines(commentAfter(n.after, indent))>>
<1>1. IsSteps(commentBefore(n.before, indent))
  BY NodesAssumption, CommentBeforeSteps
<1>2. IsSteps(indented)
  BY WritesAreSteps, OneStep, NoSteps
<1>3. IsSteps(last)
  <2>1. IsStep(Lines(commentAfter(n.after, indent)))
    BY NodesAssumption, CommentAfterWrites DEF IsStep, Lines, Ops
  <2> QED
    BY <2>1, WritesAreSteps, OneStep
<1> HIDE DEF indented, last
<1>4. IsSteps(commentBefore(n.before, indent) \o indented \o header(n, o) \o assignment(n, o)
              \o entries(n, o) \o block(n, o, depth) \o last)
  BY <1>1, <1>2, <1>3, HeaderSteps, EntriesSteps, BlockSteps, Joined
<1> QED
  BY <1>4 DEF WriteToOptions, indented, last

\* Generate has steps of two kinds only.
LEMMA GenerateSteps ==
  ASSUME NEW c, c.nodes \in Seq(AllNodes)
  PROVE  /\ IsSteps(Generate(c))
         /\ \A i \in DOMAIN Generate(c) : Generate(c)[i].op \in {"write if ok", "child"}
<1> DEFINE marker == <<"/", "-", " ", "kdl-version", " ", IF c.options.version = "V2" THEN "2" ELSE "1", "\n">>
           first == IF c.options.marker THEN <<IfOk(marker)>> ELSE <<>>
           q == [k \in DOMAIN c.nodes |-> Child(c.nodes[k])]
           S == {s \in ToSet(first) \cup ToSet(q) : IsStep(s) /\ s.op \in {"write if ok", "child"}}
<1>1. Generate(c) = first \o q
  BY DEF Generate
<1>2. IsSteps(q) /\ \A k \in DOMAIN q : q[k].op = "child"
  BY ChildrenSteps
<1>3. IsSteps(first) /\ \A k \in DOMAIN first : first[k].op = "write if ok"
  <2>1. IsStep(IfOk(marker)) /\ IfOk(marker).op = "write if ok"
    BY WritesAreSteps DEF IfOk
  <2> HIDE DEF marker
  <2>2. CASE c.options.marker
    <3>1. first = <<IfOk(marker)>> /\ IsSteps(<<IfOk(marker)>>)
      BY <2>1, <2>2, OneStep
    <3>2. DOMAIN <<IfOk(marker)>> = {1} /\ <<IfOk(marker)>>[1] = IfOk(marker)
      OBVIOUS
    <3> HIDE DEF first
    <3> QED
      BY <2>1, <3>1, <3>2
  <2>3. CASE ~c.options.marker
    <3>1. first = <<>>
      BY <2>3
    <3>2. DOMAIN <<>> = {}
      OBVIOUS
    <3> HIDE DEF first
    <3> QED
      BY <3>1, <3>2, NoSteps
  <2> QED
    BY <2>2, <2>3
<1>4. first \in Seq(S) /\ q \in Seq(S)
  <2> HIDE DEF first, q
  <2>1. first \in Seq(ToSet(first)) /\ q \in Seq(ToSet(q))
    BY <1>2, <1>3 DEF IsSteps, IsSequence
  <2>2. \A i \in DOMAIN first : first[i] \in S
    BY <1>3 DEF IsSteps, ToSet
  <2>3. \A i \in DOMAIN q : q[i] \in S
    BY <1>2 DEF IsSteps, ToSet
  <2> HIDE DEF S
  <2> QED
    BY <2>1, <2>2, <2>3
<1> HIDE DEF first, q
<1>5. Generate(c) \in Seq(S)
  <2> HIDE DEF S
  <2> QED
    BY <1>1, <1>4, ConcatProperties
<1>6. \A s \in S : IsStep(s) /\ s.op \in {"write if ok", "child"}
  OBVIOUS
<1> HIDE DEF S
<1>7. IsSteps(Generate(c))
  BY <1>5, <1>6, StepsOf
<1>8. \A i \in DOMAIN Generate(c) : Generate(c)[i] \in S
  BY <1>5
<1> QED
  BY <1>6, <1>7, <1>8

----------------------------------------------------------------------------
(* The calls.                                                              *)

\* The innermost call, and the first of the steps it has left.
LEMMA Innermost ==
  ASSUME Nested, stack # <<>>
  PROVE  /\ Len(stack) \in Nat \ {0} /\ DOMAIN stack = 1 .. Len(stack)
         /\ top = stack[1] /\ IsFrame(top) /\ top.depth = Len(stack) - 2
         /\ Len(stack) = 1 => bottom = top
<1>1. stack \in Seq(ToSet(stack))
  BY DEF Nested, IsSequence
<1>2. Len(stack) \in Nat \ {0} /\ DOMAIN stack = 1 .. Len(stack) /\ Head(stack) = stack[1]
  BY <1>1
<1>3. IsFrame(stack[1]) /\ stack[1].depth = Len(stack) - 1 - 1
  BY <1>2 DEF Nested
<1> QED
  BY <1>2, <1>3 DEF top, bottom

LEMMA FirstStep ==
  ASSUME Nested, Running
  PROVE  /\ 1 \in DOMAIN top.steps /\ step = top.steps[1] /\ IsStep(step)
         /\ IsSteps(Tail(top.steps))
         /\ \A i \in DOMAIN Tail(top.steps) :
                i + 1 \in DOMAIN top.steps /\ i + 1 > 1 /\ Tail(top.steps)[i] = top.steps[i + 1]
<1> DEFINE q == top.steps
           S == {s \in ToSet(q) : IsStep(s)}
<1>1. IsSteps(q) /\ q # <<>>
  BY Innermost DEF Running, IsFrame
<1> HIDE DEF q
<1>2. q \in Seq(ToSet(q))
  BY <1>1 DEF IsSteps, IsSequence
<1>3. \A i \in DOMAIN q : q[i] \in S
  BY <1>1 DEF IsSteps, ToSet
<1>4. q \in Seq(S)
  <2> HIDE DEF S
  <2> QED
    BY <1>2, <1>3
<1>5. \A s \in S : IsStep(s)
  OBVIOUS
<1> HIDE DEF S
<1>6. Head(q) = q[1] /\ 1 \in DOMAIN q /\ q[1] \in S /\ Tail(q) \in Seq(S)
  BY <1>1, <1>4
<1>7. \A i \in DOMAIN Tail(q) : i + 1 \in DOMAIN q /\ i + 1 > 1 /\ Tail(q)[i] = q[i + 1]
  BY <1>1, <1>4
<1>8. IsSteps(Tail(q))
  BY <1>5, <1>6, StepsOf
<1> QED
  BY <1>5, <1>6, <1>7, <1>8 DEF q, step

\* A step of the innermost call leaves the others.
LEMMA OthersStay ==
  ASSUME Nested, stack # <<>>, NEW f, IsFrame(f), f.depth = top.depth,
         stack' = <<f>> \o Tail(stack)
  PROVE  /\ Nested'
         /\ Len(stack') = Len(stack) /\ stack' # <<>> /\ stack'[1] = f
         /\ bottom' = IF Len(stack) = 1 THEN f ELSE bottom
<1>1. /\ stack' \in Seq(ToSet(stack'))
      /\ Len(stack') = Len(stack) /\ stack'[1] = f
      /\ \A k \in 2 .. Len(stack) : stack'[k] = stack[k]
  <2>1. stack \in Seq(ToSet(stack))
    BY DEF Nested, IsSequence
  <2> QED
    BY <2>1, Replaced
<1>2. DOMAIN stack' = 1 .. Len(stack) /\ stack' # <<>> /\ Len(stack) \in Nat \ {0}
  BY <1>1, Innermost
<1>3. ASSUME NEW k \in 1 .. Len(stack)
      PROVE  IsFrame(stack'[k]) /\ stack'[k].depth = Len(stack) - k - 1
  <2>1. CASE k = 1
    BY <2>1, <1>1, <1>2, Innermost
  <2>2. CASE k # 1
    <3>1. k \in 2 .. Len(stack) /\ k \in DOMAIN stack
      BY <2>2, <1>2, Innermost
    <3> QED
      BY <3>1, <1>1 DEF Nested
  <2> QED
    BY <2>1, <2>2
<1>4. Nested'
  BY <1>1, <1>2, <1>3 DEF Nested, IsSequence
<1>5. bottom' = IF Len(stack) = 1 THEN f ELSE bottom
  <2>1. CASE Len(stack) = 1
    BY <2>1, <1>1 DEF bottom
  <2>2. CASE Len(stack) # 1
    <3>1. Len(stack) \in 2 .. Len(stack)
      BY <2>2, <1>2
    <3> QED
      BY <3>1, <2>2, <1>1 DEF bottom
  <2> QED
    BY <2>1, <2>2
<1> QED
  BY <1>1, <1>2, <1>4, <1>5

LEMMA SteppedFrame ==
  ASSUME Nested, Running, NEW e \in BOOLEAN, NEW f, f = [top EXCEPT !.steps = Tail(@), !.err = e]
  PROVE  /\ IsFrame(f) /\ stepped(e) = <<f>> \o Tail(stack)
         /\ f.depth = top.depth /\ f.err = e /\ f.steps = Tail(top.steps)
<1>1. IsFrame(top)
  BY Innermost DEF Running
<1>2. f = [steps |-> Tail(top.steps), depth |-> top.depth, err |-> e, broken |-> top.broken]
  BY <1>1 DEF IsFrame
<1>3. IsSteps(f.steps)
  BY <1>2, FirstStep
<1> QED
  BY <1>1, <1>2, <1>3 DEF IsFrame, stepped

----------------------------------------------------------------------------
(* The invariant holds.                                                    *)

LEMMA InvInit == Init => Inv
<1> SUFFICES ASSUME Init PROVE Inv
  OBVIOUS
<1> DEFINE f == Frame(Generate(case), -1)
<1>1. case.nodes \in Seq(AllNodes)
  BY NodesAssumption DEF Init
<1>2. IsFrame(f) /\ f.depth = -1 /\ f.err = FALSE /\ f.steps = Generate(case)
  BY <1>1, GenerateSteps DEF IsFrame, Frame
<1> HIDE DEF f
<1>3. stack = <<f>> /\ lost = {} /\ result = "none"
  BY DEF Init, f
<1>4. Len(stack) = 1 /\ DOMAIN stack = {1} /\ stack[1] = f /\ IsSequence(stack)
  <2>1. <<f>> \in Seq({f})
    OBVIOUS
  <2>2. <<f>> \in Seq(ToSet(<<f>>))
    BY <2>1, OwnElements
  <2> QED
    BY <1>3, <2>2 DEF IsSequence
<1>5. Nested
  BY <1>2, <1>4 DEF Nested
<1>6. GenerateStops
  <2>1. bottom = f
    BY <1>4 DEF bottom
  <2> QED
    BY <1>1, <1>2, <1>3, <1>4, <2>1, GenerateSteps DEF GenerateStops
<1> QED
  BY <1>3, <1>5, <1>6 DEF Inv, Accounted

\* Nothing is known of an err where a write, or a call, is made.
LEMMA NotKnown ==
  ASSUME Inv, Running, Writes \/ ~top.err
  PROVE  ~Known
<1>1. Nested /\ GenerateStops /\ stack # <<>>
  BY DEF Inv, Running
<1>2. top = stack[1] /\ (Len(stack) = 1 => bottom = top)
  BY <1>1, Innermost
<1>3. 1 \in DOMAIN top.steps /\ step = top.steps[1]
  BY <1>1, FirstStep
<1>7. IsFrame(top)
  BY <1>1, Innermost
<1>4. bottom.err => ~(Writes \/ ~top.err)
  <2>1. SUFFICES ASSUME bottom.err PROVE ~(Writes \/ ~top.err)
    OBVIOUS
  <2>2. Len(stack) = 1
    BY <1>1, <2>1 DEF GenerateStops
  <2>4. top = bottom /\ \A i \in DOMAIN bottom.steps : bottom.steps[i].op \in {"write if ok", "child"}
    BY <1>1, <1>2, <2>2 DEF GenerateStops
  <2>3. step.op # "write" /\ top.err
    BY <1>3, <2>1, <2>4
  <2> QED
    BY <2>3 DEF Writes
<1>5. top.err /\ (\A i \in DOMAIN top.steps : top.steps[i].op # "write") => ~(Writes \/ ~top.err)
  BY <1>3 DEF Writes
<1>6. Known => bottom.err \/ (stack[1].err /\ \A i \in DOMAIN stack[1].steps : stack[1].steps[i].op # "write")
  BY <1>1 DEF Known
<1> QED
  BY <1>2, <1>4, <1>5, <1>6

\* A step of the innermost call leaves Generate its two kinds of steps.
LEMMA GenerateGoesOn ==
  ASSUME Inv, Running, NEW f, f.steps = Tail(top.steps),
         stack' # <<>>, bottom' = IF Len(stack) = 1 THEN f ELSE bottom,
         result' = result, bottom'.err => Len(stack') = 1
  PROVE  GenerateStops'
<1>1. Nested /\ GenerateStops /\ stack # <<>>
  BY DEF Inv, Running
<1>2. result' = "none"
  BY <1>1 DEF GenerateStops
<1>3. \A i \in DOMAIN bottom'.steps : bottom'.steps[i].op \in {"write if ok", "child"}
  <2>1. \A i \in DOMAIN bottom.steps : bottom.steps[i].op \in {"write if ok", "child"}
    BY <1>1 DEF GenerateStops
  <2>2. CASE Len(stack) = 1
    <3>1. top = bottom /\ bottom' = f
      BY <1>1, <2>2, Innermost
    <3>2. \A i \in DOMAIN f.steps : i + 1 \in DOMAIN top.steps /\ f.steps[i] = top.steps[i + 1]
      BY <1>1, FirstStep
    <3> QED
      BY <2>1, <3>1, <3>2
  <2>3. CASE Len(stack) # 1
    BY <2>1, <2>3
  <2> QED
    BY <2>2, <2>3
<1> QED
  BY <1>2, <1>3 DEF GenerateStops

LEMMA InvWrite ==
  ASSUME Inv, Write
  PROVE  Inv'
<1> DEFINE f == [top EXCEPT !.steps = Tail(@), !.err = FALSE]
<1>1. Nested /\ GenerateStops /\ stack # <<>> /\ Running
  BY DEF Inv, Running, Write
<1>2. /\ IsFrame(f) /\ stepped(FALSE) = <<f>> \o Tail(stack)
      /\ f.depth = top.depth /\ f.err = FALSE /\ f.steps = Tail(top.steps)
  BY <1>1, SteppedFrame
<1> HIDE DEF f
<1>3. stack' = <<f>> \o Tail(stack) /\ result' = result /\ lost' = lost
  BY <1>2 DEF Write
<1>4. /\ Nested' /\ Len(stack') = Len(stack) /\ stack' # <<>> /\ stack'[1] = f
      /\ bottom' = IF Len(stack) = 1 THEN f ELSE bottom
  BY <1>1, <1>2, <1>3, OthersStay
<1>5. ~Known
  BY <1>1, NotKnown DEF Write
<1>6. GenerateStops'
  <2>1. bottom'.err => Len(stack') = 1
    BY <1>1, <1>2, <1>4 DEF GenerateStops
  <2> QED
    BY <1>1, <1>2, <1>3, <1>4, <2>1, GenerateGoesOn
<1>7. Accounted'
  BY <1>3, <1>5 DEF Inv, Accounted
<1> QED
  BY <1>4, <1>6, <1>7 DEF Inv

LEMMA InvWriteFails ==
  ASSUME Inv, WriteFails
  PROVE  Inv'
<1> DEFINE f == [top EXCEPT !.steps = Tail(@), !.err = TRUE]
           again == \E k \in DOMAIN top.steps : k > 1 /\ top.steps[k].op = "write"
           new == [at |-> Len(out), depth |-> top.depth, again |-> again]
<1>1. Nested /\ GenerateStops /\ stack # <<>> /\ Running
  BY DEF Inv, Running, WriteFails
<1>2. /\ IsFrame(f) /\ stepped(TRUE) = <<f>> \o Tail(stack)
      /\ f.depth = top.depth /\ f.err = TRUE /\ f.steps = Tail(top.steps)
  BY <1>1, SteppedFrame
<1> HIDE DEF f
<1>3. stack' = <<f>> \o Tail(stack) /\ result' = result /\ lost' = lost \cup {new}
  BY <1>2 DEF WriteFails
<1>4. /\ Nested' /\ Len(stack') = Len(stack) /\ stack' # <<>> /\ stack'[1] = f
      /\ bottom' = IF Len(stack) = 1 THEN f ELSE bottom
  BY <1>1, <1>2, <1>3, OthersStay
<1>5. ~Known
  BY <1>1, NotKnown DEF WriteFails
<1>6. GenerateStops'
  <2>1. bottom'.err => Len(stack') = 1
    BY <1>1, <1>4 DEF GenerateStops
  <2> QED
    BY <1>1, <1>2, <1>3, <1>4, <2>1, GenerateGoesOn
<1>7. new.depth > 0 \/ new.again \/ Known'
  <2>1. new.depth = Len(stack) - 2 /\ Len(stack) \in Nat \ {0} /\ new.again = again
    BY <1>1, Innermost
  <2>2. CASE Len(stack) = 1
    BY <2>2, <1>2, <1>4 DEF Known
  <2>3. CASE Len(stack) = 2
    <3>1. ~again => \A i \in DOMAIN f.steps : f.steps[i].op # "write"
      BY <1>1, <1>2, FirstStep
    <3> HIDE DEF again, new
    <3> QED
      BY <2>1, <2>3, <1>2, <1>4, <3>1 DEF Known
  <2>4. CASE Len(stack) > 2
    BY <2>1, <2>4
  <2>5. Len(stack) = 1 \/ Len(stack) = 2 \/ Len(stack) > 2
    BY <1>1, Innermost
  <2> QED
    BY <2>2, <2>3, <2>4, <2>5
<1>8. Accounted'
  <2> HIDE DEF new
  <2> QED
    BY <1>3, <1>5, <1>7 DEF Inv, Accounted
<1> QED
  BY <1>4, <1>6, <1>8 DEF Inv

LEMMA InvSkip ==
  ASSUME Inv, Skip
  PROVE  Inv'
<1> DEFINE f == [top EXCEPT !.steps = Tail(@), !.err = top.err]
<1>1. Nested /\ GenerateStops /\ stack # <<>> /\ Running
  BY DEF Inv, Running, Skip
<1>2. /\ IsFrame(f) /\ stepped(top.err) = <<f>> \o Tail(stack)
      /\ f.depth = top.depth /\ f.err = top.err /\ f.steps = Tail(top.steps)
  <2>1. top.err \in BOOLEAN
    BY <1>1, Innermost DEF IsFrame
  <2> QED
    BY <1>1, <2>1, SteppedFrame
<1> HIDE DEF f
<1>3. stack' = <<f>> \o Tail(stack) /\ result' = result /\ lost' = lost
  BY <1>2 DEF Skip
<1>4. /\ Nested' /\ Len(stack') = Len(stack) /\ stack' # <<>> /\ stack'[1] = f
      /\ bottom' = IF Len(stack) = 1 THEN f ELSE bottom
  BY <1>1, <1>2, <1>3, OthersStay
<1>5. GenerateStops'
  <2>1. bottom'.err => Len(stack') = 1
    BY <1>1, <1>2, <1>4, Innermost DEF GenerateStops
  <2> QED
    BY <1>1, <1>2, <1>3, <1>4, <2>1, GenerateGoesOn
<1>6. Known => Known'
  <2>1. CASE bottom.err
    <3>1. Len(stack) = 1 /\ bottom = top
      BY <1>1, <2>1, Innermost DEF GenerateStops
    <3> QED
      BY <2>1, <3>1, <1>2, <1>4 DEF Known
  <2>2. CASE Len(stack) = 2 /\ stack[1].err /\ \A i \in DOMAIN stack[1].steps : stack[1].steps[i].op # "write"
    <3>1. \A i \in DOMAIN f.steps : f.steps[i].op # "write"
      BY <1>1, <1>2, <2>2, FirstStep, Innermost
    <3>2. f.err
      BY <1>1, <1>2, <2>2, Innermost
    <3> QED
      BY <2>2, <3>1, <3>2, <1>4 DEF Known
  <2> QED
    BY <2>1, <2>2, <1>1 DEF Known
<1>7. Accounted'
  BY <1>3, <1>6 DEF Inv, Accounted
<1> QED
  BY <1>4, <1>5, <1>7 DEF Inv

LEMMA InvWriteLines ==
  ASSUME Inv, WriteLines
  PROVE  Inv'
<1> DEFINE f == [top EXCEPT !.steps = step.writes \o Tail(@)]
<1>1. Nested /\ GenerateStops /\ stack # <<>> /\ Running
  BY DEF Inv, Running, WriteLines
<1>2. IsFrame(top) /\ IsStep(step) /\ step.op = "lines if ok" /\ ~top.err
  BY <1>1, Innermost, FirstStep DEF WriteLines
<1>3. IsFrame(f) /\ f.depth = top.depth /\ f.err = FALSE
  <2>1. f = [steps |-> step.writes \o Tail(top.steps), depth |-> top.depth,
             err |-> top.err, broken |-> top.broken]
    <3> DEFINE w == step.writes \o Tail(top.steps)
               t == top
    <3>1. f = [t EXCEPT !.steps = w]
      OBVIOUS
    <3>2. t = [steps |-> t.steps, depth |-> t.depth, err |-> t.err, broken |-> t.broken]
      BY <1>2 DEF IsFrame
    <3> HIDE DEF f, w, t
    <3>3. f = [steps |-> w, depth |-> t.depth, err |-> t.err, broken |-> t.broken]
      BY <3>1, <3>2
    <3> QED
      BY <3>3 DEF w, t
  <2>2. IsSteps(step.writes)
    BY <1>2 DEF IsStep, IsWrites, IsSteps, Ops
  <2>3. IsSteps(step.writes \o Tail(top.steps))
    BY <1>1, <2>2, FirstStep, Joined
  <2> QED
    BY <1>2, <2>1, <2>3 DEF IsFrame
<1> HIDE DEF f
<1>4. stack' = <<f>> \o Tail(stack) /\ result' = result /\ lost' = lost
  BY DEF WriteLines, f
<1>5. /\ Nested' /\ Len(stack') = Len(stack) /\ stack' # <<>> /\ stack'[1] = f
      /\ bottom' = IF Len(stack) = 1 THEN f ELSE bottom
  BY <1>1, <1>3, <1>4, OthersStay
<1>6. ~Known
  BY <1>1, <1>2, NotKnown
<1>7. Len(stack) # 1
  <2>1. SUFFICES ASSUME Len(stack) = 1 PROVE FALSE
    OBVIOUS
  <2>2. top = bottom /\ 1 \in DOMAIN top.steps /\ step = top.steps[1]
    BY <1>1, <2>1, Innermost, FirstStep
  <2> QED
    BY <1>1, <1>2, <2>2 DEF GenerateStops
<1>8. GenerateStops'
  BY <1>1, <1>4, <1>5, <1>7 DEF GenerateStops
<1>9. Accounted'
  BY <1>4, <1>6 DEF Inv, Accounted
<1> QED
  BY <1>5, <1>8, <1>9 DEF Inv

LEMMA InvCallChild ==
  ASSUME Inv, CallChild
  PROVE  Inv'
<1> DEFINE f == [top EXCEPT !.steps = Tail(@), !.err = FALSE]
           depth == top.depth + 1
           callee == Frame(WriteToOptions(step.node, case.options, depth), depth)
           under == <<f>> \o Tail(stack)
<1>1. Nested /\ GenerateStops /\ stack # <<>> /\ Running
  BY DEF Inv, Running, CallChild
<1>2. /\ IsFrame(f) /\ stepped(FALSE) = under
      /\ f.depth = top.depth /\ f.err = FALSE /\ f.steps = Tail(top.steps)
  BY <1>1, SteppedFrame
<1> HIDE DEF f
<1>3. stack' = <<callee>> \o under /\ result' = result /\ lost' = lost
  BY <1>2 DEF CallChild
<1>4. IsFrame(callee) /\ callee.depth = Len(stack) - 1
  <2>1. IsStep(step) /\ step.op = "child" /\ top.depth = Len(stack) - 2
    BY <1>1, Innermost, FirstStep DEF CallChild
  <2>2. IsSteps(WriteToOptions(step.node, case.options, depth))
    BY <2>1, NodeSteps DEF IsStep
  <2>3. Len(stack) \in Nat
    BY <1>1, Innermost
  <2> QED
    BY <2>1, <2>2, <2>3 DEF IsFrame, Frame
<1> HIDE DEF callee, under
<1>5. /\ under \in Seq(ToSet(under)) /\ Len(under) = Len(stack) /\ under[1] = f
      /\ \A k \in 2 .. Len(stack) : under[k] = stack[k]
  <2>1. stack \in Seq(ToSet(stack))
    BY <1>1 DEF Nested, IsSequence
  <2> QED
    BY <1>1, <2>1, Replaced DEF under
<1>6. /\ stack' \in Seq(ToSet(stack')) /\ Len(stack') = Len(stack) + 1 /\ stack'[1] = callee
      /\ \A k \in 1 .. Len(stack) : stack'[k + 1] = under[k]
  BY <1>3, <1>5, Pushed
<1>7. Len(stack) \in Nat \ {0} /\ DOMAIN stack' = 1 .. Len(stack) + 1 /\ stack' # <<>>
  BY <1>1, <1>6, Innermost
<1>8. ASSUME NEW k \in 1 .. Len(stack)
      PROVE  IsFrame(under[k]) /\ under[k].depth = Len(stack) - k - 1
  <2>1. CASE k = 1
    BY <2>1, <1>1, <1>2, <1>5, <1>7, Innermost
  <2>2. CASE k # 1
    <3>1. k \in 2 .. Len(stack) /\ k \in DOMAIN stack
      BY <2>2, <1>1, <1>7, Innermost
    <3> QED
      BY <3>1, <1>1, <1>5 DEF Nested
  <2> QED
    BY <2>1, <2>2
<1>9. ASSUME NEW k \in 1 .. Len(stack) + 1
      PROVE  IsFrame(stack'[k]) /\ stack'[k].depth = Len(stack) + 1 - k - 1
  <2>1. CASE k = 1
    BY <2>1, <1>4, <1>6, <1>7
  <2>2. CASE k # 1
    <3> DEFINE j == k - 1
    <3>1. j \in 1 .. Len(stack) /\ k = j + 1
      BY <2>2, <1>7
    <3> HIDE DEF j
    <3>2. stack'[k] = under[j] /\ under[j].depth = Len(stack) - j - 1 /\ IsFrame(under[j])
      BY <3>1, <1>6, <1>8
    <3> QED
      BY <3>1, <3>2, <1>7
  <2> QED
    BY <2>1, <2>2
<1>10. Nested'
  BY <1>6, <1>7, <1>9 DEF Nested, IsSequence
<1>11. bottom' = under[Len(stack)]
  BY <1>6, <1>7 DEF bottom
<1>12. ~Known
  BY <1>1, NotKnown DEF CallChild
<1>13. ~bottom'.err /\ \A i \in DOMAIN bottom'.steps : bottom'.steps[i].op \in {"write if ok", "child"}
  <2>1. CASE Len(stack) = 1
    <3>1. bottom' = f /\ top = bottom
      BY <1>1, <1>5, <1>11, <2>1, Innermost
    <3>2. \A i \in DOMAIN f.steps : i + 1 \in DOMAIN top.steps /\ f.steps[i] = top.steps[i + 1]
      BY <1>1, <1>2, FirstStep
    <3> QED
      BY <1>1, <1>2, <3>1, <3>2 DEF GenerateStops
  <2>2. CASE Len(stack) # 1
    <3>1. Len(stack) \in 2 .. Len(stack)
      BY <1>1, <2>2, Innermost
    <3>2. bottom' = bottom
      BY <1>5, <1>11, <3>1 DEF bottom
    <3> QED
      BY <1>1, <2>2, <3>2 DEF GenerateStops
  <2> QED
    BY <2>1, <2>2
<1>14. GenerateStops'
  BY <1>1, <1>3, <1>13 DEF GenerateStops
<1>15. Accounted'
  BY <1>3, <1>12 DEF Inv, Accounted
<1> QED
  BY <1>10, <1>14, <1>15 DEF Inv

LEMMA InvReturn ==
  ASSUME Inv, Return
  PROVE  Inv'
<1>1. Nested /\ GenerateStops /\ stack # <<>> /\ top.steps = <<>> /\ lost' = lost
  BY DEF Inv, Return
<1>2. /\ Len(stack) \in Nat \ {0} /\ DOMAIN stack = 1 .. Len(stack)
      /\ top = stack[1] /\ (Len(stack) = 1 => bottom = top)
  BY <1>1, Innermost
<1>3. CASE Len(stack) = 1
  <2>1. stack' = <<>> /\ result' = IF top.err THEN "error" ELSE "nil"
    BY <1>3 DEF Return
  <2>2. Nested'
    <3>1. <<>> \in Seq(ToSet(<<>>)) /\ DOMAIN <<>> = {}
      BY EmptySeq
    <3> QED
      BY <2>1, <3>1 DEF Nested, IsSequence
  <2>3. GenerateStops'
    BY <2>1 DEF GenerateStops
  <2>4. Known => Known'
    BY <1>1, <1>2, <1>3, <2>1 DEF Known
  <2> QED
    BY <1>1, <2>2, <2>3, <2>4 DEF Inv, Accounted
<1>4. CASE Len(stack) # 1
  <2> DEFINE caller == returned(stack[2], top.err)
  <2>1. stack' = <<caller>> \o SubSeq(stack, 3, Len(stack)) /\ result' = result /\ Len(stack) > 1
    BY <1>2, <1>4 DEF Return
  <2>2. IsFrame(stack[2]) /\ stack[2].depth = Len(stack) - 3 /\ top.err \in BOOLEAN
    <3>1. 2 \in DOMAIN stack /\ 1 \in DOMAIN stack
      BY <1>2, <2>1
    <3>2. IsFrame(stack[2]) /\ stack[2].depth = Len(stack) - 2 - 1 /\ IsFrame(stack[1])
      BY <1>1, <3>1 DEF Nested
    <3> QED
      BY <1>2, <3>2 DEF IsFrame
  <2>3. /\ IsFrame(caller) /\ caller.depth = stack[2].depth /\ caller.steps = stack[2].steps
        /\ stack[2].depth = -1 => caller.err = top.err
        /\ stack[2].depth # -1 => caller.err = stack[2].err
    BY <2>2 DEF returned, IsFrame
  <2> HIDE DEF caller
  <2>4. /\ stack' \in Seq(ToSet(stack')) /\ Len(stack') = Len(stack) - 1 /\ stack'[1] = caller
        /\ \A k \in 2 .. Len(stack) - 1 : stack'[k] = stack[k + 1]
    <3>1. stack \in Seq(ToSet(stack))
      BY <1>1 DEF Nested, IsSequence
    <3> QED
      BY <2>1, <3>1, Popped
  <2>5. DOMAIN stack' = 1 .. Len(stack) - 1 /\ stack' # <<>>
    BY <1>2, <2>1, <2>4
  <2>6. ASSUME NEW k \in 1 .. Len(stack) - 1
        PROVE  IsFrame(stack'[k]) /\ stack'[k].depth = Len(stack) - 1 - k - 1
    <3>1. CASE k = 1
      BY <3>1, <1>2, <2>2, <2>3, <2>4
    <3>2. CASE k # 1
      <4>1. k \in 2 .. Len(stack) - 1 /\ k + 1 \in DOMAIN stack
        BY <3>2, <1>2
      <4>2. IsFrame(stack[k + 1]) /\ stack[k + 1].depth = Len(stack) - (k + 1) - 1
        BY <1>1, <4>1 DEF Nested
      <4> QED
        BY <4>1, <4>2, <2>4, <1>2
    <3> QED
      BY <3>1, <3>2
  <2>7. Nested'
    BY <2>4, <2>5, <2>6 DEF Nested, IsSequence
  <2>8. CASE Len(stack) = 2
    <3>1. bottom' = caller /\ bottom = stack[2] /\ stack[2].depth = -1 /\ Len(stack') = 1
      BY <2>2, <2>4, <2>8 DEF bottom
    <3>2. GenerateStops'
      BY <1>1, <2>1, <2>3, <3>1 DEF GenerateStops
    <3>3. Known => Known'
      <4>1. Known => top.err
        BY <1>1, <1>2, <1>4, <2>8 DEF Known, GenerateStops
      <4> QED
        BY <2>3, <2>5, <3>1, <4>1 DEF Known
    <3> QED
      BY <1>1, <2>7, <3>2, <3>3 DEF Inv, Accounted
  <2>9. CASE Len(stack) # 2
    <3>1. bottom' = bottom
      <4>1. Len(stack) - 1 \in 2 .. Len(stack) - 1 /\ (Len(stack) - 1) + 1 = Len(stack)
        BY <1>2, <2>1, <2>9
      <4> QED
        BY <2>4, <4>1 DEF bottom
    <3>2. GenerateStops'
      BY <1>1, <1>4, <2>1, <3>1 DEF GenerateStops
    <3>3. ~Known
      BY <1>1, <1>4, <2>9 DEF Known, GenerateStops
    <3> QED
      BY <1>1, <2>7, <3>2, <3>3 DEF Inv, Accounted
  <2> QED
    BY <2>8, <2>9
<1> QED
  BY <1>3, <1>4

LEMMA InvNext == Inv /\ [Next]_vars => Inv'
<1> SUFFICES ASSUME Inv, [Next]_vars PROVE Inv'
  OBVIOUS
<1>1. CASE UNCHANGED vars
  BY <1>1 DEF vars, Inv, Nested, GenerateStops, Accounted, Known, bottom
<1> QED
  BY <1>1, InvWrite, InvWriteFails, InvSkip, InvWriteLines, InvCallChild, InvReturn DEF Next, Returned

\* A write that failed without an error of Generate was made in a node with a parent, or
\* the same call had another write to make that does not ask for the error, and so takes
\* its place: an indentation, a line of a comment, the sign behind a name
\* (Generator.Generate, WriteToOptions, node.go:282-297, 321-325).
THEOREM LostWritesAreConfined == Spec => []LostIsConfined
<1>1. Inv => LostIsConfined
  BY DEF Inv, GenerateStops, Accounted, Known, LostIsConfined
<1> QED
  BY <1>1, InvInit, InvNext, PTL DEF Spec

----------------------------------------------------------------------------
(* Integers as texts, and back.                                            *)

\* What Magnitude chooses for a text, and what InBase chooses for a number.
Valued(w, f) ==
    f = [n \in 0 .. Len(w) |-> IF n = 0 THEN 0 ELSE 10 * f[n - 1] + Figure(w[n])]
Figured(n, f) ==
    f = [m \in 0 .. n |->
            (IF m < 10 THEN <<>> ELSE f[m \div 10]) \o <<Figures[(m % 10) + 1]>>]

LEMMA FigureOfDigit ==
  ASSUME NEW k \in 0 .. 9
  PROVE  Figures[k + 1] \in Digits /\ Figure(Figures[k + 1]) = k
<1>1. \A i, j \in 1 .. 10 : Figures[i] = Figures[j] => i = j
  BY DEF Figures
<1>2. k + 1 \in 1 .. 10 /\ Figures[k + 1] \in Digits
  BY DEF Figures, Digits
<1>3. (CHOOSE i \in 1 .. 10 : Figures[i] = Figures[k + 1]) = k + 1
  BY <1>1, <1>2
<1>4. Figure(Figures[k + 1]) = (CHOOSE i \in 1 .. 10 : Figures[i] = Figures[k + 1]) - 1
  BY DEF Figure
<1> DEFINE place == CHOOSE i \in 1 .. 10 : Figures[i] = Figures[k + 1]
<1>5. place = k + 1 /\ Figure(Figures[k + 1]) = place - 1
  BY <1>3, <1>4
<1> HIDE DEF place
<1>6. Figure(Figures[k + 1]) = k
  BY <1>5
<1> QED
  BY <1>2, <1>6

LEMMA DigitHasFigure ==
  ASSUME NEW c \in Digits
  PROVE  Figure(c) \in 0 .. 9 /\ c = Figures[Figure(c) + 1]
<1>1. \E k \in 1 .. 10 : Figures[k] = c
  <2>1. /\ Figures[1] = "0" /\ Figures[2] = "1" /\ Figures[3] = "2" /\ Figures[4] = "3"
        /\ Figures[5] = "4" /\ Figures[6] = "5" /\ Figures[7] = "6" /\ Figures[8] = "7"
        /\ Figures[9] = "8" /\ Figures[10] = "9"
    BY DEF Figures
  <2> QED
    BY <2>1 DEF Digits
<1>2. PICK k \in 1 .. 10 : Figures[k] = c
  BY <1>1
<1>3. Figure(c) = k - 1
  BY <1>2, FigureOfDigit, k - 1 \in 0 .. 9
<1> QED
  BY <1>2, <1>3

\* The values of two texts agree as far as the texts do.
LEMMA ValuesAgree ==
  ASSUME NEW v \in Seq(Digits), NEW w \in Seq(Digits), NEW f, NEW g,
         Valued(v, f), Valued(w, g),
         NEW m \in Nat, m <= Len(v), m <= Len(w), \A i \in 1 .. m : v[i] = w[i]
  PROVE  f[m] \in Nat /\ g[m] = f[m]
<1> DEFINE A == {n \in Nat : n <= m => f[n] \in Nat /\ g[n] = f[n]}
<1>1. 0 \in A
  <2>1. f[0] = 0 /\ g[0] = 0
    BY DEF Valued
  <2> QED
    BY <2>1
<1>2. ASSUME NEW n \in Nat, n \in A PROVE n + 1 \in A
  <2>1. SUFFICES ASSUME n + 1 <= m PROVE f[n + 1] \in Nat /\ g[n + 1] = f[n + 1]
    OBVIOUS
  <2>2. f[n] \in Nat /\ g[n] = f[n]
    BY <1>2, <2>1
  <2>3. n + 1 \in 0 .. Len(v) /\ n + 1 \in 0 .. Len(w) /\ n + 1 # 0 /\ (n + 1) - 1 = n
    BY <2>1
  <2>4. f[n + 1] = 10 * f[n] + Figure(v[n + 1])
    BY <2>3 DEF Valued
  <2>5. g[n + 1] = 10 * g[n] + Figure(w[n + 1])
    BY <2>3 DEF Valued
  <2>6. v[n + 1] = w[n + 1] /\ Figure(v[n + 1]) \in 0 .. 9
    <3>1. n + 1 \in 1 .. m /\ v[n + 1] \in Digits
      BY <2>1
    <3> QED
      BY <3>1, DigitHasFigure
  <2> DEFINE x == f[n]
             d == Figure(v[n + 1])
  <2>7. x \in Nat /\ d \in 0 .. 9 /\ f[n + 1] = 10 * x + d /\ g[n + 1] = 10 * x + d
    BY <2>2, <2>4, <2>5, <2>6
  <2> HIDE DEF x, d
  <2> QED
    BY <2>7
<1>3. m \in A
  <2> HIDE DEF A
  <2> QED
    BY <1>1, <1>2, Induction
<1> QED
  BY <1>3

LEMMA MagnitudeIsValue ==
  ASSUME NEW w \in Seq(Digits)
  PROVE  \E f : Valued(w, f) /\ Magnitude(w) = f[Len(w)]
<1> DEFINE more == [i \in 1 .. Len(w) |-> [n \in Nat |-> 10 * n + Figure(w[i])]]
<1>1. more \in Steps(Len(w), Nat)
  <2>1. ASSUME NEW i \in 1 .. Len(w), NEW n \in Nat PROVE 10 * n + Figure(w[i]) \in Nat
    <3>1. w[i] \in Digits
      OBVIOUS
    <3> QED
      BY <3>1, DigitHasFigure
  <2> QED
    BY <2>1 DEF Steps
<1>2. PICK g \in [0 .. Len(w) -> Nat] :
          g[0] = 0 /\ \A i \in 1 .. Len(w) : g[i] = more[i][g[i - 1]]
  <2> HIDE DEF more
  <2>1. Len(w) \in Nat /\ 0 \in Nat
    OBVIOUS
  <2>2. Results(Len(w), Nat, 0, more) # {}
    BY <1>1, <2>1, Recursion
  <2> QED
    BY <2>2 DEF Results
<1>3. Valued(w, g)
  <2>1. ASSUME NEW n \in 0 .. Len(w), n # 0 PROVE g[n] = 10 * g[n - 1] + Figure(w[n])
    <3>1. n \in 1 .. Len(w) /\ g[n - 1] \in Nat
      OBVIOUS
    <3> QED
      BY <1>2, <3>1
  <2> HIDE DEF more
  <2>2. g = [n \in 0 .. Len(w) |-> g[n]]
    OBVIOUS
  <2>3. \A n \in 0 .. Len(w) : g[n] = IF n = 0 THEN 0 ELSE 10 * g[n - 1] + Figure(w[n])
    BY <1>2, <2>1
  <2> QED
    BY <2>2, <2>3 DEF Valued
<1> DEFINE value == CHOOSE f : Valued(w, f)
<1>4. Valued(w, value)
  BY <1>3
<1>5. Magnitude(w) = value[Len(w)]
  BY DEF Magnitude, Valued
<1> HIDE DEF value
<1> QED
  BY <1>4, <1>5

LEMMA MagnitudeOfNothing == Magnitude(<<>>) = 0
<1>1. <<>> \in Seq(Digits) /\ Len(<<>>) = 0
  OBVIOUS
<1>2. PICK f : Valued(<<>>, f) /\ Magnitude(<<>>) = f[0]
  BY <1>1, MagnitudeIsValue
<1> QED
  BY <1>1, <1>2 DEF Valued

LEMMA MagnitudeIsNatural ==
  ASSUME NEW w \in Seq(Digits)
  PROVE  Magnitude(w) \in Nat
<1>1. PICK f : Valued(w, f) /\ Magnitude(w) = f[Len(w)]
  BY MagnitudeIsValue
<1>2. Len(w) \in Nat
  OBVIOUS
<1> QED
  BY <1>1, <1>2, ValuesAgree

LEMMA MagnitudeOfMore ==
  ASSUME NEW w \in Seq(Digits), NEW c \in Digits
  PROVE  Magnitude(w \o <<c>>) = 10 * Magnitude(w) + Figure(c)
<1> DEFINE v == w \o <<c>>
<1>1. v \in Seq(Digits) /\ Len(v) = Len(w) + 1 /\ v[Len(w) + 1] = c
      /\ \A i \in 1 .. Len(w) : v[i] = w[i]
  OBVIOUS
<1> HIDE DEF v
<1>2. PICK f : Valued(w, f) /\ Magnitude(w) = f[Len(w)]
  BY MagnitudeIsValue
<1>3. PICK g : Valued(v, g) /\ Magnitude(v) = g[Len(v)]
  BY <1>1, MagnitudeIsValue
<1>4. Len(w) \in Nat /\ Len(w) <= Len(v)
  BY <1>1
<1>5. g[Len(w)] = f[Len(w)]
  BY <1>1, <1>2, <1>3, <1>4, ValuesAgree
<1>6. Len(v) \in 0 .. Len(v) /\ Len(v) # 0 /\ Len(v) - 1 = Len(w)
  BY <1>1, <1>4
<1>7. g[Len(v)] = 10 * g[Len(w)] + Figure(v[Len(v)])
  BY <1>3, <1>6 DEF Valued
<1> QED
  BY <1>1, <1>2, <1>3, <1>5, <1>7 DEF v

LEMMA TableOfFigures ==
  ASSUME NEW n \in Nat
  PROVE  \E f : Figured(n, f)
<1> DEFINE last(m) == <<Figures[(m % 10) + 1]>>
           A == {m \in Nat : \E f : Figured(m, f)}
<1>1. 0 \in A
  <2> DEFINE f == [m \in 0 .. 0 |-> last(m)]
  <2>1. \A m \in 0 .. 0 : f[m] = (IF m < 10 THEN <<>> ELSE f[m \div 10]) \o last(m)
    <3>1. <<>> \o last(0) = last(0)
      OBVIOUS
    <3> QED
      BY <3>1
  <2> HIDE DEF last
  <2>2. f = [m \in 0 .. 0 |-> f[m]]
    OBVIOUS
  <2> HIDE DEF f
  <2>3. f = [m \in 0 .. 0 |-> (IF m < 10 THEN <<>> ELSE f[m \div 10]) \o last(m)]
    BY <2>1, <2>2
  <2> QED
    BY <2>3 DEF last, Figured
<1>2. ASSUME NEW m \in Nat, m \in A PROVE m + 1 \in A
  <2>1. PICK f : Figured(m, f)
    BY <1>2
  <2> HIDE DEF last
  <2> DEFINE of(g, k) == (IF k < 10 THEN <<>> ELSE g[k \div 10]) \o last(k)
             h == [k \in 0 .. m + 1 |-> IF k <= m THEN f[k] ELSE of(f, k)]
  <2>2. f = [k \in 0 .. m |-> of(f, k)]
    BY <2>1 DEF Figured, last
  <2>3. ASSUME NEW k \in 0 .. m + 1 PROVE h[k] = of(h, k)
    <3>1. h[k] = of(f, k)
      <4>1. CASE k <= m
        <5>1. k \in 0 .. m
          BY <4>1
        <5> HIDE DEF of
        <5> QED
          BY <2>2, <4>1, <5>1
      <4>2. CASE ~(k <= m)
        <5> HIDE DEF of
        <5> QED
          BY <4>2
      <4> QED
        BY <4>1, <4>2
    <3>2. of(f, k) = of(h, k)
      <4>1. CASE k < 10
        BY <4>1
      <4>2. CASE k >= 10
        <5>1. k \div 10 \in 0 .. m
          BY <4>2
        <5>2. h[k \div 10] = f[k \div 10]
          <6> HIDE DEF of
          <6> QED
            BY <5>1
        <5> HIDE DEF h
        <5> QED
          BY <5>2
      <4>3. k < 10 \/ k >= 10
        OBVIOUS
      <4> HIDE DEF of, h
      <4> QED
        BY <4>1, <4>2, <4>3
    <3> QED
      BY <3>1, <3>2
  <2>4. h = [k \in 0 .. m + 1 |-> h[k]]
    <3> HIDE DEF of
    <3> QED
      OBVIOUS
  <2> HIDE DEF h, of
  <2>5. h = [k \in 0 .. m + 1 |-> of(h, k)]
    BY <2>3, <2>4
  <2>6. Figured(m + 1, h)
    BY <2>5 DEF of, last, Figured
  <2> QED
    BY <2>6
<1> HIDE DEF A
<1>3. n \in A
  BY <1>1, <1>2, Induction
<1> QED
  BY <1>3 DEF A

\* The figures of a number, one after another, have its value.
LEMMA FiguresOfNumber ==
  ASSUME NEW n \in Nat
  PROVE  InBase(n, 10) \in Seq(Digits) /\ InBase(n, 10) # <<>> /\ Magnitude(InBase(n, 10)) = n
<1> DEFINE figures == CHOOSE f : Figured(n, f)
           Is(w, m) == w \in Seq(Digits) /\ w # <<>> /\ Magnitude(w) = m
           S == {m \in 0 .. n : ~Is(figures[m], m)}
<1>1. Figured(n, figures)
  BY TableOfFigures
<1>2. InBase(n, 10) = figures[n]
  BY DEF InBase, Figured
<1> HIDE DEF figures
<1>3. S = {}
  <2>1. SUFFICES ASSUME S # {} PROVE FALSE
    OBVIOUS
  <2>2. PICK m \in S : \A k \in S : m <= k
    <3>1. S \in SUBSET Nat
      OBVIOUS
    <3> HIDE DEF S
    <3> QED
      BY <2>1, <3>1, LeastNumber
  <2>3. m \in 0 .. n /\ m \in Nat /\ ~Is(figures[m], m)
    OBVIOUS
  <2> DEFINE front == IF m < 10 THEN <<>> ELSE figures[m \div 10]
             c == Figures[(m % 10) + 1]
  <2>4. figures[m] = front \o <<c>>
    BY <1>1, <2>3 DEF Figured
  <2>5. m % 10 \in 0 .. 9 /\ m \div 10 \in Nat /\ m = 10 * (m \div 10) + (m % 10)
    BY <2>3
  <2>6. c \in Digits /\ Figure(c) = m % 10
    BY <2>5, FigureOfDigit
  <2>7. front \in Seq(Digits) /\ Magnitude(front) = m \div 10
    <3>1. CASE m < 10
      <4>1. m \div 10 = 0
        BY <2>3, <3>1
      <4> QED
        BY <3>1, <4>1, MagnitudeOfNothing
    <3>2. CASE m >= 10
      <4>1. m \div 10 < m /\ m \div 10 \in 0 .. n
        BY <2>3, <3>2
      <4>2. m \div 10 \notin S
        BY <2>2, <2>3, <4>1
      <4>3. Is(figures[m \div 10], m \div 10)
        BY <4>1, <4>2
      <4>4. front = figures[m \div 10]
        BY <2>3, <3>2
      <4> QED
        BY <4>3, <4>4
    <3> QED
      BY <2>3, <3>1, <3>2
  <2> HIDE DEF front, c
  <2>8. front \o <<c>> \in Seq(Digits) /\ front \o <<c>> # <<>>
    BY <2>6, <2>7
  <2>9. Magnitude(front \o <<c>>) = m
    BY <2>5, <2>6, <2>7, MagnitudeOfMore
  <2> QED
    BY <2>3, <2>4, <2>8, <2>9
<1>4. Is(figures[n], n)
  BY <1>3
<1> QED
  BY <1>2, <1>4

\* A decimal text is a list of digits, with or without a sign in front.
LEMMA DecimalText ==
  ASSUME NEW w, IsSequence(w), IsDecimal(w)
  PROVE  /\ w # <<>> /\ Unsigned(w) \in Seq(Digits) /\ Unsigned(w) # <<>>
         /\ IF w[1] \in Signs THEN Unsigned(w) = Tail(w) ELSE Unsigned(w) = w
         /\ Integer(w) \in Int
<1>1. w # <<>> /\ Unsigned(w) # <<>>
  BY DEF IsDecimal, Unsigned
<1>2. IF w[1] \in Signs THEN Unsigned(w) = Tail(w) ELSE Unsigned(w) = w
  BY <1>1 DEF Unsigned
<1>3. Unsigned(w) \in Seq(ToSet(w))
  BY <1>1, <1>2 DEF IsSequence
<1>4. Unsigned(w) \in Seq(Digits)
  <2> DEFINE u == Unsigned(w)
  <2>1. \A i \in 1 .. Len(u) : u[i] \in Digits
    BY <1>3 DEF IsDecimal, ToSet
  <2> HIDE DEF u
  <2>2. u \in Seq(Digits)
    BY <1>3, <2>1 DEF u
  <2> QED
    BY <2>2 DEF u
<1>5. Integer(w) \in Int
  <2>1. Magnitude(Unsigned(w)) \in Nat
    BY <1>4, MagnitudeIsNatural
  <2>2. w[1] = "-" => Magnitude(Tail(w)) \in Nat
    BY <1>2, <2>1 DEF Signs
  <2>3. CASE w[1] = "-"
    <3>1. Integer(w) = -Magnitude(Tail(w))
      BY <2>3 DEF Integer
    <3> QED
      BY <2>2, <2>3, <3>1
  <2>4. CASE w[1] # "-"
    <3>1. Integer(w) = Magnitude(Unsigned(w))
      BY <2>4 DEF Integer
    <3> QED
      BY <2>1, <3>1
  <2> QED
    BY <2>3, <2>4
<1> QED
  BY <1>1, <1>2, <1>4, <1>5

LEMMA NoDigitIsASign == \A c \in Digits : c \notin Signs
BY DEF Digits, Signs

\* The text that a big.Int has stands for it.
LEMMA DecimalOfInteger ==
  ASSUME NEW n \in Int
  PROVE  IsSequence(Decimal(n)) /\ IsDecimal(Decimal(n)) /\ Integer(Decimal(n)) = n
<1>1. CASE n >= 0
  <2> DEFINE w == InBase(n, 10)
  <2>1. w \in Seq(Digits) /\ w # <<>> /\ Magnitude(w) = n
    BY <1>1, FiguresOfNumber
  <2>2. Decimal(n) = w
    BY <1>1 DEF Decimal
  <2> HIDE DEF w
  <2>3. w[1] \in Digits
    BY <2>1
  <2>4. Unsigned(w) = w
    BY <2>3, NoDigitIsASign DEF Unsigned
  <2>5. ToSet(w) \subseteq Digits /\ w \in Seq(ToSet(w))
    BY <2>1, OwnElements DEF ToSet
  <2>6. IsDecimal(w) /\ IsSequence(w)
    BY <2>1, <2>4, <2>5 DEF IsDecimal, IsSequence
  <2>7. Integer(w) = n
    BY <2>1, <2>3, <2>4, NoDigitIsASign DEF Integer, Signs
  <2> QED
    BY <2>2, <2>6, <2>7
<1>2. CASE n < 0
  <2> DEFINE u == InBase(-n, 10)
             w == <<"-">> \o u
  <2>1. u \in Seq(Digits) /\ u # <<>> /\ Magnitude(u) = -n
    <3>1. -n \in Nat
      BY <1>2
    <3> QED
      BY <3>1, FiguresOfNumber
  <2>2. Decimal(n) = w
    BY <1>2 DEF Decimal
  <2> HIDE DEF u
  <2>3. w \in Seq(Digits \cup Signs) /\ w[1] = "-" /\ Tail(w) = u /\ w # <<>>
    <3>1. u \in Seq(Digits \cup Signs) /\ "-" \in Digits \cup Signs
      BY <2>1 DEF Signs
    <3> QED
      BY <3>1
  <2> HIDE DEF w
  <2>4. Unsigned(w) = u
    BY <2>3 DEF Unsigned, Signs
  <2>5. ToSet(u) \subseteq Digits /\ w \in Seq(ToSet(w))
    BY <2>1, <2>3, OwnElements DEF ToSet
  <2>6. IsDecimal(w) /\ IsSequence(w)
    BY <2>1, <2>4, <2>5 DEF IsDecimal, IsSequence
  <2>7. Integer(w) = n
    <3>1. Integer(w) = -Magnitude(u)
      BY <2>3 DEF Integer
    <3> QED
      BY <2>1, <3>1
  <2> QED
    BY <2>2, <2>6, <2>7
<1> QED
  BY <1>1, <1>2

\* A decimal text is false in a bool if it is no single digit.
LEMMA BoolOfText ==
  ASSUME NEW w, IsSequence(w), IsDecimal(w)
  PROVE  boolString(w) = (Integer(w) # 0) <=> Integer(w) = 0 \/ Len(w) = 1
<1>1. /\ w # <<>> /\ Unsigned(w) \in Seq(Digits) /\ Unsigned(w) # <<>>
      /\ IF w[1] \in Signs THEN Unsigned(w) = Tail(w) ELSE Unsigned(w) = w
  BY DecimalText
<1>2. w \in Seq(ToSet(w)) /\ Len(w) \in Nat
  BY DEF IsSequence
<1>3. w[1] \in Digits \cup Signs
  BY <1>1
<1>4. CASE Len(w) = 1
  <2>1. w[1] \notin Signs
    <3>1. Tail(w) \in Seq(ToSet(w)) /\ Len(Tail(w)) = 0
      BY <1>1, <1>2, <1>4
    <3> QED
      BY <1>1, <3>1
  <2>2. w \in Seq(Digits) /\ Unsigned(w) = w /\ w[1] \in Digits
    BY <1>1, <1>3, <2>1
  <2>3. Integer(w) = Magnitude(w)
    BY <2>1, <2>2 DEF Integer, Signs
  <2>4. w = <<>> \o <<w[1]>> /\ <<>> \in Seq(Digits)
    BY <1>4, <2>2
  <2>5. Magnitude(w) = 10 * Magnitude(<<>>) + Figure(w[1])
    BY <2>2, <2>4, MagnitudeOfMore
  <2>6. Magnitude(w) = Figure(w[1])
    BY <2>2, <2>5, MagnitudeOfNothing, DigitHasFigure
  <2>7. Figure(w[1]) = 0 <=> w[1] = "0"
    <3>1. Figures[1] = "0" /\ Figure("0") = 0
      <4>1. Figures[1] = "0"
        BY DEF Figures
      <4>2. Figures[0 + 1] \in Digits /\ Figure(Figures[0 + 1]) = 0
        BY 0 \in 0 .. 9, FigureOfDigit
      <4> QED
        BY <4>1, <4>2
    <3> QED
      BY <2>2, <3>1, DigitHasFigure
  <2>8. boolString(w) = (w[1] # "0")
    BY <1>4, <2>2 DEF boolString
  <2> QED
    BY <1>4, <2>3, <2>6, <2>7, <2>8
<1>5. CASE Len(w) # 1
  <2>1. w[1] \notin {"y", "Y", "t", "T"}
    BY <1>3 DEF Digits, Signs
  <2>2. boolString(w) = FALSE
    BY <1>5, <2>1 DEF boolString
  <2> QED
    BY <1>5, <2>2
<1> QED
  BY <1>4, <1>5

----------------------------------------------------------------------------
(* Integers in variables.                                                  *)

IsKind(k) ==
    /\ k.size \in Nat \ {0} /\ k.size <= 2 * IntLimit
    /\ k.size \div 2 \in Nat /\ k.size = 2 * (k.size \div 2)
    /\ k.signed \in BOOLEAN

Widest == [size |-> 2 * IntLimit, signed |-> FALSE]

LEMMA KindsAreKinds == IsKind(Widest) /\ \A k \in IntKinds : IsKind(k)
<1>1. IntLimit \in Nat /\ IntLimit > 0
  BY IntLimitAssumption
<1>2. ASSUME NEW k \in IntKinds PROVE IsKind(k)
  <2>1. k.size \in Sizes /\ k.signed \in BOOLEAN
    BY <1>2 DEF IntKinds
  <2>2. k.size \in Nat \ {0} /\ k.size % 2 = 0 /\ (2 * IntLimit) % k.size = 0
    BY <2>1, SizesAssumption
  <2> DEFINE s == k.size
             l == 2 * IntLimit
  <2>3. s \in Nat /\ s > 0 /\ l \in Nat /\ l > 0 /\ s % 2 = 0 /\ l % s = 0
    BY <1>1, <2>2
  <2> HIDE DEF s, l
  <2>4. s <= l
    <3>1. l < s => l % s = l
      BY <2>3
    <3> QED
      BY <2>3, <3>1
  <2>5. s \div 2 \in Nat /\ s = 2 * (s \div 2)
    BY <2>3
  <2> QED
    BY <2>1, <2>2, <2>4, <2>5 DEF s, l, IsKind
<1>3. IsKind(Widest)
  <2>1. (2 * IntLimit) \div 2 = IntLimit
    BY <1>1
  <2> QED
    BY <1>1, <2>1 DEF IsKind, Widest
<1> QED
  BY <1>2, <1>3

LEMMA Turns ==
  ASSUME NEW s \in Nat \ {0}, NEW n \in Int
  PROVE  /\ n % s \in 0 .. s - 1
         /\ 0 <= n /\ n < s => n % s = n
         /\ -s <= n /\ n < 0 => n % s = n + s
         /\ 0 <= n => n % s <= n
<1>1. n % s \in 0 .. s - 1
  OBVIOUS
<1>2. 0 <= n /\ n < s => n % s = n
  OBVIOUS
<1>3. -s <= n /\ n < 0 => n % s = n + s
  OBVIOUS
<1> QED
  BY <1>1, <1>2, <1>3

\* A conversion gives an integer of the kind, and leaves the ones of the kind alone.
LEMMA ConvertedIsHeld ==
  ASSUME NEW k, IsKind(k), NEW n \in Int
  PROVE  /\ Converted(n, k) \in Holds(k)
         /\ n \in Holds(k) => Converted(n, k) = n
         /\ 0 <= n => Converted(n, k) <= n
<1> DEFINE s == k.size
           h == k.size \div 2
           r == n % k.size
<1>1. s \in Nat /\ s > 0 /\ h \in Nat /\ s = 2 * h
  BY DEF IsKind
<1>2. r \in Int /\ 0 <= r /\ r < s /\ (0 <= n => r <= n)
      /\ (0 <= n /\ n < s => r = n) /\ (-s <= n /\ n < 0 => r = n + s)
  <2>1. s \in Nat \ {0} /\ r = n % s
    BY <1>1
  <2> HIDE DEF s, r
  <2>2. /\ r \in 0 .. s - 1
        /\ 0 <= n /\ n < s => r = n
        /\ -s <= n /\ n < 0 => r = n + s
        /\ 0 <= n => r <= n
    BY <2>1, Turns
  <2> QED
    BY <2>1, <2>2
<1>3. Converted(n, k) = IF r \in Holds(k) THEN r ELSE r - s
  BY DEF Converted
<1>4. Holds(k) = IF k.signed THEN -h .. h - 1 ELSE 0 .. s - 1
  BY DEF Holds
<1> HIDE DEF s, h, r
<1>5. CASE k.signed
  <2>1. Holds(k) = -h .. h - 1
    BY <1>4, <1>5
  <2>2. CASE r < h
    <3>1. r \in Holds(k) /\ Converted(n, k) = r
      BY <1>1, <1>2, <1>3, <2>1, <2>2
    <3> QED
      BY <1>1, <1>2, <2>1, <2>2, <3>1
  <2>3. CASE r >= h
    <3>1. r \notin Holds(k) /\ Converted(n, k) = r - s
      BY <1>1, <1>2, <1>3, <2>1, <2>3
    <3> QED
      BY <1>1, <1>2, <2>1, <2>3, <3>1
  <2> QED
    BY <1>1, <1>2, <2>2, <2>3
<1>6. CASE ~k.signed
  <2>1. Holds(k) = 0 .. s - 1
    BY <1>4, <1>6
  <2>2. r \in Holds(k) /\ Converted(n, k) = r
    BY <1>1, <1>2, <1>3, <2>1
  <2> QED
    BY <1>1, <1>2, <2>1, <2>2
<1> QED
  BY <1>5, <1>6

\* Of a value whose int64 is the nearest one to n, a variable gets n if and only if
\* both hold it.
LEMMA NearestArrives ==
  ASSUME NEW x, NEW n \in Int, ToInt64(x) \in Int64s,
         n \in Int64s => ToInt64(x) = n,
         n >= IntLimit => ToInt64(x) = IntLimit - 1,
         NEW k \in IntKinds
  PROVE  Assign(x, k) = n <=> n \in Holds(k) \cap Int64s
<1> DEFINE m == ToInt64(x)
           u == ToUint64(x)
<1>1. IntLimit \in Nat /\ IntLimit > 0 /\ m \in Int /\ -IntLimit <= m /\ m < IntLimit
  BY IntLimitAssumption DEF Int64s
<1>2. IsKind(k) /\ IsKind(Widest)
  BY KindsAreKinds
<1>3. u = Converted(m, Widest) /\ Holds(Widest) = 0 .. 2 * IntLimit - 1
  BY DEF ToUint64, Widest, Holds
<1>4. Assign(x, k) = IF k.signed THEN Converted(m, k) ELSE Converted(u, k)
  BY DEF Assign
<1>5. /\ n \in Int64s => m = n
      /\ n >= IntLimit => m = IntLimit - 1
      /\ n \in Int64s <=> -IntLimit <= n /\ n < IntLimit
  BY <1>1 DEF Int64s
<1> HIDE DEF m, u
<1>6. u \in 0 .. 2 * IntLimit - 1 /\ (0 <= m => u = m)
  <2>1. Converted(m, Widest) \in Holds(Widest)
    BY <1>1, <1>2, ConvertedIsHeld
  <2>2. m \in Holds(Widest) => Converted(m, Widest) = m
    BY <1>1, <1>2, ConvertedIsHeld
  <2>3. 0 <= m => m \in Holds(Widest)
    BY <1>1, <1>3
  <2> QED
    BY <1>3, <2>1, <2>2, <2>3
<1> DEFINE h == k.size \div 2
           s == k.size
<1>7. Holds(k) = IF k.signed THEN -h .. h - 1 ELSE 0 .. s - 1
  BY DEF Holds
<1>8. h \in Nat /\ s = 2 * h /\ s <= 2 * IntLimit /\ k.signed \in BOOLEAN
  BY <1>2 DEF IsKind
<1> HIDE DEF h, s
<1>9. CASE k.signed
  <2>1. Assign(x, k) = Converted(m, k) /\ Holds(k) = -h .. h - 1
    BY <1>4, <1>7, <1>9
  <2>2. Converted(m, k) \in Holds(k)
    BY <1>1, <1>2, ConvertedIsHeld
  <2>3. m \in Holds(k) => Converted(m, k) = m
    BY <1>1, <1>2, ConvertedIsHeld
  <2>4. n \in Holds(k) => n \in Int64s
    BY <1>1, <1>5, <1>8, <2>1
  <2> QED
    BY <1>5, <2>1, <2>2, <2>3, <2>4
<1>10. CASE ~k.signed
  <2>1. Assign(x, k) = Converted(u, k) /\ Holds(k) = 0 .. s - 1
    BY <1>4, <1>7, <1>10
  <2>2. Converted(u, k) \in Holds(k) /\ Converted(u, k) <= u
    BY <1>1, <1>2, <1>6, ConvertedIsHeld
  <2>3. u \in Holds(k) => Converted(u, k) = u
    BY <1>1, <1>2, <1>6, ConvertedIsHeld
  <2>4. n \in Holds(k) /\ n \in Int64s => Assign(x, k) = n
    <3>1. SUFFICES ASSUME n \in Holds(k), n \in Int64s PROVE Assign(x, k) = n
      OBVIOUS
    <3>2. m = n /\ 0 <= m
      BY <1>5, <2>1, <3>1
    <3> QED
      BY <1>6, <2>1, <2>3, <3>1, <3>2
  <2>5. ASSUME Assign(x, k) = n PROVE n \in Holds(k) \cap Int64s
    <3>1. n \in Holds(k) /\ n <= u /\ 0 <= n
      BY <2>1, <2>2, <2>5
    <3>2. n < IntLimit
      <4>1. SUFFICES ASSUME n >= IntLimit PROVE FALSE
        BY <1>1
      <4>2. m = IntLimit - 1 /\ u = m
        BY <1>1, <1>5, <1>6, <4>1
      <4> QED
        BY <1>1, <3>1, <4>1, <4>2
    <3> QED
      BY <1>1, <1>5, <3>1, <3>2
  <2> QED
    BY <2>4, <2>5
<1> QED
  BY <1>8, <1>9, <1>10

\* What a text stands for, or the end of the range that is nearest to it.
LEMMA ParseIntIsNearest ==
  ASSUME NEW w, IsSequence(w), IsDecimal(w)
  PROVE  /\ ParseInt(w) \in Int64s
         /\ Integer(w) \in Int64s => ParseInt(w) = Integer(w)
         /\ Integer(w) >= IntLimit => ParseInt(w) = IntLimit - 1
<1> DEFINE n == Integer(w)
<1>1. n \in Int /\ IntLimit \in Nat /\ IntLimit > 0
  BY DecimalText, IntLimitAssumption
<1>2. ParseInt(w) = CASE n < -IntLimit -> -IntLimit
                      [] n >= IntLimit -> IntLimit - 1
                      [] OTHER -> n
  BY DEF ParseInt
<1> HIDE DEF n
<1>3. CASE n < -IntLimit
  BY <1>1, <1>2, <1>3 DEF Int64s, n
<1>4. CASE n >= IntLimit
  <2>1. ~(n < -IntLimit)
    BY <1>1, <1>4
  <2>2. ParseInt(w) = IntLimit - 1
    BY <1>2, <1>4, <2>1
  <2> QED
    BY <1>1, <1>4, <2>2 DEF Int64s, n
<1>5. CASE ~(n < -IntLimit) /\ ~(n >= IntLimit)
  <2>1. ParseInt(w) = n
    BY <1>2, <1>5
  <2> QED
    BY <1>1, <1>5, <2>1 DEF Int64s, n
<1> QED
  BY <1>3, <1>4, <1>5

\* The entries of a document are values.
LEMMA EntriesAreValues ==
  ASSUME NEW y \in Values
  PROVE  IsValue(y)
<1>1. PICK n \in AllNodes : y \in ToSet(n.args) \cup {p.value : p \in ToSet(n.pairs)}
  BY DEF Values
<1>2. /\ \A i \in DOMAIN n.args : IsValue(n.args[i])
      /\ \A i \in DOMAIN n.pairs : IsValue(n.pairs[i].value)
  BY NodesAssumption
<1> QED
  BY <1>1, <1>2 DEF ToSet

\* With a type annotation in front, a text is no number.
LEMMA AnnotatedIsHidden ==
  ASSUME NEW x, x.kind = "string", IsSequence(x.text), IsSequence(x.type), x.type # <<>>
  PROVE  ~IsDecimal(TextOf(x)) /\ boolString(TextOf(x)) = FALSE /\ Len(TextOf(x)) # 1
<1> DEFINE w == TextOf(x)
           S == {"(", ")"} \cup ToSet(x.type) \cup ToSet(x.text)
<1>1. w = <<"(">> \o x.type \o <<")">> \o x.text
  BY DEF TextOf, Annotated
<1>2. x.type \in Seq(S) /\ x.text \in Seq(S) /\ <<"(">> \in Seq(S) /\ <<")">> \in Seq(S)
  <2>1. x.type \in Seq(ToSet(x.type)) /\ x.text \in Seq(ToSet(x.text))
    BY DEF IsSequence
  <2>2. ToSet(x.type) \subseteq S /\ ToSet(x.text) \subseteq S /\ "(" \in S /\ ")" \in S
    OBVIOUS
  <2> HIDE DEF S
  <2> QED
    BY <2>1, <2>2
<1> HIDE DEF S, w
<1>3. w \in Seq(S) /\ Len(w) >= 2 /\ w[1] = "("
  <2> DEFINE u == <<"(">> \o x.type
             v == u \o <<")">>
  <2>1. u \in Seq(S) /\ Len(u) >= 1 /\ u[1] = "("
    BY <1>2
  <2> HIDE DEF u
  <2>2. v \in Seq(S) /\ Len(v) >= 2 /\ v[1] = "("
    BY <1>2, <2>1
  <2>3. w = v \o x.text
    BY <1>1 DEF u
  <2> HIDE DEF v
  <2> QED
    BY <1>2, <2>2, <2>3
<1>4. Unsigned(w) = w
  BY <1>3 DEF Unsigned, Signs
<1>5. "(" \in ToSet(w)
  BY <1>3 DEF ToSet
<1>6. ~IsDecimal(w)
  BY <1>4, <1>5 DEF IsDecimal, Digits
<1>7. Len(w) # 1
  <2>1. Len(w) \in Nat /\ Len(w) >= 2
    BY <1>3
  <2>2. PICK n \in Nat : n = Len(w)
    BY <2>1
  <2> QED
    BY <2>1, <2>2
<1>8. boolString(w) = FALSE
  BY <1>3, <1>7 DEF boolString
<1> QED
  BY <1>6, <1>7, <1>8 DEF w

\* An integer that was written and read arrives in a variable of any integer kind if
\* and only if the variable and an int64 hold it, and it is not hidden by a type
\* annotation; and in a bool as what it is if and only if an int64 came of it, or it is
\* zero, or a single digit (Value.ResolvedValue, coerce.ToInt64, ToUint64, ToBool,
\* directSetReflectValueFromIntf).
THEOREM IntegersComeBack == Spec => []IntegersArrive
<1>1. ASSUME NEW x \in ReadIntegers
      PROVE  /\ \A k \in IntKinds :
                    Assign(x, k) = Denotes(x)
                    <=> /\ Denotes(x) \in Holds(k) \cap Int64s
                        /\ IsHidden(x) => Denotes(x) = 0
             /\ ToBool(x) = (Denotes(x) # 0)
                   <=> x.kind = "int64" \/ Denotes(x) = 0 \/ Len(TextOf(x)) = 1
  <2>0. x \in WholeNumbers
    BY <1>1 DEF ReadIntegers
  <2>1. PICK y \in Values : IsInteger(y) /\ x = Entry(y, y.type)
    BY <2>0 DEF WholeNumbers
  <2>2. x.kind = y.kind /\ x.text = y.text /\ x.number = y.number /\ x.type = y.type
    BY <2>1 DEF Entry
  <2>3. IsValue(x) /\ IsInteger(x)
    BY <2>1, <2>2, EntriesAreValues DEF IsValue, IsInteger
  <2>4. CASE x.kind = "int64"
    <3>1. Denotes(x) = x.number /\ ToInt64(x) = x.number /\ ToBool(x) = (x.number # 0) /\ ~IsHidden(x)
      BY <2>4 DEF Denotes, ToInt64, ToBool, IsHidden
    <3>2. x.number \in Int64s /\ x.number \in Int
      BY <2>3, <2>4, IntLimitAssumption DEF IsValue, Int64s
    <3>3. x.number < IntLimit
      BY <3>2, IntLimitAssumption DEF Int64s
    <3>4. ASSUME NEW k \in IntKinds PROVE Assign(x, k) = Denotes(x) <=> Denotes(x) \in Holds(k) \cap Int64s
      BY <3>1, <3>2, <3>3, NearestArrives, IntLimitAssumption
    <3> QED
      BY <2>4, <3>1, <3>4
  <2>5. CASE x.kind # "int64" /\ ~IsHidden(x)
    <3> DEFINE w == TextOf(x)
               n == Denotes(x)
    <3>1. IsSequence(w) /\ IsDecimal(w) /\ Integer(w) = n
      <4>1. CASE x.kind = "big.Int"
        <5>1. w = Decimal(x.number) /\ n = x.number /\ x.number \in Int
          BY <2>3, <4>1 DEF TextOf, Denotes, IsValue
        <5> QED
          BY <5>1, DecimalOfInteger
      <4>2. CASE x.kind = "string"
        BY <2>3, <2>5, <4>2 DEF TextOf, Annotated, Denotes, IsValue, IsInteger, IsHidden
      <4> QED
        BY <2>3, <2>5, <4>1, <4>2 DEF IsInteger
    <3>2. ToInt64(x) = ParseInt(w) /\ ToBool(x) = boolString(w)
      BY <2>5 DEF ToInt64, ToBool
    <3> HIDE DEF w, n
    <3>3. n \in Int
      BY <3>1, DecimalText
    <3>4. ASSUME NEW k \in IntKinds PROVE Assign(x, k) = n <=> n \in Holds(k) \cap Int64s
      BY <3>1, <3>2, <3>3, ParseIntIsNearest, NearestArrives
    <3>5. ToBool(x) = (n # 0) <=> n = 0 \/ Len(w) = 1
      BY <3>1, <3>2, BoolOfText
    <3> QED
      BY <2>5, <3>4, <3>5 DEF w, n
  <2>6. CASE IsHidden(x)
    <3> DEFINE n == Denotes(x)
    <3>1. x.kind = "string" /\ IsSequence(x.text) /\ IsSequence(x.type) /\ x.type # <<>> /\ IsDecimal(x.text)
      BY <2>3, <2>6 DEF IsHidden, IsValue, IsInteger
    <3>2. n = Integer(x.text) /\ n \in Int
      BY <3>1, DecimalText DEF Denotes
    <3>3. ~IsDecimal(TextOf(x)) /\ boolString(TextOf(x)) = FALSE /\ Len(TextOf(x)) # 1
      BY <3>1, AnnotatedIsHidden
    <3>4. ToInt64(x) = 0 /\ ToBool(x) = FALSE
      <4>1. ToInt64(x) = ParseInt(TextOf(x)) /\ ToBool(x) = boolString(TextOf(x))
        BY <3>1 DEF ToInt64, ToBool
      <4>2. ParseInt(TextOf(x)) = 0
        BY <3>3 DEF ParseInt
      <4> QED
        BY <3>3, <4>1, <4>2
    <3> HIDE DEF n
    <3>5. ASSUME NEW k \in IntKinds PROVE Assign(x, k) = n <=> n \in Holds(k) \cap Int64s /\ n = 0
      <4>1. 0 \in Int64s /\ 0 < IntLimit
        BY IntLimitAssumption DEF Int64s
      <4>2. 0 \in Holds(k)
        BY KindsAreKinds DEF IsKind, Holds
      <4>3. Assign(x, k) = 0
        <5>1. PICK z \in Int : z = 0
          OBVIOUS
        <5>2. ToInt64(x) \in Int64s /\ ToInt64(x) = z /\ ~(z >= IntLimit)
          BY <3>4, <4>1, <5>1, IntLimitAssumption
        <5>3. Assign(x, k) = z <=> z \in Holds(k) \cap Int64s
          BY <5>2, NearestArrives
        <5> QED
          BY <4>1, <4>2, <5>1, <5>3
      <4> QED
        BY <3>2, <4>1, <4>2, <4>3
    <3> QED
      BY <2>6, <3>1, <3>3, <3>4, <3>5 DEF n
  <2> QED
    BY <2>4, <2>5, <2>6
<1>2. IntegersArrive
  BY <1>1 DEF IntegersArrive
<1> QED
  BY <1>2, PTL
============================================================================
