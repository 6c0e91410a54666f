# A verification of gokdl2

gokdl2 reads and writes [KDL](https://kdl.dev) documents in Go: a scanner turns
a byte stream into tokens, a parser turns tokens into a document tree, a
generator writes a tree back, and a marshaler maps trees to Go values.  This
directory holds TLA+ models of the code under `src/`, the TLC runs that check
them on small instances, and TLAPS proofs that hold for every instance.

`PROJECT.json` lists every component, run, hazard, finding and theorem, and maps
each definition to the lines it stands for.  To repeat a run:
`tlc -config Calls.cfg MCKdlCalls` (the module of each run is in `PROJECT.json`);
to repeat the proofs: `tlapm` with each of `KdlParserProofs.tla`,
`KdlParserTreeProofs.tla`, `KdlCallsProofs.tla`, `ScannerInputProofs.tla`,
`KdlSequenceProofs.tla`, `KdlWriterProofs.tla`, `KdlStructsProofs.tla` and
`KdlScannerProofs.tla`.

## 1. Inventory

| component | state | operations | hard behaviours | what makes it correct |
|---|---|---|---|---|
| **scanner input** (`internal/tokenizer/scanner.go`) | the buffer `raw`, the unread window `input`, `len`, the `peeked` cache, the `marks`, the reader, `err`, `lastErr` | `peek`, `peekTwo`, `peekThree`, `get`, `refill`, `pushMark`, `popMark`, `copyFromMark`, `Read`, `Close` | tokens and characters across a refill, a read that fails half way, growth of the buffer | the buffer is a window of the stream; nothing is skipped, repeated or altered; the end of the input is reported with no more than the last character unread |
| **token recognition** (`scanner.go`, `readtype.go`, `ctype.go`) | `line`, `column`, `token`, `Version`, the marker flag | `Scan`, `readNext`, one reader per kind of token, `detectVersion` | look-ahead at the end of the input; the two grammars | every byte belongs to one token; an error is never taken for the end |
| **token vocabulary** (`token.go`) | none | `Classes`, `Clear`, `Valid` | order of the classes | |
| **parser** (`internal/parser`) | `ParseContext`: a state stack, a node stack, two temporaries, the slashdash and continuation marks, the comment buffer, the last three tokens | `Parse`: checks, then one transition function per state and token | long sequences of legal tokens; marks that outlive their scope; a token that is parsed twice | the two stacks agree; every entry reaches the node it is written in; a slashdash hides one thing |
| **entry points** (`kdl.go`, `marshal.go`, `unmarshal.go`, `relaxed`) | the scanner and the context of one call | `parse`, `parseOne`, encoders and decoders | fallback from v2 to v1, failure of the reader | an error is never lost, the version that is reported is the one that parsed |
| **document tree** (`document/document.go`, `node.go`, `properties.go`) | nodes, arguments, ordered properties, children, comments | `AddNode`, `AddArgument`, `AddProperty`, `Remove…`, `WriteTo` | a write that fails in the middle; a repeated property | what is written parses back |
| **allocator** (`document/allocator.go`) | slabs of nodes and values | `NewNode`, `NewValue`, … | the end of a slab | each slot is handed out once |
| **values and strings** (`value.go`, `strings.go`, `suffixeddec.go`, `expression.go`) | none | quote, unquote, number parsing and formatting | escapes, widths, suffixes | unquote undoes quote; a number keeps its value |
| **generator** (`internal/generator`) | writer, options | `Generate` | errors of the writer | the document is written once and completely |
| **marshaler, unmarshaler** (`internal/marshaler`) | a type index per call | `Marshal`, `Unmarshal` | assignment of arguments, properties and children to fields | what is marshalled unmarshals to the same value |
| **type index and custom types** (`typeindex.go`, `unmarshal.go`) | package-level maps of custom marshalers, a flag that says an index has been built | `AddCustom…`, lookups | registration concurrent with use | no registration after the first use, no unsynchronised write of a shared map |
| **coercions** (`internal/coerce`) | none | conversions between Go scalars | ends of the ranges, order of the cases | a value is converted exactly where the variable holds it |

How they interact: `parseOne` (`kdl.go`) is a loop.  It asks the scanner for a
token, hands it to `Parser.Parse`, and hands the *same* token over again as long
as the transition function answers `ErrReenterState`.  The end of the input is a
token of its own (`EOF`).  `parse` chooses the version: in automatic mode it
reads the whole input through the scanner's `Read`, parses it as v2, and on
failure as v1.  The parser calls the document package for every node, argument
and property.  All of this is synchronous: one call has one scanner and one
context.  The only state that calls share is the custom type registry and the
static scanner of `ScanOne`.

The `hazards` of `PROJECT.json` name, line by line, what is hard to test in this
code; the properties below are aimed at them.

## 2. What is modelled

### The parser

`KdlTokens` is the token vocabulary.  A token is its identifier and the two facts
about its bytes the parser can observe: `bad` (its value does not decode) and
`wide` (its length in bytes is not the number of columns it takes).

`KdlParser` is `internal/parser` with the loop of `parseOne` around it.

| model | code |
|---|---|
| `c` | `ParseContext` (`context.go:34-77`), field by field; `c.node` holds indices of `c.doc` instead of pointers |
| `c.doc` | every node created so far, in order, with its parent (0 the document, -1 none), whether it has a type, its arguments, properties and comments |
| `c.recent` | what `requiresV2Separation` observes of the last of `recentTokens` |
| `c.err` | the error the transition function returns |
| `tok`, `pc` | the local variables of `parseOne` and where it is |
| `Scan(t)` | `s.Scan()` returns the token `t` |
| `Parse` | `recent.Add`, and the checks of `Parser.parse` up to the lookup of a transition function |
| `HandlerKey` | the lookup: the token's own entry, else that of the first of its classes that has one |
| `<state><token>` | one action per transition function of `transitions.go`, (functions with the same body share an action) |
| `Finish`, `Reenter` | the three ways `parseOne` continues: next token, error, the same token again |

An error ends the call and drops context and document (`return nil, …`), so
`Reject` replaces `c` by a new context that only remembers the error.

`KdlOutline` is the abstract specification: what KDL promises about slashdash,
with neither tokens nor parser states.  Frames (nodes and child blocks) open and
close, innermost first.  Every node and entry of the input is in the document unless a
slashdash hides it: a mark makes the next node or block dead, and what opens in
something dead is dead, or swallows the next entry.  A mark is used up by what it marks
and never outlives the frame it was read in.  Every entry goes to the innermost node, and
what the input had (`nodes`, `read`, `slashdashes`) is part of the state, so that none can
be dropped, invented or given to another node.

`KdlParserOutline` ties it to the parser.  The frames, the marks and the entries of each
visible node come from the `ParseContext` and the document: which frames are open, whose
node each of them is, which nodes are reachable from the root (what every set that is
closed under parent links has), how many entries each of those has.  What the input had
does not: it is counted from the tokens, in a history variable `seen` that the parser does
not see (`NamesNode`, `Given`, `Slashdashed`).  A value that is still queued in `c.ident`
is no entry yet (`Pending`), since an equals sign may make it the name of the next one.

The code departs from the outline in three ways, each of which is named by the state and
the token that lead to it and is a finding of its own: `LeaksSlashdash` (`a { b /- } 1 2`
loses the argument 1 of `a`), `InventsArgument` (`a "x"{} "y"`) and `LeavesName`
(`a { b c= }`).  The history variable `defect` notes that one was met; of such an input
nothing more is promised.  The run `Outline` checks, and `KdlParserTreeProofs` proves,
that until then the parser implements `KdlOutline`; so these are the only ways.

### The scanner's input

`ScannerInput` is the lower half of `scanner.go`: everything that touches the
buffer.  A byte is represented by its position in the stream, so a byte that is
lost, repeated or moved shows; the stream is a sequence of characters of one to
`UTFMax` bytes.

| model | code |
|---|---|
| `s.mem`, `s.raw`, `s.off` | the array behind `s.raw`, `len(s.raw)`, `len(s.raw) - len(s.input)` |
| `s.len`, `s.peeked`, `s.marks`, `s.err`, `s.lastErr` | the fields of those names |
| `s.r` | whether `s.r` is non-nil |
| `refill` | `refill`: the set of scanners it may leave behind, one for a read that goes well or meets the end, one for every way it may fail |
| `Peek`, `PeekTwo`, `PeekAt`, `Get` | the look-ahead and consuming functions, with the refills they do |
| `PushMark`, `PopMark`, `CopyFromMark`, `CopyInput` | marks and token data; a slice remembers whether it was copied |
| `NewBuffer`, `NewSlice`, `Read` | the constructors, and the reader `parse` drains in automatic mode |
| `Scan`, `ScanToken`, `ScanEOF`, `ScanError` | `Scan`: its early returns, and the three outcomes of `readNext`: a token, `io.EOF` (at the end, from `peekTwo` in front of the last character, or handed on from the middle of a token), or another error |

The readers of `readtype.go` are the environment: between `Scan` and the end of a
token they call any operation in any order, marks nesting as the deferred
`popMark`s make them.  `s.read`, `s.failed`, `pos`, `marked` and `held` are history
variables: what the reader delivered, what was handed out, where the marks were
pushed, and which token data is still in use.

`KdlParserClaims` states what a comment, document or test of the repository says
and the parser does not do; each of its properties is refuted by one run.

### Tokens

`KdlLexer` is the upper half of `scanner.go` with `readtype.go` and `ctype.go`, as
operators: `readNext(s, i)` is the token at position `i` of a text, or the error, or
the end of the input, as the code answers it.  A character is a string, most of one
letter; what has no influence on any reader is one character (`true`, the letters of
`kdl-version`), so short texts reach far, and the double quote is called `QUOTE`.  Positions stand for the buffer:
`ScannerInput` shows that the buffer is a window of the text wherever it is cut, and
that look-ahead is exact in it.

`KdlScanner` is the scanner over a whole text: `Scan`, with the version that
`detectVersion` finds, lines and columns, and what it makes of each outcome.  The
constant `Inputs` is a list of sets of texts, each with the modes to scan it in.

### Writing and reading back

`KdlStrings` is `strings.go` and `value.go`: how a token becomes a value and how a
value is spelled, in every notation, as operators on texts of the lexer's
characters.  `KdlWriter` is `Generate` and `WriteToOptions` as a stack of calls.  A
call is a list of steps, each a write (made whatever happens, or only if no error has
occurred), a call for a child, or comment lines; a write may fail.  `returned` is what
a caller makes of the error of a call: `Generate` returns it, a node leaves its loop
over the children and forgets it.  `KdlReadback` composes the writer with the lexer
and the decoding of tokens: `ReadsAs` is what the text means, `Document` what was
meant.  `KdlCoerce` goes on from there: what an integer that was read becomes in a
variable of an integer kind or in a bool (package `coerce`, and the assignment in
`directSetReflectValueFromIntf`), with the width of every kind.

### Versions and calls

`KdlVersions` is `parse` of `kdl.go` over texts of which only is known which version
accepts them: the two attempts of automatic mode, the guard between them, and a
reader that fails at once or later.  `KdlCalls` has goroutines, each with one call:
a registration (`AddCustom*`, in the three steps check, write begins, write done) or
an unmarshaling (parse, set the flag, index type after type with one lookup at a
time, call a function).  A Go map that is used while it is written may kill the
process (`raced`), or be read with or without the new entry.  `alone` is a history
variable: no registration was under way when the call began its index.

### Structs

`KdlStructs` has `marshalStructToNode` as an operator from a type and a value to a
node, and `unmarshalNodeToStruct` as a state machine: arguments first, then one
property at a time in any order (a Go map has none), then what is collected, then
the children in order.  A type is a list of fields with the attributes of their tags
and one of four kinds, chosen because the code treats them differently.  A behaviour
starts from a value that is marshaled, or from a node that was written by hand.
The value of a key that a map of ints has is not addressable, so a second one panics
(`PutChild`, `toMap`, `toMultiMap`), after the errors of the entries before it.
`IsType` says which types these are: a field captures in one way at most, and has the
kind for it without which the code puts nothing into it.  `IsValue` says what a value of
such a type is.

## 3. Runs

| run | question | properties |
|---|---|---|
| `Parsing` | Do entries, types, comments and continuations reach the node they are written in, with every transition function, version and relaxed flag? | `TypeOK`, `NoInternalError`, `PropertyHasName`, `OpenNodesFormPath`, `IgnoredBlockMarks`, `OpeningUsesPending`, `OnlyInnermostGrows`, `ReentersInScope`, `CommentsKept` |
| `Outline` | Does the document have every node and entry of the input but those a slashdash hides, where the input has them, unless one of three defects was met, and does the retry loop end? | `StackDiscipline`, `NodeSlashdashInScope`, `IgnoredBlocksDetached`, `ImplementsOutline`, `TokenSettled` |
| `Input` | Does every character and every token arrive whole and in order, wherever the buffer ends? | `TypeOK`, `BufferIsWindow`, `MarksHold`, `CacheIsNext`, `RightAnswers`, `TokensIntact`, `NothingButTail` |
| `Scanning` | Do tokens end where the grammar says, whatever stands behind them, and does a text get its version from a marker alone? | `RescansAlone`, `MarkerDecides`, `VersionIsExplained`, `AdjacencyIsWidth`, `RawStringsAreShortest`, `CommentsNest`, `LosesOneTokenAtMost` |
| `Writing` | Does what is generated read back, for every spelling of every value in every place but the ones that are named, which integers then arrive in a variable, and is a failed write reported? | `ReadsBack`, `LostIsConfined`, `IntegersArrive` |
| `Calls` | Do calls that begin after all registrations agree with them and with each other, and does a text get the version that accepts it? | `TypeOK`, `IndexesAgree`, `AloneIsSafe`, `FunctionsAreThere`, `AutoAcceptsEither`, `FirstReadReported` |
| `Structs` | Does a struct come back from its node, does every entry of a node reach a field, and when does unmarshaling panic? | `RoundTrip`, `NothingDropped`, `PanicsAreNamed` |

The five runs `UnclosedBlock`, `LeakedType`, `PhantomArgument`, `LostReadError` and
`DroppedTail` each refute one claim (see Findings).

`StackDiscipline` is the heart of the parser: the state stack and the node stack
are separate slices, pushed and popped by different functions, and nothing
compares them.  It says that scopes and nodes alternate on the state stack, that
a type annotation sits on top only, and that there are exactly as many nodes on
the one stack as node states on the other.  `NoInternalError` is its visible
consequence: `errStateStackEmpty`, `errNodeStackEmpty` and a nil node are never
met.  `IgnoredBlocksDetached` ties the counter `ignoreChildren` to the tree.
`OnlyInnermostGrows` relates the tree before and after a step.  `ReentersInScope`
says why `TokenSettled` holds: a token is parsed a second time only in a scope.
`CommentsKept` is a conservation law: a comment is pending until it moves, with
all that are pending, to exactly one node.  `ImplementsOutline` is the conservation law
for entries: a queued value is settled with the token that follows.

`BufferIsWindow` and `MarksHold` say what a refill must preserve when it moves or
enlarges the buffer under the unread bytes and under every mark.  `RightAnswers`
is the reason `get` refills at twice `UTFMax`: `peek` and `peekTwo` never refill,
and after a `get` that left more than that many bytes one character of one byte
and one of any length are still there.  It also says where look-ahead is *not*
exact: the second character behind a long one, and the third, may be reported
invalid when they lie across the end of the buffer.  Every caller in
`readtype.go` and `readNext` compares those characters with ASCII ones and takes
an error for "not equal", which is the right answer.  Some callers hand on an end
of the input that look-ahead met, with a character or a token still in hand, and
`Scan` takes it for the end (`ScanEOF`): `NothingButTail` says that this costs one
unread character at most, wherever the buffer ends, and `LosesOneTokenAtMost`
(`Scanning`) what it costs in tokens.  `TokensIntact` is about
sharing: token data is a part of the buffer only when nothing will be written to
the buffer again.

Some properties of the later modules say *exactly when* something holds, because it
does not always: the exceptions are part of the statement, so a run fails both when
another case breaks and when one of them is repaired.  `ReadsBack` is an equivalence:
a document reads back if and only if all its values are `Kept`.  `IntegersArrive`
says which integers a variable gets as they were written: those that it holds and an
int64 holds too, unless they stand in a string with a type annotation.  `AdjacencyIsWidth` says for which tokens `tokensAdjacent` is right.  `LostIsConfined`,
`FunctionsAreThere`, `FirstReadReported`, `AutoAcceptsEither` and `PanicsAreNamed`
name the cases in which an error is lost, a nil function is called, a guard does not
hold or a slice is indexed past its end.

`RescansAlone` justifies the parser's view of tokens: it decodes the data of a token
without what stood behind it.  `NothingDropped` compares the end of an unmarshaling
with the whole node: each argument, property and child is in the field it is for,
unless another entry is for the same field.  `Holds` says what is in a field, and names
what the code does not put there: a node that becomes one element of a slice of structs
gives it its properties, but its children only if the field is `,multiple`, and then
over a property of the same name.  `RoundTrip` holds for the types and
values that are `Separable`; its conditions are where the two directions disagree (a
field for two things, sparse numerals as keys of a map, the name `-`, the tag `multiple`
on a field that the code can marshal but not read).

### Bounds

`MaxDepth` bounds the state stack, `MaxNodes` the nodes created, `MaxValues` the
entries of a node, `MaxComments` the comments that wait or are attached.  They
are guards of `Scan`: a token that would pass a bound is not delivered, every
other token is.  A node in a block needs four stack entries (document, node,
block, node), so depth 4 has a block in which a node with a type annotation or a
block of its own can open; `Outline` goes to 5 and three nodes, so that an ignored
block holds an ignored block with a node in it.  `Parsing` gives each concern its
own tokens and depth (`Concern`): entries in both versions to depth 4; comments and
continuations, whose questions are about marks, to depth 3; the relaxed flags with
the largest alphabet to depth 2.  Two or three nodes are enough for a node, its child
and its sibling; one entry per node shows an entry in the wrong place.  All handlers and
all disjuncts of `Next` are taken in these runs.

`Outline` has both versions, quoted strings for every name and value, and inputs with five
nodes, entries and slashdashes in all (`MaxItems`): two slashdashes, what each of them
hides, and an entry behind that, in every nesting that depth 5 has room for.  What follows
a defect is not explored (`FewItems`).  Comments and type annotations are left to
`Parsing`: they do not touch what the outline is made of, which the proof confirms for
every alphabet.

The token sequences are a superset of what the scanner delivers (it refuses, for one, a
number that touches a brace), which is sound for what must never happen.  The runs that
show that something does happen take tokens that may stand side by side (`StringTokens`).

`Input` scales the buffer down: `UTFMax` is 2 (4 in Go) and `BufferSize` is 5
(65536), the least that `SizesAssumption` allows: more than the 2 * `UTFMax` at which
`get` refills, and so much that a quarter of it holds a character.  So a refill
happens at nearly every character, a marked token of more than three bytes makes
the buffer grow, and every relative position of characters, marks and the end of
the buffer occurs.  The streams are the empty one, one shorter than the buffer, one
that exactly fills it, and three about twice as long with the two-byte characters
at different places.  Two marks show that the older one survives; four occur in
the code (`readDecimal`), and they are treated alike.  `Faults` says how many
bytes a failing read has delivered, `MaxRead` bounds the argument of `Read`,
`MaxHeld` the tokens whose data is watched.

`Scanning` takes all texts up to a length over alphabets of four to twelve
characters, one alphabet per kind of token, some behind a fixed beginning (`r#"`,
`/-`): three to six free characters reach every branch of every reader and its
disagreement with the next character.  `Writing` takes every string of at most two or
three characters over those that have an escape or end something, in every place and
notation, numbers at the digits' boundaries of each base with `IntLimit` 16 in the
place of 2^63, and documents three levels deep; in one family two writes may fail.
`Sizes` stands for the widths of Go's kinds: one of an int64, and one that is narrower.

`Calls` has three goroutines, since two writers and one reader are what a race and a
lost write take; a type that contains itself and two others; two types of one name;
two registries out of four, which are treated alike.  Registrations and calls are
explored together, and every input in every version by a call of its own.  `Structs`
has sixteen types of two or three fields, one for every pair of tags that can get in
each other's way, all values over two numerals, and nodes with up to three arguments,
two properties and two children.

### Fairness

`WF_vars(Step)`: `Parser.Parse` is an ordinary call on the caller's goroutine, so
once a token has been scanned its handler runs.  `Scan` has no fairness: nothing
says the reader ever delivers.  Only `TokenSettled` depends on it; the other modules
assume no fairness and state no liveness: `Scan`, `WriteToOptions` and
`unmarshalNodeToStruct` are loops over finite data, and that they end is their
absence of deadlock in finite state graphs without cycles.  A finished call stutters
(`Returned`, `Finished`), so deadlock checking stays on in every run: no module is
ever stuck in the middle of a call.

### Findings

`PROJECT.json` quotes the sources.  Five have a run of their own, whose
counterexample is the finding:

| run | input | what happens |
|---|---|---|
| `UnclosedBlock` | `a { b` | the end of the input is accepted in an open block |
| `LeakedType` | `a { b (t) } 1` | the type of nothing in `b` goes to the argument of `a` |
| `PhantomArgument` | `a "x"{}"y"` in v1; in v2 `a "x" {} "y"` | the argument x is followed by one made from a cleared token |
| `LostReadError` | any input whose reader fails after the first buffer | `refill` stores the error, `Scan` overwrites it, and the document ends where the buffer did |
| `DroppedTail` | `a 0` without a newline | looking at a second character meets the end, which `Scan` takes for the end of the input |

The others are exceptions that a checked property names:

| property | what happens |
|---|---|
| `ImplementsOutline` | in `a { b /- } 1 2` the slashdash of `b` hides the argument 1 of `a`; `a { b c= }` is accepted without the property; and `PhantomArgument` |
| `AdjacencyIsWidth` | `a "é"1`: two touching values are accepted in v2, since a column in characters is added to a length in bytes |
| `ReadsBack` | a typed hexadecimal number loses its type; a big hexadecimal, octal or binary number loses its prefix; a control without a letter is written `\u7f`, which nothing reads; `\\/` cannot be read in v2; a string of many lines loses a last newline; `KdlReadback.Kept` has the whole list |
| `IntegersArrive` | a uint64 of 2^63 or more is read as a `big.Int`, which `coerce` takes for a `fmt.Stringer` before it comes to its own case: the variable gets 2^63 - 1; a bool gets false from it, and from a numeral of two digits in a string; narrower kinds keep the low bits of what does not fit; of a string with a type annotation `ResolvedValue` hands on the annotation too, so `(t)"17"` arrives as 0 |
| `LostIsConfined` | a write that fails in a child node ends its block, and `Generate` returns nil; an indentation, a line of a comment or a sign behind the name is written without a look at `err` and its outcome takes the place of an earlier error of the same call |
| `FirstReadReported` | in automatic mode a reader that fails gives an empty document |
| `AutoAcceptsEither` | the guard that is to keep a text with a v2 marker from being parsed as v1 asks a closed scanner for its offset, which is 0 |
| `IndexesAgree`, `AloneIsSafe` | `AddCustom*` looks at the flag, then writes: a first call in between reads the map while it is written |
| `FunctionsAreThere` | a nil function is called for `T` when only `*T` has one, and for a type that shares its name with another |
| `PanicsAreNamed` | `,arg` fields and fewer arguments; `AllowUnhandledChildren` without a `,children` field; a `,multiple` map and a node without arguments; a key that comes to one map twice, from one node or from two, since `SetInt` refuses what `MapIndex` returns |
| `NothingDropped` | a node named `-` is unmarshaled into a field tagged `-` |

Read in the same code and not stated by a property: the children of a node that is
unmarshaled into a slice, of scalars or of structs, are not looked at unless the field
is `,multiple` (`unmarshalNodeToSlice` has a loop for arguments and one for properties),
and a map that is not `,multiple` keeps the entries of an earlier node of its name
whose keys do not come again, where docs/unmarshal.md:471 says it is overwritten.  The
first of them came out of the proof of `NothingDropped`: as it was first stated, which no
run had contradicted, the invariant was not inductive, and with one more node TLC shows
the case.

Three more were seen in the parser's model: a document
may end with `/-` (the terminator of `stateDocument` does not look at
`ignoreNextNode`); `(u8)10k` loses its annotation, which
the `SuffixedDecimal` handler clears before it uses it; and with `ParseComments` a
comment after the last node is dropped with the context (docs/unmarshal.md:1309
excepts the end of the document).  After a failed refill, a token that was being
read holds other bytes than the input's: the kept part of the buffer has moved
and the marks are rebased, `s.raw` and `s.input` are not.  That only matters
because of `LostReadError`, and `ScannerInput` makes its statements until the
first failure.

## 4. Proofs

`KdlParserProofs` proves, for every token alphabet, every set of options and every
bound,

| theorem | statement |
|---|---|
| `TypeCorrect` | `Spec => []TypeOK` |
| `StacksAgree` | `Spec => []StackDiscipline` |
| `ErrorsAreOfTheInput` | `Spec => []NoInternalError` |

from `TokensAssumption`, `OptionsAssumption` and `BoundsAssumption`, which say no
more than that the constants have their types and that the end of the input may
occur.  Nothing else is assumed.

`StackDiscipline` is not inductive by itself: a transition function that names a
node writes to it through `currentNode`, so the node stack must hold indices of
existing nodes; `lastAddedNode` must be one of them for a block's trailing
comments; the functions that pop rely on the stack not being empty, which follows
from the alternation of states; and an error must leave nothing behind.  The
invariant `IInv` says that the context is `Sound` (typed, stacks agree, indices in
range) with no error, as long as it is in use, and that it is the empty context
once it is thrown away.

The argument has three layers.  *Stacks*: what pushing a scope, a node or a type
annotation and popping do to an alternating sequence of states, over plain
sequences.  *Methods*: each `ParseContext` method maps a sound context to an
`Outcome`, which is either sound again or an error the input is to blame for.
*Handlers*: one step per transition function, grouped by the state it serves
(`ScopeHandlerInv`, `TypeHandlerInv`, `NodeHandlerInv`, `EntryHandlerInv`), then
`ParseInv` for the checks before it and `NextIInv` for the whole.  Because the
bounds are only guards of `Scan`, and the proof never uses them, the theorems hold
for the unbounded parser.

`KdlParserTreeProofs` goes on to what the parser builds and to the marks it carries
from one token to the next, for every alphabet, every set of options and every bound
as before,

| theorem | statement |
|---|---|
| `SlashdashStaysInScope` | `Spec => []NodeSlashdashInScope` |
| `PropertiesAreNamed` | `Spec => []PropertyHasName` |
| `OpenNodesNested` | `Spec => []OpenNodesFormPath` |
| `IgnoredMarksAgree` | `Spec => []IgnoredBlockMarks` |
| `IgnoredBlocksStayOut` | `Spec => []IgnoredBlocksDetached` |
| `EntriesGoInnermost` | `Spec => OnlyInnermostGrows` |
| `PendingIsUsed` | `Spec => OpeningUsesPending` |
| `ReentryFindsScope` | `Spec => ReentersInScope` |
| `CommentsArrive` | `Spec => CommentsKept` |
| `ParserImplementsOutline` | `OutlineSpec => ImplementsOutline` |

Its invariant `TInv` adds to `IInv` what these properties lean on.  That a block is
ignored is decided by marks set tokens earlier, so three things must be known that no
property says: the rule about the rest of an ignored block's line is armed only while
the parser is still in the node that owns the block, and then only white space and
comments reach a transition function (`RestOfLine`; every other token is refused
before the lookup or disarms the rule), so that no block, type or node opens or closes
meanwhile; a node that waits on the state stack for its block to end is never in the
middle of a property (`Owners`), so that the name `c.ident` holds cannot be replaced
behind a value that is still to come; and the value that comes next has a name through
a type annotation (`Named`).

*Moves*: the stacks and the document move in one of five ways, and `ScopeTree`,
`OpensTree`, `ClosesTree` and `BlockTree` say what each does to the path of open nodes
and to the border between what is read and what is ignored.  *Methods*: what each
`ParseContext` method leaves alone (`Quiet`).  *Handlers*: every handler makes an
`Advance`, which is both the invariant afterwards and the action properties, so that
the four of them need no proof of their own.

`ParserImplementsOutline` is the refinement: every step of the parser is a step of the
outline or leaves it alone.  Its invariant `OInv` adds three things to `TInv`.  No node
hangs off one that comes after it (`Rooted`), so that a new node is nobody's parent.  Until
a defect is met, a name or value is queued only in the states that use it, and a slashdash
waits for an entry only in the states that have one to come (`Clean`); this is what the
three defects break, and it is why each of them is excused by the state it is met in and
not by what it does afterwards.  And the history has counted the nodes the document was
given (`Counted`).

What can be reached is the least set closed under the parent links; `ReachableParents`
turns that into the equation "a node is reachable iff its parent is the root or reachable",
`SameReachable` says that the links alone decide it, and `GrownReachable` that a node
added at the end changes nothing but itself.  With the invariant of `IgnoredBlocksDetached`
these give the one fact the four ignore fields are there for: a node opened under a mark
or in an ignored block is unreachable, and every other one hangs off a reachable node or
the root.  The queued identifier is the second difficulty: an entry of the input becomes
an entry of the document only when the next token shows that it was an argument, often
in the step that opens a block or closes the node.  `Gain` is what a step settles, from
what was queued and what the token brings, and `Settles` that the document got exactly
that, in the innermost node, or the mark swallowed it.  What a token counts as is read off
the lookup of its transition function (`KeyOfKinds` and the lemmas on tokens behind it).
`Draws` lists what a step may do with the outline (read on, mark a node or an entry, open
or close a node or a block), `DrawsOutlined` shows that each is one action of `KdlOutline`,
and every handler draws one of them or meets a defect (`ScopeHandlerDrawn`,
`TypeHandlerDrawn`, `NodeHandlerDrawn`, `EntryHandlerDrawn`, `ParseDrawn`).

`KdlCallsProofs` proves, for any number of goroutines, any types, names, registries
and programs,

| theorem | statement |
|---|---|
| `CallsTyped` | `Spec => []TypeOK` |
| `IndexesStayTrue` | `Spec => []IndexesAgree` |
| `CallsAfterRegistrationAreSafe` | `Spec => []AloneIsSafe` |
| `MissingFunctionsAreNamed` | `Spec => []FunctionsAreThere` |
| `AutoIsEither` | `Spec => []AutoAcceptsEither` |
| `ReportedIsFirstRead` | `Spec => []FirstReadReported` |

from `TypesAssumption` and `ProgramsAssumption`, which type the constants.

`IndexesAgree` speaks of finished entries; a step adds one lookup to an entry that is
not finished.  `IInv` therefore says of every entry how far it has got (`Progress`)
and that it holds exactly what that many lookups find (`Found`); that these are all
there is to find is the lemma `FoundAll`.  The other half is `AloneEndsRegistration`:
once a call is `alone` the flag is set and no registration is under way.  It is kept
because the flag is set in the step that begins the index and looked at in the step
that begins a registration, and it makes the registries constant from then on, so
that neither `KnowsWhatIsFound` nor `FunctionsAreThere` can be disturbed, and no map
is written while such a call reads it.  The two theorems about versions rest on
`ParsedAlone`, that no goroutine touches the document of another, and on what `parse`
computes (`AskedFor`, `Attempt`, `Automatic`).

`ScannerInputProofs` proves, for every set of streams, every length of the longest
character, every buffer that satisfies `SizesAssumption`, any number of marks and any
failure of the reader,

| theorem | statement |
|---|---|
| `TypeCorrect` | `Spec => []TypeOK` |
| `BufferIsAWindow` | `Spec => []BufferIsWindow` |
| `MarksKeepTheirBytes` | `Spec => []MarksHold` |
| `CacheIsAhead` | `Spec => []CacheIsNext` |
| `AnswersAreRight` | `Spec => []RightAnswers` |
| `TokensStayIntact` | `Spec => []TokensIntact` |
| `EndIsTheEnd` | `Spec => []NothingButTail` |

from `SizesAssumption` and `StreamsAssumption` (characters follow each other and have
1 to `UTFMax` bytes).  The first is what the code's constants owe to its algorithm,
and 4 and 65536 satisfy it: a buffer above the low-water mark, and a quarter of it no
smaller than a character, since `refill` enlarges the buffer only when a marked
sequence takes more than three quarters of it.

None of the seven is inductive alone.  `Sound` joins them: the array holds the
window (`Window`), the marks lie between the oldest mark and the unread part and
denote their bytes (`Fits`, `MarksDenote`), and the cached characters follow the
caller's (`CacheHolds`).  It also keeps, after a failure, the bounds that `Scanner`
needs.  Between two calls the scanner is `Deep`, with a whole character in the buffer
as long as there is more to read, and the caller is `AtCharacter`; this is what `peek`
needs, which never refills, and `get` establishes it again because it refills below
two characters and consumes one.  `TokensKept` says of every token that it is a copy or
that there is no reader any more, so nothing writes its bytes (`Follows`).

The argument goes the way of the code: `RefillSound` (a read that goes well,
`RefilledSound`, or not, `RefillFailedSound`), `DecodesWindow` (what `DecodeRune`
finds in a window), `BehindCache` and `CachedSound` (looking ahead), `ConsumeSound`;
then `BehindCacheAnswer` and `AheadRight` say what is answered from a sound and deep
scanner, `RoundLooks` that three rounds of the loop of `peekAtSize` settle it; then
one lemma per action, and `StepInvariant`.

`KdlWriterProofs` proves, for every document, all options and any number of writes that
fail,

| theorem | statement |
|---|---|
| `LostWritesAreConfined` | `Spec => []LostIsConfined` |
| `IntegersComeBack` | `Spec => []IntegersArrive` |

from `NodesAssumption`, which says that the lists a node keeps are lists, that its
children are among `AllNodes` and that its entries are values, strings with their types among them, and from
`IntLimitAssumption` and `SizesAssumption` (the width of an int64 is even, and a multiple
of that of every kind).  Nothing is said of how deep the document is, or of how large a
big integer is.

For the first of them strings and numbers do not matter, a step only carries them.  The stack of calls is counted from
the bottom (`Nested`: the frame above `Generate` is a node of the document, and each
one is a level deeper than its caller), `Generate` writes only after it has looked at
its `err` and calls no node once it is set (`GenerateStops`), and a write that failed
outside every block is in the `err` of `Generate` or in that of the node it has called,
which will neither write nor call before it returns (`Accounted`, `Known`).  A step of
the generator is one of the steps that its operators list; that all of them are
well-formed (`NodeSteps`, `GenerateSteps`) follows operator by operator.

`LostIsConfined` has two exceptions, and both are in the code: a write in a node with a
parent (`depth`), and a write behind which the same call has one more that does not ask
for `err` (`again`).

`IntegersArrive` needs no induction over the steps: whatever `ReadsAs` may be, an integer
in it that a document has is in the variable what the theorem says.  The difficulty is
in the data.  `big.Int.String` and `ParseInt` are inverse (`DecimalOfInteger`): the figures
of a number come from a table that is built one number after another (`TableOfFigures`),
each entry has its number as its value because the entry of a tenth of it has
(`FiguresOfNumber`), and a text with one more digit has ten times the value and the digit
(`MagnitudeOfMore`).  `ConvertedIsHeld` says what Go's conversion gives and when it
changes nothing, `ParseIntIsNearest` what an integer beyond an int64 is parsed to, and
`NearestArrives` that no kind gets such an integer back: signed ones do not hold it, and
a uint64 gets 2^63 - 1.  A string with a type annotation is no numeral with it
(`AnnotatedIsHidden`), so it arrives as zero.

`KdlStructsProofs` proves, for all types of the kind `IsType` describes, all their
values, every node and every set of options,

| theorem | statement |
|---|---|
| `PanicsHaveReasons` | `Spec => []PanicsAreNamed` |
| `NothingIsDropped` | `Spec => []NothingDropped` |
| `StructsComeBack` | `Spec => []RoundTrip` |

from `NamesAssumption`, `TypesAssumption`, `NodesAssumption` and `LowerAssumption`: names
and types are lists, no name is listed twice, a field holds what its kind can (`Fits`), the arguments and children
of a node are lists, and what is in lower case stays as it is.  That a node that was
marshaled is one too is a lemma (`MarshaledIsNode`).

`PanicsAreNamed` needs to know what the maps hold: `MapKeys` says that each of their keys
was brought by the node itself, by a property, or by one of the first `Done` children
(`KeysCome`), so a key that is there already and comes again is brought by two entries,
which is `RepeatsKey`.  `OfMap` says when `unmarshalNodeToMap` panics, and `OkMap` what a
map holds afterwards.

`NothingDropped` speaks of the end of a call, so the invariant says what is held at
every point before it.  `Typed` types the state and ties `rest` to the node: the children
that are still to come are its last ones (`Remaining`), the first `Done` are dealt with.
`Kept` says, unless an error has ended the call, that the arguments are held once their
phase is over, every property in `visited` is held, the others are in the `,props` field
when that phase is over, and each of the first `Done` children is held (`ChildHeld`).  The difficulty is in the next
entry: it may be for the same field as one that is held.  `Aims(i)` is the set of all
entries that are for field `i`; an entry is claimed to be held only where it is alone,
or where a later child adds to the field instead of replacing it, so a step either leaves
a field alone, or `HoldsMore` says that it still holds what it held.  `BringsValue` says for every kind
of field that what is put there is held.

`RoundTrip` speaks of the end of a call too, and of a node that is the result of another
algorithm.  The proof says first what that node is.  `ArgumentsAre` and `PropertiesAre`
tell which field each argument and each property stems from.  `ChildrenAre` says that the
children are the nodes of the fields one field after another, or those of the field that
captures children: `Taking` counts for every field how many of the first *n* children are
its own, so that the next one is the next node of exactly one field.  `FieldRebuilds`
then says for each kind of field that its nodes bring the value back: `Part(f, v, t)` is
what the field holds after *t* of them, from zero to the whole value.  The invariant
`Back` says what every field holds at every point of the call: a field that captures has
its value once its phase is over, or what the children so far restore of it; a property
has its value once its name is in `visited`; any other field is `Part` of its value after
as many nodes as were taken.  No error and no panic can occur meanwhile
(`ArgumentsFit`, `PropertiesFit`, `ChildrenFit`).

`KdlScannerProofs` proves, for every text whose characters are any strings but the one
that stands for the end, in any mode,

| theorem | statement |
|---|---|
| `TokensFollowEachOther` | `Spec => [](TypeOK /\ Order)` |
| `VersionsAreExplained` | `Spec => []VersionIsExplained` |
| `MarkersDecide` | `Spec => []MarkerDecides` |
| `OneTokenIsLostAtMost` | `Spec => []LosesOneTokenAtMost` |
| `AdjacencyIsDecided` | `Spec => []AdjacencyIsWidth` |
| `RawStringsEndAtOnce` | `Spec => []RawStringsAreShortest` |
| `CommentsEndOutside` | `Spec => []CommentsNest` |
| `TokensReadAlone` | `Spec => []RescansAlone` |

from `InputsAssumption`, which says that and that a mode has a version and three flags.

Most of the proof is about one call of `readNext`.  For every reader there is a lemma
that says where its token ends: behind its beginning, within the text, and where it
answers with the end of the input instead, that nothing but one unfinished token was
left (`Reads`, `SoonEnded`; `NextReads` has them all).  The readers that go character
by character are recursive functions; `DownwardRecursion` shows that such a function is
the table its equation describes (`CommentTables`, `TripleTables`), from the end of the
text backwards.  For raw strings and comments the lemma says more: a raw string ends at
the first quote that may end it (`RawReads`), and a comment is what its table has at
depth 0.  What `detectVersion` answers is tied to the marker line of the properties
(`DetectReads`: `Finds` is what the code looks for, `Marks` what the line looks like).

The invariant `IInv` joins the three properties about versions and the end, which a
step establishes anew, to what is kept of the last two tokens: they are not empty and
follow each other to the place of the scanner (`Order`); lines and columns follow from
the newlines between (`Places`), lengths from the characters (`Sizes`), which together
decide adjacency (`AdjacentWidth`); the version of the last token is the scanner's,
and before the first token nothing has been detected (`VersionIsKept`), without which
a later marker line could be taken for the one at the beginning; and the last token is
what its reader read in that version where it begins (`IsRead`).  From `IsRead` alone
`RawShortest` finds every quote in a raw string, and `CommentsLeave` follows the depth
of a comment through its table (`LeavesSteps`, `CommentLeaves`): from depth *d* on, the
marks that open fall *d* short of those that close for the first time at the end.

`RescansAlone` compares two texts.  `Cut(x, y, r, j)` says that the text of *y* is what
*x* has behind *r* and before *j*, in the same mode; for every reader there is a lemma
that it answers with the same token on *y* if it answers with one that ends at *j* on
*x* (`QuotedAlone`, `CommentAlone`, `DecimalAlone` and the others; `NextAlone` has them
all).  What makes them true is that a reader that stops at *j* stops at the end of a
text too, and that none decides by a character behind *j*: an identifier that is a
keyword, a quote that may be tripled, a number with a suffix, a pair of newline
characters.  Where a reader does look at the next character, `NextAlone` needs that
the token has a second one: those are the three of `LooksBeyond`.  A token keeps the
property when the scanner stops (`StoppedAlone`) since its own text is then compared
with itself.

`KdlSequenceProofs` has what these three proofs need of data.  The induction theorems of
the library take an operator, so induction goes over sets of numbers instead
(`Induction`: a set that contains 0 and with a number its successor has them all, from
the library's `WFMin`; `DownwardInduction` goes from a bound down), and a function that is defined by recursion over a sequence is
first built as the last of a row of values (`Recursion`) and then shown to be that row:
`FlattenSteps` for the folds of the community modules, `ThoseSteps` for the loops of
`KdlStructs`.  `FlattenShares` says of which of the joined sequences each element is.

What stays with TLC: `TokenSettled` (liveness), and `ReadsBack`, whose readers and writers
are recursions over texts and which compares all of both.

## 5. What is not modelled

The components list of `PROJECT.json` has every source file.

- *Floating point*: TLC has no such numbers.  Floats and suffixed numbers keep their
  text.
- *Reflection*: embedded structs, pointers, interfaces, unexported fields and the
  methods a type may have are what Go's `reflect` makes of them; `KdlStructs` begins
  with the list of fields that `typeindex.go` arrives at.  `format` and the relaxed
  types only choose a conversion.
- *Coercions* of floats, complex numbers, times and other Go types: type switches of one
  conversion each, most of them floating-point.  `KdlCoerce` has those of integers.
- *The allocator*: two counters within one call.
- *Layout*: the text and position of errors, the excerpt that a scanner error shows,
  `TrailingNewlines`, the layout kept in comments.
- A scanner error in `KdlParser`: it ends a call exactly as a parser error does.
- Marshaling by several goroutines: `Marshal` indexes types as `Unmarshal` does.

## 6. Plan

What is left, the most useful first.

1. **The lexer on the buffer**: `KdlLexer` reads a text by position and
   `ScannerInput` shows what a buffer does to look-ahead; a refinement between the
   two would join them.
2. **Structs in structs**: children that are unmarshaled into nested structs, and
   `,structure`, on top of `KdlStructs`.
