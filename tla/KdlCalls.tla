------------------------------ MODULE KdlCalls -----------------------------
(***************************************************************************)
(* Calls of the package by several goroutines: what a text is parsed as    *)
(* (KdlVersions), and the state that calls share: the functions that       *)
(* AddCustom* registers for types, and the flag that is to keep them from  *)
(* changing once a type has been indexed (internal/marshaler).             *)
(*                                                                         *)
(* The registries are Go maps without a lock.  Who uses one while it is    *)
(* written may find the new entry or not, or the process dies.             *)
(***************************************************************************)
EXTENDS KdlVersions, Sequences

CONSTANTS
    Goroutines,
    Types,          \* types, without the pointers to them
    Names, Name,    \* typ.String(): types of two packages may have the same
    Elements,       \* the types of the fields or elements of a type, in order
    Kinds,          \* the registries, in the order in which they are looked up
    Programs        \* the calls that goroutines may make, one each

ASSUME TypesAssumption ==
    /\ Name \in [Types -> Names]
    /\ Elements \in [Types -> Seq(Types)]
    /\ Kinds \in Seq(STRING)

\* What a function is registered for: values of a type, or pointers to them.
Key(k, t, p) == [kind |-> k, type |-> t, pointer |-> p]
Registries == {Kinds[i] : i \in DOMAIN Kinds}
Keys == [kind : Registries, type : Types, pointer : BOOLEAN]

AddCall == [op : {"add"}, key : Keys]
UnmarshalCall == [op : {"unmarshal"}, version : Versions \cup {"Auto"}, input : Inputs, type : Types]
NoCall == [op |-> "none"]

ASSUME ProgramsAssumption ==
    Programs \subseteq [Goroutines -> AddCall \cup UnmarshalCall \cup {NoCall}]

VARIABLES
    createdTypeIndexer,     \* some type has been indexed
    custom,                 \* the keys that have a function
    call, pc,               \* the call of each goroutine, and where it is
    document,               \* what it has parsed
    index,                  \* what it knows of types, by their names
    todo,                   \* the types that it has yet to index
    asked,                  \* how many lookups it has made for the type at hand
    outcome,                \* what its call has come to
    used,                   \* what it asked a function for in the end
    alone,                  \* no registration was under way when it began its index
    raced                   \* the goroutines that have died of using a map at once

vars == <<createdTypeIndexer, custom, call, pc, document, index, todo, asked, outcome, used, alone, raced>>

----------------------------------------------------------------------------
(* Lookups.                                                                *)

\* Entries of an index: the type they were made for, and the registries that have a
\* function for it or for pointers to it.
Entry == [type : Types, kinds : SUBSET Registries]
NoEntries == [n \in {} |-> {}]

\* The lookups of indexType: every registry for the type, then for the pointer.
Lookups == 2 * Len(Kinds)
Lookup(t, i) ==
    IF i <= Len(Kinds) THEN Key(Kinds[i], t, FALSE) ELSE Key(Kinds[i - Len(Kinds)], t, TRUE)

Storing(g) == pc[g] = "storing"
Registering(g) == call[g].op = "add" /\ pc[g] \in {"checked", "storing"}

\* Who is writing the map of a registry.
Writers(k) == {h \in Goroutines : Storing(h) /\ call[h].key.kind = k}

\* Using the map of a registry while others write it may be the end of them all.
Race(g, k) == raced' \in IF Writers(k) = {} THEN {{}} ELSE {{}, {g} \cup Writers(k)}

\* What a lookup may find.
Finds(key) ==
    {key \in custom} \cup {TRUE : h \in {w \in Writers(key.kind) : call[w].key = key}}

Init ==
    /\ createdTypeIndexer = FALSE
    /\ custom = {}
    /\ call \in Programs
    /\ pc = [g \in Goroutines |-> "begin"]
    /\ document = [g \in Goroutines |-> Failed("none")]
    /\ index = [g \in Goroutines |-> NoEntries]
    /\ todo = [g \in Goroutines |-> <<>>]
    /\ asked = [g \in Goroutines |-> Lookups]
    /\ outcome = [g \in Goroutines |-> "none"]
    /\ used = [g \in Goroutines |-> NoCall]
    /\ alone = [g \in Goroutines |-> FALSE]
    /\ raced = {}

----------------------------------------------------------------------------
(* Registration.                                                           *)

Goes(g, from, to) == pc[g] = from /\ pc' = [pc EXCEPT ![g] = to]
Ends(g, from, o) == Goes(g, from, "done") /\ outcome' = [outcome EXCEPT ![g] = o]

\* Mutant: the flag is not looked at.
AddCustomAnyTime(g) ==
    /\ call[g].op = "add"
    /\ Goes(g, "begin", "checked")
    /\ UNCHANGED <<createdTypeIndexer, custom, call, document, index, todo, asked, outcome, used, alone, raced>>

\* AddCustom*: the flag is looked at, and panics.
AddCustom(g) ==
    /\ call[g].op = "add"
    /\ IF createdTypeIndexer
       THEN Ends(g, "begin", "panic")
       ELSE Goes(g, "begin", "checked") /\ UNCHANGED outcome
    /\ UNCHANGED <<createdTypeIndexer, custom, call, document, index, todo, asked, used, alone, raced>>

\* The assignment to the map begins, and is done; one of two at once may get lost.
Store(g) ==
    /\ Goes(g, "checked", "storing")
    /\ Race(g, call[g].key.kind)
    /\ UNCHANGED <<createdTypeIndexer, custom, call, document, index, todo, asked, outcome, used, alone>>

Stored(g) ==
    /\ Ends(g, "storing", "stored")
    /\ custom' \in {custom \cup {call[g].key}}
                   \cup {custom : h \in Writers(call[g].key.kind) \ {g}}
    /\ UNCHANGED <<createdTypeIndexer, call, document, index, todo, asked, used, alone, raced>>

----------------------------------------------------------------------------
(* Unmarshalling.                                                          *)

\* Parse, Unmarshal and Decoder.Decode up to the document, which no other goroutine
\* has any part in.
Parse(g) ==
    /\ call[g].op = "unmarshal"
    /\ document' = [document EXCEPT ![g] =
                      parse(NewBuffer(call[g].input, call[g].version), call[g].input)]
    /\ IF document'[g].err = "nil"
       THEN Goes(g, "begin", "parsed") /\ UNCHANGED outcome
       ELSE Ends(g, "begin", "error")
    /\ UNCHANGED <<createdTypeIndexer, custom, call, index, todo, asked, used, alone, raced>>

\* Mutant: the flag is left as it is.
NewTypeIndexerUnflagged(g) ==
    /\ Goes(g, "parsed", "indexing")
    /\ todo' = [todo EXCEPT ![g] = <<call[g].type>>]
    /\ alone' = [alone EXCEPT ![g] = \A h \in Goroutines : ~Registering(h)]
    /\ UNCHANGED <<createdTypeIndexer, custom, call, document, index, asked, outcome, used, raced>>

\* newTypeIndexer and IndexIntf.
NewTypeIndexer(g) ==
    /\ Goes(g, "parsed", "indexing")
    /\ createdTypeIndexer' = TRUE
    /\ todo' = [todo EXCEPT ![g] = <<call[g].type>>]
    /\ alone' = [alone EXCEPT ![g] = \A h \in Goroutines : ~Registering(h)]
    /\ UNCHANGED <<custom, call, document, index, asked, outcome, used, raced>>

\* Mutant: the type is taken off before its lookups.
IndexTypeEarly(g) ==
    /\ Goes(g, "indexing", "indexing")
    /\ asked[g] = Lookups /\ todo[g] # <<>>
    /\ LET t == Head(todo[g])
       IN  /\ todo' = [todo EXCEPT ![g] = Tail(@)]
           /\ index' = [index EXCEPT ![g] =
                             [n \in DOMAIN @ \cup {Name[t]} |->
                                 IF n = Name[t] THEN [type |-> t, kinds |-> {}] ELSE @[n]]]
           /\ asked' = [asked EXCEPT ![g] = 0]
    /\ UNCHANGED <<createdTypeIndexer, custom, call, document, outcome, used, alone, raced>>

\* indexType makes an entry first, so that types that contain themselves are not
\* indexed again; a type whose name has an entry is skipped.
IndexType(g) ==
    /\ Goes(g, "indexing", "indexing")
    /\ asked[g] = Lookups /\ todo[g] # <<>>
    /\ LET t == Head(todo[g])
       IN  IF Name[t] \in DOMAIN index[g]
           THEN /\ todo' = [todo EXCEPT ![g] = Tail(@)]
                /\ UNCHANGED <<index, asked>>
           ELSE /\ index' = [index EXCEPT ![g] =
                                 [n \in DOMAIN @ \cup {Name[t]} |->
                                     IF n = Name[t] THEN [type |-> t, kinds |-> {}] ELSE @[n]]]
                /\ asked' = [asked EXCEPT ![g] = 0]
                /\ UNCHANGED todo
    /\ UNCHANGED <<createdTypeIndexer, custom, call, document, outcome, used, alone, raced>>

\* Mutant: what is found in one registry is noted for all.
AskOnce(g) ==
    /\ Goes(g, "indexing", "indexing")
    /\ asked[g] < Lookups
    /\ asked' = [asked EXCEPT ![g] = @ + 1]
    /\ LET t == Head(todo[g])
           key == Lookup(t, asked[g] + 1)
       IN  /\ Race(g, key.kind)
           /\ \E found \in Finds(key) :
                  index' = [index EXCEPT ![g][Name[t]].kinds = @ \cup (IF found THEN Registries ELSE {})]
           /\ todo' = [todo EXCEPT ![g] = IF asked'[g] = Lookups THEN Elements[t] \o Tail(@) ELSE @]
    /\ UNCHANGED <<createdTypeIndexer, custom, call, document, outcome, used, alone>>

\* The lookups for the type at hand; after the last one come the types in it.
Ask(g) ==
    /\ Goes(g, "indexing", "indexing")
    /\ asked[g] < Lookups
    /\ asked' = [asked EXCEPT ![g] = @ + 1]
    /\ LET t == Head(todo[g])
           key == Lookup(t, asked[g] + 1)
       IN  /\ Race(g, key.kind)
           /\ \E found \in Finds(key) :
                  index' = [index EXCEPT ![g][Name[t]].kinds = @ \cup (IF found THEN {key.kind} ELSE {})]
           /\ todo' = [todo EXCEPT ![g] = IF asked'[g] = Lookups THEN Elements[t] \o Tail(@) ELSE @]
    /\ UNCHANGED <<createdTypeIndexer, custom, call, document, outcome, used, alone>>

\* A value of an indexed type, or a pointer to one, is unmarshalled where a function
\* of some kind is called for: its entry says whether there is one, the registry
\* which.  Without one the entry's own methods and fields are used.
Unmarshal(g, k, t, p) ==
    /\ asked[g] = Lookups /\ todo[g] = <<>>
    /\ Name[t] \in DOMAIN index[g]
    /\ used' = [used EXCEPT ![g] = Key(k, t, p)]
    /\ LET entry == index[g][Name[t]]
       IN  IF k \in entry.kinds
           THEN /\ Race(g, k)
                /\ \E found \in Finds(Key(k, t, p)) :
                       Ends(g, "indexing", IF found THEN "function" ELSE "nil function")
           ELSE /\ Ends(g, "indexing", IF entry.type = t THEN "own" ELSE "foreign")
                /\ UNCHANGED raced
    /\ UNCHANGED <<createdTypeIndexer, custom, call, document, index, todo, asked, alone>>

----------------------------------------------------------------------------
Finished ==
    /\ raced # {} \/ \A g \in Goroutines : pc[g] = "done" \/ call[g] = NoCall
    /\ UNCHANGED vars

Register(g) == AddCustom(g) \/ Store(g) \/ Stored(g)

UnmarshalStep(g) ==
    \/ Parse(g) \/ NewTypeIndexer(g) \/ IndexType(g) \/ Ask(g)
    \/ \E k \in Registries, t \in Types, p \in BOOLEAN : Unmarshal(g, k, t, p)

Next ==
    \/ raced = {} /\ \E g \in Goroutines : Register(g) \/ UnmarshalStep(g)
    \/ Finished

Spec == Init /\ [][Next]_vars

----------------------------------------------------------------------------
(* Properties.                                                             *)

TypeOK ==
    /\ createdTypeIndexer \in BOOLEAN
    /\ custom \subseteq Keys
    /\ call \in Programs
    /\ pc \in [Goroutines -> {"begin", "checked", "storing", "parsed", "indexing", "done"}]
    /\ index \in [Goroutines -> UNION {[N -> Entry] : N \in SUBSET Names}]
    /\ \A g \in Goroutines : \A n \in DOMAIN index[g] : Name[index[g][n].type] = n
    /\ todo \in [Goroutines -> Seq(Types)]
    /\ asked \in [Goroutines -> 0 .. Lookups]
    /\ \A g \in Goroutines : asked[g] < Lookups => pc[g] = "indexing" /\ todo[g] # <<>>
    /\ outcome \in [Goroutines -> {"none", "panic", "stored", "error", "function", "nil function",
                                   "own", "foreign"}]
    /\ used \in [Goroutines -> Keys \cup {NoCall}]
    /\ alone \in [Goroutines -> BOOLEAN]
    /\ raced \subseteq Goroutines

\* The kinds of functions that there are for a type or the pointer to it.
KindsOf(t) == {k \in Registries : \E p \in BOOLEAN : Key(k, t, p) \in custom}

\* A call that began to index when no registration was under way knows the types it
\* has indexed as the registries have them, then and ever after: no registration
\* comes between (assertNoIndexers, unmarshal.go:37).
IndexesAgree ==
    \A g \in Goroutines : alone[g] /\ asked[g] = Lookups =>
        \A n \in DOMAIN index[g] : index[g][n].kinds = KindsOf(index[g][n].type)

\* Such a call takes no part in a race, with a registration or with another call.
AloneIsSafe == \A g \in raced : ~alone[g]

\* It calls a function that is not there only if there is one for another type of the
\* same name, or on the other side of a pointer (unmarshal.go:249, 269, 289).
FunctionsAreThere ==
    \A g \in Goroutines : alone[g] /\ outcome[g] = "nil function" =>
        \E u \in Types, q \in BOOLEAN :
            /\ Name[u] = Name[used[g].type]
            /\ Key(used[g].kind, u, q) \in custom \ {used[g]}

\* Automatic mode accepts what either version accepts of what was read, and v2
\* comes first (parse, kdl.go:30).
AutoAcceptsEither ==
    \A g \in Goroutines : call[g].op = "unmarshal" /\ pc[g] # "begin" /\ call[g].version = "Auto" =>
        LET part == Arrives(call[g].input)
            accepting == {v \in Versions : Accepts(call[g].input, part, v)}
        IN  /\ document[g].err = "nil" <=> accepting # {}
            /\ accepting # {} => document[g].part = part /\ document[g].version \in accepting
            /\ "V2" \in accepting => document[g].version = "V2"

\* The error of a reader is reported if it comes with the first read and a version was
\* asked for, and in no other case.
FirstReadReported ==
    \A g \in Goroutines : call[g].op = "unmarshal" /\ pc[g] # "begin" =>
        (document[g].err = "read" <=> call[g].input.fails = "first" /\ call[g].version # "Auto")
============================================================================
