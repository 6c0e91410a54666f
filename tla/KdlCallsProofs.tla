--------------------------- MODULE KdlCallsProofs --------------------------
(***************************************************************************)
(* Proofs about the calls of KdlCalls, for any number of goroutines, any   *)
(* types and names, any registries and any programs.                       *)
(*                                                                         *)
(* The argument: a call that began to index when no registration was under *)
(* way has set createdTypeIndexer, so that no registration gets past       *)
(* assertNoIndexers any more; with none under way the registries stay as   *)
(* they are, and what the call has looked up stays true.                   *)
(***************************************************************************)
EXTENDS KdlCalls, TLAPS

----------------------------------------------------------------------------
(* The inductive invariant.                                                *)

\* Where a goroutine is goes with the call that it makes.
PlaceFits ==
    \A g \in Goroutines :
        /\ pc[g] \in {"checked", "storing"} => call[g].op = "add"
        /\ pc[g] \in {"parsed", "indexing"} => call[g].op = "unmarshal"
        /\ pc[g] \in {"begin", "parsed"} => index[g] = NoEntries
        /\ outcome[g] # "none" => pc[g] = "done"

\* Once some call is alone, no registration is under way, nor will one be.
AloneEndsRegistration ==
    \A g \in Goroutines : alone[g] =>
        createdTypeIndexer /\ \A h \in Goroutines : ~Registering(h)

\* The type at hand has its entry.
EntryAtHand ==
    \A g \in Goroutines : asked[g] < Lookups =>
        /\ Name[Head(todo[g])] \in DOMAIN index[g]
        /\ index[g][Name[Head(todo[g])]].type = Head(todo[g])

\* The registries in which one of the first n lookups for a type finds a function.
Found(t, n) ==
    {k \in Registries : \E i \in 1 .. n : Lookup(t, i) \in custom /\ Lookup(t, i).kind = k}

\* How far the lookups for an entry have got.
Progress(g, n) ==
    IF asked[g] < Lookups /\ n = Name[Head(todo[g])] THEN asked[g] ELSE Lookups

\* A call that is alone knows exactly what its lookups find.
KnowsWhatIsFound ==
    \A g \in Goroutines : alone[g] =>
        \A n \in DOMAIN index[g] : index[g][n].kinds = Found(index[g][n].type, Progress(g, n))

IInv ==
    /\ TypeOK /\ PlaceFits /\ AloneEndsRegistration /\ EntryAtHand /\ KnowsWhatIsFound
    /\ AloneIsSafe /\ FunctionsAreThere

----------------------------------------------------------------------------
(* Calls, lookups and indexes.                                             *)

\* A call has the fields of its operation.
LEMMA CallFields ==
  ASSUME TypeOK, NEW g \in Goroutines
  PROVE  /\ call[g].op = "add" => call[g].key \in Keys
         /\ call[g].op = "unmarshal" =>
                /\ call[g].version \in Versions \cup {"Auto"}
                /\ call[g].input \in Inputs /\ call[g].type \in Types
<1>1. call[g] \in AddCall \cup UnmarshalCall \cup {NoCall}
  BY ProgramsAssumption DEF TypeOK
<1>2. CASE call[g] \in AddCall
  BY <1>2 DEF AddCall
<1>3. CASE call[g] \in UnmarshalCall
  BY <1>3 DEF UnmarshalCall
<1>4. CASE call[g] = NoCall
  BY <1>4 DEF NoCall
<1>5. QED
  BY <1>1, <1>2, <1>3, <1>4

\* Every lookup of indexType is for the type, in a registry that there is.
LEMMA LookupKey ==
  ASSUME NEW t \in Types, NEW i \in 1 .. Lookups
  PROVE  /\ Lookup(t, i) \in Keys
         /\ Lookup(t, i).kind \in Registries
         /\ \E p \in BOOLEAN : Lookup(t, i) = Key(Lookup(t, i).kind, t, p)
<1>1. Len(Kinds) \in Nat /\ DOMAIN Kinds = 1 .. Len(Kinds)
  BY TypesAssumption
<1>2. i \in Nat /\ 1 <= i /\ i <= 2 * Len(Kinds)
  BY <1>1 DEF Lookups
<1>3. \E k \in Registries, p \in BOOLEAN : Lookup(t, i) = Key(k, t, p)
  <2>1. CASE i <= Len(Kinds)
    <3>1. Lookup(t, i) = Key(Kinds[i], t, FALSE)
      BY <2>1 DEF Lookup
    <3>2. i \in DOMAIN Kinds
      BY <1>1, <1>2, <2>1
    <3>3. Kinds[i] \in Registries
      BY <3>2 DEF Registries
    <3>4. QED
      BY <3>1, <3>3
  <2>2. CASE ~(i <= Len(Kinds))
    <3>1. Lookup(t, i) = Key(Kinds[i - Len(Kinds)], t, TRUE)
      BY <2>2 DEF Lookup
    <3>2. i - Len(Kinds) \in DOMAIN Kinds
      BY <1>1, <1>2, <2>2
    <3>3. Kinds[i - Len(Kinds)] \in Registries
      BY <3>2 DEF Registries
    <3>4. QED
      BY <3>1, <3>3
  <2>3. QED
    BY <2>1, <2>2
<1>4. PICK k \in Registries, p \in BOOLEAN : Lookup(t, i) = Key(k, t, p)
  BY <1>3
<1>5. Key(k, t, p) \in Keys /\ Key(k, t, p).kind = k
  BY DEF Key, Keys
<1>6. QED
  BY <1>4, <1>5

\* The lookups of indexType ask every registry for the type and for the pointer.
LEMMA LookupsAskAll ==
  ASSUME NEW t \in Types, NEW k \in Registries, NEW p \in BOOLEAN
  PROVE  \E i \in 1 .. Lookups : Lookup(t, i) = Key(k, t, p)
<1>1. Len(Kinds) \in Nat /\ DOMAIN Kinds = 1 .. Len(Kinds)
  BY TypesAssumption
<1>2. PICK j \in 1 .. Len(Kinds) : Kinds[j] = k
  BY <1>1 DEF Registries
<1>3. j \in 1 .. Lookups /\ j + Len(Kinds) \in 1 .. Lookups
  BY <1>1 DEF Lookups
<1>4. CASE p = FALSE
  <2>1. Lookup(t, j) = Key(Kinds[j], t, FALSE)
    BY <1>1 DEF Lookup
  <2>2. QED
    BY <1>2, <1>3, <1>4, <2>1
<1>5. CASE p = TRUE
  <2>1. ~(j + Len(Kinds) <= Len(Kinds)) /\ j + Len(Kinds) - Len(Kinds) = j
    BY <1>1
  <2>2. Lookup(t, j + Len(Kinds)) = Key(Kinds[j], t, TRUE)
    BY <2>1 DEF Lookup
  <2>3. QED
    BY <1>2, <1>3, <1>5, <2>2
<1>6. QED
  BY <1>4, <1>5

\* Nothing is found before the first lookup.
LEMMA FoundNone ==
  ASSUME NEW t \in Types
  PROVE  Found(t, 0) = {}
BY DEF Found

\* One more lookup finds one registry more, if it finds any.
LEMMA FoundOneMore ==
  ASSUME NEW t \in Types, NEW n \in Nat, n < Lookups, Lookups \in Nat
  PROVE  Found(t, n + 1) =
             Found(t, n) \cup (IF Lookup(t, n + 1) \in custom THEN {Lookup(t, n + 1).kind} ELSE {})
<1>1. n + 1 \in 1 .. Lookups /\ 1 .. n + 1 = (1 .. n) \cup {n + 1}
  OBVIOUS
<1>2. Lookup(t, n + 1).kind \in Registries
  BY <1>1, LookupKey
<1>3. QED
  BY <1>1, <1>2 DEF Found

\* All lookups find what there is for the type.
LEMMA FoundAll ==
  ASSUME NEW t \in Types
  PROVE  Found(t, Lookups) = KindsOf(t)
<1>1. ASSUME NEW k \in Found(t, Lookups) PROVE k \in KindsOf(t)
  BY LookupKey DEF Found, KindsOf
<1>2. ASSUME NEW k \in KindsOf(t) PROVE k \in Found(t, Lookups)
  <2>1. PICK p \in BOOLEAN : Key(k, t, p) \in custom
    BY DEF KindsOf
  <2>2. k \in Registries
    BY DEF KindsOf
  <2>3. PICK i \in 1 .. Lookups : Lookup(t, i) = Key(k, t, p)
    BY <2>2, LookupsAskAll
  <2>4. QED
    BY <2>1, <2>2, <2>3 DEF Found, Key
<1>3. QED
  BY <1>1, <1>2

\* The entries of an index.
LEMMA IndexEntries ==
  ASSUME TypeOK, NEW g \in Goroutines
  PROVE  /\ DOMAIN index[g] \in SUBSET Names
         /\ index[g] \in [DOMAIN index[g] -> Entry]
         /\ \A n \in DOMAIN index[g] : index[g][n] \in Entry /\ Name[index[g][n].type] = n
<1>1. index[g] \in UNION {[N -> Entry] : N \in SUBSET Names}
  BY DEF TypeOK
<1>2. PICK N \in SUBSET Names : index[g] \in [N -> Entry]
  BY <1>1
<1>3. QED
  BY <1>2 DEF TypeOK

\* There is a number of lookups.
LEMMA LookupsNat == Lookups \in Nat
BY TypesAssumption DEF Lookups

\* Beside a call that is alone nobody writes a registry.
LEMMA NobodyWrites ==
  ASSUME IInv, NEW g \in Goroutines, alone[g]
  PROVE  /\ createdTypeIndexer
         /\ \A h \in Goroutines : ~Registering(h) /\ pc[h] \notin {"checked", "storing"}
         /\ \A k : Writers(k) = {}
<1>1. createdTypeIndexer /\ \A h \in Goroutines : ~Registering(h)
  BY DEF IInv, AloneEndsRegistration
<1>2. \A h \in Goroutines : pc[h] \notin {"checked", "storing"}
  BY <1>1 DEF IInv, PlaceFits, Registering
<1>3. QED
  BY <1>1, <1>2 DEF Writers, Storing

----------------------------------------------------------------------------
(* What steps leave alone.                                                 *)

\* The places and outcomes of goroutines.
LEMMA Places ==
  ASSUME IInv
  PROVE  /\ DOMAIN pc = Goroutines /\ DOMAIN outcome = Goroutines
         /\ pc = [g \in Goroutines |-> pc[g]] /\ outcome = [g \in Goroutines |-> outcome[g]]
BY DEF IInv, TypeOK

\* A goroutine asks only while it indexes.
LEMMA Asking ==
  ASSUME TypeOK, NEW g \in Goroutines
  PROVE  /\ asked[g] \in 0 .. Lookups /\ ~(Lookups < Lookups)
         /\ pc[g] # "indexing" => asked[g] = Lookups
         /\ asked[g] # Lookups => asked[g] < Lookups
<1>1. asked[g] \in 0 .. Lookups /\ Lookups \in Nat
  BY LookupsNat DEF TypeOK
<1>2. asked[g] < Lookups \/ asked[g] = Lookups
  BY <1>1
<1>3. asked[g] < Lookups => pc[g] = "indexing"
  BY DEF TypeOK
<1>4. QED
  BY <1>1, <1>2, <1>3

\* What is known of types stays right while it, and the registries, stay as they are.
LEMMA LookupsKept ==
  ASSUME IInv, UNCHANGED <<custom, index, todo, asked, alone>>
  PROVE  EntryAtHand' /\ KnowsWhatIsFound'
<1>1. EntryAtHand'
  BY DEF IInv, EntryAtHand
<1>2. \A t, n : Found(t, n)' = Found(t, n)
  BY DEF Found
<1>3. \A g, n : Progress(g, n)' = Progress(g, n)
  BY DEF Progress
<1>4. KnowsWhatIsFound'
  BY <1>2, <1>3 DEF IInv, KnowsWhatIsFound
<1>5. QED
  BY <1>1, <1>4

\* The functions that calls have asked for stay there, or missing, in the same way.
LEMMA FunctionsKept ==
  ASSUME IInv, UNCHANGED <<custom, used, alone>>,
         \A g \in Goroutines : outcome'[g] = "nil function" => outcome[g] = "nil function"
  PROVE  FunctionsAreThere'
BY DEF IInv, FunctionsAreThere

\* A step that begins to use a registry can go wrong only beside a registration.
LEMMA RaceIsSafe ==
  ASSUME IInv, NEW g \in Goroutines, NEW k, Race(g, k), UNCHANGED alone
  PROVE  /\ raced' \subseteq Goroutines
         /\ AloneIsSafe'
<1>1. Writers(k) \subseteq Goroutines
  BY DEF Writers
<1>2. raced' \subseteq Goroutines
  BY <1>1 DEF Race
<1>3. CASE Writers(k) = {}
  BY <1>3 DEF Race, AloneIsSafe
<1>4. CASE Writers(k) # {}
  <2>1. \A h \in Goroutines : ~alone[h]
    BY <1>4, NobodyWrites
  <2>2. QED
    BY <1>2, <2>1 DEF AloneIsSafe
<1>5. QED
  BY <1>2, <1>3, <1>4

----------------------------------------------------------------------------
(* Registration.                                                           *)

\* AddCustom panics once any call is alone, so that no registration gets under way.
LEMMA AddCustomInv ==
  ASSUME IInv, NEW g \in Goroutines, AddCustom(g)
  PROVE  IInv'
<1>1. TypeOK'
  BY DEF IInv, AddCustom, Goes, Ends, TypeOK
<1>2. PlaceFits'
  BY Places DEF IInv, AddCustom, Goes, Ends, PlaceFits
<1>3. AloneEndsRegistration'
  <2>1. ASSUME NEW h \in Goroutines, alone[h] PROVE createdTypeIndexer /\ pc'[g] = "done"
    BY <2>1, NobodyWrites DEF IInv, AddCustom, Goes, Ends, TypeOK
  <2>2. ASSUME NEW h \in Goroutines, alone[h], NEW i \in Goroutines PROVE ~Registering(i)'
    BY <2>1, <2>2, NobodyWrites DEF IInv, AddCustom, Goes, Ends, Registering, TypeOK
  <2>3. QED
    BY <2>1, <2>2 DEF AloneEndsRegistration, AddCustom
<1>4. EntryAtHand' /\ KnowsWhatIsFound'
  BY LookupsKept DEF AddCustom
<1>5. AloneIsSafe'
  BY DEF IInv, AddCustom, AloneIsSafe
<1>6. FunctionsAreThere'
  BY FunctionsKept DEF IInv, AddCustom, Goes, Ends, TypeOK
<1>7. QED
  BY <1>1, <1>2, <1>3, <1>4, <1>5, <1>6 DEF IInv

\* A registration that goes on shows that no call is alone.
LEMMA StoreInv ==
  ASSUME IInv, NEW g \in Goroutines, Store(g)
  PROVE  IInv'
<1>1. \A h \in Goroutines : ~alone[h]
  BY NobodyWrites DEF Store, Goes
<1>2. Race(g, call[g].key.kind) /\ UNCHANGED alone
  BY DEF Store
<1>3. raced' \subseteq Goroutines /\ AloneIsSafe'
  BY <1>2, RaceIsSafe
<1>4. TypeOK'
  BY <1>3 DEF IInv, Store, Goes, TypeOK
<1>5. PlaceFits'
  BY Places DEF IInv, Store, Goes, PlaceFits
<1>6. AloneEndsRegistration'
  BY <1>1, <1>2 DEF AloneEndsRegistration
<1>7. EntryAtHand' /\ KnowsWhatIsFound'
  BY LookupsKept DEF Store
<1>8. FunctionsAreThere'
  BY FunctionsKept DEF Store
<1>9. QED
  BY <1>3, <1>4, <1>5, <1>6, <1>7, <1>8 DEF IInv

\* The registries change only while no call is alone.
LEMMA StoredInv ==
  ASSUME IInv, NEW g \in Goroutines, Stored(g)
  PROVE  IInv'
<1>1. \A h \in Goroutines : ~alone[h]
  BY NobodyWrites DEF Stored, Goes, Ends
<1>2. \A h \in Goroutines : ~alone'[h]
  BY <1>1 DEF Stored
<1>3. TypeOK'
  <2>1. call[g].key \in Keys
    BY CallFields DEF IInv, Stored, Ends, Goes, PlaceFits
  <2>2. custom' \subseteq Keys
    BY <2>1 DEF IInv, Stored, TypeOK
  <2>3. QED
    BY <2>2 DEF IInv, Stored, Ends, Goes, TypeOK
<1>4. PlaceFits'
  BY Places DEF IInv, Stored, Ends, Goes, PlaceFits
<1>5. EntryAtHand'
  BY DEF IInv, Stored, EntryAtHand
<1>6. AloneEndsRegistration' /\ KnowsWhatIsFound' /\ FunctionsAreThere'
  BY <1>2 DEF AloneEndsRegistration, KnowsWhatIsFound, FunctionsAreThere
<1>7. AloneIsSafe'
  BY DEF IInv, Stored, AloneIsSafe
<1>8. QED
  BY <1>3, <1>4, <1>5, <1>6, <1>7 DEF IInv

----------------------------------------------------------------------------
(* Unmarshalling.                                                          *)

\* A call that has its document knows of no type yet.
LEMMA ParseInv ==
  ASSUME IInv, NEW g \in Goroutines, Parse(g)
  PROVE  IInv'
<1>1. /\ pc[g] = "begin" /\ call[g].op = "unmarshal" /\ outcome[g] = "none"
      /\ \/ pc' = [pc EXCEPT ![g] = "parsed"] /\ outcome' = outcome
         \/ pc' = [pc EXCEPT ![g] = "done"] /\ outcome' = [outcome EXCEPT ![g] = "error"]
  BY DEF IInv, PlaceFits, Parse, Goes, Ends
<1>2. TypeOK'
  <2>1. asked[g] = Lookups
    BY <1>1, Asking DEF IInv
  <2>2. /\ pc' \in [Goroutines -> {"begin", "checked", "storing", "parsed", "indexing", "done"}]
        /\ outcome' \in [Goroutines -> {"none", "panic", "stored", "error", "function",
                                        "nil function", "own", "foreign"}]
    BY <1>1 DEF IInv, TypeOK
  <2>3. \A h \in Goroutines : asked'[h] < Lookups => pc'[h] = "indexing" /\ todo'[h] # <<>>
    BY <1>1, <2>1, LookupsNat, Places DEF IInv, TypeOK, Parse
  <2>4. QED
    BY <2>2, <2>3 DEF IInv, Parse, TypeOK
<1>3. PlaceFits'
  BY <1>1, Places DEF IInv, Parse, PlaceFits
<1>4. AloneEndsRegistration'
  <2>1. \A h \in Goroutines : Registering(h)' => Registering(h)
    BY <1>1 DEF IInv, TypeOK, Parse, Registering
  <2>2. QED
    BY <2>1 DEF IInv, Parse, AloneEndsRegistration
<1>5. EntryAtHand' /\ KnowsWhatIsFound'
  BY LookupsKept DEF Parse
<1>6. AloneIsSafe'
  BY DEF IInv, Parse, AloneIsSafe
<1>7. FunctionsAreThere'
  BY <1>1, FunctionsKept DEF IInv, Parse, TypeOK
<1>8. QED
  BY <1>2, <1>3, <1>4, <1>5, <1>6, <1>7 DEF IInv

\* The flag is set, with or without a registration under way, before any lookup.
LEMMA NewTypeIndexerInv ==
  ASSUME IInv, NEW g \in Goroutines, NewTypeIndexer(g), raced = {}
  PROVE  IInv'
<1>1. /\ pc[g] = "parsed" /\ pc' = [pc EXCEPT ![g] = "indexing"]
      /\ call[g].type \in Types /\ DOMAIN index[g] = {} /\ outcome[g] = "none"
  BY CallFields DEF IInv, PlaceFits, NewTypeIndexer, Goes, NoEntries
<1>2. asked[g] = Lookups /\ ~(asked[g] < Lookups)
  BY <1>1, Asking DEF IInv
<1>3. TypeOK'
  <2>1. <<call[g].type>> \in Seq(Types)
    BY <1>1
  <2>2. todo' \in [Goroutines -> Seq(Types)]
    BY <2>1 DEF IInv, TypeOK, NewTypeIndexer
  <2>3. alone' \in [Goroutines -> BOOLEAN]
    BY DEF IInv, TypeOK, NewTypeIndexer
  <2>4. \A h \in Goroutines : asked'[h] < Lookups => pc'[h] = "indexing" /\ todo'[h] # <<>>
    BY <1>1, <1>2 DEF IInv, TypeOK, NewTypeIndexer
  <2>5. pc' \in [Goroutines -> {"begin", "checked", "storing", "parsed", "indexing", "done"}]
    BY <1>1 DEF IInv, TypeOK
  <2>6. QED
    BY <2>2, <2>3, <2>4, <2>5 DEF IInv, TypeOK, NewTypeIndexer
<1>4. PlaceFits'
  <2>1. call[g].op = "unmarshal"
    BY <1>1 DEF IInv, PlaceFits
  <2>2. QED
    BY <1>1, <2>1, Places DEF IInv, NewTypeIndexer, PlaceFits
<1>5. \A h \in Goroutines : Registering(h)' => Registering(h)
  BY <1>1, Places DEF NewTypeIndexer, Registering
<1>6. AloneEndsRegistration'
  <2>1. createdTypeIndexer'
    BY DEF NewTypeIndexer
  <2>2. ASSUME NEW h \in Goroutines, alone'[h], NEW i \in Goroutines PROVE ~Registering(i)
    BY <2>2, NobodyWrites DEF IInv, TypeOK, NewTypeIndexer
  <2>3. QED
    BY <1>5, <2>1, <2>2 DEF AloneEndsRegistration
<1>7. EntryAtHand'
  <2>1. \A h \in Goroutines : h # g => todo'[h] = todo[h]
    BY DEF IInv, TypeOK, NewTypeIndexer
  <2>2. asked' = asked /\ index' = index
    BY DEF NewTypeIndexer
  <2>3. QED
    BY <1>2, <2>1, <2>2 DEF IInv, EntryAtHand
<1>8. KnowsWhatIsFound'
  <2>1. \A t, n : Found(t, n)' = Found(t, n)
    BY DEF Found, NewTypeIndexer
  <2>2. \A h \in Goroutines : h # g => todo'[h] = todo[h] /\ alone'[h] = alone[h]
    BY DEF IInv, TypeOK, NewTypeIndexer
  <2>3. asked' = asked /\ index' = index
    BY DEF NewTypeIndexer
  <2>4. \A n : \A h \in Goroutines : h # g => Progress(h, n)' = Progress(h, n)
    BY <2>2, <2>3 DEF Progress
  <2>5. QED
    BY <1>1, <2>1, <2>2, <2>3, <2>4 DEF IInv, KnowsWhatIsFound
<1>9. AloneIsSafe'
  BY DEF NewTypeIndexer, AloneIsSafe
<1>10. FunctionsAreThere'
  <2>1. \A h \in Goroutines : h # g => alone'[h] = alone[h]
    BY DEF IInv, TypeOK, NewTypeIndexer
  <2>2. QED
    BY <1>1, <2>1 DEF IInv, NewTypeIndexer, FunctionsAreThere
<1>11. QED
  BY <1>3, <1>4, <1>6, <1>7, <1>8, <1>9, <1>10 DEF IInv

\* The type that is indexed next is a type, and the call stays where it is.
LEMMA Indexing ==
  ASSUME IInv, NEW g \in Goroutines, Goes(g, "indexing", "indexing"), todo[g] # <<>>
  PROVE  /\ pc' = pc /\ pc[g] = "indexing" /\ call[g].op = "unmarshal"
         /\ Head(todo[g]) \in Types /\ Name[Head(todo[g])] \in Names
         /\ Tail(todo[g]) \in Seq(Types) /\ Elements[Head(todo[g])] \in Seq(Types)
<1>1. pc' = pc /\ pc[g] = "indexing"
  BY Places DEF Goes
<1>2. todo[g] \in Seq(Types)
  BY DEF IInv, TypeOK
<1>3. Head(todo[g]) \in Types /\ Tail(todo[g]) \in Seq(Types)
  BY <1>2
<1>4. QED
  BY <1>1, <1>3, TypesAssumption DEF IInv, PlaceFits

\* A type is looked at: it has an entry already, or gets one that is empty.
LEMMA IndexTypeInv ==
  ASSUME IInv, NEW g \in Goroutines, IndexType(g)
  PROVE  IInv'
<1> DEFINE t == Head(todo[g])
           n0 == Name[t]
<1>1. /\ pc' = pc /\ pc[g] = "indexing" /\ call[g].op = "unmarshal"
      /\ t \in Types /\ n0 \in Names /\ Tail(todo[g]) \in Seq(Types)
      /\ asked[g] = Lookups /\ ~(asked[g] < Lookups)
  BY Indexing, LookupsNat DEF IndexType
<1>2. UNCHANGED <<createdTypeIndexer, custom, call, document, outcome, used, alone, raced>>
  BY DEF IndexType
<1>3. AloneEndsRegistration' /\ AloneIsSafe' /\ FunctionsAreThere'
  BY <1>1, <1>2 DEF IInv, AloneEndsRegistration, Registering, AloneIsSafe, FunctionsAreThere
<1>4. \A u, n : Found(u, n)' = Found(u, n)
  BY <1>2 DEF Found
<1>5. CASE n0 \in DOMAIN index[g]
  <2>1. todo' = [todo EXCEPT ![g] = Tail(@)] /\ index' = index /\ asked' = asked
    BY <1>5 DEF IndexType
  <2>2. todo' \in [Goroutines -> Seq(Types)] /\ \A h \in Goroutines : h # g => todo'[h] = todo[h]
    BY <1>1, <2>1 DEF IInv, TypeOK
  <2>3. TypeOK'
    BY <1>1, <1>2, <2>1, <2>2 DEF IInv, TypeOK
  <2>4. PlaceFits'
    BY <1>1, <1>2, <2>1 DEF IInv, PlaceFits
  <2>5. EntryAtHand'
    BY <1>1, <2>1, <2>2 DEF IInv, EntryAtHand
  <2>6. \A n : \A h \in Goroutines : Progress(h, n)' = Progress(h, n)
    BY <1>1, <2>1, <2>2 DEF Progress
  <2>7. KnowsWhatIsFound'
    BY <1>2, <1>4, <2>1, <2>6 DEF IInv, KnowsWhatIsFound
  <2>8. QED
    BY <1>3, <2>3, <2>4, <2>5, <2>7 DEF IInv
<1>6. CASE n0 \notin DOMAIN index[g]
  <2> DEFINE new == [n \in DOMAIN index[g] \cup {n0} |->
                        IF n = n0 THEN [type |-> t, kinds |-> {}] ELSE index[g][n]]
  <2>1. index' = [index EXCEPT ![g] = new] /\ asked' = [asked EXCEPT ![g] = 0] /\ todo' = todo
    BY <1>6 DEF IndexType
  <2>2. /\ index'[g] = new /\ \A h \in Goroutines : h # g => index'[h] = index[h]
        /\ asked'[g] = 0 /\ \A h \in Goroutines : h # g => asked'[h] = asked[h]
    BY <2>1 DEF IInv, TypeOK
  <2>3. /\ DOMAIN new = DOMAIN index[g] \cup {n0}
        /\ new[n0] = [type |-> t, kinds |-> {}]
        /\ \A n \in DOMAIN index[g] : new[n] = index[g][n]
    BY <1>6
  <2> HIDE DEF new
  <2>4. TypeOK'
    <3>1. /\ DOMAIN index[g] \in SUBSET Names
          /\ \A n \in DOMAIN index[g] : index[g][n] \in Entry /\ Name[index[g][n].type] = n
      BY IndexEntries DEF IInv
    <3>2. [type |-> t, kinds |-> {}] \in Entry
      BY <1>1 DEF Entry
    <3>3. /\ DOMAIN new \in SUBSET Names
          /\ \A n \in DOMAIN new : new[n] \in Entry /\ Name[new[n].type] = n
      BY <1>1, <2>3, <3>1, <3>2
    <3>4. new \in [DOMAIN new -> Entry]
      BY <3>3 DEF new
    <3>5. new \in UNION {[N -> Entry] : N \in SUBSET Names}
      BY <3>3, <3>4
    <3>6. index' \in [Goroutines -> UNION {[N -> Entry] : N \in SUBSET Names}]
      BY <2>1, <3>5 DEF IInv, TypeOK
    <3>7. \A h \in Goroutines : \A n \in DOMAIN index'[h] : Name[index'[h][n].type] = n
      BY <2>2, <3>3 DEF IInv, TypeOK
    <3>8. asked' \in [Goroutines -> 0 .. Lookups]
      <4>1. 0 \in 0 .. Lookups
        BY LookupsNat
      <4>2. QED
        BY <2>1, <4>1 DEF IInv, TypeOK
    <3>9. \A h \in Goroutines : asked'[h] < Lookups => pc'[h] = "indexing" /\ todo'[h] # <<>>
      BY <1>1, <2>1, <2>2 DEF IInv, TypeOK, IndexType
    <3>10. QED
      BY <1>1, <1>2, <2>1, <3>6, <3>7, <3>8, <3>9 DEF IInv, TypeOK
  <2>5. PlaceFits'
    BY <1>1, <1>2, <2>2 DEF IInv, PlaceFits
  <2>6. EntryAtHand'
    BY <1>1, <2>1, <2>2, <2>3 DEF IInv, EntryAtHand
  <2>7. KnowsWhatIsFound'
    <3>1. ASSUME NEW h \in Goroutines, alone'[h], h # g, NEW n \in DOMAIN index'[h]
          PROVE  index'[h][n].kinds = Found(index'[h][n].type, Progress(h, n)')
      <4>1. Progress(h, n)' = Progress(h, n)
        BY <2>1, <2>2, <3>1 DEF Progress
      <4>2. QED
        BY <1>2, <2>2, <3>1, <4>1 DEF IInv, KnowsWhatIsFound
    <3>2. ASSUME alone'[g], NEW n \in DOMAIN index[g]
          PROVE  index'[g][n].kinds = Found(index'[g][n].type, Progress(g, n)')
      <4>1. Progress(g, n)' = Lookups /\ Progress(g, n) = Lookups
        BY <1>1, <1>6, <2>1 DEF Progress
      <4>2. QED
        BY <1>2, <2>2, <2>3, <3>2, <4>1 DEF IInv, KnowsWhatIsFound
    <3>3. ASSUME NEW n, n = n0 PROVE Progress(g, n)' = 0
      BY <1>1, <2>1, <2>2, <3>3, LookupsNat DEF Progress
    <3>4. ASSUME NEW n, n = n0
          PROVE  index'[g][n].kinds = Found(index'[g][n].type, Progress(g, n)')
      <4>1. index'[g][n].type = t /\ index'[g][n].kinds = {}
        BY <2>2, <2>3, <3>4
      <4>2. Progress(g, n)' = 0
        BY <3>3, <3>4
      <4>3. Found(t, 0) = {}
        BY <1>1, FoundNone
      <4>4. QED
        BY <4>1, <4>2, <4>3
    <3>5. ASSUME NEW h \in Goroutines, alone'[h], NEW n \in DOMAIN index'[h]
          PROVE  index'[h][n].kinds = Found(index'[h][n].type, Progress(h, n)')
      <4>1. CASE h # g
        BY <3>1, <3>5, <4>1
      <4>2. CASE h = g /\ n \in DOMAIN index[g]
        BY <3>2, <3>5, <4>2 DEF Progress
      <4>3. CASE h = g /\ n = n0
        BY <3>4, <4>3 DEF Progress
      <4>4. h = g => n \in DOMAIN index[g] \cup {n0}
        BY <2>2, <2>3, <3>5
      <4>5. QED
        BY <4>1, <4>2, <4>3, <4>4
    <3>6. QED
      BY <1>4, <3>5 DEF KnowsWhatIsFound
  <2>8. QED
    BY <1>3, <2>4, <2>5, <2>6, <2>7 DEF IInv
<1>7. QED
  BY <1>5, <1>6

\* One lookup is made: for a call that is alone it finds what there is.
LEMMA AskInv ==
  ASSUME IInv, NEW g \in Goroutines, Ask(g)
  PROVE  IInv'
<1> DEFINE t == Head(todo[g])
           n0 == Name[t]
           a == asked[g] + 1
           key == Lookup(t, a)
<1>1. /\ asked[g] < Lookups /\ asked[g] \in Nat /\ Lookups \in Nat
      /\ a \in 1 .. Lookups /\ a \in 0 .. Lookups /\ todo[g] # <<>>
  <2>1. asked[g] \in 0 .. Lookups /\ Lookups \in Nat
    BY LookupsNat, Asking DEF IInv
  <2>2. asked[g] < Lookups
    BY DEF Ask
  <2>3. todo[g] # <<>>
    BY <2>2 DEF IInv, TypeOK
  <2>4. QED
    BY <2>1, <2>2, <2>3
<1>2. /\ pc' = pc /\ pc[g] = "indexing" /\ call[g].op = "unmarshal"
      /\ t \in Types /\ n0 \in Names /\ Tail(todo[g]) \in Seq(Types) /\ Elements[t] \in Seq(Types)
  BY <1>1, Indexing DEF Ask
<1>3. key \in Keys /\ key.kind \in Registries
  BY <1>1, <1>2, LookupKey
<1>4. n0 \in DOMAIN index[g] /\ index[g][n0].type = t
  BY <1>1 DEF IInv, EntryAtHand
<1>5. UNCHANGED <<createdTypeIndexer, custom, call, document, outcome, used, alone>>
  BY DEF Ask
<1>6. raced' \subseteq Goroutines /\ AloneIsSafe'
  BY <1>5, RaceIsSafe DEF Ask
<1>7. PICK found \in Finds(key) :
          index' = [index EXCEPT ![g][n0].kinds = @ \cup (IF found THEN {key.kind} ELSE {})]
  BY DEF Ask
<1> DEFINE more == IF found THEN {key.kind} ELSE {}
<1>8. /\ \A h \in Goroutines : h # g => index'[h] = index[h]
      /\ index'[g] = [index[g] EXCEPT ![n0].kinds = @ \cup more]
  BY <1>7 DEF IInv, TypeOK
<1>9. /\ DOMAIN index[g] \in SUBSET Names
      /\ \A n \in DOMAIN index[g] : index[g][n] \in Entry /\ Name[index[g][n].type] = n
  BY IndexEntries DEF IInv
<1>10. /\ DOMAIN index'[g] = DOMAIN index[g]
       /\ \A n \in DOMAIN index[g] : n # n0 => index'[g][n] = index[g][n]
       /\ index'[g][n0] = [type |-> t, kinds |-> index[g][n0].kinds \cup more]
  <2>1. index'[g][n0] = [index[g][n0] EXCEPT !.kinds = index[g][n0].kinds \cup more]
    BY <1>4, <1>8
  <2>2. index'[g][n0] = [type |-> t, kinds |-> index[g][n0].kinds \cup more]
    BY <1>4, <1>9, <2>1 DEF Entry
  <2>3. QED
    BY <1>8, <2>2
<1>11. /\ asked' = [asked EXCEPT ![g] = a]
       /\ todo' = [todo EXCEPT ![g] = IF a = Lookups THEN Elements[t] \o Tail(todo[g]) ELSE todo[g]]
  BY DEF IInv, TypeOK, Ask
<1>12. /\ asked'[g] = a /\ \A h \in Goroutines : h # g => asked'[h] = asked[h]
       /\ a < Lookups => todo'[g] = todo[g]
       /\ \A h \in Goroutines : h # g => todo'[h] = todo[h]
  <2>1. a < Lookups => a # Lookups
    BY <1>1
  <2>2. DOMAIN asked = Goroutines /\ DOMAIN todo = Goroutines
    BY DEF IInv, TypeOK
  <2>3. QED
    BY <1>11, <2>1, <2>2
<1>13. TypeOK'
  <2>1. index'[g][n0] \in Entry /\ Name[index'[g][n0].type] = n0
    BY <1>2, <1>3, <1>4, <1>9, <1>10 DEF Entry
  <2>2. \A n \in DOMAIN index[g] : index'[g][n] \in Entry /\ Name[index'[g][n].type] = n
    BY <1>9, <1>10, <2>1
  <2>3. index'[g] \in [DOMAIN index[g] -> Entry]
    BY <1>8, <1>10, <2>2
  <2>4. index'[g] \in UNION {[N -> Entry] : N \in SUBSET Names}
    BY <1>9, <2>3
  <2>5. index' = [index EXCEPT ![g] = index'[g]]
    BY <1>7 DEF IInv, TypeOK
  <2>6. index' \in [Goroutines -> UNION {[N -> Entry] : N \in SUBSET Names}]
    BY <2>4, <2>5 DEF IInv, TypeOK
  <2>7. \A h \in Goroutines : \A n \in DOMAIN index'[h] : Name[index'[h][n].type] = n
    BY <1>8, <1>10, <2>2 DEF IInv, TypeOK
  <2>8. todo' \in [Goroutines -> Seq(Types)]
    <3>1. Elements[t] \o Tail(todo[g]) \in Seq(Types)
      BY <1>2
    <3>2. QED
      BY <1>11, <3>1 DEF IInv, TypeOK
  <2>9. asked' \in [Goroutines -> 0 .. Lookups]
    BY <1>1, <1>11 DEF IInv, TypeOK
  <2>10. \A h \in Goroutines : asked'[h] < Lookups => pc'[h] = "indexing" /\ todo'[h] # <<>>
    BY <1>1, <1>2, <1>12 DEF IInv, TypeOK
  <2>11. QED
    BY <1>2, <1>5, <1>6, <2>6, <2>7, <2>8, <2>9, <2>10 DEF IInv, TypeOK
<1>14. PlaceFits'
  BY <1>2, <1>5, <1>8 DEF IInv, PlaceFits
<1>15. AloneEndsRegistration' /\ FunctionsAreThere'
  BY <1>2, <1>5 DEF IInv, AloneEndsRegistration, Registering, FunctionsAreThere
<1>16. EntryAtHand'
  <2>1. a < Lookups => n0 \in DOMAIN index'[g] /\ index'[g][n0].type = t
    BY <1>4, <1>10
  <2>2. ASSUME NEW h \in Goroutines, h # g, asked'[h] < Lookups
        PROVE  /\ Name[Head(todo'[h])] \in DOMAIN index'[h]
               /\ index'[h][Name[Head(todo'[h])]].type = Head(todo'[h])
    BY <1>8, <1>12, <2>2 DEF IInv, EntryAtHand
  <2>3. asked'[g] < Lookups => todo'[g] = todo[g]
    BY <1>12
  <2>4. QED
    BY <1>12, <2>1, <2>2, <2>3 DEF EntryAtHand
<1>17. KnowsWhatIsFound'
  <2>1. \A u, n : Found(u, n)' = Found(u, n)
    BY <1>5 DEF Found
  <2>2. ASSUME NEW h \in Goroutines, alone'[h], h # g, NEW n \in DOMAIN index'[h]
        PROVE  index'[h][n].kinds = Found(index'[h][n].type, Progress(h, n)')
    <3>1. Progress(h, n)' = Progress(h, n)
      BY <1>12, <2>2 DEF Progress
    <3>2. QED
      BY <1>5, <1>8, <2>2, <3>1 DEF IInv, KnowsWhatIsFound
  <2>3. ASSUME alone'[g], NEW n \in DOMAIN index[g], n # n0
        PROVE  index'[g][n].kinds = Found(index'[g][n].type, Progress(g, n)')
    <3>1. Progress(g, n)' = Lookups /\ Progress(g, n) = Lookups
      BY <1>12, <2>3 DEF Progress
    <3>2. QED
      BY <1>5, <1>10, <2>3, <3>1 DEF IInv, KnowsWhatIsFound
  <2>4. ASSUME alone'[g], NEW n, n = n0
        PROVE  index'[g][n].kinds = Found(index'[g][n].type, Progress(g, n)')
    <3>1. Writers(key.kind) = {}
      BY <1>5, <2>4, NobodyWrites
    <3>2. found = (key \in custom)
      BY <3>1 DEF Finds
    <3>3. Progress(g, n)' = a /\ Progress(g, n) = asked[g]
      BY <1>1, <1>12, <2>4 DEF Progress
    <3>4. index[g][n0].kinds = Found(t, asked[g])
      BY <1>4, <1>5, <2>4, <3>3 DEF IInv, KnowsWhatIsFound
    <3>5. Found(t, a) = Found(t, asked[g]) \cup (IF key \in custom THEN {key.kind} ELSE {})
      BY <1>1, <1>2, FoundOneMore
    <3>6. more = IF key \in custom THEN {key.kind} ELSE {}
      BY <3>2
    <3>7. index'[g][n0].type = t /\ index'[g][n0].kinds = Found(t, a)
      BY <1>10, <3>4, <3>5, <3>6
    <3>8. QED
      BY <2>4, <3>3, <3>7
  <2>5. ASSUME NEW h \in Goroutines, alone'[h], NEW n \in DOMAIN index'[h]
        PROVE  index'[h][n].kinds = Found(index'[h][n].type, Progress(h, n)')
    <3>1. CASE h # g
      BY <2>2, <2>5, <3>1
    <3>2. CASE h = g /\ n # n0
      BY <1>10, <2>3, <2>5, <3>2 DEF Progress
    <3>3. CASE h = g /\ n = n0
      BY <2>4, <2>5, <3>3 DEF Progress
    <3>4. QED
      BY <3>1, <3>2, <3>3
  <2>6. QED
    BY <2>1, <2>5 DEF KnowsWhatIsFound
<1>18. QED
  BY <1>6, <1>13, <1>14, <1>15, <1>16, <1>17 DEF IInv

\* A call that is alone finds its function, unless what its index noted was for
\* another type of the name, or for the other side of a pointer.
LEMMA UnmarshalInv ==
  ASSUME IInv, NEW g \in Goroutines, NEW k \in Registries, NEW t \in Types, NEW p \in BOOLEAN,
         Unmarshal(g, k, t, p)
  PROVE  IInv'
<1> DEFINE entry == index[g][Name[t]]
<1>1. /\ asked[g] = Lookups /\ Name[t] \in DOMAIN index[g]
      /\ used' = [used EXCEPT ![g] = Key(k, t, p)]
      /\ UNCHANGED <<createdTypeIndexer, custom, call, document, index, todo, asked, alone>>
  BY DEF Unmarshal
<1>2. PICK o \in {"function", "nil function", "own", "foreign"} :
          /\ Ends(g, "indexing", o)
          /\ o = "nil function" => k \in entry.kinds /\ FALSE \in Finds(Key(k, t, p))
  <2>1. CASE k \in entry.kinds
    <3>1. PICK found \in Finds(Key(k, t, p)) :
              Ends(g, "indexing", IF found THEN "function" ELSE "nil function")
      BY <2>1 DEF Unmarshal
    <3>2. found \in BOOLEAN
      BY DEF Finds
    <3>3. CASE found = TRUE
      BY <3>1, <3>3
    <3>4. CASE found = FALSE
      BY <2>1, <3>1, <3>4
    <3>5. QED
      BY <3>2, <3>3, <3>4
  <2>2. CASE k \notin entry.kinds
    <3>1. Ends(g, "indexing", IF entry.type = t THEN "own" ELSE "foreign")
      BY <2>2 DEF Unmarshal
    <3>2. QED
      BY <3>1
  <2>3. QED
    BY <2>1, <2>2
<1>3. pc[g] = "indexing" /\ pc' = [pc EXCEPT ![g] = "done"] /\ outcome' = [outcome EXCEPT ![g] = o]
  BY <1>2 DEF Ends, Goes
<1>4. raced' \subseteq Goroutines /\ AloneIsSafe'
  <2>1. CASE Race(g, k)
    BY <1>1, <2>1, RaceIsSafe
  <2>2. CASE UNCHANGED raced
    BY <1>1, <2>2 DEF IInv, TypeOK, AloneIsSafe
  <2>3. QED
    BY <2>1, <2>2 DEF Unmarshal
<1>5. TypeOK'
  <2>1. Key(k, t, p) \in Keys
    BY DEF Key, Keys
  <2>2. used' \in [Goroutines -> Keys \cup {NoCall}]
    BY <1>1, <2>1 DEF IInv, TypeOK
  <2>3. \A h \in Goroutines : asked'[h] < Lookups => pc'[h] = "indexing" /\ todo'[h] # <<>>
    <3>1. ~(asked[g] < Lookups)
      BY <1>1, Asking DEF IInv
    <3>2. QED
      BY <1>1, <1>3, <3>1 DEF IInv, TypeOK
  <2>4. QED
    BY <1>1, <1>3, <1>4, <2>2, <2>3 DEF IInv, TypeOK
<1>6. PlaceFits'
  BY <1>1, <1>3, Places DEF IInv, PlaceFits
<1>7. AloneEndsRegistration'
  BY <1>1, <1>3, Places DEF IInv, AloneEndsRegistration, Registering
<1>8. EntryAtHand' /\ KnowsWhatIsFound'
  BY <1>1, LookupsKept
<1>9. FunctionsAreThere'
  <2>1. ASSUME NEW h \in Goroutines, h # g
        PROVE  used'[h] = used[h] /\ outcome'[h] = outcome[h]
    BY <1>1, <1>3, <2>1 DEF IInv, TypeOK
  <2>2. ASSUME alone[g], o = "nil function"
        PROVE  \E u \in Types, q \in BOOLEAN :
                   /\ Name[u] = Name[t]
                   /\ Key(k, u, q) \in custom \ {Key(k, t, p)}
    <3>1. Writers(k) = {}
      BY <2>2, NobodyWrites
    <3>2. Key(k, t, p) \notin custom
      BY <1>2, <2>2, <3>1 DEF Finds, Key
    <3>3. Progress(g, Name[t]) = Lookups
      BY <1>1, LookupsNat DEF Progress
    <3>4. entry.type \in Types /\ Name[entry.type] = Name[t]
      BY <1>1, IndexEntries DEF IInv, Entry
    <3>5. entry.kinds = KindsOf(entry.type)
      BY <1>1, <2>2, <3>3, <3>4, FoundAll DEF IInv, KnowsWhatIsFound
    <3>6. PICK q \in BOOLEAN : Key(k, entry.type, q) \in custom
      BY <1>2, <2>2, <3>5 DEF KindsOf
    <3>7. QED
      BY <3>2, <3>4, <3>6
  <2>3. used'[g] = Key(k, t, p) /\ outcome'[g] = o
    BY <1>1, <1>3 DEF IInv, TypeOK
  <2>4. Key(k, t, p).kind = k /\ Key(k, t, p).type = t
    BY DEF Key
  <2>5. ASSUME NEW h \in Goroutines, alone[h], outcome'[h] = "nil function"
        PROVE  \E u \in Types, q \in BOOLEAN :
                   /\ Name[u] = Name[used'[h].type]
                   /\ Key(used'[h].kind, u, q) \in custom \ {used'[h]}
    <3>1. CASE h = g
      BY <2>2, <2>3, <2>4, <2>5, <3>1
    <3>2. CASE h # g
      BY <2>1, <2>5, <3>2 DEF IInv, FunctionsAreThere
    <3>3. QED
      BY <3>1, <3>2
  <2>6. QED
    BY <1>1, <2>5 DEF FunctionsAreThere
<1>10. QED
  BY <1>4, <1>5, <1>6, <1>7, <1>8, <1>9 DEF IInv

----------------------------------------------------------------------------
(* Every step, and every behaviour.                                        *)

\* No call has begun: nothing is registered, indexed or raced.
LEMMA InitIInv == Init => IInv
<1> SUFFICES ASSUME Init PROVE IInv
  OBVIOUS
<1>1. NoEntries \in [{} -> Entry]
  BY DEF NoEntries
<1>2. NoEntries \in UNION {[N -> Entry] : N \in SUBSET Names}
  BY <1>1
<1>3. index \in [Goroutines -> UNION {[N -> Entry] : N \in SUBSET Names}]
  BY <1>2 DEF Init
<1>4. \A g \in Goroutines : DOMAIN index[g] = {} /\ asked[g] = Lookups /\ ~(asked[g] < Lookups)
  BY LookupsNat DEF Init, NoEntries
<1>5. asked \in [Goroutines -> 0 .. Lookups] /\ todo \in [Goroutines -> Seq(Types)]
  BY LookupsNat DEF Init
<1>6. TypeOK
  BY <1>3, <1>4, <1>5 DEF Init, TypeOK
<1>7. PlaceFits /\ AloneEndsRegistration /\ EntryAtHand /\ KnowsWhatIsFound
  BY <1>4 DEF Init, PlaceFits, AloneEndsRegistration, EntryAtHand, KnowsWhatIsFound
<1>8. AloneIsSafe /\ FunctionsAreThere
  BY DEF Init, AloneIsSafe, FunctionsAreThere
<1>9. QED
  BY <1>6, <1>7, <1>8 DEF IInv

\* Every step keeps the invariant.
LEMMA NextIInv == IInv /\ [Next]_vars => IInv'
<1> SUFFICES ASSUME IInv, [Next]_vars PROVE IInv'
  OBVIOUS
<1>1. ASSUME NEW g \in Goroutines, Register(g) PROVE IInv'
  BY <1>1, AddCustomInv, StoreInv, StoredInv DEF Register
<1>2. ASSUME NEW g \in Goroutines, raced = {}, UnmarshalStep(g) PROVE IInv'
  <2>1. ASSUME NEW k \in Registries, NEW t \in Types, NEW p \in BOOLEAN, Unmarshal(g, k, t, p)
        PROVE  IInv'
    BY <2>1, UnmarshalInv
  <2>2. QED
    BY <1>2, <2>1, ParseInv, NewTypeIndexerInv, IndexTypeInv, AskInv DEF UnmarshalStep
<1>3. CASE UNCHANGED vars
  <2>1. UNCHANGED <<createdTypeIndexer, custom, call, pc, document, index, todo, asked, outcome,
                    used, alone, raced>>
    BY <1>3 DEF vars
  <2>2. EntryAtHand' /\ KnowsWhatIsFound'
    BY <2>1, LookupsKept
  <2>3. AloneIsSafe' /\ FunctionsAreThere' /\ AloneEndsRegistration' /\ PlaceFits'
    BY <2>1 DEF IInv, AloneIsSafe, FunctionsAreThere, AloneEndsRegistration, PlaceFits, Registering
  <2>4. TypeOK'
    BY <2>1 DEF IInv, TypeOK
  <2>5. QED
    BY <2>2, <2>3, <2>4 DEF IInv
<1>4. QED
  BY <1>1, <1>2, <1>3 DEF Next, Finished

\* The invariant holds throughout all calls.
LEMMA SpecIInv == Spec => []IInv
BY InitIInv, NextIInv, PTL DEF Spec

\* What the calls keep, and what their steps expect of it, is well typed, whatever
\* the types and their names, the registries and the programs (typeindex.go).
THEOREM CallsTyped == Spec => []TypeOK
<1>1. IInv => TypeOK
  BY DEF IInv
<1>2. QED
  BY <1>1, SpecIInv, PTL

\* assertNoIndexers does what it is for: a call that began to index when no
\* registration was under way sees the registries as they are for ever after
\* (unmarshal.go:37).
THEOREM IndexesStayTrue == Spec => []IndexesAgree
<1>1. ASSUME IInv, NEW g \in Goroutines, alone[g], asked[g] = Lookups, NEW n \in DOMAIN index[g]
      PROVE  index[g][n].kinds = KindsOf(index[g][n].type)
  <2>1. Progress(g, n) = Lookups
    BY <1>1, LookupsNat DEF Progress
  <2>2. index[g][n].type \in Types
    BY <1>1, IndexEntries DEF IInv, Entry
  <2>3. QED
    BY <1>1, <2>1, <2>2, FoundAll DEF IInv, KnowsWhatIsFound
<1>2. IInv => IndexesAgree
  BY <1>1 DEF IndexesAgree
<1>3. QED
  BY <1>2, SpecIInv, PTL

\* No number of calls that began after the registrations can race, with one that is
\* too late or with each other: the maps need no lock then (unmarshal.go:52).
THEOREM CallsAfterRegistrationAreSafe == Spec => []AloneIsSafe
<1>1. IInv => AloneIsSafe
  BY DEF IInv
<1>2. QED
  BY <1>1, SpecIInv, PTL

\* Such a call misses a function that its index promised only for one of the two
\* reasons that FunctionsAreThere names (unmarshal.go:249, 269, 289).
THEOREM MissingFunctionsAreNamed == Spec => []FunctionsAreThere
<1>1. IInv => FunctionsAreThere
  BY DEF IInv
<1>2. QED
  BY <1>1, SpecIInv, PTL

----------------------------------------------------------------------------
(* What a text is parsed as.                                               *)

\* With a version asked for, an error of the first read comes before everything.
LEMMA AskedFor ==
  ASSUME NEW input \in Inputs, NEW v \in Versions
  PROVE  parse(NewBuffer(input, v), input) =
             IF input.fails = "first" THEN Failed("read")
             ELSE IF Accepts(input, Arrives(input), v) THEN Document(Arrives(input), v)
             ELSE Failed("parse")
<1> DEFINE s == NewBuffer(input, v)
<1>1. /\ s.version = v /\ s.part = Arrives(input) /\ v # "Auto"
      /\ s.err = IF input.fails = "first" THEN "read" ELSE "nil"
  BY DEF NewBuffer, Scanner, Versions
<1>2. parse(s, input) = parseOne(s, input).result
  BY <1>1 DEF parse
<1>3. QED
  BY <1>1, <1>2 DEF parseOne

\* What an attempt leaves to the other: nothing has been consumed of a closed scanner.
LEMMA Attempt ==
  ASSUME NEW input, NEW part, NEW v
  PROVE  /\ parseOne(NewSlice(part, v), input).result =
                IF Accepts(input, part, v) THEN Document(part, v) ELSE Failed("parse")
         /\ Offset(parseOne(NewSlice(part, v), input).scanner) = 0
<1>1. NewSlice(part, v) = [part |-> part, version |-> v, err |-> "nil", closed |-> FALSE]
  BY DEF NewSlice, Scanner
<1>2. parseOne(NewSlice(part, v), input).scanner.closed = TRUE
  BY <1>1 DEF parseOne, Close
<1>3. Offset(parseOne(NewSlice(part, v), input).scanner) = 0
  BY <1>2 DEF Offset
<1>4. QED
  BY <1>1, <1>3 DEF parseOne

\* Automatic mode makes both attempts, with what has arrived.
LEMMA Automatic ==
  ASSUME NEW input \in Inputs
  PROVE  parse(NewBuffer(input, "Auto"), input) =
             IF Accepts(input, Arrives(input), "V2") THEN Document(Arrives(input), "V2")
             ELSE IF Accepts(input, Arrives(input), "V1") THEN Document(Arrives(input), "V1")
             ELSE Failed("parse")
<1> DEFINE part == Arrives(input)
           v2 == parseOne(NewSlice(part, "V2"), input)
           v1 == parseOne(NewSlice(part, "V1"), input)
<1>1. parse(NewBuffer(input, "Auto"), input) = fallback(input, part)
  BY DEF parse, NewBuffer, Scanner, ReadAll
<1>2. fallback(input, part) = IF v2.result.err = "nil" THEN v2.result ELSE v1.result
  BY Attempt DEF fallback
<1>3. /\ v2.result = IF Accepts(input, part, "V2") THEN Document(part, "V2") ELSE Failed("parse")
      /\ v1.result = IF Accepts(input, part, "V1") THEN Document(part, "V1") ELSE Failed("parse")
  BY Attempt
<1>4. Document(part, "V2").err = "nil" /\ Failed("parse").err = "parse"
  BY DEF Document, Failed
<1>5. QED
  BY <1>1, <1>2, <1>3, <1>4

\* What a goroutine has parsed is its own input, in the version that it asked for.
ParsedAlone ==
    /\ document = [g \in Goroutines |-> document[g]]
    /\ \A g \in Goroutines : call[g].op = "unmarshal" /\ pc[g] # "begin" =>
           document[g] = parse(NewBuffer(call[g].input, call[g].version), call[g].input)

\* No step of one goroutine touches the document of another.
LEMMA SpecParsedAlone == Spec => [](IInv /\ ParsedAlone)
<1>1. Init => ParsedAlone
  BY DEF Init, ParsedAlone
<1>2. ASSUME IInv, ParsedAlone, [Next]_vars PROVE ParsedAlone'
  <2>1. ASSUME NEW g \in Goroutines, Parse(g) PROVE ParsedAlone'
    <3>1. /\ \A h \in Goroutines : h # g => pc'[h] = pc[h] /\ document'[h] = document[h]
          /\ document' = [h \in Goroutines |-> document'[h]] /\ call' = call
          /\ document'[g] = parse(NewBuffer(call[g].input, call[g].version), call[g].input)
      <4>1. /\ document' = [document EXCEPT ![g] =
                                parse(NewBuffer(call[g].input, call[g].version), call[g].input)]
            /\ call' = call
        BY <2>1 DEF Parse
      <4>2. \A h \in Goroutines : h # g => pc'[h] = pc[h]
        BY <1>2, <2>1, Places DEF Parse, Goes, Ends
      <4>3. DOMAIN document = Goroutines
        BY <1>2 DEF ParsedAlone
      <4>4. QED
        BY <4>1, <4>2, <4>3
    <3>2. QED
      BY <1>2, <3>1 DEF ParsedAlone
  <2>2. ASSUME UNCHANGED <<call, document>>,
               \A h \in Goroutines : call[h].op = "unmarshal" /\ pc'[h] # "begin" => pc[h] # "begin"
        PROVE  ParsedAlone'
    BY <1>2, <2>2 DEF ParsedAlone
  <2>3. ASSUME NEW g \in Goroutines, Register(g) PROVE ParsedAlone'
    <3>1. /\ UNCHANGED <<call, document>>
          /\ \A h \in Goroutines : call[h].op = "unmarshal" /\ pc'[h] # "begin" => pc[h] # "begin"
      BY <1>2, <2>3, Places DEF Register, AddCustom, Store, Stored, Goes, Ends
    <3>2. QED
      BY <2>2, <3>1
  <2>4. ASSUME NEW g \in Goroutines, NewTypeIndexer(g) \/ IndexType(g) \/ Ask(g) PROVE ParsedAlone'
    <3>1. /\ UNCHANGED <<call, document>>
          /\ \A h \in Goroutines : pc'[h] # "begin" => pc[h] # "begin"
      BY <1>2, <2>4, Places DEF NewTypeIndexer, IndexType, Ask, Goes
    <3>2. QED
      BY <2>2, <3>1
  <2>5. ASSUME NEW g \in Goroutines, NEW k \in Registries, NEW t \in Types, NEW p \in BOOLEAN,
               Unmarshal(g, k, t, p)
        PROVE  ParsedAlone'
    <3>1. pc[g] = "indexing" /\ pc' = [pc EXCEPT ![g] = "done"] /\ UNCHANGED <<call, document>>
      BY <2>5 DEF Unmarshal, Ends, Goes
    <3>2. \A h \in Goroutines : pc'[h] # "begin" => pc[h] # "begin"
      BY <1>2, <3>1, Places
    <3>3. QED
      BY <2>2, <3>1, <3>2
  <2>6. CASE UNCHANGED vars
    BY <1>2, <2>6 DEF vars, ParsedAlone
  <2>7. QED
    BY <1>2, <2>1, <2>3, <2>4, <2>5, <2>6 DEF Next, UnmarshalStep, Finished
<1>3. QED
  BY <1>1, <1>2, SpecIInv, PTL DEF Spec

\* The error of a reader is reported if it comes with the first read and a version was
\* asked for, and in no other case, whatever else goes on (scanner.go:936).
THEOREM ReportedIsFirstRead == Spec => []FirstReadReported
<1>1. ASSUME IInv, ParsedAlone, NEW g \in Goroutines, call[g].op = "unmarshal", pc[g] # "begin"
      PROVE  document[g].err = "read" <=> call[g].input.fails = "first" /\ call[g].version # "Auto"
  <2> DEFINE input == call[g].input
             v == call[g].version
  <2>1. input \in Inputs /\ v \in Versions \cup {"Auto"}
    BY <1>1, CallFields DEF IInv
  <2>2. document[g] = parse(NewBuffer(input, v), input)
    BY <1>1 DEF ParsedAlone
  <2>3. /\ Failed("read").err = "read" /\ Failed("parse").err = "parse"
        /\ \A part, u : Document(part, u).err = "nil"
    BY DEF Failed, Document
  <2>4. CASE v = "Auto"
    BY <2>1, <2>2, <2>3, <2>4, Automatic
  <2>5. CASE v \in Versions
    BY <2>1, <2>2, <2>3, <2>5, AskedFor DEF Versions
  <2>6. QED
    BY <2>1, <2>4, <2>5
<1>2. IInv /\ ParsedAlone => FirstReadReported
  BY <1>1 DEF FirstReadReported
<1>3. QED
  BY <1>2, SpecParsedAlone, PTL

\* Automatic mode accepts what either version accepts, and takes v2 for it where it
\* can: the two attempts see the same text, and the first leaves no trace (kdl.go:35).
THEOREM AutoIsEither == Spec => []AutoAcceptsEither
<1>1. ASSUME IInv, ParsedAlone, NEW g \in Goroutines,
             call[g].op = "unmarshal", pc[g] # "begin", call[g].version = "Auto"
      PROVE  LET part == Arrives(call[g].input)
                 accepting == {v \in Versions : Accepts(call[g].input, part, v)}
             IN  /\ document[g].err = "nil" <=> accepting # {}
                 /\ accepting # {} => document[g].part = part /\ document[g].version \in accepting
                 /\ "V2" \in accepting => document[g].version = "V2"
  <2> DEFINE input == call[g].input
             part == Arrives(input)
             accepting == {v \in Versions : Accepts(input, part, v)}
  <2>1. input \in Inputs
    BY <1>1, CallFields DEF IInv
  <2>2. document[g] = IF Accepts(input, part, "V2") THEN Document(part, "V2")
                      ELSE IF Accepts(input, part, "V1") THEN Document(part, "V1")
                      ELSE Failed("parse")
    BY <1>1, <2>1, Automatic DEF ParsedAlone
  <2>3. /\ Failed("parse").err = "parse"
        /\ \A u : /\ Document(part, u).err = "nil" /\ Document(part, u).part = part
                  /\ Document(part, u).version = u
    BY DEF Failed, Document
  <2>4. /\ "V2" \in accepting <=> Accepts(input, part, "V2")
        /\ "V1" \in accepting <=> Accepts(input, part, "V1")
        /\ accepting \subseteq {"V1", "V2"}
    BY DEF Versions
  <2> HIDE DEF part, accepting
  <2>5. /\ document[g].err = "nil" <=> accepting # {}
        /\ accepting # {} => document[g].part = part /\ document[g].version \in accepting
        /\ "V2" \in accepting => document[g].version = "V2"
    <3>1. CASE Accepts(input, part, "V2")
      BY <2>2, <2>3, <2>4, <3>1
    <3>2. CASE ~Accepts(input, part, "V2") /\ Accepts(input, part, "V1")
      BY <2>2, <2>3, <2>4, <3>2
    <3>3. CASE ~Accepts(input, part, "V2") /\ ~Accepts(input, part, "V1")
      BY <2>2, <2>3, <2>4, <3>3
    <3>4. QED
      BY <3>1, <3>2, <3>3
  <2>6. QED
    BY <2>5 DEF part, accepting
<1>2. IInv /\ ParsedAlone => AutoAcceptsEither
  BY <1>1 DEF AutoAcceptsEither
<1>3. QED
  BY <1>2, SpecParsedAlone, PTL
============================================================================
