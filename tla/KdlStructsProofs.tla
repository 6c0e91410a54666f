-------------------------- MODULE KdlStructsProofs -------------------------
(***************************************************************************)
(* What unmarshaling keeps of a node and where it panics, for every type   *)
(* and every node, and that a value comes back from the node that it was   *)
(* marshaled to.                                                           *)
(***************************************************************************)
EXTENDS KdlStructs, KdlSequenceProofs, FiniteSetTheorems

----------------------------------------------------------------------------
(* The elements of a sequence that are in a set.                           *)

\* The values that Those is made of, one element after another.
Selections(s, T, S) ==
    {f \in [0 .. Len(s) -> Seq(T \cap S)] :
        /\ f[0] = <<>>
        /\ \A n \in 1 .. Len(s) : f[n] = IF s[n] \in S THEN Append(f[n - 1], s[n]) ELSE f[n - 1]
        /\ Those(s, S) = f[Len(s)]}

LEMMA ThoseSteps ==
  ASSUME NEW T, NEW s \in Seq(T), NEW S
  PROVE  Selections(s, T, S) # {}
<1> DEFINE N == Len(s)
           Q == Seq(T \cap S)
           step == [n \in 1 .. N |-> [q \in Q |-> IF s[n] \in S THEN Append(q, s[n]) ELSE q]]
           those[n \in 0 .. N] ==
               CASE n = 0 -> <<>>
                 [] n > 0 /\ s[n] \in S -> Append(those[n - 1], s[n])
                 [] n > 0 /\ s[n] \notin S -> those[n - 1]
           B == {n \in Nat : n <= N => those[n] \in Q}
<1>1. N \in Nat /\ <<>> \in Q /\ \A n \in 1 .. N : s[n] \in T
  BY EmptySeq
<1>2. step \in Steps(N, Q)
  <2>1. \A n \in 1 .. N, q \in Q : s[n] \in S => Append(q, s[n]) \in Q
    BY <1>1, AppendProperties
  <2> HIDE DEF N, Q
  <2> QED
    BY <2>1 DEF Steps
<1> HIDE DEF N
<1>3. PICK g \in [0 .. N -> Q] : g[0] = <<>> /\ \A n \in 1 .. N : g[n] = step[n][g[n - 1]]
  <2> HIDE DEF step, Q
  <2>1. Results(N, Q, <<>>, step) # {}
    BY <1>1, <1>2, Recursion
  <2> QED
    BY <2>1 DEF Results
<1> HIDE DEF Q
<1>4. ASSUME NEW n \in 0 .. N
      PROVE  g[n] = CASE n = 0 -> <<>>
                      [] n > 0 /\ s[n] \in S -> Append(g[n - 1], s[n])
                      [] n > 0 /\ s[n] \notin S -> g[n - 1]
  <2>1. CASE n = 0
    BY <1>1, <1>3, <2>1
  <2>2. CASE n # 0
    <3>1. n \in 1 .. N /\ n > 0 /\ n - 1 \in 0 .. N
      BY <1>1, <2>2
    <3>2. g[n - 1] \in Q /\ g[n] = step[n][g[n - 1]]
      BY <1>3, <3>1
    <3> QED
      BY <2>2, <3>1, <3>2
  <2> QED
    BY <2>1, <2>2
<1>5. g = [n \in 0 .. N |-> CASE n = 0 -> <<>>
                      [] n > 0 /\ s[n] \in S -> Append(g[n - 1], s[n])
                      [] n > 0 /\ s[n] \notin S -> g[n - 1]]
  BY <1>4
<1>6. those = [n \in 0 .. N |-> CASE n = 0 -> <<>>
                      [] n > 0 /\ s[n] \in S -> Append(those[n - 1], s[n])
                      [] n > 0 /\ s[n] \notin S -> those[n - 1]]
  BY <1>5
<1>7. those[0] = <<>> /\ \A n \in 1 .. N : those[n] = IF s[n] \in S THEN Append(those[n - 1], s[n]) ELSE those[n - 1]
  <2> HIDE DEF those
  <2>1. those[0] = <<>>
    BY <1>1, <1>6
  <2>2. ASSUME NEW n \in 1 .. N
        PROVE  those[n] = IF s[n] \in S THEN Append(those[n - 1], s[n]) ELSE those[n - 1]
    <3>1. n \in 0 .. N /\ n > 0 /\ n # 0
      BY <1>1
    <3> QED
      BY <1>6, <3>1
  <2> QED
    BY <2>1, <2>2
<1>8. ASSUME NEW n \in Nat, n \in B PROVE n + 1 \in B
  <2> HIDE DEF those
  <2>1. SUFFICES ASSUME n + 1 <= N PROVE those[n + 1] \in Q
    OBVIOUS
  <2>2. those[n] \in Q /\ s[n + 1] \in T
    BY <1>1, <1>8, <2>1
  <2>3. those[n + 1] = IF s[n + 1] \in S THEN Append(those[n], s[n + 1]) ELSE those[n]
    <3>1. n + 1 \in 1 .. N /\ (n + 1) - 1 = n
      BY <1>1, <2>1
    <3> QED
      BY <1>7, <3>1
  <2>4. s[n + 1] \in S => Append(those[n], s[n + 1]) \in Q
    BY <2>2, AppendProperties DEF Q
  <2> QED
    BY <2>2, <2>3, <2>4
<1>9. \A n \in 0 .. N : those[n] \in Q
  <2>1. 0 \in B
    BY <1>1, <1>7
  <2>2. Nat \subseteq B
    <3> HIDE DEF B
    <3> QED
      BY <1>8, <2>1, Induction
  <2> HIDE DEF those
  <2> QED
    BY <1>1, <2>2
<1>10. Those(s, S) = those[N]
  BY DEF Those, N
<1>11. those \in [0 .. N -> Q]
  <2> HIDE DEF those
  <2> QED
    BY <1>6, <1>9
<1> HIDE DEF those
<1> QED
  BY <1>7, <1>10, <1>11 DEF N, Q, Selections

LEMMA ThoseTyped ==
  ASSUME NEW T, NEW s \in Seq(T), NEW S
  PROVE  Those(s, S) \in Seq(T \cap S)
<1>1. PICK f \in Selections(s, T, S) : TRUE
  BY ThoseSteps
<1>2. Len(s) \in 0 .. Len(s)
  OBVIOUS
<1> QED
  BY <1>1, <1>2 DEF Selections

\* The numbers that are in a set come in their order, each of them once.
LEMMA ThoseNumbers ==
  ASSUME NEW n \in Nat, NEW S
  PROVE  LET r == Those([i \in 1 .. n |-> i], S)
         IN  /\ r \in Seq((1 .. n) \cap S)
             /\ \A j, k \in 1 .. Len(r) : j < k => r[j] < r[k]
<1> DEFINE s == [i \in 1 .. n |-> i]
           T == 1 .. n
<1>1. s \in Seq(T) /\ Len(s) = n /\ \A i \in 1 .. n : s[i] = i
  OBVIOUS
<1> HIDE DEF s, T
<1>2. PICK f \in [0 .. n -> Seq(T \cap S)] :
            /\ f[0] = <<>>
            /\ \A k \in 1 .. n : f[k] = IF k \in S THEN Append(f[k - 1], k) ELSE f[k - 1]
            /\ Those(s, S) = f[n]
  <2>1. Selections(s, T, S) # {}
    BY <1>1, ThoseSteps
  <2> QED
    BY <1>1, <2>1 DEF Selections
<1> DEFINE Up(q, m) == /\ \A j \in 1 .. Len(q) : q[j] <= m
                       /\ \A j, k \in 1 .. Len(q) : j < k => q[j] < q[k]
           B == {m \in Nat : m <= n => Up(f[m], m)}
<1>3. 0 \in B
  BY <1>2
<1>4. ASSUME NEW m \in Nat, m \in B PROVE m + 1 \in B
  <2>1. SUFFICES ASSUME m + 1 <= n PROVE Up(f[m + 1], m + 1)
    OBVIOUS
  <2> DEFINE q == f[m]
  <2>2. Up(q, m) /\ q \in Seq(T \cap S) /\ m + 1 \in 1 .. n
    BY <1>2, <1>4, <2>1
  <2>3. f[m + 1] = IF m + 1 \in S THEN Append(q, m + 1) ELSE q
    BY <1>2, <2>2
  <2>4. Len(q) \in Nat /\ \A j \in 1 .. Len(q) : q[j] \in Nat
    <3>1. q \in Seq(T \cap S) /\ T \subseteq Nat
      BY <2>2 DEF T
    <3> DEFINE W == T \cap S
    <3>2. q \in Seq(W) /\ W \subseteq Nat
      BY <3>1
    <3> HIDE DEF q, W
    <3>3. Len(q) \in Nat /\ \A j \in 1 .. Len(q) : q[j] \in W
      BY <3>2
    <3> QED
      BY <3>2, <3>3
  <2> HIDE DEF q, B, T
  <2>5. CASE m + 1 \in S
    <3>1. /\ Len(Append(q, m + 1)) = Len(q) + 1
          /\ \A j \in 1 .. Len(q) : Append(q, m + 1)[j] = q[j]
          /\ Append(q, m + 1)[Len(q) + 1] = m + 1
      BY <2>2
    <3> DEFINE r == Append(q, m + 1)
    <3>2. f[m + 1] = r
      BY <2>3, <2>5
    <3> HIDE DEF r
    <3>3. \A j \in 1 .. Len(r) : r[j] <= m + 1
      BY <2>2, <2>4, <3>1 DEF r
    <3>4. ASSUME NEW j \in 1 .. Len(r), NEW k \in 1 .. Len(r), j < k PROVE r[j] < r[k]
      <4>1. Len(r) = Len(q) + 1 /\ j \in 1 .. Len(q) /\ r[j] = q[j] /\ q[j] \in Nat
        BY <2>4, <3>1, <3>4 DEF r
      <4>2. CASE k \in 1 .. Len(q)
        BY <2>2, <3>1, <3>4, <4>1, <4>2 DEF r
      <4>3. CASE k = Len(q) + 1
        <5>1. r[k] = m + 1 /\ q[j] <= m
          BY <2>2, <3>1, <4>1, <4>3 DEF r
        <5> QED
          BY <4>1, <5>1
      <4> QED
        BY <2>4, <4>1, <4>2, <4>3
    <3> QED
      BY <3>2, <3>3, <3>4
  <2>6. CASE m + 1 \notin S
    BY <2>2, <2>3, <2>4, <2>6
  <2> QED
    BY <2>5, <2>6
<1>5. n \in B
  <2> HIDE DEF B
  <2> QED
    BY <1>3, <1>4, Induction
<1>6. n \in 0 .. n
  OBVIOUS
<1>7. Those(s, S) \in Seq(T \cap S) /\ Up(Those(s, S), n)
  <2> HIDE DEF Up
  <2> QED
    BY <1>2, <1>5, <1>6
<1> QED
  BY <1>7 DEF s, T

----------------------------------------------------------------------------
(* The fields of a type.                                                   *)

\* The fields with an attribute are each listed once.
LEMMA Attributed ==
  ASSUME NEW type, IsType(type), NEW attr
  PROVE  LET r == StructAttrs(type, attr)
         IN  /\ r \in Seq(DOMAIN type) /\ Len(r) \in Nat /\ DOMAIN r = 1 .. Len(r)
             /\ \A k \in 1 .. Len(r) : attr \in type[r[k]].attrs
             /\ \A j, k \in 1 .. Len(r) : r[j] = r[k] => j = k
             /\ r # <<>> => Head(r) = r[1] /\ 1 \in 1 .. Len(r)
             /\ r = <<>> <=> Len(r) = 0
<1> DEFINE n == Len(type)
           S == {i \in DOMAIN type : attr \in type[i].attrs}
           r == Those([i \in 1 .. n |-> i], S)
<1>1. n \in Nat /\ DOMAIN type = 1 .. n
  BY DEF IsType, IsSequence
<1>2. StructAttrs(type, attr) = r
  BY <1>1 DEF StructAttrs
<1>3. S \subseteq 1 .. n /\ \A i \in S : attr \in type[i].attrs
  BY <1>1
<1> HIDE DEF S, n
<1>4. r \in Seq((1 .. n) \cap S) /\ \A j, k \in 1 .. Len(r) : j < k => r[j] < r[k]
  BY <1>1, ThoseNumbers
<1> HIDE DEF r
<1>5. r \in Seq(1 .. n) /\ Len(r) \in Nat /\ DOMAIN r = 1 .. Len(r) /\ \A k \in 1 .. Len(r) : r[k] \in S /\ r[k] \in Nat
  <2> DEFINE T == 1 .. n
  <2>1. r \in Seq(T \cap S) /\ T \subseteq Nat
    BY <1>1, <1>4
  <2> HIDE DEF T
  <2> QED
    <3>1. /\ r \in Seq(T) /\ Len(r) \in Nat /\ DOMAIN r = 1 .. Len(r)
          /\ \A k \in 1 .. Len(r) : r[k] \in S /\ r[k] \in Nat
      <4> DEFINE W == T \cap S
      <4>1. r \in Seq(W) /\ W \subseteq T /\ W \subseteq S /\ W \subseteq Nat
        BY <2>1
      <4> HIDE DEF W
      <4>2. Len(r) \in Nat /\ DOMAIN r = 1 .. Len(r) /\ \A k \in 1 .. Len(r) : r[k] \in W
        BY <4>1
      <4>3. r \in Seq(T)
        BY <4>1, Elements
      <4> QED
        BY <4>1, <4>2, <4>3
    <3> QED
      BY <3>1 DEF T
<1>6. \A j, k \in 1 .. Len(r) : r[j] = r[k] => j = k
  BY <1>4, <1>5
<1>7. (r # <<>> => Head(r) = r[1] /\ 1 \in 1 .. Len(r)) /\ (r = <<>> <=> Len(r) = 0)
  BY <1>5
<1> QED
  BY <1>1, <1>2, <1>3, <1>5, <1>6, <1>7

\* There is at most one field for a name, and it is one of the type.
LEMMA Named ==
  ASSUME NEW type, IsType(type), NEW cs, NEW name
  PROVE  LET found == StructFields(type, cs, name)
             named == {i \in DOMAIN type : fieldTagOrName(type[i], cs) = name}
         IN  /\ \A i \in found : i \in named /\ found = {i}
             /\ found = {} <=> named = {}
             /\ named # {} => found = {Max(named)} /\ Max(named) \in named
<1> DEFINE named == {i \in DOMAIN type : fieldTagOrName(type[i], cs) = name}
<1>1. Len(type) \in Nat /\ named \in SUBSET (1 .. Len(type))
  BY DEF IsType, IsSequence
<1>2. StructFields(type, cs, name) = IF named = {} THEN {} ELSE {Max(named)}
  BY DEF StructFields
<1> HIDE DEF named
<1>3. named # {} => Max(named) \in named
  BY <1>1, Largest
<1> QED
  BY <1>2, <1>3 DEF named

----------------------------------------------------------------------------
(* What marshaling makes is a node.                                        *)

\* A sequence that is one node behind another, as far as they are nodes.
AreNodes(s) == IsSequence(s) /\ \A k \in DOMAIN s : IsNode(s[k])

LEMMA Listed ==
  ASSUME NEW n \in Nat, NEW s, s = [i \in 1 .. n |-> s[i]]
  PROVE  IsSequence(s) /\ DOMAIN s = 1 .. n /\ Len(s) = n
BY DEF IsSequence, ToSet

LEMMA OneNode ==
  ASSUME NEW n, IsNode(n)
  PROVE  AreNodes(<<n>>)
BY DEF AreNodes, IsSequence, ToSet

LEMMA NoNodes == AreNodes(<<>>)
BY DEF AreNodes, IsSequence, ToSet

\* Lists of nodes, one behind another, are one.
LEMMA FlattenNodes ==
  ASSUME NEW q, IsSequence(q), \A k \in DOMAIN q : AreNodes(q[k])
  PROVE  AreNodes(FlattenSeq(q))
<1> DEFINE S == UNION {ToSet(q[k]) : k \in DOMAIN q}
           r == FlattenSeq(q)
<1>1. \A k \in DOMAIN q : q[k] \in Seq(S)
  <2>1. ASSUME NEW k \in DOMAIN q PROVE q[k] \in Seq(S)
    <3>1. q[k] \in Seq(ToSet(q[k])) /\ ToSet(q[k]) \subseteq S
      BY DEF AreNodes, IsSequence
    <3> HIDE DEF S
    <3> QED
      BY <3>1, Elements
  <2> QED
    BY <2>1
<1>2. \A n \in S : IsNode(n)
  BY DEF AreNodes, ToSet
<1> HIDE DEF S
<1>3. q \in Seq(Seq(S))
  <2>1. DOMAIN q = 1 .. Len(q) /\ Len(q) \in Nat /\ q \in Seq(ToSet(q))
    BY DEF IsSequence
  <2> QED
    BY <1>1, <2>1
<1>4. r \in Seq(S)
  BY <1>3, FlattenTyped
<1> HIDE DEF r
<1>5. r \in Seq(ToSet(r)) /\ \A k \in DOMAIN r : r[k] \in S
  BY <1>4, OwnElements, Elements
<1> QED
  BY <1>2, <1>5 DEF AreNodes, IsSequence, r

LEMMA JoinedNodes ==
  ASSUME NEW s, NEW t, AreNodes(s), AreNodes(t)
  PROVE  AreNodes(s \o t)
<1> DEFINE S == ToSet(s) \cup ToSet(t)
           r == s \o t
<1>1. s \in Seq(S) /\ t \in Seq(S) /\ \A n \in S : IsNode(n)
  <2>1. s \in Seq(S)
    <3>1. s \in Seq(ToSet(s)) /\ ToSet(s) \subseteq S
      BY DEF AreNodes, IsSequence
    <3> HIDE DEF S
    <3> QED
      BY <3>1, Elements
  <2>2. t \in Seq(S)
    <3>1. t \in Seq(ToSet(t)) /\ ToSet(t) \subseteq S
      BY DEF AreNodes, IsSequence
    <3> HIDE DEF S
    <3> QED
      BY <3>1, Elements
  <2> QED
    BY <2>1, <2>2 DEF AreNodes, ToSet
<1> HIDE DEF S
<1>2. r \in Seq(S)
  BY <1>1, ConcatProperties
<1> HIDE DEF r
<1>3. r \in Seq(ToSet(r)) /\ \A k \in DOMAIN r : r[k] \in S
  BY <1>2, OwnElements, Elements
<1> QED
  BY <1>1, <1>3 DEF AreNodes, IsSequence, r

LEMMA JoinedValues ==
  ASSUME NEW s, NEW t, IsSequence(s), IsSequence(t)
  PROVE  /\ IsSequence(s \o t) /\ Len(s \o t) = Len(s) + Len(t)
         /\ Range(s) \cup Range(t) \subseteq Range(s \o t)
         /\ \A k \in 1 .. Len(s) : (s \o t)[k] = s[k] /\ k \in DOMAIN (s \o t)
<1> DEFINE S == ToSet(s) \cup ToSet(t)
           r == s \o t
<1>1. s \in Seq(S) /\ t \in Seq(S)
  <2>1. s \in Seq(ToSet(s)) /\ ToSet(s) \subseteq S /\ t \in Seq(ToSet(t)) /\ ToSet(t) \subseteq S
    BY DEF IsSequence
  <2> HIDE DEF S
  <2> QED
    BY <2>1, Elements
<1> HIDE DEF S
<1>2. /\ r \in Seq(S) /\ Len(r) = Len(s) + Len(t)
      /\ \A k \in 1 .. Len(s) + Len(t) : r[k] = IF k <= Len(s) THEN s[k] ELSE t[k - Len(s)]
  BY <1>1, ConcatProperties
<1>3. Len(s) \in Nat /\ Len(t) \in Nat /\ DOMAIN s = 1 .. Len(s) /\ DOMAIN t = 1 .. Len(t)
  BY <1>1
<1> HIDE DEF r
<1>4. \A k \in 1 .. Len(s) : r[k] = s[k] /\ k \in DOMAIN r
  BY <1>2, <1>3
<1>5. \A k \in 1 .. Len(t) : r[Len(s) + k] = t[k] /\ Len(s) + k \in DOMAIN r
  <2>1. ASSUME NEW k \in 1 .. Len(t) PROVE r[Len(s) + k] = t[k] /\ Len(s) + k \in DOMAIN r
    <3>1. Len(s) + k \in 1 .. Len(s) + Len(t) /\ ~(Len(s) + k <= Len(s)) /\ (Len(s) + k) - Len(s) = k
      BY <1>3
    <3>2. DOMAIN r = 1 .. Len(r)
      BY <1>2
    <3> QED
      BY <1>2, <3>1, <3>2
  <2> QED
    BY <2>1
<1>6. r \in Seq(ToSet(r))
  BY <1>2, OwnElements
<1> QED
  BY <1>2, <1>3, <1>4, <1>5, <1>6 DEF IsSequence, Range, r

\* The keys of a map in their order.
LEMMA SortedKeys ==
  ASSUME NEW m
  PROVE  LET keys == sortMapKeys(m)
         IN  Len(keys) \in Nat /\ DOMAIN keys = 1 .. Len(keys) /\ \A i \in 1 .. Len(keys) : keys[i] \in DOMAIN m
<1> DEFINE keys == sortMapKeys(m)
           T == ToSet(Names)
           W == T \cap DOMAIN m
<1>1. Names \in Seq(T)
  BY NamesAssumption DEF IsSequence
<1> HIDE DEF T
<1>2. keys \in Seq(W)
  BY <1>1, ThoseTyped DEF sortMapKeys
<1>3. W \subseteq DOMAIN m
  OBVIOUS
<1> HIDE DEF keys, W
<1>4. Len(keys) \in Nat /\ DOMAIN keys = 1 .. Len(keys) /\ \A i \in 1 .. Len(keys) : keys[i] \in W
  BY <1>2, Elements
<1> QED
  BY <1>3, <1>4 DEF keys

\* The fields of a node.
LEMMA NodeFields ==
  ASSUME NEW name, NEW args, NEW props, NEW children
  PROVE  LET n == Node(name, args, props, children)
         IN  n.name = name /\ n.args = args /\ n.props = props /\ n.children = children
BY DEF Node

LEMMA ChildIsNode ==
  ASSUME NEW name, NEW args, IsSequence(args)
  PROVE  IsNode(Child(name, args))
<1>1. Child(name, args) = Node(name, args, Empty, <<>>)
  BY DEF Child
<1>2. IsSequence(<<>>)
  BY DEF IsSequence, ToSet
<1> QED
  BY <1>1, <1>2, NodeFields DEF IsNode

\* The nodes of a field that is not a property.
LEMMA FieldNodes ==
  ASSUME NEW f, NEW name, NEW v, f.kind \in Kinds, f.kind \in {"ints", "points"} => IsSequence(v)
  PROVE  AreNodes(tryMarshalValueAsChild(f, name, v))
<1>1. AreNodes(marshalMultiMapToNodes(name, v))
  <2> DEFINE keys == sortMapKeys(v)
             s == [i \in DOMAIN keys |-> Child(name, <<keys[i], v[keys[i]]>>)]
  <2>1. Len(keys) \in Nat /\ DOMAIN keys = 1 .. Len(keys)
    BY SortedKeys
  <2> HIDE DEF keys
  <2>2. \A i \in DOMAIN keys : IsNode(s[i])
    <3>1. ASSUME NEW i \in DOMAIN keys PROVE IsNode(Child(name, <<keys[i], v[keys[i]]>>))
      <4>1. IsSequence(<<keys[i], v[keys[i]]>>)
        BY DEF IsSequence, ToSet
      <4> QED
        BY <4>1, ChildIsNode
    <3> QED
      BY <3>1
  <2>3. IsSequence(s) /\ DOMAIN s = DOMAIN keys
    <3>1. s = [i \in 1 .. Len(keys) |-> s[i]]
      BY <2>1
    <3> HIDE DEF s
    <3> QED
      BY <2>1, <3>1, Listed
  <2> QED
    BY <2>2, <2>3 DEF AreNodes, marshalMultiMapToNodes, keys
<1>2. AreNodes(<<marshalMapToNode(name, v)>>)
  <2> DEFINE count == Cardinality({k \in DOMAIN v : IsInteger(k)})
  <2>1. count \in Nat
    <3>1. IsFiniteSet(Range(Numerals))
      <4>1. Range(Numerals) = {"0", "1", "2"}
        <5>1. DOMAIN Numerals = {1, 2, 3}
          BY DEF Numerals
        <5> QED
          BY <5>1 DEF Range, Numerals
      <4>2. IsFiniteSet({"0"} \cup {"1"} \cup {"2"})
        BY FS_Singleton, FS_Union
      <4> QED
        BY <4>1, <4>2
    <3>2. {k \in DOMAIN v : IsInteger(k)} \subseteq Range(Numerals)
      BY DEF IsInteger
    <3> QED
      BY <3>1, <3>2, FS_Subset, FS_CardinalityType
  <2>2. IsSequence(Numbered(v))
    <3> DEFINE s == [i \in 1 .. count |-> IF Numerals[i] \in DOMAIN v THEN v[Numerals[i]] ELSE Null]
    <3>1. s = [i \in 1 .. count |-> s[i]]
      OBVIOUS
    <3>2. Numbered(v) = s
      BY DEF Numbered
    <3> HIDE DEF s, count
    <3> QED
      BY <2>1, <3>1, <3>2, Listed
  <2>3. IsSequence(<<>>)
    BY DEF IsSequence, ToSet
  <2>4. IsNode(marshalMapToNode(name, v))
    BY <2>2, <2>3, NodeFields DEF IsNode, marshalMapToNode
  <2> QED
    BY <2>4, OneNode
<1>3. ASSUME IsSequence(v) PROVE AreNodes(marshalMultiSliceToNodes(name, v))
  <2> DEFINE s == [i \in DOMAIN v |-> Node(name, <<>>, [p \in {PointName} |-> v[i]], <<>>)]
  <2>1. Len(v) \in Nat /\ DOMAIN v = 1 .. Len(v)
    BY <1>3 DEF IsSequence
  <2>2. \A i \in DOMAIN v : IsNode(s[i])
    <3>1. IsSequence(<<>>)
      BY DEF IsSequence, ToSet
    <3> QED
      BY <3>1, NodeFields DEF IsNode
  <2>3. IsSequence(s) /\ DOMAIN s = DOMAIN v
    <3>1. s = [i \in 1 .. Len(v) |-> s[i]]
      BY <2>1
    <3> HIDE DEF s
    <3> QED
      BY <2>1, <3>1, Listed
  <2> QED
    BY <2>2, <2>3 DEF AreNodes, marshalMultiSliceToNodes
<1>4. ASSUME IsSequence(v) PROVE AreNodes(<<Child(name, v)>>)
  BY <1>4, ChildIsNode, OneNode
<1>5. AreNodes(<<Child(name, <<v>>)>>)
  <2>1. IsSequence(<<v>>)
    BY DEF IsSequence, ToSet
  <2> QED
    BY <2>1, ChildIsNode, OneNode
<1> QED
  <2> DEFINE r == tryMarshalValueAsChild(f, name, v)
  <2>1. \/ r = <<>>
        \/ f.kind = "map" /\ r = marshalMultiMapToNodes(name, v)
        \/ f.kind = "map" /\ r = <<marshalMapToNode(name, v)>>
        \/ f.kind = "points" /\ r = marshalMultiSliceToNodes(name, v)
        \/ f.kind = "ints" /\ r = <<Child(name, v)>>
        \/ f.kind = "int" /\ r = <<Child(name, <<v>>)>>
    BY DEF tryMarshalValueAsChild
  <2> HIDE DEF r
  <2>2. AreNodes(r)
    BY <1>1, <1>2, <1>3, <1>4, <1>5, <2>1, NoNodes
  <2> QED
    BY <2>2 DEF r

\* The fields of a value.
LEMMA ValueFields ==
  ASSUME NEW type, NEW value, IsValue(type, value)
  PROVE  /\ DOMAIN value = DOMAIN type
         /\ \A i \in DOMAIN type : type[i].kind \in {"ints", "points"} => IsSequence(value[i])
<1>1. DOMAIN value = DOMAIN type
  BY DEF IsValue
<1>2. ASSUME NEW i \in DOMAIN type, type[i].kind \in {"ints", "points"} PROVE IsSequence(value[i])
  <2>1. Fits(type[i].kind, value[i])
    BY DEF IsValue
  <2> QED
    BY <1>2, <2>1 DEF Fits
<1> QED
  BY <1>1, <1>2

LEMMA PlainFields ==
  ASSUME NEW type, IsType(type), NEW cs
  PROVE  LET fields == Plain(type, cs)
         IN  Len(fields) \in Nat /\ DOMAIN fields = 1 .. Len(fields)
             /\ \A k \in DOMAIN fields : fields[k] \in DOMAIN type
<1> DEFINE field == [i \in DOMAIN type |-> Max(StructFields(type, cs, fieldTagOrName(type[i], cs)))]
           S == {i \in DOMAIN type : type[i].attrs \cap Captures = {} /\ type[i].name # "-"}
           T == DOMAIN type
           W == T \cap S
           fields == Those(field, S)
<1>1. Len(type) \in Nat /\ DOMAIN type = 1 .. Len(type)
  BY DEF IsType, IsSequence
<1>2. \A i \in DOMAIN type : field[i] \in DOMAIN type
  <2>1. ASSUME NEW i \in DOMAIN type PROVE Max(StructFields(type, cs, fieldTagOrName(type[i], cs))) \in DOMAIN type
    <3> DEFINE name == fieldTagOrName(type[i], cs)
               named == {j \in DOMAIN type : fieldTagOrName(type[j], cs) = name}
               m == Max(named)
    <3>1. i \in named
      OBVIOUS
    <3> HIDE DEF name
    <3>2. StructFields(type, cs, name) = {m} /\ m \in DOMAIN type
      BY <3>1, Named
    <3> HIDE DEF m
    <3>3. m \in Nat
      BY <1>1, <3>2
    <3>4. Max({m}) = m
      <4>1. \E x \in {m} : \A y \in {m} : x >= y
        BY <3>3
      <4>2. Max({m}) \in {m}
        BY <4>1 DEF Max
      <4> QED
        BY <4>2
    <3> QED
      BY <3>2, <3>4 DEF name
  <2> QED
    BY <2>1
<1>3. field \in Seq(T)
  <2> HIDE DEF field
  <2>1. field = [i \in 1 .. Len(type) |-> field[i]]
    BY <1>1 DEF field
  <2> QED
    BY <1>1, <1>2, <2>1
<1>4. Plain(type, cs) = fields
  BY DEF Plain
<1> HIDE DEF T, field, S
<1>5. fields \in Seq(W)
  BY <1>3, ThoseTyped
<1> HIDE DEF fields, W
<1>6. Len(fields) \in Nat /\ DOMAIN fields = 1 .. Len(fields) /\ \A k \in 1 .. Len(fields) : fields[k] \in W
  BY <1>5, Elements
<1> QED
  BY <1>4, <1>6 DEF W, T

\* What marshaling makes of a value is a node, and so are its children.
LEMMA MarshaledIsNode ==
  ASSUME NEW name, NEW type, IsType(type), NEW cs, NEW value, IsValue(type, value)
  PROVE  LET n == marshalStructToNode(name, type, cs, value) IN IsNode(n) /\ AreNodes(n.children)
<1> DEFINE captured(attr) ==
               LET fields == StructAttrs(type, attr) IN IF fields = <<>> THEN <<>> ELSE <<value[fields[1]]>>
           each == StructAttrs(type, "arg")
           fields == Plain(type, cs)
           nameOf(i) == fieldTagOrName(type[i], cs)
           args == [i \in DOMAIN each |-> value[each[i]]] \o FlattenSeq(captured("args"))
           lists == [k \in DOMAIN fields |->
                        tryMarshalValueAsChild(type[fields[k]], nameOf(fields[k]), value[fields[k]])]
           last == LET rest_ == captured("children")
                   IN  IF rest_ = <<>> THEN <<>> ELSE marshalMapToNodes(rest_[1])
           children == FlattenSeq(lists) \o last
<1>1. \E props : marshalStructToNode(name, type, cs, value) = Node(name, args, props, children)
  BY DEF marshalStructToNode
<1>2. IsSequence(args)
  <2> DEFINE first == [i \in DOMAIN each |-> value[each[i]]]
             more == StructAttrs(type, "args")
  <2>1. IsSequence(first)
    <3>1. Len(each) \in Nat /\ DOMAIN each = 1 .. Len(each)
      BY Attributed
    <3> HIDE DEF each
    <3>2. first = [i \in 1 .. Len(each) |-> first[i]]
      BY <3>1
    <3> HIDE DEF first
    <3> QED
      BY <3>1, <3>2, Listed
  <2>2. IsSequence(FlattenSeq(captured("args")))
    <3>1. CASE more = <<>>
      <4>1. captured("args") = <<>>
        BY <3>1
      <4> HIDE DEF captured
      <4>2. FlattenSeq(captured("args")) = <<>>
        BY <4>1 DEF FlattenSeq
      <4>3. IsSequence(<<>>)
        BY DEF IsSequence, ToSet
      <4> QED
        BY <4>2, <4>3
    <3>2. CASE more # <<>>
      <4> DEFINE v == value[more[1]]
      <4>1. more[1] \in DOMAIN type /\ "args" \in type[more[1]].attrs
        BY <3>2, Attributed
      <4>2. IsSequence(v)
        <5>1. type[more[1]].kind = "ints"
          BY <4>1 DEF IsType
        <5> QED
          BY <4>1, <5>1, ValueFields
      <4>3. captured("args") = <<v>>
        BY <3>2
      <4> HIDE DEF v
      <4> DEFINE S == ToSet(v)
      <4>4. v \in Seq(S)
        BY <4>2 DEF IsSequence
      <4> HIDE DEF S
      <4>5. <<v>> \in Seq(Seq(S))
        BY <4>4
      <4> DEFINE r == FlattenSeq(<<v>>)
      <4>6. r \in Seq(S)
        BY <4>5, FlattenTyped
      <4> HIDE DEF r
      <4>7. r \in Seq(ToSet(r))
        BY <4>6, OwnElements
      <4> QED
        BY <4>3, <4>7 DEF r, IsSequence
    <3> QED
      BY <3>1, <3>2
  <2> DEFINE q == FlattenSeq(captured("args"))
  <2> HIDE DEF first, q
  <2>3. IsSequence(first \o q)
    BY <2>1, <2>2, JoinedValues DEF q
  <2> QED
    BY <2>3 DEF first, q
<1>3. AreNodes(FlattenSeq(lists))
  <2>1. Len(fields) \in Nat /\ DOMAIN fields = 1 .. Len(fields) /\ \A k \in DOMAIN fields : fields[k] \in DOMAIN type
    BY PlainFields
  <2> HIDE DEF fields
  <2>2. \A k \in DOMAIN lists : AreNodes(lists[k])
    <3>1. ASSUME NEW k \in DOMAIN fields
          PROVE  AreNodes(tryMarshalValueAsChild(type[fields[k]], nameOf(fields[k]), value[fields[k]]))
      <4> DEFINE i == fields[k]
                 f == type[i]
                 v == value[i]
                 n == nameOf(i)
      <4>1. i \in DOMAIN type
        BY <2>1
      <4> HIDE DEF i
      <4>2. f.kind \in Kinds /\ (f.kind \in {"ints", "points"} => IsSequence(v))
        BY <4>1, ValueFields DEF IsType
      <4> HIDE DEF f, v, n
      <4>3. AreNodes(tryMarshalValueAsChild(f, n, v))
        BY <4>2, FieldNodes
      <4> QED
        BY <4>3 DEF f, v, n, i
    <3> QED
      BY <3>1
  <2>3. IsSequence(lists)
    <3>1. lists = [k \in 1 .. Len(fields) |-> lists[k]]
      BY <2>1
    <3> HIDE DEF lists
    <3> QED
      BY <2>1, <3>1, Listed
  <2> HIDE DEF lists
  <2> QED
    BY <2>2, <2>3, FlattenNodes
<1>4. AreNodes(last)
  <2> DEFINE rest_ == captured("children")
             m == rest_[1]
             keys == sortMapKeys(m)
             s == [i \in DOMAIN keys |-> Child(keys[i], <<m[keys[i]]>>)]
  <2>1. last = <<>> \/ last = s
    BY DEF marshalMapToNodes
  <2>2. AreNodes(s)
    <3> HIDE DEF m
    <3>1. Len(keys) \in Nat /\ DOMAIN keys = 1 .. Len(keys)
      BY SortedKeys
    <3> HIDE DEF keys
    <3>2. \A i \in DOMAIN keys : IsNode(s[i])
      <4>1. ASSUME NEW i \in DOMAIN keys PROVE IsNode(Child(keys[i], <<m[keys[i]]>>))
        <5>1. IsSequence(<<m[keys[i]]>>)
          BY DEF IsSequence, ToSet
        <5> QED
          BY <5>1, ChildIsNode
      <4> QED
        BY <4>1
    <3>3. IsSequence(s) /\ DOMAIN s = DOMAIN keys
      <4>1. s = [i \in 1 .. Len(keys) |-> s[i]]
        BY <3>1
      <4> HIDE DEF s
      <4> QED
        BY <3>1, <4>1, Listed
    <3> QED
      BY <3>2, <3>3 DEF AreNodes
  <2> HIDE DEF last, s
  <2> QED
    BY <2>1, <2>2, NoNodes
<1> HIDE DEF args, lists, last
<1>5. AreNodes(children)
  BY <1>3, <1>4, JoinedNodes
<1> HIDE DEF children
<1> QED
  <2>1. PICK props : marshalStructToNode(name, type, cs, value) = Node(name, args, props, children)
    BY <1>1
  <2> QED
    BY <1>2, <1>5, <2>1, NodeFields DEF IsNode, AreNodes

----------------------------------------------------------------------------
(* What unmarshaling a node into one value returns.                        *)

LEMMA Outcomes ==
  ASSUME NEW o, NEW v
  PROVE  /\ Result(o, v).outcome = o /\ Result(o, v).value = v
         /\ Ok(v).outcome = "ok" /\ Ok(v).value = v
         /\ Error.outcome = "error" /\ Panic.outcome = "panic"
BY DEF Result, Ok, Error, Panic

LEMMA OfInt ==
  ASSUME NEW node, NEW opts
  PROVE  LET r == toInt(node, opts)
         IN  /\ r.outcome \in {"ok", "error"}
             /\ r.outcome = "ok" => verified(node, opts) /\ r.value = ToInt(node.args[1])
<1>1. CASE verified(node, opts)
  BY <1>1, Outcomes DEF toInt
<1>2. CASE ~verified(node, opts)
  BY <1>2, Outcomes DEF toInt
<1> QED
  BY <1>1, <1>2

LEMMA OfPut ==
  ASSUME NEW child, NEW opts, NEW old
  PROVE  LET r == PutChild(child, opts, old)
             v == toInt(child, opts)
         IN  /\ r.outcome \in {"ok", "error", "panic"}
             /\ r.outcome = "panic" => child.name \in DOMAIN old
             /\ r.outcome = "ok" => /\ v.outcome = "ok" /\ child.name \notin DOMAIN old
                                    /\ r.value = Put(old, child.name, v.value)
<1> DEFINE r == PutChild(child, opts, old)
           v == toInt(child, opts)
<1>1. v.outcome \in {"ok", "error"}
  BY OfInt
<1>2. r = CASE v.outcome = "error" -> Error
            [] v.outcome = "ok" /\ child.name \in DOMAIN old -> Panic
            [] OTHER -> Ok(Put(old, child.name, v.value))
  BY DEF PutChild
<1> HIDE DEF r, v
<1>3. CASE v.outcome = "error"
  <2>1. r = Error
    BY <1>2, <1>3
  <2> QED
    BY <2>1, Outcomes DEF r
<1>4. CASE v.outcome = "ok" /\ child.name \in DOMAIN old
  <2>1. r = Panic
    BY <1>2, <1>4
  <2> QED
    BY <1>4, <2>1, Outcomes DEF r
<1>5. CASE v.outcome = "ok" /\ child.name \notin DOMAIN old
  <2>1. r = Ok(Put(old, child.name, v.value))
    BY <1>2, <1>5
  <2> QED
    BY <1>5, <2>1, Outcomes DEF r, v
<1> QED
  BY <1>1, <1>3, <1>4, <1>5

\* A list that has grown at its end.
Grown(old, new) ==
    /\ IsSequence(new) /\ Range(old) \subseteq Range(new)
    /\ \A k \in DOMAIN old : k \in DOMAIN new /\ new[k] = old[k]

LEMMA GrownByOne ==
  ASSUME NEW old, IsSequence(old), NEW x
  PROVE  Grown(old, Append(old, x)) /\ x \in Range(Append(old, x))
<1> DEFINE S == ToSet(old) \cup {x}
           r == Append(old, x)
<1>1. old \in Seq(S) /\ x \in S
  <2>1. old \in Seq(ToSet(old)) /\ ToSet(old) \subseteq S
    BY DEF IsSequence
  <2> HIDE DEF S
  <2> QED
    BY <2>1, Elements DEF S
<1> HIDE DEF S
<1>2. /\ r \in Seq(S) /\ Len(r) = Len(old) + 1 /\ Len(old) \in Nat
      /\ \A k \in 1 .. Len(old) : r[k] = old[k]
      /\ r[Len(old) + 1] = x
      /\ DOMAIN old = 1 .. Len(old)
  BY <1>1
<1> HIDE DEF r
<1>3. r \in Seq(ToSet(r)) /\ DOMAIN r = 1 .. Len(r)
  BY <1>2, OwnElements
<1>4. (\A k \in DOMAIN old : k \in DOMAIN r) /\ Len(old) + 1 \in DOMAIN r
  BY <1>2, <1>3
<1> QED
  BY <1>2, <1>3, <1>4 DEF Grown, IsSequence, Range, r

LEMMA NotGrown ==
  ASSUME NEW old, IsSequence(old)
  PROVE  Grown(old, old)
BY DEF Grown

LEMMA OfInts ==
  ASSUME NEW node, IsNode(node), NEW old, IsSequence(old)
  PROVE  LET r == toInts(node, old)
         IN  /\ r.outcome \in {"ok", "error"}
             /\ r.outcome = "ok" =>
                    Grown(old, r.value) /\ \A k \in DOMAIN node.args : ToInt(node.args[k]) \in Range(r.value)
<1> DEFINE t == [i \in DOMAIN node.args |-> ToInt(node.args[i])]
           new == old \o t
<1>1. CASE node.props = Empty
  <2>1. IsSequence(t) /\ DOMAIN t = DOMAIN node.args /\ \A k \in DOMAIN node.args : t[k] = ToInt(node.args[k])
    <3>1. Len(node.args) \in Nat /\ DOMAIN node.args = 1 .. Len(node.args)
      BY DEF IsNode, IsSequence
    <3>2. t = [i \in 1 .. Len(node.args) |-> t[i]] /\ \A k \in DOMAIN node.args : t[k] = ToInt(node.args[k])
      BY <3>1
    <3> HIDE DEF t
    <3> QED
      BY <3>1, <3>2, Listed
  <2> HIDE DEF t
  <2>2. /\ IsSequence(new) /\ Range(old) \cup Range(t) \subseteq Range(new)
        /\ \A k \in 1 .. Len(old) : new[k] = old[k] /\ k \in DOMAIN new
    BY <2>1, JoinedValues
  <2>3. DOMAIN old = 1 .. Len(old)
    BY DEF IsSequence
  <2> HIDE DEF new
  <2>4. Grown(old, new) /\ \A k \in DOMAIN node.args : ToInt(node.args[k]) \in Range(new)
    BY <2>1, <2>2, <2>3 DEF Grown, Range
  <2>5. toInts(node, old) = Ok(new)
    BY <1>1 DEF toInts, new, t
  <2> QED
    BY <2>4, <2>5, Outcomes
<1>2. CASE node.props # Empty
  BY <1>2, Outcomes DEF toInts
<1> QED
  BY <1>1, <1>2

LEMMA OfPoint ==
  ASSUME NEW node, NEW opts
  PROVE  LET r == toPoint(node, opts)
         IN  /\ r.outcome \in {"ok", "error", "panic"}
             /\ r.outcome = "panic" => node.children # <<>> /\ opts.children
BY Outcomes DEF toPoint

\* A map that has got more keys.
Extends(old, new) == DOMAIN old \subseteq DOMAIN new /\ \A k \in DOMAIN old : new[k] = old[k]

\* The keys of entries, and those that come again.
KeysIn(K) == {x[2] : x \in K}
Clash(old, K) ==
    \/ \E x \in K : x[2] \in DOMAIN old
    \/ \E x, y \in K : x[2] = y[2] /\ x[1] # y[1]

LEMMA ExtendedByPut ==
  ASSUME NEW old, NEW k, NEW x, k \notin DOMAIN old
  PROVE  /\ Extends(old, Put(old, k, x)) /\ DOMAIN Put(old, k, x) = DOMAIN old \cup {k}
         /\ Put(old, k, x)[k] = x
BY DEF Extends, Put

LEMMA ExtendsItself ==
  ASSUME NEW old
  PROVE  Extends(old, old)
BY DEF Extends

\* The parts of unmarshalNodeToMap: what comes again, what is wrong, what is put.
Numbers(node) == {Numerals[i] : i \in DOMAIN node.args}
ChildNames(node) == {node.children[m].name : m \in DOMAIN node.children}
Again(node, old) ==
    \/ Numbers(node) \cap DOMAIN old # {}
    \/ DOMAIN node.props \cap (DOMAIN old \cup Numbers(node)) # {}
Before(node, old, m) ==
    DOMAIN old \cup Numbers(node) \cup DOMAIN node.props \cup {node.children[k].name : k \in 1 .. (m - 1)}
RepeatedIn(node, old) == {m \in DOMAIN node.children : node.children[m].name \in Before(node, old, m)}
Rejects(node, old, opts) ==
    \E m \in DOMAIN node.children :
        /\ toInt(node.children[m], opts).outcome = "error"
        /\ \A k \in RepeatedIn(node, old) : k >= m
NewEntry(node, old, opts, k) ==
    CASE k \in ChildNames(node) ->
             toInt(node.children[CHOOSE m \in DOMAIN node.children : node.children[m].name = k], opts).value
      [] k \in DOMAIN node.props \ ChildNames(node) -> ToInt(node.props[k])
      [] k \in Numbers(node) \ (ChildNames(node) \cup DOMAIN node.props) ->
             ToInt(node.args[CHOOSE i \in DOMAIN node.args : Numerals[i] = k])
      [] OTHER -> old[k]
NewMap(node, old, opts) ==
    [k \in DOMAIN old \cup Numbers(node) \cup DOMAIN node.props \cup ChildNames(node) |->
        NewEntry(node, old, opts, k)]

LEMMA MapIs ==
  ASSUME NEW node, NEW old, NEW opts
  PROVE  toMap(node, old, opts) =
            CASE Again(node, old) -> Panic
              [] ~Again(node, old) /\ Rejects(node, old, opts) -> Error
              [] ~Again(node, old) /\ ~Rejects(node, old, opts) /\ RepeatedIn(node, old) # {} -> Panic
              [] OTHER -> Ok(NewMap(node, old, opts))
BY DEF toMap, Again, Rejects, RepeatedIn, NewMap, NewEntry, Numbers, ChildNames, Before

LEMMA KeysOfMap ==
  ASSUME NEW node
  PROVE  LET K == KeysOf(node, FALSE)
         IN  /\ KeysIn(K) = Numbers(node) \cup DOMAIN node.props \cup ChildNames(node)
             /\ \A i \in DOMAIN node.args : <<Argument(i), Numerals[i]>> \in K
             /\ \A p \in DOMAIN node.props : <<Property(p), p>> \in K
             /\ \A m \in DOMAIN node.children : <<ChildNode(m), node.children[m].name>> \in K
<1> DEFINE A == {<<Argument(k), Numerals[k]>> : k \in DOMAIN node.args}
           P == {<<Property(p), p>> : p \in DOMAIN node.props}
           C == {<<ChildNode(k), node.children[k].name>> : k \in DOMAIN node.children}
<1>1. KeysOf(node, FALSE) = A \cup P \cup C
  BY DEF KeysOf
<1>2. KeysIn(A) = Numbers(node) /\ KeysIn(P) = DOMAIN node.props /\ KeysIn(C) = ChildNames(node)
  <2>1. KeysIn(A) = Numbers(node)
    <3>1. ASSUME NEW x \in KeysIn(A) PROVE x \in Numbers(node)
      <4>1. PICK y \in A : x = y[2]
        BY DEF KeysIn
      <4>2. PICK k \in DOMAIN node.args : y = <<Argument(k), Numerals[k]>>
        OBVIOUS
      <4>3. x = Numerals[k]
        BY <4>1, <4>2
      <4> QED
        BY <4>3 DEF Numbers
    <3>2. ASSUME NEW x \in Numbers(node) PROVE x \in KeysIn(A)
      <4>1. PICK k \in DOMAIN node.args : x = Numerals[k]
        BY DEF Numbers
      <4> DEFINE y == <<Argument(k), Numerals[k]>>
      <4>2. y \in A /\ y[2] = x
        BY <4>1
      <4> QED
        BY <4>2 DEF KeysIn
    <3> QED
      BY <3>1, <3>2
  <2>2. KeysIn(P) = DOMAIN node.props
    <3>1. ASSUME NEW x \in KeysIn(P) PROVE x \in DOMAIN node.props
      <4>1. PICK y \in P : x = y[2]
        BY DEF KeysIn
      <4>2. PICK k \in DOMAIN node.props : y = <<Property(k), k>>
        OBVIOUS
      <4>3. x = k
        BY <4>1, <4>2
      <4> QED
        BY <4>3
    <3>2. ASSUME NEW x \in DOMAIN node.props PROVE x \in KeysIn(P)
      <4>1. PICK k \in DOMAIN node.props : x = k
        OBVIOUS
      <4> DEFINE y == <<Property(k), k>>
      <4>2. y \in P /\ y[2] = x
        BY <4>1
      <4> QED
        BY <4>2 DEF KeysIn
    <3> QED
      BY <3>1, <3>2
  <2>3. KeysIn(C) = ChildNames(node)
    <3>1. ASSUME NEW x \in KeysIn(C) PROVE x \in ChildNames(node)
      <4>1. PICK y \in C : x = y[2]
        BY DEF KeysIn
      <4>2. PICK k \in DOMAIN node.children : y = <<ChildNode(k), node.children[k].name>>
        OBVIOUS
      <4>3. x = node.children[k].name
        BY <4>1, <4>2
      <4> QED
        BY <4>3 DEF ChildNames
    <3>2. ASSUME NEW x \in ChildNames(node) PROVE x \in KeysIn(C)
      <4>1. PICK k \in DOMAIN node.children : x = node.children[k].name
        BY DEF ChildNames
      <4> DEFINE y == <<ChildNode(k), node.children[k].name>>
      <4>2. y \in C /\ y[2] = x
        BY <4>1
      <4> QED
        BY <4>2 DEF KeysIn
    <3> QED
      BY <3>1, <3>2
  <2> QED
    BY <2>1, <2>2, <2>3
<1>3. /\ \A i \in DOMAIN node.args : <<Argument(i), Numerals[i]>> \in A
      /\ \A p \in DOMAIN node.props : <<Property(p), p>> \in P
      /\ \A m \in DOMAIN node.children : <<ChildNode(m), node.children[m].name>> \in C
  OBVIOUS
<1> HIDE DEF A, P, C
<1>4. KeysIn(A \cup P \cup C) = KeysIn(A) \cup KeysIn(P) \cup KeysIn(C)
  BY DEF KeysIn
<1> QED
  BY <1>1, <1>2, <1>3, <1>4

\* Entries are told apart by what they are and by their number or name.
LEMMA EntriesDiffer ==
  /\ \A i, p : Argument(i) # Property(p) /\ Argument(i) # ChildNode(p) /\ Property(i) # ChildNode(p)
  /\ \A k, m : ChildNode(k) = ChildNode(m) => k = m
BY DEF Argument, Property, ChildNode

LEMMA OfMap ==
  ASSUME NEW node, IsNode(node), NEW old, NEW opts
  PROVE  LET r == toMap(node, old, opts)
             K == KeysOf(node, FALSE)
         IN  /\ r.outcome \in {"ok", "error", "panic"}
             /\ r.outcome = "panic" => Clash(old, K)
             /\ r.outcome = "ok" => /\ ~Again(node, old) /\ RepeatedIn(node, old) = {}
                                    /\ ~Rejects(node, old, opts) /\ r.value = NewMap(node, old, opts)
<1> DEFINE r == toMap(node, old, opts)
           K == KeysOf(node, FALSE)
<1> HIDE DEF K, r
<1>1. CASE Again(node, old)
  <2>1. r = Panic
    BY <1>1, MapIs DEF r
  <2>2. Clash(old, K)
    <3>1. CASE Numbers(node) \cap DOMAIN old # {}
      <4>1. PICK i \in DOMAIN node.args : Numerals[i] \in DOMAIN old
        BY <3>1 DEF Numbers
      <4>2. <<Argument(i), Numerals[i]>> \in K
        BY KeysOfMap DEF K
      <4> QED
        BY <4>1, <4>2 DEF Clash
    <3>2. CASE DOMAIN node.props \cap DOMAIN old # {}
      <4>1. PICK p \in DOMAIN node.props : p \in DOMAIN old
        BY <3>2
      <4>2. <<Property(p), p>> \in K
        BY KeysOfMap DEF K
      <4> QED
        BY <4>1, <4>2 DEF Clash
    <3>3. CASE DOMAIN node.props \cap Numbers(node) # {}
      <4>1. PICK p \in DOMAIN node.props, i \in DOMAIN node.args : p = Numerals[i]
        BY <3>3 DEF Numbers
      <4>2. <<Property(p), p>> \in K /\ <<Argument(i), p>> \in K
        BY <4>1, KeysOfMap DEF K
      <4> QED
        BY <4>2, EntriesDiffer DEF Clash
    <3> QED
      BY <1>1, <3>1, <3>2, <3>3 DEF Again
  <2> QED
    BY <2>1, <2>2, Outcomes DEF r, K
<1>2. CASE ~Again(node, old) /\ Rejects(node, old, opts)
  <2>1. r = Error
    BY <1>2, MapIs DEF r
  <2> QED
    BY <2>1, Outcomes DEF r
<1>3. CASE ~Again(node, old) /\ ~Rejects(node, old, opts) /\ RepeatedIn(node, old) # {}
  <2>1. r = Panic
    BY <1>3, MapIs DEF r
  <2>2. Clash(old, K)
    <3>1. PICK m \in DOMAIN node.children : node.children[m].name \in Before(node, old, m)
      BY <1>3 DEF RepeatedIn
    <3> DEFINE n == node.children[m].name
    <3>2. <<ChildNode(m), n>> \in K
      BY KeysOfMap DEF K
    <3> HIDE DEF n
    <3>3. CASE n \in DOMAIN old
      BY <3>2, <3>3 DEF Clash
    <3>4. CASE n \in Numbers(node)
      <4>1. PICK i \in DOMAIN node.args : n = Numerals[i]
        BY <3>4 DEF Numbers
      <4>2. <<Argument(i), n>> \in K
        BY <4>1, KeysOfMap DEF K
      <4> QED
        BY <3>2, <4>2, EntriesDiffer DEF Clash
    <3>5. CASE n \in DOMAIN node.props
      <4>1. <<Property(n), n>> \in K
        BY <3>5, KeysOfMap DEF K
      <4> QED
        BY <3>2, <4>1, EntriesDiffer DEF Clash
    <3>6. CASE \E k \in 1 .. (m - 1) : n = node.children[k].name
      <4>1. PICK k \in 1 .. (m - 1) : n = node.children[k].name
        BY <3>6
      <4>2. k \in DOMAIN node.children /\ k # m
        BY DEF IsNode, IsSequence
      <4>3. <<ChildNode(k), n>> \in K
        BY <4>1, <4>2, KeysOfMap DEF K
      <4> QED
        BY <3>2, <4>2, <4>3, EntriesDiffer DEF Clash
    <3> QED
      BY <3>1, <3>3, <3>4, <3>5, <3>6 DEF Before, n
  <2> QED
    BY <2>1, <2>2, Outcomes DEF r, K
<1>4. CASE ~Again(node, old) /\ ~Rejects(node, old, opts) /\ RepeatedIn(node, old) = {}
  <2> DEFINE new == NewMap(node, old, opts)
  <2>1. r = Ok(new)
    BY <1>4, MapIs DEF r
  <2> HIDE DEF new
  <2>2. r.outcome = "ok" /\ r.value = new
    BY <2>1, Outcomes
  <2> QED
    BY <1>4, <2>2 DEF r, K, new
<1> QED
  BY <1>1, <1>2, <1>3, <1>4

\* That a map has what a node brings.
HasNode(v, node) ==
    /\ DOMAIN node.args \subseteq DOMAIN Numerals =>
           \A k \in DOMAIN node.args : Numerals[k] \in DOMAIN v /\ v[Numerals[k]] = ToInt(node.args[k])
    /\ \A p \in DOMAIN node.props : p \in DOMAIN v /\ v[p] = ToInt(node.props[p])
    /\ \A m \in DOMAIN node.children :
           /\ node.children[m].name \in DOMAIN v
           /\ v[node.children[m].name] = ToInt(node.children[m].args[1])

\* A map that has taken a node has all that it had and all that the node brings.
LEMMA OkMap ==
  ASSUME NEW node, IsNode(node), NEW old, NEW opts, toMap(node, old, opts).outcome = "ok"
  PROVE  LET v == toMap(node, old, opts).value
         IN  /\ Extends(old, v) /\ DOMAIN v = DOMAIN old \cup KeysIn(KeysOf(node, FALSE))
             /\ HasNode(v, node)
<1> DEFINE v == toMap(node, old, opts).value
           keys == DOMAIN old \cup Numbers(node) \cup DOMAIN node.props \cup ChildNames(node)
           New(k) == NewEntry(node, old, opts, k)
           children == node.children
<1>1. /\ ~Again(node, old) /\ RepeatedIn(node, old) = {} /\ ~Rejects(node, old, opts)
      /\ v = NewMap(node, old, opts)
  BY OfMap
<1>2. v = [k \in keys |-> New(k)]
  BY <1>1 DEF NewMap
<1> HIDE DEF v, keys, New
<1>3. DOMAIN v = keys /\ \A k \in keys : v[k] = New(k)
  BY <1>2
<1>4. ASSUME NEW m \in DOMAIN children
      PROVE  /\ children[m].name \notin DOMAIN old \cup Numbers(node) \cup DOMAIN node.props
             /\ toInt(children[m], opts).outcome = "ok"
  <2>1. children[m].name \notin Before(node, old, m)
    BY <1>1 DEF RepeatedIn
  <2>2. toInt(children[m], opts).outcome # "error"
    BY <1>1 DEF Rejects
  <2> QED
    BY <2>1, <2>2, OfInt DEF Before
<1>5. ASSUME NEW m \in DOMAIN children, NEW k \in DOMAIN children, children[m].name = children[k].name
      PROVE  m = k
  <2>1. ASSUME NEW a \in DOMAIN children, NEW b \in DOMAIN children, children[a].name = children[b].name, a < b
        PROVE  FALSE
    <3>1. a \in 1 .. (b - 1)
      BY <2>1 DEF IsNode, IsSequence
    <3>2. children[b].name \in Before(node, old, b)
      BY <2>1, <3>1 DEF Before
    <3> QED
      BY <1>1, <3>2 DEF RepeatedIn
  <2>2. m \in Nat /\ k \in Nat
    BY DEF IsNode, IsSequence
  <2>3. ~(m < k) /\ ~(k < m)
    BY <1>5, <2>1
  <2> QED
    BY <2>2, <2>3
<1>6. ASSUME NEW m \in DOMAIN children
      PROVE  children[m].name \in DOMAIN v /\ v[children[m].name] = ToInt(children[m].args[1])
  <2> DEFINE n == children[m].name
             c == CHOOSE l \in DOMAIN children : children[l].name = n
  <2>1. n \in ChildNames(node)
    BY DEF ChildNames
  <2>2. c = m
    <3>1. c \in DOMAIN children /\ children[c].name = n
      OBVIOUS
    <3> HIDE DEF c
    <3> QED
      BY <1>5, <3>1
  <2>3. New(n) = toInt(children[c], opts).value
    BY <2>1 DEF New, NewEntry
  <2>4. n \in keys
    BY <2>1 DEF keys
  <2> HIDE DEF c, n
  <2>5. v[n] = toInt(children[m], opts).value
    BY <1>3, <2>2, <2>3, <2>4
  <2>6. toInt(children[m], opts).value = ToInt(children[m].args[1])
    BY <1>4, OfInt
  <2> QED
    BY <1>3, <2>4, <2>5, <2>6 DEF n
<1>7. ASSUME NEW k, k \in ChildNames(node)
      PROVE  k \notin DOMAIN old \cup Numbers(node) \cup DOMAIN node.props
  BY <1>4, <1>7 DEF ChildNames
<1>8. ASSUME NEW p \in DOMAIN node.props
      PROVE  p \in DOMAIN v /\ v[p] = ToInt(node.props[p])
  <2>1. p \in keys /\ p \notin ChildNames(node)
    BY <1>7 DEF keys
  <2>2. New(p) = ToInt(node.props[p])
    BY <2>1 DEF New, NewEntry
  <2> QED
    BY <1>3, <2>1, <2>2
<1>9. ASSUME DOMAIN node.args \subseteq DOMAIN Numerals, NEW k \in DOMAIN node.args
      PROVE  Numerals[k] \in DOMAIN v /\ v[Numerals[k]] = ToInt(node.args[k])
  <2> DEFINE n == Numerals[k]
             c == CHOOSE i \in DOMAIN node.args : Numerals[i] = n
  <2>1. n \in Numbers(node)
    BY DEF Numbers
  <2>2. n \notin ChildNames(node) /\ n \notin DOMAIN node.props
    <3>1. n \notin ChildNames(node)
      BY <1>7, <2>1
    <3>2. n \notin DOMAIN node.props
      BY <1>1, <2>1 DEF Again
    <3> QED
      BY <3>1, <3>2
  <2>3. c = k
    <3>1. c \in DOMAIN node.args /\ Numerals[c] = n
      OBVIOUS
    <3> HIDE DEF c
    <3>2. c \in DOMAIN Numerals /\ k \in DOMAIN Numerals
      BY <1>9, <3>1
    <3> QED
      BY <3>1, <3>2 DEF Numerals
  <2>4. New(n) = ToInt(node.args[c])
    BY <2>1, <2>2 DEF New, NewEntry
  <2>5. n \in keys
    BY <2>1 DEF keys
  <2> HIDE DEF n, c
  <2>6. v[n] = ToInt(node.args[k])
    BY <1>3, <2>3, <2>4, <2>5
  <2> QED
    BY <1>3, <2>5, <2>6 DEF n
<1>10. Extends(old, v)
  <2>1. ASSUME NEW k \in DOMAIN old PROVE k \in DOMAIN v /\ v[k] = old[k]
    <3>1. k \in keys /\ k \notin ChildNames(node) /\ k \notin Numbers(node) /\ k \notin DOMAIN node.props
      BY <1>1, <1>7 DEF keys, Again
    <3>2. New(k) = old[k]
      BY <3>1 DEF New, NewEntry
    <3> QED
      BY <1>3, <3>1, <3>2
  <2> QED
    BY <2>1 DEF Extends
<1>11. DOMAIN v = DOMAIN old \cup KeysIn(KeysOf(node, FALSE))
  <2>1. DOMAIN v = DOMAIN old \cup (Numbers(node) \cup DOMAIN node.props \cup ChildNames(node))
    BY <1>3 DEF keys
  <2> QED
    BY <2>1, KeysOfMap
<1>12. HasNode(v, node)
  BY <1>6, <1>8, <1>9 DEF HasNode
<1> QED
  BY <1>10, <1>11, <1>12 DEF v

LEMMA OfMultiMap ==
  ASSUME NEW node, IsNode(node), NEW old, NEW opts
  PROVE  LET r == toMultiMap(node, old, opts)
             K == KeysOf(node, TRUE)
         IN  /\ r.outcome \in {"ok", "error", "panic"}
             /\ r.outcome = "panic" => node.args = <<>> \/ Clash(old, K)
             /\ r.outcome = "ok" => Extends(old, r.value) /\ DOMAIN r.value = DOMAIN old \cup KeysIn(K)
<1> DEFINE r == toMultiMap(node, old, opts)
           K == KeysOf(node, TRUE)
           key == node.args[1]
           n == Node(key, Tail(node.args), node.props, node.children)
<1>1. CASE node.args = <<>>
  <2>1. r = Panic
    BY <1>1 DEF toMultiMap
  <2> QED
    BY <1>1, <2>1, Outcomes
<1>2. CASE node.args # <<>>
  <2>1. r = PutChild(n, opts, old)
    BY <1>2 DEF toMultiMap
  <2>2. n.name = key
    BY NodeFields
  <2>3. 1 \in DOMAIN node.args
    BY <1>2 DEF IsNode, IsSequence
  <2>4. K = {<<Argument(1), key>>}
    BY <2>3 DEF KeysOf
  <2> HIDE DEF n, K
  <2>5. KeysIn(K) = {key} /\ <<Argument(1), key>> \in K
    BY <2>4 DEF KeysIn
  <2> HIDE DEF r, key
  <2>6. r.outcome \in {"ok", "error", "panic"} /\ (r.outcome = "panic" => key \in DOMAIN old)
    BY <2>1, <2>2, OfPut
  <2>7. r.outcome = "ok" => key \notin DOMAIN old /\ r.value = Put(old, key, toInt(n, opts).value)
    BY <2>1, <2>2, OfPut
  <2>8. r.outcome = "ok" => Extends(old, r.value) /\ DOMAIN r.value = DOMAIN old \cup KeysIn(K)
    <3> DEFINE x == toInt(n, opts).value
    <3>1. r.outcome = "ok" => key \notin DOMAIN old /\ r.value = Put(old, key, x)
      BY <2>7
    <3> HIDE DEF x
    <3> QED
      BY <2>5, <3>1 DEF Put, Extends
  <2>9. r.outcome = "panic" => Clash(old, K)
    BY <2>5, <2>6 DEF Clash
  <2> QED
    BY <2>6, <2>8, <2>9 DEF r, K
<1> QED
  BY <1>1, <1>2

LEMMA OfAppended ==
  ASSUME NEW r, NEW old, IsSequence(old)
  PROVE  LET a == Appended(r, old)
         IN  /\ a.outcome = r.outcome
             /\ a.outcome = "ok" => Grown(old, a.value) /\ r.value \in Range(a.value)
<1>1. CASE r.outcome = "ok"
  <2>1. Appended(r, old).outcome = "ok" /\ Appended(r, old).value = Append(old, r.value)
    BY <1>1, Outcomes DEF Appended
  <2> QED
    BY <1>1, <2>1, GrownByOne
<1>2. CASE r.outcome # "ok"
  BY <1>2 DEF Appended
<1> QED
  BY <1>1, <1>2

IsList(kind) == kind \in {"ints", "points"}

LEMMA OfMultiple ==
  ASSUME NEW kind \in Kinds, NEW node, IsNode(node), NEW old, NEW opts, IsList(kind) => IsSequence(old)
  PROVE  LET r == toMultiple(kind, node, old, opts)
             K == KeysOf(node, TRUE)
         IN  /\ r.outcome \in {"ok", "error", "panic"}
             /\ r.outcome = "panic" => \/ kind = "map" /\ (node.args = <<>> \/ Clash(old, K))
                                       \/ node.children # <<>> /\ opts.children
             /\ r.outcome = "ok" =>
                    /\ kind # "int" /\ (IsList(kind) => Grown(old, r.value))
                    /\ kind = "map" => Extends(old, r.value) /\ DOMAIN r.value = DOMAIN old \cup KeysIn(K)
<1> DEFINE r == toMultiple(kind, node, old, opts)
<1>1. CASE kind = "map"
  <2>1. r = toMultiMap(node, old, opts)
    BY <1>1 DEF toMultiple
  <2> QED
    BY <1>1, <2>1, OfMultiMap DEF IsList
<1>2. CASE kind = "ints"
  <2>1. r = Appended(toInt(node, opts), old)
    BY <1>2 DEF toMultiple
  <2> QED
    BY <1>2, <2>1, OfInt, OfAppended DEF IsList
<1>3. CASE kind = "points"
  <2>1. r = Appended(toPoint(node, opts), old)
    BY <1>3 DEF toMultiple
  <2> QED
    BY <1>3, <2>1, OfPoint, OfAppended DEF IsList
<1>4. CASE kind = "int"
  <2>1. r = Error
    BY <1>4 DEF toMultiple
  <2> QED
    BY <2>1, Outcomes
<1> QED
  BY <1>1, <1>2, <1>3, <1>4 DEF Kinds

LEMMA OfValue ==
  ASSUME NEW kind \in Kinds, NEW node, IsNode(node), NEW old, NEW opts, IsList(kind) => IsSequence(old)
  PROVE  LET r == toValue(kind, node, old, opts)
             K == KeysOf(node, FALSE)
         IN  /\ r.outcome \in {"ok", "error", "panic"}
             /\ r.outcome = "panic" => kind = "map" /\ Clash(old, K)
             /\ r.outcome = "ok" =>
                    /\ IsList(kind) => Grown(old, r.value)
                    /\ kind = "map" => Extends(old, r.value) /\ DOMAIN r.value = DOMAIN old \cup KeysIn(K)
<1> DEFINE r == toValue(kind, node, old, opts)
<1>1. CASE kind = "map"
  <2>1. r = toMap(node, old, opts)
    BY <1>1 DEF toValue
  <2> DEFINE K == KeysOf(node, FALSE)
  <2>2. r.outcome \in {"ok", "error", "panic"} /\ (r.outcome = "panic" => Clash(old, K))
    BY <2>1, OfMap
  <2>3. ASSUME r.outcome = "ok" PROVE Extends(old, r.value) /\ DOMAIN r.value = DOMAIN old \cup KeysIn(K)
    <3>1. toMap(node, old, opts).outcome = "ok"
      BY <2>1, <2>3
    <3>2. /\ Extends(old, toMap(node, old, opts).value)
          /\ DOMAIN toMap(node, old, opts).value = DOMAIN old \cup KeysIn(KeysOf(node, FALSE))
      <4> HIDE DEF r, K
      <4> QED
        BY <3>1, OkMap
    <3> QED
      BY <2>1, <3>2
  <2> HIDE DEF r, K
  <2> QED
    BY <1>1, <2>2, <2>3 DEF IsList, r, K
<1>2. CASE kind = "ints"
  <2>1. r = toInts(node, old)
    BY <1>2 DEF toValue
  <2> QED
    BY <1>2, <2>1, OfInts DEF IsList
<1>3. CASE kind = "points"
  <2>1. r = Ok(old) \/ r = Error
    BY <1>3 DEF toValue
  <2> QED
    BY <1>3, <2>1, Outcomes, NotGrown DEF IsList
<1>4. CASE kind = "int"
  <2>1. r = toInt(node, opts)
    BY <1>4 DEF toValue
  <2> QED
    BY <1>4, <2>1, OfInt DEF IsList
<1> QED
  BY <1>1, <1>2, <1>3, <1>4 DEF Kinds

----------------------------------------------------------------------------
(* The types of the variables.                                             *)

\* The children that have been unmarshaled; the others are still to come.
Done == Len(case.node.children) - Len(rest)

Remaining ==
    /\ IsSequence(rest) /\ Len(rest) <= Len(case.node.children)
    /\ \A j \in 1 .. Len(rest) : rest[j] = case.node.children[Done + j]

Typed ==
    /\ IsType(case.type) /\ IsNode(case.node) /\ AreNodes(case.node.children)
    /\ pc \in {"arguments", "properties", "children", "done"}
    /\ outcome \in {"ok", "error", "panic"} /\ (pc # "done" => outcome = "ok")
    /\ DOMAIN dest = DOMAIN case.type
    /\ \A i \in DOMAIN dest : IsList(case.type[i].kind) => IsSequence(dest[i])
    /\ visited \subseteq DOMAIN case.node.props /\ (pc = "arguments" => visited = {})
    /\ Remaining /\ (pc \in {"arguments", "properties"} => Done = 0)

LEMMA FieldIs ==
  ASSUME Typed, NEW name
  PROVE  \A i \in Field(name) : i \in DOMAIN case.type /\ i \in DOMAIN dest /\ Field(name) = {i}
BY Named DEF Typed, Field

LEMMA CapturingIs ==
  ASSUME Typed, NEW attr
  PROVE  LET r == Capturing(attr)
         IN  /\ Len(r) \in Nat /\ DOMAIN r = 1 .. Len(r)
             /\ \A k \in 1 .. Len(r) : r[k] \in DOMAIN dest /\ attr \in case.type[r[k]].attrs
             /\ \A j, k \in 1 .. Len(r) : r[j] = r[k] => j = k
             /\ r # <<>> => Head(r) = r[1] /\ 1 \in 1 .. Len(r)
             /\ r = <<>> <=> Len(r) = 0
<1>1. Capturing(attr) = StructAttrs(case.type, attr) /\ IsType(case.type) /\ DOMAIN dest = DOMAIN case.type
  BY DEF Typed, Capturing
<1> DEFINE r == StructAttrs(case.type, attr)
<1>2. /\ r \in Seq(DOMAIN dest) /\ Len(r) \in Nat /\ DOMAIN r = 1 .. Len(r)
      /\ \A k \in 1 .. Len(r) : attr \in case.type[r[k]].attrs
      /\ \A j, k \in 1 .. Len(r) : r[j] = r[k] => j = k
      /\ r # <<>> => Head(r) = r[1] /\ 1 \in 1 .. Len(r)
      /\ r = <<>> <=> Len(r) = 0
  BY <1>1, Attributed
<1> HIDE DEF r
<1>3. \A k \in 1 .. Len(r) : r[k] \in DOMAIN dest
  BY <1>2
<1> QED
  BY <1>1, <1>2, <1>3 DEF r

\* A field captures in one way, and has the kind for it.
LEMMA CapturesOnce ==
  ASSUME Typed, NEW i \in DOMAIN dest
  PROVE  /\ \A a, b \in Captures : a \in case.type[i].attrs /\ b \in case.type[i].attrs => a = b
         /\ "arg" \in case.type[i].attrs => case.type[i].kind = "int"
         /\ "args" \in case.type[i].attrs => case.type[i].kind = "ints"
         /\ "props" \in case.type[i].attrs \/ "children" \in case.type[i].attrs => case.type[i].kind = "map"
         /\ case.type[i].kind \in Kinds
<1>1. IsType(case.type) /\ i \in DOMAIN case.type
  BY DEF Typed
<1> QED
  BY <1>1 DEF IsType

LEMMA FirstIsNext ==
  ASSUME Remaining, rest # <<>>, AreNodes(case.node.children)
  PROVE  /\ Done + 1 \in DOMAIN case.node.children /\ Done \in Nat
         /\ Head(rest) = case.node.children[Done + 1] /\ IsNode(Head(rest))
<1> DEFINE children == case.node.children
<1>1. Len(children) \in Nat /\ DOMAIN children = 1 .. Len(children)
  BY DEF AreNodes, IsSequence
<1>2. Len(rest) \in Nat \ {0} /\ Head(rest) = rest[1] /\ Len(rest) <= Len(children)
  BY DEF Remaining, IsSequence
<1>3. Done \in Nat /\ Done + 1 \in 1 .. Len(children)
  BY <1>1, <1>2 DEF Done
<1>4. Head(rest) = children[Done + 1]
  BY <1>2 DEF Remaining
<1> QED
  BY <1>1, <1>3, <1>4 DEF AreNodes

LEMMA TailRemains ==
  ASSUME Typed, rest # <<>>, rest' = Tail(rest), UNCHANGED case
  PROVE  Remaining' /\ Done' = Done + 1
<1> DEFINE t == Tail(rest)
           children == case.node.children
           S == ToSet(rest)
<1>1. Len(children) \in Nat /\ Len(rest) \in Nat \ {0} /\ rest \in Seq(S) /\ Len(rest) <= Len(children)
  BY DEF Typed, Remaining, AreNodes, IsSequence
<1> HIDE DEF S
<1>2. t \in Seq(S) /\ Len(t) = Len(rest) - 1 /\ \A j \in 1 .. Len(rest) - 1 : t[j] = rest[j + 1]
  BY <1>1
<1> HIDE DEF t
<1>3. t \in Seq(ToSet(t))
  BY <1>2, OwnElements
<1>4. Done' = Done + 1 /\ Len(t) <= Len(children) /\ Done \in Int
  BY <1>1, <1>2 DEF Done, t
<1>5. \A j \in 1 .. Len(t) : t[j] = children[Done' + j]
  <2>1. ASSUME NEW j \in 1 .. Len(t) PROVE t[j] = children[Done' + j]
    <3>1. t[j] = rest[j + 1] /\ j + 1 \in 1 .. Len(rest)
      BY <1>1, <1>2
    <3>2. rest[j + 1] = children[Done + (j + 1)]
      BY <3>1 DEF Typed, Remaining
    <3>3. Done + (j + 1) = Done' + j
      BY <1>4
    <3> QED
      BY <3>1, <3>2, <3>3
  <2> QED
    BY <2>1
<1>6. rest' = t /\ case'.node.children = children
  BY DEF t
<1> HIDE DEF children
<1> QED
  BY <1>3, <1>4, <1>5, <1>6 DEF Remaining, IsSequence, children

\* What a node makes of a field is for it, and a panic has a reason.
Brings(i, node) ==
    LET f == case.type[i]
    IN  IF "multiple" \in f.attrs THEN toMultiple(f.kind, node, dest[i], case.opts)
        ELSE toValue(f.kind, node, dest[i], case.opts)

LEMMA BringsValue ==
  ASSUME Typed, NEW i \in DOMAIN dest, NEW node, IsNode(node)
  PROVE  LET r == Brings(i, node)
             f == case.type[i]
             K == KeysOf(node, "multiple" \in f.attrs)
         IN  /\ r.outcome \in {"ok", "error", "panic"}
             /\ r.outcome = "panic" =>
                    \/ f.kind = "map" /\ "multiple" \in f.attrs /\ node.args = <<>>
                    \/ f.kind = "map" /\ Clash(dest[i], K)
                    \/ node.children # <<>> /\ case.opts.children
             /\ r.outcome = "ok" =>
                    /\ IsList(f.kind) => Grown(dest[i], r.value)
                    /\ f.kind = "map" =>
                           Extends(dest[i], r.value) /\ DOMAIN r.value = DOMAIN dest[i] \cup KeysIn(K)
<1> DEFINE r == Brings(i, node)
           f == case.type[i]
           k == f.kind
           old == dest[i]
           K(multiple) == KeysOf(node, multiple)
<1>1. k \in Kinds /\ (IsList(k) => IsSequence(old))
  BY CapturesOnce DEF Typed
<1>2. CASE "multiple" \in f.attrs
  <2>1. r = toMultiple(k, node, old, case.opts) /\ ("multiple" \in f.attrs) = TRUE
    BY <1>2 DEF Brings
  <2> HIDE DEF r, old, k, K
  <2>2. /\ r.outcome \in {"ok", "error", "panic"}
        /\ r.outcome = "panic" => \/ k = "map" /\ (node.args = <<>> \/ Clash(old, K(TRUE)))
                                  \/ node.children # <<>> /\ case.opts.children
        /\ r.outcome = "ok" =>
               /\ IsList(k) => Grown(old, r.value)
               /\ k = "map" => Extends(old, r.value) /\ DOMAIN r.value = DOMAIN old \cup KeysIn(K(TRUE))
    BY <1>1, <2>1, OfMultiple DEF K
  <2>3. K("multiple" \in f.attrs) = K(TRUE)
    BY <2>1
  <2> HIDE DEF f
  <2> QED
    BY <1>2, <2>2, <2>3 DEF r, old, k, K, f
<1>3. CASE "multiple" \notin f.attrs
  <2>1. r = toValue(k, node, old, case.opts) /\ ("multiple" \in f.attrs) = FALSE
    BY <1>3 DEF Brings
  <2> HIDE DEF r, old, k, K
  <2>2. /\ r.outcome \in {"ok", "error", "panic"}
        /\ r.outcome = "panic" => k = "map" /\ Clash(old, K(FALSE))
        /\ r.outcome = "ok" =>
               /\ IsList(k) => Grown(old, r.value)
               /\ k = "map" => Extends(old, r.value) /\ DOMAIN r.value = DOMAIN old \cup KeysIn(K(FALSE))
    BY <1>1, <2>1, OfValue DEF K
  <2>3. K("multiple" \in f.attrs) = K(FALSE)
    BY <2>1
  <2> HIDE DEF f
  <2> QED
    BY <2>2, <2>3 DEF r, old, k, K, f
<1> QED
  BY <1>2, <1>3

LEMMA TypedInit == Init => Typed
<1> SUFFICES ASSUME Init PROVE Typed
  OBVIOUS
<1>1. IsType(case.type) /\ IsNode(case.node) /\ AreNodes(case.node.children)
  <2>1. PICK t \in DOMAIN Types, opts \in Options : Marshaled(t, opts) \/ Written(t, opts)
    BY DEF Init
  <2>2. IsType(Types[t])
    BY TypesAssumption
  <2>3. CASE Marshaled(t, opts)
    <3>1. PICK value \in Values[t] :
              case = Call(Types[t], opts, value, marshalStructToNode("n", Types[t], opts.caseSensitive, value))
      BY <2>3 DEF Marshaled
    <3>2. IsValue(Types[t], value)
      BY TypesAssumption
    <3> DEFINE n == marshalStructToNode("n", Types[t], opts.caseSensitive, value)
    <3>3. IsNode(n) /\ AreNodes(n.children)
      BY <2>2, <3>2, MarshaledIsNode
    <3> HIDE DEF n
    <3>4. case.node = n /\ case.type = Types[t]
      BY <3>1 DEF Call, n
    <3> QED
      BY <2>2, <3>3, <3>4
  <2>4. CASE Written(t, opts)
    <3>1. PICK args \in Nodes.args, props \in Nodes.props, children \in Nodes.children :
              case = Call(Types[t], opts, <<>>, Node("n", args, props, children))
      BY <2>4 DEF Written
    <3> DEFINE n == Node("n", args, props, children)
    <3>2. n.args = args /\ n.children = children
      BY NodeFields
    <3>3. IsSequence(args) /\ AreNodes(children)
      BY NodesAssumption DEF AreNodes
    <3> HIDE DEF n
    <3>4. case.node = n /\ case.type = Types[t]
      BY <3>1 DEF Call, n
    <3> QED
      BY <2>2, <3>2, <3>3, <3>4 DEF IsNode, AreNodes
  <2> QED
    BY <2>1, <2>3, <2>4
<1>2. DOMAIN dest = DOMAIN case.type /\ \A i \in DOMAIN dest : IsList(case.type[i].kind) => IsSequence(dest[i])
  <2>1. dest = [i \in DOMAIN case.type |-> Zero(case.type[i].kind)]
    BY DEF Init
  <2>2. ASSUME NEW kind, IsList(kind) PROVE IsSequence(Zero(kind))
    <3>1. Zero(kind) = <<>>
      BY <2>2 DEF Zero, IsList
    <3> QED
      BY <3>1 DEF IsSequence, ToSet
  <2> QED
    BY <2>1, <2>2
<1>3. Remaining /\ Done = 0
  <2>1. rest = case.node.children /\ IsSequence(rest) /\ Len(rest) \in Nat
    BY <1>1 DEF Init, AreNodes, IsSequence
  <2>2. Done = 0
    BY <2>1 DEF Done
  <2> QED
    BY <2>1, <2>2 DEF Remaining
<1> QED
  BY <1>1, <1>2, <1>3 DEF Typed, Init

LEMMA TypedStutter ==
  ASSUME Typed, UNCHANGED vars PROVE Typed'
BY DEF Typed, Remaining, Done, vars

\* Steps that end the phase, or fail in it.
LEMMA TypedFails ==
  ASSUME Typed, NEW from, NEW o \in {"error", "panic"}, Fails(from, o) PROVE Typed'
BY DEF Typed, Remaining, Done, Fails, Goes

LEMMA TypedAssignArguments ==
  ASSUME Typed, AssignArguments PROVE Typed'
<1> DEFINE args == case.node.args
           each == Capturing("arg")
           all == Capturing("args")
           n == Len(args) - Len(each)
<1>1. UNCHANGED <<case, visited, rest, outcome>> /\ pc = "arguments" /\ pc' = "properties"
  BY DEF AssignArguments, Goes
<1>2. \/ dest' = dest
      \/ args # <<>>
         /\ dest' = [i \in DOMAIN dest |->
                       CASE Contains(each, i) -> ToInt(args[CHOOSE k \in DOMAIN each : each[k] = i])
                         [] Contains(all, i) -> [k \in 1 .. n |-> ToInt(args[Len(each) + k])]
                         [] OTHER -> dest[i]]
  BY DEF AssignArguments
<1>3. DOMAIN dest' = DOMAIN dest
  BY <1>2
<1>4. ASSUME NEW i \in DOMAIN dest, IsList(case.type[i].kind) PROVE IsSequence(dest'[i])
  <2>1. IsSequence(dest[i])
    BY <1>4 DEF Typed
  <2>2. ~Contains(each, i)
    <3>1. SUFFICES ASSUME Contains(each, i) PROVE FALSE
      OBVIOUS
    <3>2. "arg" \in case.type[i].attrs
      BY <3>1, CapturingIs DEF Contains
    <3> QED
      BY <1>4, <3>2, CapturesOnce DEF IsList
  <2>3. args # <<>> => IsSequence([k \in 1 .. n |-> ToInt(args[Len(each) + k])])
    <3>1. SUFFICES ASSUME args # <<>> PROVE IsSequence([k \in 1 .. n |-> ToInt(args[Len(each) + k])])
      OBVIOUS
    <3>2. Len(each) \in Nat /\ Len(args) \in Nat
      BY CapturingIs DEF Typed, IsNode, IsSequence
    <3>3. ~(Len(each) > Len(args))
      BY <3>1 DEF AssignArguments, ArgumentMissing
    <3>4. n \in Nat
      BY <3>2, <3>3
    <3> DEFINE s == [k \in 1 .. n |-> ToInt(args[Len(each) + k])]
    <3>5. s = [k \in 1 .. n |-> s[k]]
      OBVIOUS
    <3> HIDE DEF s, n
    <3>6. IsSequence(s)
      BY <3>4, <3>5, Listed
    <3> QED
      BY <3>6 DEF s
  <2> HIDE DEF each, all, n
  <2> QED
    BY <1>2, <2>1, <2>2, <2>3
<1> QED
  BY <1>1, <1>3, <1>4 DEF Typed, Remaining, Done

LEMMA TypedAssignProperty ==
  ASSUME Typed, NEW p \in DOMAIN case.node.props, AssignProperty(p) PROVE Typed'
<1>1. UNCHANGED <<case, rest>> /\ visited' = visited \cup {p} /\ pc = "properties"
  BY DEF AssignProperty
<1>2. \/ UNCHANGED <<pc, dest, outcome>>
      \/ \E i \in Field(p) : /\ case.type[i].kind = "int" /\ UNCHANGED <<pc, outcome>>
                              /\ dest' = [dest EXCEPT ![i] = ToInt(case.node.props[p])]
      \/ pc' = "done" /\ outcome' = "error" /\ UNCHANGED dest
  BY DEF AssignProperty
<1>3. DOMAIN dest' = DOMAIN dest /\ \A i \in DOMAIN dest : IsList(case.type[i].kind) => IsSequence(dest'[i])
  BY <1>2 DEF Typed, IsList
<1>4. pc' \in {"properties", "done"} /\ outcome' \in {"ok", "error"} /\ (pc' # "done" => outcome' = "ok")
  BY <1>1, <1>2 DEF Typed
<1> QED
  BY <1>1, <1>3, <1>4 DEF Typed, Remaining, Done

LEMMA TypedCollectProperties ==
  ASSUME Typed, CollectProperties PROVE Typed'
<1> DEFINE new(i) == [k \in visited |-> ToInt(case.node.props[k])]
<1>1. UNCHANGED <<case, visited, rest, outcome>> /\ pc = "properties" /\ pc' = "children"
  BY DEF CollectProperties, Goes
<1>2. dest' = [i \in DOMAIN dest |-> IF Contains(Capturing("props"), i) THEN new(i) ELSE dest[i]]
  BY DEF CollectProperties
<1>3. ASSUME NEW i \in DOMAIN dest, IsList(case.type[i].kind) PROVE dest'[i] = dest[i]
  <2>1. ~Contains(Capturing("props"), i)
    <3>1. SUFFICES ASSUME Contains(Capturing("props"), i) PROVE FALSE
      OBVIOUS
    <3>2. "props" \in case.type[i].attrs
      BY <3>1, CapturingIs DEF Contains
    <3> QED
      BY <1>3, <3>2, CapturesOnce DEF IsList
  <2> HIDE DEF new
  <2> QED
    BY <1>2, <2>1
<1>4. DOMAIN dest' = DOMAIN dest
  BY <1>2
<1> QED
  BY <1>1, <1>3, <1>4 DEF Typed, Remaining, Done

\* A field takes what a node brings, if that is of its kind.
LEMMA TypedTakes ==
  ASSUME Typed, NEW i \in DOMAIN dest, NEW r, Takes(i, r), pc = "children", rest # <<>>,
         r.outcome \in {"ok", "error", "panic"},
         r.outcome = "ok" /\ IsList(case.type[i].kind) => IsSequence(r.value),
         rest' = Tail(rest), UNCHANGED <<case, visited>>
  PROVE  Typed'
<1>1. Remaining'
  BY TailRemains
<1>2. \/ r.outcome = "ok" /\ dest' = [dest EXCEPT ![i] = r.value] /\ pc' = "children" /\ outcome' = "ok"
      \/ r.outcome # "ok" /\ dest' = dest /\ pc' = "done" /\ outcome' = r.outcome
  BY DEF Takes
<1>3. DOMAIN dest' = DOMAIN dest /\ \A j \in DOMAIN dest : IsList(case.type[j].kind) => IsSequence(dest'[j])
  BY <1>2 DEF Typed
<1>4. /\ pc' \in {"children", "done"} /\ outcome' \in {"ok", "error", "panic"}
      /\ pc' # "done" => outcome' = "ok"
  BY <1>2
<1> QED
  BY <1>1, <1>3, <1>4 DEF Typed

\* The child that comes next, for the field that takes children, and for its own.
LEMMA ToMapTakes ==
  ASSUME Typed, UnmarshalToMap
  PROVE  LET i == Head(Capturing("children"))
             r == PutChild(Head(rest), case.opts, dest[i])
         IN  /\ i \in DOMAIN dest /\ "children" \in case.type[i].attrs /\ case.type[i].kind = "map"
             /\ Takes(i, r) /\ r.outcome \in {"ok", "error", "panic"}
<1> DEFINE c == Capturing("children")
           i == Head(c)
<1>1. c # <<>> /\ Takes(i, PutChild(Head(rest), case.opts, dest[i]))
  BY DEF UnmarshalToMap
<1>2. i \in DOMAIN dest /\ "children" \in case.type[i].attrs
  BY <1>1, CapturingIs
<1>3. case.type[i].kind = "map"
  BY <1>2, CapturesOnce
<1> HIDE DEF i
<1>4. PutChild(Head(rest), case.opts, dest[i]).outcome \in {"ok", "error", "panic"}
  BY OfPut
<1> QED
  BY <1>1, <1>2, <1>3, <1>4 DEF i

LEMMA ToFieldTakes ==
  ASSUME Typed, UnmarshalToField
  PROVE  \E i \in Field(Head(rest).name) :
            /\ i \in DOMAIN dest /\ Field(Head(rest).name) = {i} /\ IsNode(Head(rest))
            /\ Takes(i, Brings(i, Head(rest)))
<1>1. PICK i \in Field(Head(rest).name) :
          Takes(i, IF "multiple" \in case.type[i].attrs
                   THEN toMultiple(case.type[i].kind, Head(rest), dest[i], case.opts)
                   ELSE toValue(case.type[i].kind, Head(rest), dest[i], case.opts))
  BY DEF UnmarshalToField
<1>2. Takes(i, Brings(i, Head(rest)))
  BY <1>1 DEF Brings
<1>3. IsNode(Head(rest))
  BY FirstIsNext DEF Typed, UnmarshalToField
<1> QED
  BY <1>1, <1>2, <1>3, FieldIs

LEMMA TypedNext ==
  ASSUME Typed, [Next]_vars PROVE Typed'
<1>1. CASE RejectArguments
  BY <1>1, TypedFails DEF RejectArguments
<1>2. CASE RunOutOfArguments
  BY <1>2, TypedFails DEF RunOutOfArguments
<1>3. CASE AssignArguments
  BY <1>3, TypedAssignArguments
<1>4. CASE \E p \in DOMAIN case.node.props : AssignProperty(p)
  BY <1>4, TypedAssignProperty
<1>5. CASE RejectProperties
  BY <1>5, TypedFails DEF RejectProperties
<1>6. CASE CollectProperties
  BY <1>6, TypedCollectProperties
<1>7. CASE NoChildrenField
  BY <1>7, TypedFails DEF NoChildrenField
<1>8. CASE UnmarshalToMap
  <2> DEFINE i == Head(Capturing("children"))
             r == PutChild(Head(rest), case.opts, dest[i])
  <2>1. /\ i \in DOMAIN dest /\ case.type[i].kind = "map"
        /\ Takes(i, r) /\ r.outcome \in {"ok", "error", "panic"}
    BY <1>8, ToMapTakes
  <2>2. pc = "children" /\ rest # <<>> /\ rest' = Tail(rest) /\ UNCHANGED <<case, visited>>
    BY <1>8 DEF UnmarshalToMap
  <2>3. ~IsList(case.type[i].kind)
    BY <2>1 DEF IsList
  <2> HIDE DEF i, r
  <2> QED
    BY <2>1, <2>2, <2>3, TypedTakes
<1>9. CASE UnmarshalToField
  <2>1. PICK i \in DOMAIN dest : IsNode(Head(rest)) /\ Takes(i, Brings(i, Head(rest)))
    BY <1>9, ToFieldTakes
  <2> DEFINE r == Brings(i, Head(rest))
  <2>2. /\ r.outcome \in {"ok", "error", "panic"}
        /\ r.outcome = "ok" /\ IsList(case.type[i].kind) => IsSequence(r.value)
    BY <2>1, BringsValue DEF Grown
  <2>3. pc = "children" /\ rest # <<>> /\ rest' = Tail(rest) /\ UNCHANGED <<case, visited>>
    BY <1>9 DEF UnmarshalToField
  <2> HIDE DEF r
  <2>4. Takes(i, r)
    BY <2>1 DEF r
  <2> QED
    BY <2>2, <2>3, <2>4, TypedTakes
<1>10. CASE NoField
  <2>1. Remaining' /\ UNCHANGED <<case, dest, visited>> /\ pc = "children"
    BY <1>10, TailRemains DEF NoField
  <2>2. UNCHANGED <<pc, outcome>> \/ (pc' = "done" /\ outcome' = "error")
    BY <1>10 DEF NoField
  <2> QED
    BY <2>1, <2>2 DEF Typed
<1>11. CASE Return
  BY <1>11 DEF Return, Goes, Typed, Remaining, Done
<1>12. CASE UNCHANGED vars
  BY <1>12, TypedStutter
<1> QED
  BY <1>1, <1>2, <1>3, <1>4, <1>5, <1>6, <1>7, <1>8, <1>9, <1>10, <1>11, <1>12 DEF Next, Finished

LEMMA AlwaysTyped == Spec => []Typed
BY TypedInit, TypedNext, PTL DEF Spec

----------------------------------------------------------------------------
(* Panics.                                                                 *)

\* A call does not change.
LEMMA CallStays ==
  ASSUME UNCHANGED case
  PROVE  /\ \A n : Field(n)' = Field(n)
         /\ \A a : Capturing(a)' = Capturing(a)
BY DEF Capturing, Field

LEMMA KeysStay ==
  ASSUME UNCHANGED case
  PROVE  \A i, k : Keys(i, k)' = Keys(i, k)
<1> TAKE i, k
<1>1. /\ Capturing("props")' = Capturing("props") /\ Capturing("children")' = Capturing("children")
      /\ Field(case.node.children[k].name)' = Field(case.node.children[k].name)
  BY CallStays DEF Field
<1> QED
  BY <1>1 DEF Keys

LEMMA RepeatsStay ==
  ASSUME UNCHANGED case, RepeatsKey
  PROVE  RepeatsKey'
BY KeysStay DEF RepeatsKey

\* Every key of a map is of an entry that has been looked at.
KeysCome(i, key, last) == \E k \in 0 .. last : \E x \in Keys(i, k) : x[2] = key
MapKeys ==
    \A i \in DOMAIN dest : case.type[i].kind = "map" => \A key \in DOMAIN dest[i] : KeysCome(i, key, Done)

LEMMA DoneCounts ==
  ASSUME Typed PROVE Done \in Nat
BY DEF Typed, Remaining, AreNodes, IsSequence, Done

LEMMA MapKeysGrow ==
  ASSUME Typed, MapKeys, UNCHANGED case, Done' = Done \/ Done' = Done + 1, DOMAIN dest' = DOMAIN dest,
         \A i \in DOMAIN dest : case.type[i].kind = "map" =>
             \A key \in DOMAIN dest'[i] : key \in DOMAIN dest[i] \/ KeysCome(i, key, Done')
  PROVE  MapKeys'
<1>1. ASSUME NEW i \in DOMAIN dest, case.type[i].kind = "map", NEW key \in DOMAIN dest'[i]
      PROVE  \E k \in 0 .. Done' : \E x \in Keys(i, k) : x[2] = key
  <2>1. CASE key \in DOMAIN dest[i]
    <3>1. PICK k \in 0 .. Done : \E x \in Keys(i, k) : x[2] = key
      BY <1>1, <2>1 DEF MapKeys, KeysCome
    <3>2. k \in 0 .. Done'
      BY DoneCounts
    <3> QED
      BY <3>1, <3>2
  <2>2. CASE key \notin DOMAIN dest[i]
    BY <1>1, <2>2 DEF KeysCome
  <2> QED
    BY <2>1, <2>2
<1>2. \A i, k : Keys(i, k)' = Keys(i, k)
  BY KeysStay
<1>3. \A i, key : KeysCome(i, key, Done)' <=> \E k \in 0 .. Done' : \E x \in Keys(i, k) : x[2] = key
  BY <1>2 DEF KeysCome
<1> QED
  BY <1>1, <1>3 DEF MapKeys

LEMMA MapKeysStay ==
  ASSUME Typed, MapKeys, UNCHANGED case, Done' = Done \/ Done' = Done + 1, DOMAIN dest' = DOMAIN dest,
         \A i \in DOMAIN dest : case.type[i].kind = "map" => dest'[i] = dest[i]
  PROVE  MapKeys'
BY MapKeysGrow

LEMMA MapKeysInit == Init => MapKeys
<1> SUFFICES ASSUME Init, NEW i \in DOMAIN dest, case.type[i].kind = "map" PROVE DOMAIN dest[i] = {}
  BY DEF MapKeys
<1>1. dest[i] = Zero(case.type[i].kind)
  BY DEF Init
<1> QED
  BY <1>1 DEF Zero, Empty

\* What a child that a map takes adds to it.
LEMMA ChildKeys ==
  ASSUME Typed, rest # <<>>, NEW i,
         IF Capturing("children") # <<>> THEN i = Head(Capturing("children")) ELSE i \in Field(Head(rest).name)
  PROVE  /\ Done + 1 \in 0 .. Len(case.node.children) /\ Done + 1 \notin 0 .. Done
         /\ Keys(i, Done + 1) =
                IF Capturing("children") # <<>> THEN {<<ChildNode(Done + 1), Head(rest).name>>}
                ELSE KeysOf(Head(rest), "multiple" \in case.type[i].attrs)
<1> DEFINE n == Done + 1
           children == case.node.children
<1>1. n \in DOMAIN children /\ Done \in Nat /\ Head(rest) = children[n]
  BY FirstIsNext DEF Typed
<1>2. DOMAIN children = 1 .. Len(children) /\ Len(children) \in Nat
  BY DEF Typed, AreNodes, IsSequence
<1>3. n # 0 /\ n \in 0 .. Len(children) /\ n \notin 0 .. Done
  BY <1>1, <1>2
<1> HIDE DEF n
<1>4. Keys(i, n) = IF Capturing("children") # <<>> THEN {<<ChildNode(n), Head(rest).name>>}
                   ELSE KeysOf(Head(rest), "multiple" \in case.type[i].attrs)
  <2>1. CASE Capturing("children") # <<>>
    BY <1>1, <1>3, <2>1 DEF Keys
  <2>2. CASE Capturing("children") = <<>>
    BY <1>1, <1>3, <2>2 DEF Keys
  <2> QED
    BY <2>1, <2>2
<1> QED
  BY <1>3, <1>4 DEF n

LEMMA MapKeysToMap ==
  ASSUME Typed, MapKeys, UnmarshalToMap PROVE MapKeys'
<1> DEFINE i == Head(Capturing("children"))
           r == PutChild(Head(rest), case.opts, dest[i])
           n == Done + 1
<1>1. /\ pc = "children" /\ rest # <<>> /\ Capturing("children") # <<>>
      /\ rest' = Tail(rest) /\ UNCHANGED <<case, visited>>
  BY DEF UnmarshalToMap
<1>2. i \in DOMAIN dest /\ Takes(i, r)
  BY ToMapTakes
<1>3. Done' = n
  BY <1>1, TailRemains
<1>4. <<ChildNode(n), Head(rest).name>> \in Keys(i, n) /\ n \in 0 .. n
  BY <1>1, ChildKeys, DoneCounts
<1>5. r.outcome = "ok" => DOMAIN r.value = DOMAIN dest[i] \cup {Head(rest).name}
  <2> DEFINE x == toInt(Head(rest), case.opts).value
             old == dest[i]
             key == Head(rest).name
  <2>1. r.outcome = "ok" => key \notin DOMAIN old /\ r.value = Put(old, key, x)
    BY OfPut
  <2> HIDE DEF x, old, key
  <2>2. r.outcome = "ok" => DOMAIN r.value = DOMAIN old \cup {key}
    <3> HIDE DEF r
    <3> QED
      BY <2>1 DEF Put, Extends
  <2> QED
    BY <2>2 DEF old, key
<1> HIDE DEF i, r, n
<1>6. \/ UNCHANGED dest
      \/ r.outcome = "ok" /\ dest' = [dest EXCEPT ![i] = r.value]
  BY <1>2 DEF Takes
<1>7. KeysCome(i, Head(rest).name, n)
  BY <1>4 DEF KeysCome
<1>8. DOMAIN dest' = DOMAIN dest
  BY <1>6
<1>9. ASSUME NEW j \in DOMAIN dest, NEW key \in DOMAIN dest'[j]
      PROVE  key \in DOMAIN dest[j] \/ KeysCome(j, key, Done')
  BY <1>2, <1>3, <1>5, <1>6, <1>7
<1> QED
  BY <1>1, <1>3, <1>8, <1>9, MapKeysGrow DEF n

LEMMA MapKeysToField ==
  ASSUME Typed, MapKeys, UnmarshalToField PROVE MapKeys'
<1> DEFINE node == Head(rest)
           n == Done + 1
<1>1. PICK i \in Field(node.name) : i \in DOMAIN dest /\ IsNode(node) /\ Takes(i, Brings(i, node))
  BY ToFieldTakes
<1>2. /\ pc = "children" /\ rest # <<>> /\ Capturing("children") = <<>>
      /\ rest' = Tail(rest) /\ UNCHANGED <<case, visited>>
  BY DEF UnmarshalToField
<1> DEFINE r == Brings(i, node)
           K == KeysOf(node, "multiple" \in case.type[i].attrs)
<1>3. Done' = n
  BY <1>2, TailRemains
<1>4. Keys(i, n) = K /\ n \in 0 .. n
  BY <1>1, <1>2, ChildKeys, DoneCounts
<1>5. r.outcome = "ok" /\ case.type[i].kind = "map" => DOMAIN r.value = DOMAIN dest[i] \cup KeysIn(K)
  BY <1>1, BringsValue
<1> HIDE DEF r, n, K
<1>6. \/ UNCHANGED dest
      \/ r.outcome = "ok" /\ dest' = [dest EXCEPT ![i] = r.value]
  BY <1>1 DEF Takes, r
<1>7. \A key \in KeysIn(K) : KeysCome(i, key, n)
  BY <1>4 DEF KeysCome, KeysIn
<1>8. DOMAIN dest' = DOMAIN dest
  BY <1>6
<1>9. ASSUME NEW j \in DOMAIN dest, case.type[j].kind = "map", NEW key \in DOMAIN dest'[j]
      PROVE  key \in DOMAIN dest[j] \/ KeysCome(j, key, Done')
  BY <1>1, <1>3, <1>5, <1>6, <1>7, <1>9
<1> QED
  BY <1>2, <1>3, <1>8, <1>9, MapKeysGrow DEF n

LEMMA MapKeysCollect ==
  ASSUME Typed, MapKeys, CollectProperties PROVE MapKeys'
<1> DEFINE new(i) == [k \in visited |-> ToInt(case.node.props[k])]
           collecting(i) == Contains(Capturing("props"), i)
<1>1. UNCHANGED <<case, visited, rest, outcome>>
  BY DEF CollectProperties
<1>2. dest' = [i \in DOMAIN dest |-> IF collecting(i) THEN new(i) ELSE dest[i]]
  BY DEF CollectProperties
<1>3. \A i : DOMAIN new(i) = visited
  OBVIOUS
<1>4. ASSUME NEW i, collecting(i), NEW key \in visited PROVE KeysCome(i, key, Done)
  <2>1. <<Property(key), key>> \in Keys(i, 0)
    BY <1>4 DEF Keys, Typed
  <2>2. 0 \in 0 .. Done
    BY DoneCounts
  <2>3. <<Property(key), key>>[2] = key
    OBVIOUS
  <2> QED
    BY <2>1, <2>2, <2>3 DEF KeysCome
<1>5. Done' = Done
  BY <1>1 DEF Done
<1> HIDE DEF new, collecting
<1>6. ASSUME NEW i \in DOMAIN dest, NEW key \in DOMAIN dest'[i]
      PROVE  key \in DOMAIN dest[i] \/ KeysCome(i, key, Done')
  <2>1. CASE collecting(i)
    <3>1. dest'[i] = new(i)
      BY <1>2, <2>1
    <3>2. key \in visited
      BY <1>3, <1>6, <3>1
    <3> QED
      BY <1>4, <1>5, <2>1, <3>2
  <2>2. CASE ~collecting(i)
    BY <1>2, <1>6, <2>2
  <2> QED
    BY <2>1, <2>2
<1>7. DOMAIN dest' = DOMAIN dest
  BY <1>2
<1> QED
  BY <1>1, <1>5, <1>6, <1>7, MapKeysGrow

LEMMA MapKeysNext ==
  ASSUME Typed, MapKeys, [Next]_vars PROVE MapKeys'
<1>1. CASE UnmarshalToMap
  BY <1>1, MapKeysToMap
<1>2. CASE UnmarshalToField
  BY <1>2, MapKeysToField
<1>3. CASE CollectProperties
  BY <1>3, MapKeysCollect
<1>4. CASE NoField
  <2>1. UNCHANGED <<case, dest>> /\ rest # <<>> /\ rest' = Tail(rest)
    BY <1>4 DEF NoField
  <2>2. Done' = Done + 1
    BY <2>1, TailRemains
  <2> QED
    BY <2>1, <2>2, MapKeysStay
<1>5. CASE AssignArguments
  <2>1. UNCHANGED <<case, rest>>
    BY <1>5 DEF AssignArguments
  <2>2. DOMAIN dest' = DOMAIN dest
    BY <1>5 DEF AssignArguments
  <2>3. ASSUME NEW i \in DOMAIN dest, case.type[i].kind = "map" PROVE dest'[i] = dest[i]
    <3>1. ~Contains(Capturing("arg"), i) /\ ~Contains(Capturing("args"), i)
      <4>1. "arg" \notin case.type[i].attrs /\ "args" \notin case.type[i].attrs
        BY <2>3, CapturesOnce
      <4> QED
        BY <4>1, CapturingIs DEF Contains
    <3> QED
      BY <1>5, <3>1 DEF AssignArguments
  <2>4. Done' = Done
    BY <2>1 DEF Done
  <2> QED
    BY <2>1, <2>2, <2>3, <2>4, MapKeysStay
<1>6. CASE \E p \in DOMAIN case.node.props : AssignProperty(p)
  <2>1. PICK p \in DOMAIN case.node.props : AssignProperty(p)
    BY <1>6
  <2>2. UNCHANGED <<case, rest>>
    BY <2>1 DEF AssignProperty
  <2>3. \/ UNCHANGED dest
        \/ \E i : /\ case.type[i].kind = "int"
                  /\ dest' = [dest EXCEPT ![i] = ToInt(case.node.props[p])]
    BY <2>1 DEF AssignProperty
  <2>4. Done' = Done
    BY <2>2 DEF Done
  <2>5. DOMAIN dest' = DOMAIN dest /\ \A i \in DOMAIN dest : case.type[i].kind = "map" => dest'[i] = dest[i]
    BY <2>3
  <2> QED
    BY <2>2, <2>4, <2>5, MapKeysStay
<1>7. CASE RejectArguments \/ RunOutOfArguments \/ RejectProperties \/ NoChildrenField \/ Return \/ UNCHANGED vars
  <2>1. UNCHANGED <<case, dest, rest>>
    BY <1>7 DEF RejectArguments, RunOutOfArguments, RejectProperties, NoChildrenField, Return, Fails, vars
  <2>2. Done' = Done
    BY <2>1 DEF Done
  <2> QED
    BY <2>1, <2>2, MapKeysStay
<1> QED
  BY <1>1, <1>2, <1>3, <1>4, <1>5, <1>6, <1>7 DEF Next, Finished

\* The reasons do not change.
LEMMA PanicsStay ==
  ASSUME PanicsAreNamed, UNCHANGED case, outcome' = outcome \/ outcome' # "panic"
  PROVE  PanicsAreNamed'
<1>1. RepeatsKey => RepeatsKey'
  BY RepeatsStay
<1> QED
  BY <1>1 DEF PanicsAreNamed, Capturing, Field

\* A key that a map has, or that comes twice with one child, is a repeated key.
LEMMA ClashRepeats ==
  ASSUME Typed, MapKeys, rest # <<>>, NEW i \in DOMAIN dest, case.type[i].kind = "map",
         IF Capturing("children") # <<>> THEN i = Head(Capturing("children")) ELSE i \in Field(Head(rest).name),
         Clash(dest[i], Keys(i, Done + 1))
  PROVE  RepeatsKey
<1> DEFINE n == Done + 1
           last == Len(case.node.children)
<1>1. i \in DOMAIN case.type /\ n \in 0 .. last /\ n \notin 0 .. Done /\ Done \in Nat /\ last \in Nat
  BY ChildKeys, DoneCounts DEF Typed, AreNodes, IsSequence
<1> HIDE DEF n, last
<1>2. Clash(dest[i], Keys(i, n))
  BY DEF n
<1>3. CASE \E x \in Keys(i, n) : x[2] \in DOMAIN dest[i]
  <2>1. PICK x \in Keys(i, n) : x[2] \in DOMAIN dest[i]
    BY <1>3
  <2>2. PICK k \in 0 .. Done : \E y \in Keys(i, k) : y[2] = x[2]
    BY <2>1 DEF MapKeys, KeysCome
  <2>3. k # n /\ k \in 0 .. last
    BY <1>1 DEF n
  <2> QED
    BY <1>1, <2>1, <2>2, <2>3 DEF RepeatsKey, last
<1>4. CASE \E x, y \in Keys(i, n) : x[2] = y[2] /\ x[1] # y[1]
  BY <1>1, <1>4 DEF RepeatsKey, last
<1> QED
  BY <1>2, <1>3, <1>4 DEF Clash

LEMMA PanicsNext ==
  ASSUME Typed, MapKeys, PanicsAreNamed, [Next]_vars PROVE PanicsAreNamed'
<1>1. UNCHANGED case
  BY DEF Next, vars, RejectArguments, RunOutOfArguments, AssignArguments, AssignProperty, RejectProperties,
         CollectProperties, NoChildrenField, UnmarshalToMap, UnmarshalToField, NoField, Return, Finished, Fails
<1>2. CASE RunOutOfArguments
  <2>1. case.node.args # <<>> /\ Len(Capturing("arg")) > Len(case.node.args)
    BY <1>2 DEF RunOutOfArguments, ArgumentMissing
  <2>2. 0 < Len(case.node.args) /\ Len(case.node.args) < Len(Capturing("arg"))
    BY <2>1, CapturingIs DEF Typed, IsNode, IsSequence
  <2> QED
    BY <1>1, <2>2 DEF PanicsAreNamed, Capturing
<1>3. CASE NoChildrenField
  <2>1. case.opts.children /\ rest # <<>>
    BY <1>3 DEF NoChildrenField
  <2>2. case.node.children # <<>>
    BY <2>1, FirstIsNext DEF Typed
  <2> QED
    BY <1>1, <2>1, <2>2 DEF PanicsAreNamed
<1>4. CASE UnmarshalToMap
  <2> DEFINE i == Head(Capturing("children"))
             child == Head(rest)
             r == PutChild(child, case.opts, dest[i])
  <2>1. i \in DOMAIN dest /\ case.type[i].kind = "map" /\ Takes(i, r)
    BY <1>4, ToMapTakes
  <2>2. rest # <<>> /\ Capturing("children") # <<>>
    BY <1>4 DEF UnmarshalToMap
  <2>3. r.outcome = "panic" => child.name \in DOMAIN dest[i]
    BY OfPut
  <2>4. Keys(i, Done + 1) = {<<ChildNode(Done + 1), child.name>>}
    BY <2>2, ChildKeys
  <2> HIDE DEF i, r
  <2>5. outcome' = r.outcome
    BY <2>1 DEF Takes
  <2>6. CASE outcome' = "panic"
    <3> DEFINE x == <<ChildNode(Done + 1), child.name>>
    <3>3. x \in Keys(i, Done + 1) /\ x[2] = child.name /\ child.name \in DOMAIN dest[i]
      BY <2>3, <2>4, <2>5, <2>6 DEF r, i
    <3> HIDE DEF x, child
    <3>1. Clash(dest[i], Keys(i, Done + 1))
      BY <3>3 DEF Clash
    <3>2. RepeatsKey
      BY <2>1, <2>2, <3>1, ClashRepeats DEF i
    <3> QED
      BY <1>1, <3>2, RepeatsStay DEF PanicsAreNamed
  <2>7. CASE outcome' # "panic"
    BY <1>1, <2>7, PanicsStay
  <2> QED
    BY <2>6, <2>7
<1>5. CASE UnmarshalToField
  <2> DEFINE node == Head(rest)
             k == Done + 1
  <2>1. PICK i \in Field(node.name) : i \in DOMAIN dest /\ IsNode(node) /\ Takes(i, Brings(i, node))
    BY <1>5, ToFieldTakes
  <2> DEFINE r == Brings(i, node)
             f == case.type[i]
  <2>2. /\ r.outcome \in {"ok", "error", "panic"}
        /\ r.outcome = "panic" =>
               \/ f.kind = "map" /\ "multiple" \in f.attrs /\ node.args = <<>>
               \/ f.kind = "map" /\ Clash(dest[i], KeysOf(node, "multiple" \in f.attrs))
               \/ node.children # <<>> /\ case.opts.children
    BY <2>1, BringsValue
  <2>3. outcome' = r.outcome /\ ~case.opts.children /\ rest # <<>> /\ Capturing("children") = <<>>
    BY <1>5, <2>1 DEF Takes, UnmarshalToField
  <2>4. k \in DOMAIN case.node.children /\ node = case.node.children[k]
    BY <1>5, FirstIsNext DEF Typed, UnmarshalToField
  <2>5. CASE outcome' = "panic"
    <3>1. CASE f.kind = "map" /\ "multiple" \in f.attrs /\ node.args = <<>>
      <4> HIDE DEF k, r
      <4>1. /\ case.node.children[k].args = <<>>
            /\ \E j \in Field(case.node.children[k].name) :
                   case.type[j].kind = "map" /\ "multiple" \in case.type[j].attrs
        BY <2>1, <2>4, <3>1
      <4> QED
        BY <1>1, <2>4, <4>1 DEF PanicsAreNamed, Field
    <3>2. CASE f.kind = "map" /\ Clash(dest[i], KeysOf(node, "multiple" \in f.attrs))
      <4>1. Keys(i, Done + 1) = KeysOf(node, "multiple" \in f.attrs)
        BY <2>1, <2>3, ChildKeys
      <4>2. RepeatsKey
        BY <2>1, <2>3, <3>2, <4>1, ClashRepeats
      <4> QED
        BY <1>1, <4>2, RepeatsStay DEF PanicsAreNamed
    <3> HIDE DEF k, r, f
    <3> QED
      BY <2>2, <2>3, <2>5, <3>1, <3>2
  <2>6. CASE outcome' # "panic"
    BY <1>1, <2>6, PanicsStay
  <2> QED
    BY <2>5, <2>6
<1>6. CASE ~(RunOutOfArguments \/ NoChildrenField \/ UnmarshalToMap \/ UnmarshalToField)
  <2>1. outcome' = outcome \/ outcome' # "panic"
    BY <1>6 DEF Next, vars, RejectArguments, AssignArguments, AssignProperty, RejectProperties,
                CollectProperties, NoField, Return, Finished, Fails
  <2> QED
    BY <1>1, <2>1, PanicsStay
<1> QED
  BY <1>2, <1>3, <1>4, <1>5, <1>6

\* Unmarshaling panics only where a node has fewer arguments than there are fields for
\* one, where children are to be dropped that no field takes, where the node of a map of
\* several nodes has no argument for its key (unmarshal.go:642, 757, 1151), and where a
\* key comes twice to one map, whose value cannot be set again (unmarshal.go:482).
THEOREM PanicsHaveReasons == Spec => []PanicsAreNamed
<1>1. Init => PanicsAreNamed
  BY DEF Init, PanicsAreNamed
<1>2. Typed /\ MapKeys /\ [Next]_vars => MapKeys'
  BY MapKeysNext
<1>3. Typed /\ MapKeys /\ PanicsAreNamed /\ [Next]_vars => PanicsAreNamed'
  BY PanicsNext
<1> QED
  BY <1>1, <1>2, <1>3, MapKeysInit, AlwaysTyped, PTL DEF Spec

----------------------------------------------------------------------------
(* What is dropped.                                                        *)

\* What the entries that have been looked at have brought, as long as all is well.
GivenHeld ==
    \A p \in visited : \A i \in Field(p) :
        case.type[i].kind = "int" /\ (Aims(i) = {Property(p)} => dest[i] = ToInt(case.node.props[p]))

CollectedHeld ==
    LET collecting == Range(Capturing("props"))
    IN  \A p \in DOMAIN case.node.props :
            /\ Field(p) \cup collecting # {}
            /\ \A i \in collecting :
                   p \in DOMAIN dest[i] /\ dest[i][p] = ToInt(case.node.props[p])

Kept ==
    outcome = "ok" /\ Strict(case.opts) =>
        /\ pc # "arguments" => ArgumentsHeld
        /\ GivenHeld
        /\ pc \in {"children", "done"} => visited = DOMAIN case.node.props /\ CollectedHeld
        /\ \A k \in 1 .. Done : ChildHeld(k)
        /\ pc = "done" => rest = <<>>

LEMMA AimsStay ==
  ASSUME UNCHANGED case, NEW i PROVE Aims(i)' = Aims(i)
BY DEF Aims, Capturing, Field

\* Without options that allow it, a value takes one argument and nothing else.
LEMMA StrictInt ==
  ASSUME NEW node, IsSequence(node.args), NEW opts, Strict(opts), toInt(node, opts).outcome = "ok"
  PROVE  Len(node.args) = 1 /\ node.props = Empty /\ node.children = <<>>
         /\ toInt(node, opts).value = ToInt(node.args[1]) /\ DOMAIN node.args = {1}
<1>1. verified(node, opts) /\ toInt(node, opts).value = ToInt(node.args[1])
  BY OfInt
<1>2. Len(node.args) = 1 /\ node.props = Empty /\ node.children = <<>>
  BY <1>1 DEF verified, Strict
<1> QED
  BY <1>1, <1>2 DEF IsSequence

LEMMA StrictPoint ==
  ASSUME NEW node, IsNode(node), NEW opts, Strict(opts), toPoint(node, opts).outcome = "ok"
  PROVE  LET v == toPoint(node, opts).value
         IN  /\ node.args = <<>>
             /\ node.children # <<>> => v = ToInt(Last(node.children).args[1])
             /\ \A p \in DOMAIN node.props :
                    DOMAIN node.props = {p} /\ node.children = <<>> => v = ToInt(node.props[p])
<1> DEFINE IsMine(name) == normalizeKey(name, opts.caseSensitive) = PointName
           known == {p \in DOMAIN node.props : IsMine(p)}
           children == node.children
           mine == {m \in DOMAIN children : IsMine(children[m].name)}
           rejected ==
               \/ node.args # <<>> /\ ~opts.args
               \/ known # DOMAIN node.props /\ ~opts.props
           failing ==
               \/ \E m \in mine : toInt(children[m], opts).outcome # "ok"
               \/ mine # DOMAIN children /\ ~opts.nodes
           value == CASE mine # {} -> toInt(children[Max(mine)], opts).value
                      [] mine = {} /\ known # {} -> ToInt(node.props[CHOOSE p \in known : TRUE])
                      [] OTHER -> "0"
           r == toPoint(node, opts)
<1>1. r = CASE rejected -> Error
            [] ~rejected /\ children # <<>> /\ opts.children -> Panic
            [] ~rejected /\ ~(children # <<>> /\ opts.children) /\ failing -> Error
            [] OTHER -> Ok(value)
  BY DEF toPoint
<1>2. ~opts.args /\ ~opts.props /\ ~opts.children /\ ~opts.nodes
  BY DEF Strict
<1>3. ~rejected /\ ~failing /\ r.value = value
  <2> HIDE DEF rejected, failing, value
  <2>1. \/ rejected /\ r = Error
        \/ ~rejected /\ failing /\ r = Error
        \/ ~rejected /\ ~failing /\ r = Ok(value)
    BY <1>1, <1>2
  <2>2. Error.outcome # "ok" /\ Ok(value).value = value
    BY Outcomes
  <2> HIDE DEF r
  <2>3. r.outcome = "ok"
    BY DEF r
  <2> QED
    BY <2>1, <2>2, <2>3
<1>4. node.args = <<>> /\ known = DOMAIN node.props /\ mine = DOMAIN children
  BY <1>2, <1>3
<1>5. \A m \in mine : toInt(children[m], opts).outcome = "ok"
  BY <1>3
<1>6. Len(children) \in Nat /\ DOMAIN children = 1 .. Len(children) /\ children \in Seq(ToSet(children))
  BY DEF IsNode, IsSequence
<1>7. ASSUME children # <<>> PROVE value = ToInt(Last(children).args[1])
  <2> DEFINE n == Len(children)
             S == mine
  <2>1. n \in Nat \ {0} /\ S = 1 .. n
    BY <1>4, <1>6, <1>7
  <2>2. Max(S) = n
    <3> HIDE DEF S, n
    <3>1. S \in SUBSET (1 .. n) /\ S # {} /\ n \in S /\ n \in Nat
      BY <2>1
    <3>2. Max(S) \in S /\ n <= Max(S)
      BY <3>1, Largest
    <3> QED
      BY <2>1, <3>2
  <2>3. mine # {} /\ n \in mine
    BY <2>1
  <2>4. value = toInt(children[n], opts).value
    BY <2>2, <2>3
  <2>5. toInt(children[n], opts).value = ToInt(children[n].args[1])
    BY <1>5, <2>3, OfInt
  <2> QED
    BY <2>4, <2>5 DEF Last
<1>8. ASSUME NEW p \in DOMAIN node.props, DOMAIN node.props = {p}, children = <<>>
      PROVE  value = ToInt(node.props[p])
  <2>1. mine = {} /\ known = {p}
    BY <1>4, <1>6, <1>8
  <2>2. (CHOOSE q \in known : TRUE) = p
    BY <2>1
  <2> QED
    BY <2>1, <2>2
<1> HIDE DEF value
<1> QED
  BY <1>3, <1>4, <1>7, <1>8

\* The node of a map of several nodes brings one key, that of its first argument.
LEMMA StrictMultiMap ==
  ASSUME NEW node, IsNode(node), NEW old, NEW opts, Strict(opts),
         toMultiMap(node, old, opts).outcome = "ok"
  PROVE  LET v == toMultiMap(node, old, opts).value
         IN  node.args[1] \in DOMAIN v /\ v[node.args[1]] = ToInt(node.args[2])
<1> DEFINE args == node.args
           n == Node(args[1], Tail(args), node.props, node.children)
           r == PutChild(n, opts, old)
<1>1. args # <<>> /\ toMultiMap(node, old, opts) = r
  <2>1. args # <<>>
    BY Outcomes DEF toMultiMap
  <2> QED
    BY <2>1 DEF toMultiMap
<1>2. n.name = args[1] /\ n.args = Tail(args)
  BY NodeFields
<1> HIDE DEF n
<1>3. toInt(n, opts).outcome = "ok" /\ r.value = Put(old, n.name, toInt(n, opts).value)
  BY <1>1, OfPut
<1>4. IsSequence(args) /\ Len(args) \in Nat \ {0}
  BY <1>1 DEF IsNode, IsSequence
<1>5. verified(n, opts) /\ toInt(n, opts).value = ToInt(n.args[1])
  BY <1>3, OfInt
<1>6. Len(Tail(args)) = 1
  BY <1>2, <1>5 DEF verified, Strict
<1>7. Tail(args)[1] = args[2]
  <2> DEFINE S == ToSet(args)
  <2>1. args \in Seq(S)
    BY <1>4 DEF IsSequence
  <2> HIDE DEF S, args
  <2>2. Len(Tail(args)) = Len(args) - 1 /\ \A k \in 1 .. Len(args) - 1 : Tail(args)[k] = args[k + 1]
    BY <2>1, <1>1, <1>4
  <2>3. 1 \in 1 .. Len(args) - 1
    BY <1>4, <1>6, <2>2
  <2>4. Tail(args)[1] = args[1 + 1]
    BY <2>2, <2>3
  <2>5. 1 + 1 = 2
    OBVIOUS
  <2> QED
    BY <2>4, <2>5
<1> HIDE DEF r
<1>8. r.value = Put(old, args[1], ToInt(args[2]))
  BY <1>2, <1>3, <1>5, <1>7
<1>9. args[1] \in DOMAIN r.value /\ r.value[args[1]] = ToInt(args[2])
  BY <1>8 DEF Put
<1> QED
  BY <1>1, <1>9

\* What a node is unmarshaled to has what it brings.
LEMMA MapHolds ==
  ASSUME NEW f, f.kind = "map", "multiple" \notin f.attrs,
         NEW node, IsNode(node), NEW old, NEW opts, toMap(node, old, opts).outcome = "ok"
  PROVE  Holds(f, toMap(node, old, opts).value, node)
<1> DEFINE v == toMap(node, old, opts).value
<1>1. HasNode(v, node)
  BY OkMap
<1> HIDE DEF v
<1>2. Holds(f, v, node)
  BY <1>1 DEF Holds, HasNode
<1> QED
  BY <1>2 DEF v

LEMMA BringsHeld ==
  ASSUME Typed, Strict(case.opts), NEW i \in DOMAIN dest, NEW node, IsNode(node),
         Brings(i, node).outcome = "ok"
  PROVE  Holds(case.type[i], Brings(i, node).value, node)
<1> DEFINE f == case.type[i]
           opts == case.opts
           old == dest[i]
           r == Brings(i, node)
<1>1. f.kind \in Kinds /\ (IsList(f.kind) => IsSequence(old)) /\ IsSequence(node.args)
  BY CapturesOnce DEF Typed, IsNode
<1>2. /\ "multiple" \in f.attrs => r = toMultiple(f.kind, node, old, opts)
      /\ "multiple" \notin f.attrs => r = toValue(f.kind, node, old, opts)
  BY DEF Brings
<1> HIDE DEF f, old, r, opts
<1>3. r.outcome = "ok" /\ Strict(opts)
  BY DEF r, opts
<1>4. CASE f.kind = "int"
  <2>1. r = toInt(node, opts)
    <3>1. r = Error \/ r = toInt(node, opts)
      BY <1>2, <1>4 DEF toMultiple, toValue
    <3> QED
      BY <1>3, <3>1, Outcomes
  <2>2. r.value = ToInt(node.args[1])
    BY <1>3, <2>1, OfInt
  <2>3. Holds(f, r.value, node)
    BY <1>4, <2>2 DEF Holds
  <2> QED
    BY <2>3 DEF f, r
<1>5. CASE f.kind = "ints"
  <2>1. \A k \in DOMAIN node.args : ToInt(node.args[k]) \in Range(r.value)
    <3>1. CASE "multiple" \in f.attrs
      <4>1. r = Appended(toInt(node, opts), old)
        BY <1>2, <1>5, <3>1 DEF toMultiple
      <4>2. toInt(node, opts).outcome = "ok" /\ toInt(node, opts).value \in Range(r.value)
        BY <1>1, <1>3, <1>5, <4>1, OfAppended DEF IsList
      <4> QED
        BY <1>1, <1>3, <4>2, StrictInt
    <3>2. CASE "multiple" \notin f.attrs
      <4>1. r = toInts(node, old)
        BY <1>2, <1>5, <3>2 DEF toValue
      <4> QED
        BY <1>1, <1>3, <1>5, <4>1, OfInts DEF IsList
    <3> QED
      BY <3>1, <3>2
  <2>2. Holds(f, r.value, node)
    BY <1>5, <2>1 DEF Holds
  <2> QED
    BY <2>2 DEF f, r
<1>6. CASE f.kind = "points"
  <2>1. CASE "multiple" \in f.attrs
    <3> DEFINE q == toPoint(node, opts)
    <3>1. r = Appended(q, old)
      BY <1>2, <1>6, <2>1 DEF toMultiple
    <3>2. q.outcome = "ok" /\ q.value \in Range(r.value)
      BY <1>1, <1>3, <1>6, <3>1, OfAppended DEF IsList
    <3>3. /\ node.children # <<>> => q.value = ToInt(Last(node.children).args[1])
          /\ \A p \in DOMAIN node.props :
                 DOMAIN node.props = {p} /\ node.children = <<>> => q.value = ToInt(node.props[p])
      BY <1>3, <3>2, StrictPoint
    <3> HIDE DEF q
    <3>4. Holds(f, r.value, node)
      BY <1>6, <3>2, <3>3 DEF Holds
    <3> QED
      BY <3>4 DEF f, r
  <2>2. CASE "multiple" \notin f.attrs
    <3>1. r = IF node.args = <<>> /\ node.props = Empty THEN Ok(old) ELSE Error
      BY <1>2, <1>6, <2>2 DEF toValue
    <3>2. node.props = Empty
      BY <1>3, <3>1, Outcomes
    <3>3. DOMAIN node.props = {}
      BY <3>2 DEF Empty
    <3>4. Holds(f, r.value, node)
      BY <1>6, <2>2, <3>3 DEF Holds
    <3> QED
      BY <3>4 DEF f, r
  <2> QED
    BY <2>1, <2>2
<1>7. CASE f.kind = "map" /\ "multiple" \in f.attrs
  <2>1. r = toMultiMap(node, old, opts)
    BY <1>2, <1>7 DEF toMultiple
  <2>3. node.args[1] \in DOMAIN r.value /\ r.value[node.args[1]] = ToInt(node.args[2])
    BY <1>3, <2>1, StrictMultiMap
  <2>4. Holds(f, r.value, node)
    BY <1>7, <2>3 DEF Holds
  <2> QED
    BY <2>4 DEF f, r
<1>8. CASE f.kind = "map" /\ "multiple" \notin f.attrs
  <2>1. r = toMap(node, old, opts)
    BY <1>2, <1>8 DEF toValue
  <2>2. toMap(node, old, opts).outcome = "ok" /\ IsNode(node) /\ r.value = toMap(node, old, opts).value
    BY <1>3, <2>1
  <2>3. Holds(f, r.value, node)
    <3>1. Holds(f, toMap(node, old, opts).value, node)
      BY <1>8, <2>2, MapHolds
    <3> QED
      BY <2>2, <3>1
  <2> QED
    BY <2>3 DEF f, r
<1> QED
  BY <1>1, <1>4, <1>5, <1>6, <1>7, <1>8 DEF Kinds

\* A field of several nodes, and a map, still has what earlier ones brought.
LEMMA HoldsMore ==
  ASSUME Typed, NEW i \in DOMAIN dest, NEW node, IsNode(node),
         Brings(i, node).outcome = "ok", "multiple" \in case.type[i].attrs \/ case.type[i].kind = "map",
         NEW child, Holds(case.type[i], dest[i], child)
  PROVE  Holds(case.type[i], Brings(i, node).value, child)
<1> DEFINE f == case.type[i]
           old == dest[i]
           r == Brings(i, node)
<1>1. f.kind \in Kinds /\ (IsList(f.kind) => IsSequence(old))
  BY CapturesOnce DEF Typed
<1>2. "multiple" \in f.attrs => r = toMultiple(f.kind, node, old, case.opts)
  BY DEF Brings
<1>3. IsList(f.kind) => Range(old) \subseteq Range(r.value)
  BY BringsValue DEF Grown
<1>4. f.kind = "map" => Extends(old, r.value)
  BY BringsValue
<1> HIDE DEF f, old, r
<1>5. r.outcome = "ok" /\ ("multiple" \in f.attrs \/ f.kind = "map") /\ Holds(f, old, child)
  BY DEF r, f, old
<1>6. f.kind # "int"
  <2>1. SUFFICES ASSUME f.kind = "int" PROVE FALSE
    OBVIOUS
  <2>2. r = toMultiple(f.kind, node, old, case.opts)
    BY <1>2, <1>5, <2>1
  <2>3. r = Error
    BY <2>1, <2>2 DEF toMultiple
  <2> QED
    BY <1>5, <2>3, Outcomes
<1>7. CASE f.kind = "ints"
  <2>1. Holds(f, r.value, child)
    BY <1>3, <1>5, <1>7 DEF Holds, IsList
  <2> QED
    BY <2>1 DEF f, r
<1>8. CASE f.kind = "points"
  <2>1. Holds(f, r.value, child)
    BY <1>3, <1>5, <1>8 DEF Holds, IsList
  <2> QED
    BY <2>1 DEF f, r
<1>9. CASE f.kind = "map"
  <2>1. \A k \in DOMAIN old : k \in DOMAIN r.value /\ r.value[k] = old[k]
    BY <1>4, <1>9 DEF Extends
  <2>2. Holds(f, r.value, child)
    <3>1. CASE "multiple" \in f.attrs
      BY <1>5, <1>9, <2>1, <3>1 DEF Holds
    <3>2. CASE "multiple" \notin f.attrs
      BY <1>5, <1>9, <2>1, <3>2 DEF Holds
    <3> QED
      BY <3>1, <3>2
  <2> QED
    BY <2>2 DEF f, r
<1> QED
  BY <1>1, <1>6, <1>7, <1>8, <1>9 DEF Kinds

\* What a later step leaves of what earlier ones brought.
LEMMA ArgumentsStay ==
  ASSUME Typed, ArgumentsHeld, UNCHANGED case,
         \A i \in DOMAIN dest : case.type[i].kind = "int" =>
             dest'[i] = dest[i] \/ \E p : Property(p) \in Aims(i) \/ ChildNode(p) \in Aims(i),
         \A i \in DOMAIN dest : case.type[i].kind = "ints" => Grown(dest[i], dest'[i])
  PROVE  ArgumentsHeld'
<1> DEFINE args == case.node.args
           each == Capturing("arg")
           more == Capturing("args")
<1>1. UNCHANGED <<args, each, more>>
  BY DEF Capturing
<1>2. ASSUME NEW k \in DOMAIN args, k <= Len(each), Aims(each[k])' = {Argument(k)}
      PROVE  dest'[each[k]] = ToInt(args[k])
  <2> DEFINE i == each[k]
  <2>1. k \in 1 .. Len(each)
    BY <1>2, CapturingIs DEF Typed, IsNode, IsSequence
  <2>2. i \in DOMAIN dest /\ case.type[i].kind = "int"
    BY <2>1, CapturingIs, CapturesOnce
  <2>3. Aims(i) = {Argument(k)} /\ dest[i] = ToInt(args[k])
    <3>1. Aims(i)' = Aims(i)
      <4>1. \A j : Aims(j)' = Aims(j)
        BY AimsStay
      <4>2. UNCHANGED i
        BY <1>1
      <4> QED
        BY <4>2 DEF Aims, Capturing, Field
    <3> QED
      BY <1>2, <3>1 DEF ArgumentsHeld
  <2>4. \A p : Property(p) # Argument(k) /\ ChildNode(p) # Argument(k)
    BY DEF Property, Argument, ChildNode
  <2> QED
    BY <2>2, <2>3, <2>4
<1>3. ASSUME NEW k \in DOMAIN args, ~(k <= Len(each))
      PROVE  LET v == dest'[Head(more)]
             IN  more # <<>> /\ k - Len(each) \in DOMAIN v /\ v[k - Len(each)] = ToInt(args[k])
  <2> DEFINE i == Head(more)
  <2>1. more # <<>> /\ k - Len(each) \in DOMAIN dest[i] /\ dest[i][k - Len(each)] = ToInt(args[k])
    BY <1>3 DEF ArgumentsHeld
  <2>2. i \in DOMAIN dest /\ case.type[i].kind = "ints"
    BY <2>1, CapturingIs, CapturesOnce
  <2>3. Grown(dest[i], dest'[i])
    BY <2>2
  <2> HIDE DEF i
  <2>4. k - Len(each) \in DOMAIN dest'[i] /\ dest'[i][k - Len(each)] = dest[i][k - Len(each)]
    BY <2>1, <2>3 DEF Grown
  <2> QED
    BY <2>1, <2>4 DEF i
<1> QED
  BY <1>1, <1>2, <1>3 DEF ArgumentsHeld

LEMMA GivenStay ==
  ASSUME Typed, GivenHeld, UNCHANGED <<case, visited>>,
         \A i \in DOMAIN dest : case.type[i].kind = "int" =>
             dest'[i] = dest[i] \/ \E k : ChildNode(k) \in Aims(i)
  PROVE  GivenHeld'
<1>1. ASSUME NEW p \in visited, NEW i \in Field(p)
      PROVE  case.type[i].kind = "int" /\ (Aims(i) = {Property(p)} => dest'[i] = ToInt(case.node.props[p]))
  <2>1. i \in DOMAIN dest /\ case.type[i].kind = "int" /\ (Aims(i) = {Property(p)} => dest[i] = ToInt(case.node.props[p]))
    BY <1>1, FieldIs DEF GivenHeld
  <2>2. \A k : ChildNode(k) # Property(p)
    BY DEF ChildNode, Property
  <2> QED
    BY <2>1, <2>2
<1> QED
  BY <1>1, AimsStay DEF GivenHeld, Field

LEMMA CollectedStay ==
  ASSUME Typed, CollectedHeld, UNCHANGED case,
         \A i \in DOMAIN dest : "props" \in case.type[i].attrs => Extends(dest[i], dest'[i])
  PROVE  CollectedHeld'
<1>1. ASSUME NEW p \in DOMAIN case.node.props, NEW i \in Range(Capturing("props"))
      PROVE  p \in DOMAIN dest'[i] /\ dest'[i][p] = ToInt(case.node.props[p])
  <2>1. i \in DOMAIN dest /\ "props" \in case.type[i].attrs
    BY CapturingIs DEF Range
  <2>2. p \in DOMAIN dest[i] /\ dest[i][p] = ToInt(case.node.props[p])
    BY <1>1 DEF CollectedHeld
  <2> QED
    BY <2>1, <2>2 DEF Extends
<1>2. \A p \in DOMAIN case.node.props : Field(p) \cup Range(Capturing("props")) # {}
  BY DEF CollectedHeld
<1> QED
  BY <1>1, <1>2 DEF CollectedHeld, Capturing, Field

\* That a child is held in some values of the fields, of this call.
HeldIn(k, d) ==
    LET child == case.node.children[k]
    IN  IF Capturing("children") # <<>>
        THEN LET v == d[Head(Capturing("children"))]
             IN  child.name \in DOMAIN v /\ v[child.name] = ToInt(child.args[1])
        ELSE \E i \in Field(child.name) :
                LET f == case.type[i]
                IN  Aims(i) = {ChildNode(k)} \/ "multiple" \in f.attrs \/ f.kind = "map" =>
                        Holds(f, d[i], child)

LEMMA HeldNow ==
  ASSUME NEW k
  PROVE  ChildHeld(k) <=> HeldIn(k, dest)
BY DEF ChildHeld, HeldIn

LEMMA HeldNext ==
  ASSUME UNCHANGED case, NEW last, Done' = last, \A k \in 1 .. last : HeldIn(k, dest')
  PROVE  (\A k \in 1 .. Done : ChildHeld(k))'
<1>1. SUFFICES ASSUME NEW k \in 1 .. Done' PROVE ChildHeld(k)'
  OBVIOUS
<1>2. HeldIn(k, dest')
  OBVIOUS
<1> DEFINE child == case.node.children[k]
<1>3. CASE Capturing("children") # <<>>
  BY <1>2, <1>3 DEF ChildHeld, HeldIn, Capturing
<1>4. CASE Capturing("children") = <<>>
  <2>1. PICK i \in Field(child.name) :
            LET f == case.type[i]
            IN  Aims(i) = {ChildNode(k)} \/ "multiple" \in f.attrs \/ f.kind = "map" =>
                    Holds(f, dest'[i], child)
    BY <1>2, <1>4 DEF HeldIn
  <2>2. Aims(i)' = Aims(i)
    BY AimsStay
  <2>3. (LET f == case.type[i]
         IN  Aims(i) = {ChildNode(k)} \/ "multiple" \in f.attrs \/ f.kind = "map" =>
                Holds(f, dest[i], child))'
    BY <2>1, <2>2
  <2> QED
    BY <1>4, <2>1, <2>3 DEF ChildHeld, Capturing, Field
<1> QED
  BY <1>3, <1>4

LEMMA ToMapHolds ==
  ASSUME Typed, UnmarshalToMap, outcome' = "ok", Strict(case.opts), \A k \in 1 .. Done : ChildHeld(k)
  PROVE  /\ \A k \in 1 .. Done + 1 : HeldIn(k, dest')
         /\ LET i == Head(Capturing("children")) IN Extends(dest[i], dest'[i])
<1> DEFINE children == case.node.children
           i == Head(Capturing("children"))
           n == Done + 1
           node == children[n]
           v == toInt(node, case.opts)
           r == PutChild(node, case.opts, dest[i])
<1>1. rest # <<>> /\ Capturing("children") # <<>>
  BY DEF UnmarshalToMap
<1>2. Head(rest) = node /\ Done \in Nat /\ n \in DOMAIN children /\ IsNode(node)
  BY <1>1, FirstIsNext DEF Typed
<1>3. i \in DOMAIN dest /\ Takes(i, r)
  BY <1>2, ToMapTakes
<1>4. r.outcome = "ok" /\ dest' = [dest EXCEPT ![i] = r.value]
  BY <1>3 DEF Takes
<1>5. v.outcome = "ok" /\ node.name \notin DOMAIN dest[i] /\ r.value = Put(dest[i], node.name, v.value)
  BY <1>4, OfPut
<1>6. v.value = ToInt(node.args[1])
  BY <1>5, OfInt
<1>7. dest'[i] = Put(dest[i], node.name, ToInt(node.args[1]))
  BY <1>3, <1>4, <1>5, <1>6
<1>8. /\ Extends(dest[i], dest'[i]) /\ node.name \in DOMAIN dest'[i]
      /\ dest'[i][node.name] = ToInt(node.args[1])
  <2> DEFINE x == ToInt(node.args[1])
             old == dest[i]
             key == node.name
  <2>1. key \notin DOMAIN old /\ dest'[i] = Put(old, key, x)
    BY <1>5, <1>7
  <2> HIDE DEF x, old, key
  <2>2. Extends(old, dest'[i]) /\ key \in DOMAIN dest'[i] /\ dest'[i][key] = x
    <3> HIDE DEF i
    <3> QED
      BY <2>1 DEF Put, Extends
  <2> QED
    BY <2>2 DEF x, old, key
<1>9. ASSUME NEW k \in 1 .. n
      PROVE  children[k].name \in DOMAIN dest'[i] /\ dest'[i][children[k].name] = ToInt(children[k].args[1])
  <2>1. CASE k = n
    BY <1>8, <2>1
  <2>2. CASE k # n
    <3>1. k \in 1 .. Done
      BY <1>2, <2>2
    <3>2. children[k].name \in DOMAIN dest[i] /\ dest[i][children[k].name] = ToInt(children[k].args[1])
      BY <1>1, <3>1 DEF ChildHeld
    <3> HIDE DEF n, i
    <3> QED
      BY <1>8, <3>2 DEF Extends
  <2> QED
    BY <2>1, <2>2
<1> QED
  BY <1>1, <1>8, <1>9 DEF HeldIn

LEMMA ToFieldHolds ==
  ASSUME Typed, UnmarshalToField, outcome' = "ok", Strict(case.opts), \A k \in 1 .. Done : ChildHeld(k)
  PROVE  \A k \in 1 .. Done + 1 : HeldIn(k, dest')
<1> DEFINE children == case.node.children
           n == Done + 1
           node == children[n]
           fieldOf(k) == Field(children[k].name)
           Several(j) == "multiple" \in case.type[j].attrs \/ case.type[j].kind = "map"
<1>1. rest # <<>> /\ Capturing("children") = <<>>
  BY DEF UnmarshalToField
<1>2. Head(rest) = node /\ Done \in Nat /\ n \in DOMAIN children /\ IsNode(node)
  BY <1>1, FirstIsNext DEF Typed
<1>3. PICK i \in fieldOf(n) : i \in DOMAIN dest /\ fieldOf(n) = {i} /\ Takes(i, Brings(i, node))
  BY <1>2, ToFieldTakes
<1> DEFINE r == Brings(i, node)
           f == case.type[i]
<1>4. r.outcome = "ok" /\ dest' = [dest EXCEPT ![i] = r.value]
  BY <1>3 DEF Takes
<1> HIDE DEF r
<1>5. dest'[i] = r.value /\ \A j \in DOMAIN dest : j # i => dest'[j] = dest[j]
  BY <1>3, <1>4
<1>6. Holds(f, dest'[i], node)
  <2>1. Holds(f, r.value, node)
    BY <1>2, <1>3, <1>4, BringsHeld DEF r
  <2> QED
    BY <1>5, <2>1
<1>7. ASSUME NEW k \in 1 .. n
      PROVE  \E j \in fieldOf(k) :
                Aims(j) = {ChildNode(k)} \/ Several(j) => Holds(case.type[j], dest'[j], children[k])
  <2>1. CASE k = n
    BY <1>3, <1>6, <2>1
  <2>2. CASE k # n
    <3>1. k \in 1 .. Done
      BY <1>2, <2>2
    <3>2. PICK j \in fieldOf(k) :
              Aims(j) = {ChildNode(k)} \/ Several(j) => Holds(case.type[j], dest[j], children[k])
      BY <1>1, <3>1 DEF ChildHeld
    <3>3. j \in DOMAIN dest
      BY FieldIs
    <3>4. CASE j # i
      <4>1. dest'[j] = dest[j]
        BY <1>5, <3>3, <3>4
      <4> QED
        BY <3>2, <4>1
    <3>5. CASE j = i
      <4>1. ChildNode(n) \in Aims(i)
        BY <1>1, <1>2, <1>3 DEF Aims
      <4>2. ChildNode(n) # ChildNode(k)
        BY <2>2 DEF ChildNode
      <4>3. Aims(j) # {ChildNode(k)}
        BY <3>5, <4>1, <4>2
      <4>4. SUFFICES ASSUME Several(i) PROVE Holds(f, dest'[i], children[k])
        BY <3>5, <4>3
      <4>5. Holds(f, dest[i], children[k])
        BY <3>2, <3>5, <4>4
      <4>6. Holds(f, r.value, children[k])
        BY <1>2, <1>3, <1>4, <4>4, <4>5, HoldsMore DEF r
      <4> QED
        BY <1>5, <4>6
    <3> QED
      BY <3>4, <3>5
  <2> QED
    BY <2>1, <2>2
<1> QED
  BY <1>1, <1>7 DEF HeldIn

LEMMA EndsKept ==
  ASSUME Kept, Typed, pc = "done", outcome = "ok", Strict(case.opts)
  PROVE  ArgumentsHeld /\ PropertiesHeld /\ ChildrenHeld
<1>1. /\ ArgumentsHeld /\ GivenHeld /\ visited = DOMAIN case.node.props /\ CollectedHeld
      /\ \A k \in 1 .. Done : ChildHeld(k)
      /\ rest = <<>>
  BY DEF Kept
<1>2. PropertiesHeld
  BY <1>1 DEF GivenHeld, CollectedHeld, PropertiesHeld
<1>3. ChildrenHeld
  <2>1. Done = Len(case.node.children) /\ DOMAIN case.node.children = 1 .. Len(case.node.children)
    BY <1>1 DEF Done, Typed, AreNodes, IsSequence
  <2> QED
    BY <1>1, <2>1 DEF ChildrenHeld
<1> QED
  BY <1>1, <1>2, <1>3

LEMMA KeptInit == Init => Kept
<1> SUFFICES ASSUME Init PROVE Kept
  OBVIOUS
<1>1. Done = 0 /\ pc = "arguments" /\ visited = {}
  BY TypedInit DEF Init, Typed
<1> QED
  BY <1>1 DEF Kept, GivenHeld

\* A call that is all well, with options that allow nothing.
Well == outcome = "ok" /\ Strict(case.opts)

\* Where the fields stay.
LEMMA AllStay ==
  ASSUME Typed, UNCHANGED <<case, dest, visited, rest>>
  PROVE  /\ ArgumentsHeld => ArgumentsHeld'
         /\ GivenHeld => GivenHeld'
         /\ CollectedHeld => CollectedHeld'
         /\ (\A k \in 1 .. Done : ChildHeld(k)) => (\A k \in 1 .. Done : ChildHeld(k))'
<1>1. \A i \in DOMAIN dest : case.type[i].kind = "ints" => Grown(dest[i], dest'[i])
  BY NotGrown DEF Typed, IsList
<1>2. ASSUME \A k \in 1 .. Done : ChildHeld(k) PROVE (\A k \in 1 .. Done : ChildHeld(k))'
  <2>1. Done' = Done
    BY DEF Done
  <2>2. \A k \in 1 .. Done : HeldIn(k, dest')
    BY <1>2, HeldNow
  <2> QED
    BY <2>1, <2>2, HeldNext
<1>3. \A i \in DOMAIN dest : Extends(dest[i], dest'[i])
  BY ExtendsItself
<1> QED
  BY <1>1, <1>2, <1>3, ArgumentsStay, GivenStay, CollectedStay

LEMMA KeptAssignArguments ==
  ASSUME Typed, Kept, AssignArguments, Well PROVE Kept'
<1> DEFINE args == case.node.args
           each == Capturing("arg")
           more == Capturing("args")
           n == Len(args) - Len(each)
           Index(i) == CHOOSE k \in DOMAIN each : each[k] = i
<1>1. UNCHANGED <<case, visited, rest, outcome>> /\ pc = "arguments" /\ pc' = "properties"
  BY DEF AssignArguments, Goes
<1>2. visited' = {} /\ Done' = 0
  <2>1. Done' = Done /\ Done = 0 /\ visited = {}
    BY <1>1 DEF Done, Typed
  <2> QED
    BY <1>1, <2>1
<1>3. Len(args) \in Nat /\ DOMAIN args = 1 .. Len(args) /\ Len(each) \in Nat
  BY CapturingIs DEF Typed, IsNode, IsSequence
<1>4. args # <<>> =>
         /\ dest' = [i \in DOMAIN dest |->
                       CASE Contains(each, i) -> ToInt(args[Index(i)])
                         [] Contains(more, i) -> [k \in 1 .. n |-> ToInt(args[Len(each) + k])]
                         [] OTHER -> dest[i]]
         /\ more = <<>> => ~(Len(each) < Len(args))
  BY DEF AssignArguments, TooManyArguments, Well, Strict
<1>5. ASSUME NEW k \in DOMAIN args, k <= Len(each) PROVE dest'[each[k]] = ToInt(args[k])
  <2> DEFINE i == each[k]
  <2>1. k \in 1 .. Len(each) /\ args # <<>>
    BY <1>3, <1>5
  <2>2. i \in DOMAIN dest /\ Contains(each, i) /\ k \in DOMAIN each
    BY <2>1, CapturingIs DEF Contains
  <2>3. Index(i) = k
    <3>1. \A m \in DOMAIN each : each[m] = each[k] => m = k
      BY <2>1, CapturingIs
    <3> HIDE DEF each
    <3> QED
      BY <2>2, <3>1
  <2>5. ~Contains(more, i)
    <3>1. SUFFICES ASSUME Contains(more, i) PROVE FALSE
      OBVIOUS
    <3>2. "args" \in case.type[i].attrs /\ "arg" \in case.type[i].attrs
      BY <2>1, <3>1, CapturingIs DEF Contains
    <3> QED
      BY <2>2, <3>2, CapturesOnce
  <2> HIDE DEF Index, each, i, args, more
  <2>4. dest'[i] = ToInt(args[Index(i)])
    BY <1>4, <2>1, <2>2, <2>5
  <2> QED
    BY <2>3, <2>4 DEF i
<1>6. ASSUME NEW k \in DOMAIN args, ~(k <= Len(each))
      PROVE  LET v == dest'[Head(more)]
             IN  more # <<>> /\ k - Len(each) \in DOMAIN v /\ v[k - Len(each)] = ToInt(args[k])
  <2> DEFINE i == Head(more)
  <2>1. args # <<>> /\ more # <<>>
    BY <1>3, <1>4, <1>6
  <2>2. i \in DOMAIN dest /\ Contains(more, i) /\ "args" \in case.type[i].attrs
    BY <2>1, CapturingIs DEF Contains
  <2>3. ~Contains(each, i)
    <3>1. SUFFICES ASSUME Contains(each, i) PROVE FALSE
      OBVIOUS
    <3>2. "arg" \in case.type[i].attrs
      BY <3>1, CapturingIs DEF Contains
    <3> QED
      BY <2>2, <3>2, CapturesOnce
  <2>4. k - Len(each) \in 1 .. n /\ Len(each) + (k - Len(each)) = k
    BY <1>3, <1>6
  <2> HIDE DEF Index, each, i, args, more
  <2>5. dest'[i] = [m \in 1 .. n |-> ToInt(args[Len(each) + m])]
    BY <1>4, <2>1, <2>2, <2>3
  <2>6. k - Len(each) \in DOMAIN dest'[i] /\ dest'[i][k - Len(each)] = ToInt(args[k])
    BY <2>4, <2>5
  <2> QED
    BY <2>1, <2>6 DEF i
<1>7. ArgumentsHeld'
  BY <1>1, <1>5, <1>6 DEF ArgumentsHeld, Capturing
<1> QED
  BY <1>1, <1>2, <1>7 DEF Kept, GivenHeld

LEMMA KeptAssignProperty ==
  ASSUME Typed, Kept, NEW p \in DOMAIN case.node.props, AssignProperty(p), Well, outcome' = "ok" PROVE Kept'
<1>1. UNCHANGED <<case, rest>> /\ visited' = visited \cup {p} /\ pc = "properties" /\ p \notin visited
  BY DEF AssignProperty
<1>2. \/ Field(p) = {} /\ UNCHANGED <<pc, dest>>
      \/ \E i \in Field(p) : /\ case.type[i].kind = "int" /\ UNCHANGED pc
                              /\ dest' = [dest EXCEPT ![i] = ToInt(case.node.props[p])]
  BY DEF AssignProperty
<1>3. ArgumentsHeld /\ GivenHeld
  BY <1>1 DEF Kept, Well
<1>4. Done' = 0
  <2>1. Done' = Done /\ Done = 0
    BY <1>1 DEF Done, Typed
  <2> QED
    BY <2>1
<1>5. ASSUME NEW i \in DOMAIN dest
      PROVE  dest'[i] = dest[i] \/ (case.type[i].kind = "int" /\ Property(p) \in Aims(i))
  BY <1>2, FieldIs DEF Aims
<1>6. ArgumentsHeld'
  <2>1. \A i \in DOMAIN dest : case.type[i].kind = "int" =>
            dest'[i] = dest[i] \/ \E q : Property(q) \in Aims(i) \/ ChildNode(q) \in Aims(i)
    BY <1>5
  <2>2. \A i \in DOMAIN dest : case.type[i].kind = "ints" => Grown(dest[i], dest'[i])
    <3>1. ASSUME NEW i \in DOMAIN dest, case.type[i].kind = "ints" PROVE Grown(dest[i], dest'[i])
      <4>1. dest'[i] = dest[i]
        BY <1>5, <3>1
      <4>2. IsSequence(dest[i])
        BY <3>1 DEF Typed, IsList
      <4> QED
        BY <4>1, <4>2, NotGrown
    <3> QED
      BY <3>1
  <2> QED
    BY <1>1, <1>3, <2>1, <2>2, ArgumentsStay
<1>7. ASSUME NEW q \in visited \cup {p}, NEW i \in Field(q)
      PROVE  case.type[i].kind = "int" /\ (Aims(i) = {Property(q)} => dest'[i] = ToInt(case.node.props[q]))
  <2>1. i \in DOMAIN dest /\ Field(q) = {i}
    BY FieldIs
  <2>2. CASE q = p
    BY <1>2, <2>1, <2>2
  <2>3. CASE q # p
    <3>1. case.type[i].kind = "int" /\ (Aims(i) = {Property(q)} => dest[i] = ToInt(case.node.props[q]))
      BY <1>3, <1>7, <2>3 DEF GivenHeld
    <3>2. Property(p) # Property(q)
      BY <2>3 DEF Property
    <3> QED
      BY <1>5, <2>1, <3>1, <3>2
  <2> QED
    BY <2>2, <2>3
<1>8. GivenHeld'
  BY <1>1, <1>7, AimsStay DEF GivenHeld, Field
<1>9. pc' = "properties"
  BY <1>1, <1>2
<1> QED
  BY <1>4, <1>6, <1>8, <1>9 DEF Kept

LEMMA KeptCollectProperties ==
  ASSUME Typed, Kept, CollectProperties, Well PROVE Kept'
<1> DEFINE new(i) == [k \in visited |-> ToInt(case.node.props[k])]
           collecting == Capturing("props")
           props == case.node.props
<1>1. UNCHANGED <<case, visited, rest, outcome>> /\ pc = "properties" /\ pc' = "children" /\ visited = DOMAIN props
  BY DEF CollectProperties, Goes, Visited
<1>2. dest' = [i \in DOMAIN dest |-> IF Contains(collecting, i) THEN new(i) ELSE dest[i]]
  BY DEF CollectProperties
<1>3. ArgumentsHeld /\ GivenHeld
  BY <1>1 DEF Kept, Well
<1>4. Done' = 0
  <2>1. Done' = Done /\ Done = 0
    BY <1>1 DEF Done, Typed
  <2> QED
    BY <2>1
<1>5. ASSUME NEW i \in DOMAIN dest, case.type[i].kind # "map" PROVE dest'[i] = dest[i]
  <2>1. ~Contains(collecting, i)
    <3>1. SUFFICES ASSUME Contains(collecting, i) PROVE FALSE
      OBVIOUS
    <3>2. "props" \in case.type[i].attrs
      BY <3>1, CapturingIs DEF Contains
    <3> QED
      BY <1>5, <3>2, CapturesOnce
  <2> HIDE DEF new, collecting
  <2> QED
    BY <1>2, <2>1
<1>6. ArgumentsHeld'
  <2>1. \A i \in DOMAIN dest : case.type[i].kind = "int" => dest'[i] = dest[i]
    BY <1>5
  <2>2. \A i \in DOMAIN dest : case.type[i].kind = "ints" => Grown(dest[i], dest'[i])
    BY <1>5, NotGrown DEF Typed, IsList
  <2> QED
    BY <1>1, <1>3, <2>1, <2>2, ArgumentsStay
<1>7. GivenHeld'
  BY <1>1, <1>3, <1>5, GivenStay
<1>8. ASSUME NEW p \in DOMAIN props
      PROVE  /\ Field(p) \cup Range(collecting) # {}
             /\ \A i \in Range(collecting) : p \in DOMAIN dest'[i] /\ dest'[i][p] = ToInt(props[p])
  <2>1. ~UnhandledProperties
    BY <1>1, <1>8 DEF CollectProperties
  <2>2. Field(p) \cup Range(collecting) # {}
    <3>1. CASE collecting = <<>>
      BY <1>1, <2>1, <3>1 DEF UnhandledProperties, Handled, Well, Strict
    <3>2. CASE collecting # <<>>
      <4>1. 1 \in DOMAIN collecting
        BY <3>2, CapturingIs
      <4> HIDE DEF collecting
      <4>2. collecting[1] \in Range(collecting)
        BY <4>1 DEF Range
      <4> QED
        BY <4>2
    <3> QED
      BY <3>1, <3>2
  <2>3. ASSUME NEW i \in Range(collecting)
        PROVE  p \in DOMAIN dest'[i] /\ dest'[i][p] = ToInt(props[p])
    <3>1. i \in DOMAIN dest /\ Contains(collecting, i)
      BY CapturingIs DEF Range, Contains
    <3>2. dest'[i] = new(i)
      <4> HIDE DEF new, collecting
      <4> QED
        BY <1>2, <3>1
    <3> QED
      BY <1>1, <3>2
  <2> QED
    BY <2>2, <2>3
<1>9. CollectedHeld'
  BY <1>1, <1>8 DEF CollectedHeld, Capturing, Field
<1> QED
  BY <1>1, <1>4, <1>6, <1>7, <1>9 DEF Kept

\* Where a child changes the field that takes it, and none else.
LEMMA KeptChild ==
  ASSUME Typed, Kept, Well, pc = "children", pc' = "children", UNCHANGED <<case, visited>>,
         Done' = Done + 1, \A k \in 1 .. Done + 1 : HeldIn(k, dest'),
         NEW i \in DOMAIN dest, \A j \in DOMAIN dest : j # i => dest'[j] = dest[j],
         case.type[i].kind = "ints" => Grown(dest[i], dest'[i]),
         case.type[i].kind = "map" => Extends(dest[i], dest'[i]),
         "children" \in case.type[i].attrs \/ \E k : ChildNode(k) \in Aims(i)
  PROVE  Kept'
<1>1. ArgumentsHeld /\ GivenHeld /\ CollectedHeld /\ visited = DOMAIN case.node.props
  BY DEF Kept, Well
<1>2. case.type[i].kind = "int" => \E k : ChildNode(k) \in Aims(i)
  BY CapturesOnce
<1>3. \A j \in DOMAIN dest : "props" \in case.type[j].attrs => Extends(dest[j], dest'[j])
  BY CapturesOnce, ExtendsItself
<1>4. ArgumentsHeld'
  <2>1. \A j \in DOMAIN dest : case.type[j].kind = "int" =>
            dest'[j] = dest[j] \/ \E q : Property(q) \in Aims(j) \/ ChildNode(q) \in Aims(j)
    BY <1>2
  <2>2. \A j \in DOMAIN dest : case.type[j].kind = "ints" => Grown(dest[j], dest'[j])
    BY NotGrown DEF Typed, IsList
  <2> QED
    BY <1>1, <2>1, <2>2, ArgumentsStay
<1>5. GivenHeld'
  BY <1>1, <1>2, GivenStay
<1>6. CollectedHeld'
  BY <1>1, <1>3, CollectedStay
<1>7. (\A k \in 1 .. Done : ChildHeld(k))'
  BY HeldNext
<1> QED
  BY <1>1, <1>4, <1>5, <1>6, <1>7 DEF Kept

LEMMA KeptToMap ==
  ASSUME Typed, Kept, UnmarshalToMap, Well, outcome' = "ok" PROVE Kept'
<1> DEFINE i == Head(Capturing("children"))
           r == PutChild(Head(rest), case.opts, dest[i])
<1>1. i \in DOMAIN dest /\ "children" \in case.type[i].attrs /\ case.type[i].kind = "map" /\ Takes(i, r)
  BY ToMapTakes
<1>2. pc = "children" /\ rest # <<>> /\ rest' = Tail(rest) /\ UNCHANGED <<case, visited>>
  BY DEF UnmarshalToMap
<1> HIDE DEF i, r
<1>3. dest' = [dest EXCEPT ![i] = r.value] /\ pc' = "children"
  BY <1>1, <1>2 DEF Takes
<1>4. \A k \in 1 .. Done : ChildHeld(k)
  BY DEF Kept, Well
<1>5. (\A k \in 1 .. Done + 1 : HeldIn(k, dest')) /\ Extends(dest[i], dest'[i])
  BY <1>4, ToMapHolds DEF Well, i
<1>6. Done' = Done + 1
  BY <1>2, TailRemains
<1>7. \A j \in DOMAIN dest : j # i => dest'[j] = dest[j]
  BY <1>3
<1> QED
  BY <1>1, <1>2, <1>3, <1>5, <1>6, <1>7, KeptChild

LEMMA KeptToField ==
  ASSUME Typed, Kept, UnmarshalToField, Well, outcome' = "ok" PROVE Kept'
<1>1. PICK i \in Field(Head(rest).name) :
          i \in DOMAIN dest /\ IsNode(Head(rest)) /\ Takes(i, Brings(i, Head(rest)))
  BY ToFieldTakes
<1>2. pc = "children" /\ rest # <<>> /\ rest' = Tail(rest) /\ UNCHANGED <<case, visited>>
      /\ Capturing("children") = <<>>
  BY DEF UnmarshalToField
<1> DEFINE r == Brings(i, Head(rest))
<1>3. r.outcome = "ok" /\ dest' = [dest EXCEPT ![i] = r.value] /\ pc' = "children"
  BY <1>1, <1>2 DEF Takes
<1>4. /\ case.type[i].kind = "ints" => Grown(dest[i], dest'[i])
      /\ case.type[i].kind = "map" => Extends(dest[i], dest'[i])
  BY <1>1, <1>3, BringsValue DEF IsList
<1>5. ChildNode(Done + 1) \in Aims(i)
  <2>1. Done + 1 \in DOMAIN case.node.children /\ Head(rest) = case.node.children[Done + 1]
    BY <1>2, FirstIsNext DEF Typed
  <2> QED
    BY <1>1, <1>2, <2>1 DEF Aims
<1>6. \A k \in 1 .. Done + 1 : HeldIn(k, dest')
  <2>1. \A k \in 1 .. Done : ChildHeld(k)
    BY DEF Kept, Well
  <2> QED
    BY <2>1, ToFieldHolds DEF Well
<1>7. Done' = Done + 1
  BY <1>2, TailRemains
<1> HIDE DEF r
<1>8. \A j \in DOMAIN dest : j # i => dest'[j] = dest[j]
  BY <1>3
<1> QED
  BY <1>1, <1>2, <1>3, <1>4, <1>5, <1>6, <1>7, <1>8, KeptChild

LEMMA KeptNext ==
  ASSUME Typed, Kept, [Next]_vars PROVE Kept'
<1>1. SUFFICES ASSUME Well' PROVE Kept'
  BY DEF Kept, Well
<1>2. UNCHANGED case
  BY DEF Next, vars, RejectArguments, RunOutOfArguments, AssignArguments, AssignProperty, RejectProperties,
         CollectProperties, NoChildrenField, UnmarshalToMap, UnmarshalToField, NoField, Return, Finished, Fails
<1>3. outcome' = "ok" /\ Strict(case.opts)
  BY <1>1, <1>2 DEF Well
<1>4. CASE UNCHANGED vars
  <2>1. Well /\ UNCHANGED <<case, dest, visited, rest, pc>>
    BY <1>3, <1>4 DEF Well, vars
  <2> QED
    BY <2>1, AllStay DEF Kept, Well
<1>5. CASE Next /\ ~UNCHANGED vars
  <2>1. pc # "done"
    BY <1>5 DEF Next, RejectArguments, RunOutOfArguments, AssignArguments, AssignProperty, RejectProperties,
         CollectProperties, NoChildrenField, UnmarshalToMap, UnmarshalToField, NoField, Return, Finished, Fails,
         Goes
  <2>2. Well
    BY <1>3, <2>1 DEF Typed, Well
  <2>3. ~(RejectArguments \/ RunOutOfArguments \/ RejectProperties \/ NoChildrenField)
    BY <1>3 DEF RejectArguments, RunOutOfArguments, RejectProperties, NoChildrenField, Fails
  <2>4. CASE AssignArguments
    BY <2>2, <2>4, KeptAssignArguments
  <2>5. CASE \E p \in DOMAIN case.node.props : AssignProperty(p)
    BY <1>3, <2>2, <2>5, KeptAssignProperty
  <2>6. CASE CollectProperties
    BY <2>2, <2>6, KeptCollectProperties
  <2>7. CASE UnmarshalToMap
    BY <1>3, <2>2, <2>7, KeptToMap
  <2>8. CASE UnmarshalToField
    BY <1>3, <2>2, <2>8, KeptToField
  <2>9. CASE NoField
    BY <1>3, <2>9 DEF NoField, Strict
  <2>10. CASE Return
    <3>1. UNCHANGED <<case, dest, visited, rest, outcome>> /\ pc = "children" /\ rest = <<>>
      BY <2>10 DEF Return, Goes
    <3>2. /\ ArgumentsHeld /\ GivenHeld /\ CollectedHeld /\ visited = DOMAIN case.node.props
          /\ \A k \in 1 .. Done : ChildHeld(k)
      BY <2>2, <3>1 DEF Kept, Well
    <3>3. ArgumentsHeld' /\ GivenHeld' /\ CollectedHeld' /\ (\A k \in 1 .. Done : ChildHeld(k))'
      BY <3>1, <3>2, AllStay
    <3> QED
      BY <3>1, <3>2, <3>3 DEF Kept
  <2> QED
    BY <1>5, <2>3, <2>4, <2>5, <2>6, <2>7, <2>8, <2>9, <2>10 DEF Next, Finished
<1> QED
  BY <1>4, <1>5

\* With options that allow nothing, a call that succeeds has put every argument, property
\* and child of the node into a field, where it still is unless the field holds one thing
\* and another entry is for it too; a map has all of them, each under a key of its own
\* (unmarshalNodeToStruct, unmarshal.go:613).
THEOREM NothingIsDropped == Spec => []NothingDropped
<1>1. Typed /\ Kept /\ [Next]_vars => Kept'
  BY KeptNext
<1>2. Typed /\ Kept => NothingDropped
  BY EndsKept DEF NothingDropped, Accepted
<1> QED
  BY <1>1, <1>2, KeptInit, AlwaysTyped, PTL DEF Spec

----------------------------------------------------------------------------
(* One value from its node.                                                *)

\* An element that is in the set is among those that are.
LEMMA ThoseKept ==
  ASSUME NEW T, NEW s \in Seq(T), NEW S, NEW k \in 1 .. Len(s), s[k] \in S
  PROVE  LET r == Those(s, S) IN \E j \in 1 .. Len(r) : r[j] = s[k]
<1>1. PICK f \in [0 .. Len(s) -> Seq(T \cap S)] :
            /\ \A n \in 1 .. Len(s) : f[n] = IF s[n] \in S THEN Append(f[n - 1], s[n]) ELSE f[n - 1]
            /\ Those(s, S) = f[Len(s)]
  <2>1. Selections(s, T, S) # {}
    BY ThoseSteps
  <2> QED
    BY <2>1 DEF Selections
<1>2. Len(s) \in Nat /\ \A n \in 1 .. Len(s) : s[n] \in T
  OBVIOUS
<1> DEFINE Has(n) == \E j \in 1 .. Len(f[n]) : f[n][j] = s[k]
           B == {n \in Nat : k <= n /\ n <= Len(s) => Has(n)}
<1>3. ASSUME NEW n \in Nat, n \in B PROVE n + 1 \in B
  <2>1. SUFFICES ASSUME k <= n + 1, n + 1 <= Len(s) PROVE Has(n + 1)
    OBVIOUS
  <2> DEFINE q == f[n]
  <2>2. n + 1 \in 1 .. Len(s) /\ n \in 0 .. Len(s) /\ (n + 1) - 1 = n
    BY <1>2, <2>1
  <2>3. q \in Seq(T \cap S) /\ f[n + 1] = IF s[n + 1] \in S THEN Append(q, s[n + 1]) ELSE q
    BY <1>1, <2>2
  <2>4. CASE k = n + 1
    <3>1. s[k] \in T \cap S /\ f[n + 1] = Append(q, s[k])
      BY <1>2, <2>3, <2>4
    <3> HIDE DEF q
    <3> DEFINE W == T \cap S
               r == Append(q, s[k])
    <3>2. q \in Seq(W) /\ s[k] \in W
      BY <2>3, <3>1
    <3> HIDE DEF W
    <3>3. Len(r) = Len(q) + 1 /\ r[Len(q) + 1] = s[k] /\ Len(q) \in Nat
      BY <3>2, AppendProperties
    <3>4. Len(q) + 1 \in 1 .. Len(r)
      BY <3>3
    <3> QED
      BY <3>1, <3>3, <3>4
  <2>5. CASE k # n + 1
    <3>1. PICK j \in 1 .. Len(q) : q[j] = s[k]
      BY <1>2, <1>3, <2>1, <2>5
    <3> HIDE DEF q
    <3>2. CASE s[n + 1] \in S
      <4> DEFINE W == T \cap S
                 x == s[n + 1]
                 r == Append(q, x)
      <4>1. q \in Seq(W) /\ x \in W
        BY <1>2, <2>2, <2>3, <3>2
      <4> HIDE DEF W, x
      <4>2. Len(r) = Len(q) + 1 /\ Len(q) \in Nat /\ r[j] = q[j]
        BY <4>1, AppendProperties
      <4>3. j \in 1 .. Len(r)
        BY <4>2
      <4> QED
        BY <2>3, <3>1, <3>2, <4>2, <4>3 DEF x
    <3>3. CASE s[n + 1] \notin S
      BY <2>3, <3>1, <3>3
    <3> QED
      BY <3>2, <3>3
  <2> QED
    BY <2>4, <2>5
<1>4. Len(s) \in B
  <2>1. 0 \in B
    BY <1>2
  <2> HIDE DEF B
  <2> QED
    BY <1>2, <1>3, <2>1, Induction
<1> QED
  BY <1>1, <1>2, <1>4

\* Those of elements that are all different are.
LEMMA ThoseDiffer ==
  ASSUME NEW T, NEW s \in Seq(T), NEW S, \A i, j \in 1 .. Len(s) : s[i] = s[j] => i = j
  PROVE  LET r == Those(s, S) IN \A j, k \in 1 .. Len(r) : r[j] = r[k] => j = k
<1> DEFINE W == T \cap S
           N == Len(s)
<1>1. PICK f \in [0 .. N -> Seq(W)] :
            /\ f[0] = <<>>
            /\ \A n \in 1 .. N : f[n] = IF s[n] \in S THEN Append(f[n - 1], s[n]) ELSE f[n - 1]
            /\ Those(s, S) = f[N]
  <2>1. Selections(s, T, S) # {}
    BY ThoseSteps
  <2> QED
    BY <2>1 DEF Selections
<1>2. N \in Nat /\ \A n \in 1 .. N : s[n] \in S => s[n] \in W
  OBVIOUS
<1> HIDE DEF W, N
<1> DEFINE Come(q, m) == \A j \in 1 .. Len(q) : \E i \in 1 .. m : q[j] = s[i]
           Differ(q) == \A j, k \in 1 .. Len(q) : q[j] = q[k] => j = k
           B == {m \in Nat : m <= N => Come(f[m], m) /\ Differ(f[m])}
<1>3. 0 \in B
  BY <1>1
<1>4. ASSUME NEW m \in Nat, m \in B PROVE m + 1 \in B
  <2>1. SUFFICES ASSUME m + 1 <= N PROVE Come(f[m + 1], m + 1) /\ Differ(f[m + 1])
    OBVIOUS
  <2> DEFINE q == f[m]
             x == s[m + 1]
  <2>2. /\ m \in 0 .. N /\ m + 1 \in 1 .. N /\ (m + 1) - 1 = m
        /\ Come(q, m) /\ Differ(q) /\ q \in Seq(W)
    BY <1>1, <1>2, <1>4, <2>1
  <2>3. f[m + 1] = IF x \in S THEN Append(q, x) ELSE q
    BY <1>1, <2>2
  <2>4. Len(q) \in Nat /\ (x \in S => x \in W)
    BY <1>2, <2>2
  <2>5. \A i \in 1 .. m : s[i] # x
    BY <2>2 DEF N
  <2> HIDE DEF q, x, B
  <2>6. CASE x \in S
    <3> DEFINE r == Append(q, x)
    <3>1. /\ Len(r) = Len(q) + 1 /\ r[Len(q) + 1] = x
          /\ \A j \in 1 .. Len(q) : r[j] = q[j]
      BY <2>2, <2>4, <2>6, AppendProperties
    <3> HIDE DEF r
    <3>2. \A j \in 1 .. Len(r) : j \in 1 .. Len(q) \/ j = Len(q) + 1
      BY <2>4, <3>1
    <3>3. Come(r, m + 1)
      <4>1. \A j \in 1 .. Len(q) : \E i \in 1 .. m + 1 : r[j] = s[i]
        <5>1. \A i \in 1 .. m : i \in 1 .. m + 1
          OBVIOUS
        <5> QED
          BY <2>2, <3>1, <5>1
      <4>2. m + 1 \in 1 .. m + 1 /\ r[Len(q) + 1] = s[m + 1]
        BY <3>1 DEF x
      <4> QED
        BY <3>2, <4>1, <4>2
    <3>4. \A j \in 1 .. Len(q) : q[j] # x
      BY <2>2, <2>5
    <3>5. Differ(r)
      BY <2>2, <3>1, <3>2, <3>4
    <3> QED
      BY <2>3, <2>6, <3>3, <3>5 DEF r
  <2>7. CASE x \notin S
    <3>1. f[m + 1] = q
      BY <2>3, <2>7
    <3>2. \A i \in 1 .. m : i \in 1 .. m + 1
      OBVIOUS
    <3> QED
      BY <2>2, <3>1, <3>2
  <2> QED
    BY <2>6, <2>7
<1>5. N \in B
  <2> HIDE DEF B
  <2> QED
    BY <1>2, <1>3, <1>4, Induction
<1>6. Differ(f[N])
  BY <1>2, <1>5
<1> QED
  BY <1>1, <1>6

LEMMA IntBack ==
  ASSUME NEW name, NEW x, x # Null, NEW opts
  PROVE  toInt(Child(name, <<x>>), opts) = Ok(x)
<1> DEFINE n == Child(name, <<x>>)
<1>1. n.args = <<x>> /\ n.props = Empty /\ n.children = <<>>
  BY NodeFields DEF Child
<1> HIDE DEF n
<1>2. verified(n, opts) /\ n.args[1] = x
  BY <1>1 DEF verified
<1>3. ToInt(x) = x
  BY DEF ToInt
<1> QED
  BY <1>2, <1>3 DEF toInt, n

LEMMA IntsBack ==
  ASSUME NEW name, NEW v, IsSequence(v), Null \notin Range(v)
  PROVE  toInts(Child(name, v), <<>>) = Ok(v)
<1> DEFINE n == Child(name, v)
           t == [i \in DOMAIN v |-> ToInt(v[i])]
<1>1. n.args = v /\ n.props = Empty
  BY NodeFields DEF Child
<1>2. v \in Seq(ToSet(v)) /\ v = [i \in DOMAIN v |-> v[i]]
  BY DEF IsSequence
<1>3. \A i \in DOMAIN v : ToInt(v[i]) = v[i]
  BY DEF Range, ToInt
<1>4. t = v
  BY <1>2, <1>3
<1>5. <<>> \o v = v
  BY <1>2, ConcatEmptySeq
<1> HIDE DEF n, t
<1>6. toInts(n, <<>>) = Ok(<<>> \o t)
  BY <1>1 DEF toInts, t
<1> QED
  BY <1>4, <1>5, <1>6 DEF n

LEMMA PointBack ==
  ASSUME NEW name, NEW x, x # Null, NEW opts
  PROVE  toPoint(Node(name, <<>>, [p \in {PointName} |-> x], <<>>), opts) = Ok(x)
<1> DEFINE ps == [p \in {PointName} |-> x]
           n == Node(name, <<>>, ps, <<>>)
<1>1. n.args = <<>> /\ n.props = ps /\ n.children = <<>>
  BY NodeFields
<1>2. normalizeKey(PointName, opts.caseSensitive) = PointName
  BY LowerAssumption DEF normalizeKey
<1>3. DOMAIN ps = {PointName} /\ ps[PointName] = x /\ DOMAIN <<>> = {}
  OBVIOUS
<1> HIDE DEF n, ps
<1> DEFINE IsMine(nm) == normalizeKey(nm, opts.caseSensitive) = PointName
           known == {p \in DOMAIN n.props : IsMine(p)}
           children == n.children
           mine == {m \in DOMAIN children : IsMine(children[m].name)}
           rejected ==
            \/ n.args # <<>> /\ ~opts.args
            \/ known # DOMAIN n.props /\ ~opts.props
           failing ==
            \/ \E m \in mine : toInt(children[m], opts).outcome # "ok"
            \/ mine # DOMAIN children /\ ~opts.nodes
           v == CASE mine # {} -> toInt(children[Max(mine)], opts).value
                  [] mine = {} /\ known # {} -> ToInt(n.props[CHOOSE p \in known : TRUE])
                  [] OTHER -> "0"
<1>4. known = {PointName} /\ mine = {} /\ DOMAIN children = {}
  BY <1>1, <1>2, <1>3
<1>5. ~rejected /\ ~failing /\ ~(children # <<>> /\ opts.children)
  BY <1>1, <1>3, <1>4
<1>6. v = x
  <2>1. (CHOOSE p \in {PointName} : TRUE) = PointName
    OBVIOUS
  <2>2. ToInt(x) = x
    BY DEF ToInt
  <2> QED
    BY <1>1, <1>3, <1>4, <2>1, <2>2
<1>7. toPoint(n, opts) = CASE rejected -> Error
          [] ~rejected /\ children # <<>> /\ opts.children -> Panic
          [] ~rejected /\ ~(children # <<>> /\ opts.children) /\ failing -> Error
          [] OTHER -> Ok(v)
  BY DEF toPoint
<1> HIDE DEF rejected, failing, v, known, mine, children
<1>8. toPoint(n, opts) = Ok(v)
  BY <1>5, <1>7
<1> QED
  BY <1>6, <1>8 DEF n, ps

LEMMA MultiMapBack ==
  ASSUME NEW name, NEW k, NEW x, x # Null, NEW old, k \notin DOMAIN old, NEW opts
  PROVE  toMultiMap(Child(name, <<k, x>>), old, opts) = Ok(Put(old, k, x))
<1> DEFINE n == Child(name, <<k, x>>)
           c == Child(k, <<x>>)
<1>1. n.args = <<k, x>> /\ n.props = Empty /\ n.children = <<>>
  BY NodeFields DEF Child
<1>2. <<k, x>> # <<>> /\ <<k, x>>[1] = k /\ Tail(<<k, x>>) = <<x>>
  OBVIOUS
<1>3. toMultiMap(n, old, opts) = PutChild(c, opts, old)
  BY <1>1, <1>2 DEF toMultiMap, Child
<1>4. toInt(c, opts) = Ok(x) /\ c.name = k
  BY IntBack, NodeFields DEF Child
<1> HIDE DEF n, c
<1>5. PutChild(c, opts, old) = Ok(Put(old, k, x))
  <2>1. toInt(c, opts).outcome = "ok" /\ toInt(c, opts).value = x
    BY <1>4, Outcomes
  <2> QED
    BY <1>4, <2>1 DEF PutChild
<1> QED
  BY <1>3, <1>5 DEF n

\* The keys of a map that are numerals leave none out.
NumbersFirst(m) ==
    \A k, l \in DOMAIN Numerals : k < l /\ Numerals[l] \in DOMAIN m => Numerals[k] \in DOMAIN m

LEMMA NumberedBack ==
  ASSUME NEW m, NumbersFirst(m)
  PROVE  LET args == Numbered(m)
             I == {k \in DOMAIN m : IsInteger(k)}
         IN  /\ DOMAIN args \subseteq {1, 2, 3}
             /\ {Numerals[i] : i \in DOMAIN args} = I
             /\ \A i \in DOMAIN args : args[i] = m[Numerals[i]]
             /\ \A i, j \in DOMAIN args : Numerals[i] = Numerals[j] => i = j
<1> DEFINE I == {k \in DOMAIN m : IsInteger(k)}
           count == Cardinality(I)
           args == Numbered(m)
<1>1. DOMAIN Numerals = {1, 2, 3} /\ Numerals[1] = "0" /\ Numerals[2] = "1" /\ Numerals[3] = "2"
  BY DEF Numerals
<1>2. \A k : IsInteger(k) <=> k \in {"0", "1", "2"}
  <2>1. Range(Numerals) = {Numerals[1], Numerals[2], Numerals[3]}
    BY <1>1 DEF Range
  <2> QED
    BY <1>1, <2>1 DEF IsInteger
<1>3. /\ "1" \in DOMAIN m => "0" \in DOMAIN m
      /\ "2" \in DOMAIN m => "0" \in DOMAIN m /\ "1" \in DOMAIN m
  <2>1. 1 < 2 /\ 1 < 3 /\ 2 < 3
    OBVIOUS
  <2> QED
    BY <1>1, <2>1 DEF NumbersFirst
<1>4. I = DOMAIN m \cap {"0", "1", "2"}
  BY <1>2
<1>5. \/ I = {}
      \/ I = {"0"}
      \/ I = {"0", "1"}
      \/ I = {"0", "1", "2"}
  BY <1>3, <1>4
<1>6. /\ count \in 0 .. 3
      /\ {Numerals[i] : i \in 1 .. count} = I
  <2>1. CASE I = {}
    <3>1. count = 0 /\ 1 .. 0 = {}
      BY <2>1, FS_EmptySet
    <3> QED
      BY <2>1, <3>1
  <2>2. CASE I = {"0"}
    <3>1. count = 1 /\ 1 .. 1 = {1}
      BY <2>2, FS_Singleton
    <3> QED
      BY <1>1, <2>2, <3>1
  <2>3. CASE I = {"0", "1"}
    <3>1. IsFiniteSet({"0"}) /\ Cardinality({"0"}) = 1 /\ "1" \notin {"0"}
      BY FS_Singleton
    <3>2. I = {"0"} \cup {"1"}
      BY <2>3
    <3>3. count = 2 /\ 1 .. 2 = {1, 2}
      BY <3>1, <3>2, FS_AddElement
    <3> QED
      BY <1>1, <2>3, <3>3
  <2>4. CASE I = {"0", "1", "2"}
    <3>1. IsFiniteSet({"0"}) /\ Cardinality({"0"}) = 1 /\ "1" \notin {"0"}
      BY FS_Singleton
    <3> DEFINE J == {"0"} \cup {"1"}
    <3>2. IsFiniteSet(J) /\ Cardinality(J) = 2
      BY <3>1, FS_AddElement
    <3>3. I = J \cup {"2"} /\ "2" \notin J
      BY <2>4
    <3> HIDE DEF J, I
    <3>4. count = 3 /\ 1 .. 3 = {1, 2, 3}
      BY <3>2, <3>3, FS_AddElement
    <3> QED
      BY <1>1, <2>4, <3>4
  <2> QED
    BY <1>5, <2>1, <2>2, <2>3, <2>4
<1>7. args = [i \in 1 .. count |-> IF Numerals[i] \in DOMAIN m THEN m[Numerals[i]] ELSE Null]
  BY DEF Numbered
<1> HIDE DEF count
<1>8. DOMAIN args = 1 .. count /\ 1 .. count \subseteq {1, 2, 3}
  BY <1>6, <1>7
<1>9. \A i \in DOMAIN args : args[i] = m[Numerals[i]]
  <2>1. ASSUME NEW i \in 1 .. count PROVE args[i] = m[Numerals[i]]
    <3>1. Numerals[i] \in DOMAIN m
      BY <1>6
    <3> HIDE DEF args
    <3> QED
      BY <1>7, <3>1
  <2> QED
    BY <1>8, <2>1
<1>10. \A i, j \in {1, 2, 3} : Numerals[i] = Numerals[j] => i = j
  BY <1>1
<1> QED
  <2> HIDE DEF args
  <2>1. {Numerals[i] : i \in DOMAIN args} = I
    BY <1>6, <1>8
  <2> QED
    BY <1>8, <1>9, <1>10, <2>1 DEF args

LEMMA MapBack ==
  ASSUME NEW name, NEW m, m \in [DOMAIN m -> Range(m) \ {Null}], NumbersFirst(m), NEW opts
  PROVE  toMap(marshalMapToNode(name, m), Empty, opts) = Ok(m)
<1> DEFINE n == marshalMapToNode(name, m)
           I == {k \in DOMAIN m : IsInteger(k)}
           J == {k \in DOMAIN m : ~IsInteger(k)}
<1>1. n.args = Numbered(m) /\ n.props = Restrict(m, J) /\ n.children = <<>>
  BY NodeFields DEF marshalMapToNode
<1> HIDE DEF n
<1> DEFINE numbers == Numbers(n)
           children == n.children
           names == ChildNames(n)
           Entry(k) == NewEntry(n, Empty, opts, k)
           D == DOMAIN Empty \cup numbers \cup DOMAIN n.props \cup names
           r == NewMap(n, Empty, opts)
<1>2. DOMAIN children = {} /\ names = {}
  BY <1>1 DEF ChildNames
<1>4. /\ numbers = I
      /\ \A i \in DOMAIN n.args : n.args[i] = m[Numerals[i]]
      /\ \A i, j \in DOMAIN n.args : Numerals[i] = Numerals[j] => i = j
  BY <1>1, NumberedBack DEF Numbers
<1>5. DOMAIN n.props = J /\ \A k \in J : n.props[k] = m[k]
  BY <1>1 DEF Restrict
<1>6. D = DOMAIN m
  <2>1. DOMAIN Empty = {}
    BY DEF Empty
  <2> QED
    BY <1>2, <1>4, <1>5, <2>1
<1>7. ASSUME NEW k \in DOMAIN m PROVE Entry(k) = m[k]
  <2>1. ToInt(m[k]) = m[k]
    BY DEF ToInt
  <2>2. CASE k \in J
    <3>1. k \in DOMAIN n.props \ names /\ k \notin names
      BY <1>2, <1>5, <2>2
    <3>2. Entry(k) = ToInt(n.props[k])
      BY <3>1 DEF NewEntry
    <3> QED
      BY <1>5, <2>1, <2>2, <3>2
  <2>3. CASE k \notin J
    <3> DEFINE c == CHOOSE i \in DOMAIN n.args : Numerals[i] = k
    <3>1. k \in numbers \ (names \cup DOMAIN n.props) /\ k \notin names /\ k \notin DOMAIN n.props
      BY <1>2, <1>4, <1>5, <2>3
    <3>2. c \in DOMAIN n.args /\ Numerals[c] = k
      BY <3>1 DEF Numbers
    <3>3. n.args[c] = m[k]
      BY <1>4, <3>2
    <3>4. Entry(k) = ToInt(n.args[c])
      BY <3>1 DEF NewEntry
    <3> QED
      BY <2>1, <3>3, <3>4
  <2> QED
    BY <2>2, <2>3
<1>8. r = m
  <2>2. r = [k \in D |-> Entry(k)]
    BY DEF NewMap
  <2> HIDE DEF Entry, D, r
  <2>1. r = [k \in DOMAIN m |-> m[k]]
    BY <1>6, <1>7, <2>2
  <2> QED
    BY <2>1
<1>3. toMap(n, Empty, opts) = Ok(r)
  <2>1. DOMAIN Empty = {} /\ numbers \cap DOMAIN n.props = {}
    BY <1>4, <1>5 DEF Empty
  <2>2. ~Again(n, Empty) /\ ~Rejects(n, Empty, opts) /\ RepeatedIn(n, Empty) = {}
    BY <1>2, <2>1 DEF Again, Rejects, RepeatedIn
  <2> HIDE DEF r
  <2> QED
    BY <2>2, MapIs DEF r
<1> HIDE DEF r
<1> QED
  BY <1>3, <1>8 DEF n

----------------------------------------------------------------------------
(* The nodes of a field, one after another.                                *)

\* What a field that takes a node makes of it.
Step(f, node, old, opts) ==
    IF "multiple" \in f.attrs THEN toMultiple(f.kind, node, old, opts) ELSE toValue(f.kind, node, old, opts)

\* A field and a value that comes back.
Fitting(f, v) ==
    /\ f.kind \in Kinds /\ Fits(f.kind, v)
    /\ f.kind = "points" => "multiple" \in f.attrs
    /\ "multiple" \in f.attrs => f.kind # "ints" /\ ~(f.kind = "int" /\ "child" \in f.attrs)
    /\ f.kind = "map" /\ "multiple" \notin f.attrs => NumbersFirst(v)

\* What is back of a value after some of its nodes.
Restored(m, t) == [k \in {sortMapKeys(m)[j] : j \in 1 .. t} |-> m[k]]
Part(f, v, t) ==
    CASE f.kind = "points" -> [k \in 1 .. t |-> v[k]]
      [] f.kind = "map" /\ "multiple" \in f.attrs -> Restored(v, t)
      [] IsProperty(f, v) -> v
      [] OTHER -> IF t = 0 THEN Zero(f.kind) ELSE v

\* That a list of nodes brings a value back.
Rebuilds(nodes, f, name, v) ==
    /\ Len(nodes) \in Nat
    /\ IsProperty(f, v) => Len(nodes) = 0
    /\ ~IsProperty(f, v) => Part(f, v, 0) = Zero(f.kind)
    /\ Part(f, v, Len(nodes)) = v
    /\ \A t \in 0 .. Len(nodes) - 1 : \A opts :
           /\ nodes[t + 1].name = name
           /\ Step(f, nodes[t + 1], Part(f, v, t), opts) = Ok(Part(f, v, t + 1))

LEMMA RestoredNone ==
  ASSUME NEW m PROVE Restored(m, 0) = Empty
<1>1. {sortMapKeys(m)[j] : j \in 1 .. 0} = {}
  OBVIOUS
<1> QED
  BY <1>1 DEF Restored, Empty

LEMMA RestoredAll ==
  ASSUME NEW m, m \in [DOMAIN m -> Range(m) \ {Null}], DOMAIN m \subseteq Range(Names)
  PROVE  Restored(m, Len(sortMapKeys(m))) = m
<1> DEFINE keys == sortMapKeys(m)
           S == {keys[j] : j \in 1 .. Len(keys)}
<1>1. S \subseteq DOMAIN m
  BY SortedKeys
<1>2. ASSUME NEW k \in DOMAIN m PROVE k \in S
  <2>1. Names \in Seq(ToSet(Names)) /\ DOMAIN Names = 1 .. Len(Names)
    BY NamesAssumption DEF IsSequence
  <2>2. PICK i \in 1 .. Len(Names) : Names[i] = k
    BY <2>1 DEF Range
  <2> DEFINE T == ToSet(Names)
             D == DOMAIN m
             r == Those(Names, D)
  <2>3. Names \in Seq(T) /\ Names[i] \in D
    BY <2>1, <2>2
  <2> HIDE DEF T, D
  <2>4. \E j \in 1 .. Len(r) : r[j] = Names[i]
    BY <2>3, ThoseKept
  <2>5. keys = r
    BY DEF sortMapKeys, D
  <2> QED
    BY <2>2, <2>4, <2>5
<1>3. S = DOMAIN m
  BY <1>1, <1>2
<1>4. Restored(m, Len(keys)) = [k \in S |-> m[k]]
  BY DEF Restored
<1> HIDE DEF S
<1>5. [k \in DOMAIN m |-> m[k]] = m
  OBVIOUS
<1> QED
  BY <1>3, <1>4, <1>5

LEMMA RestoredMore ==
  ASSUME NEW m, NEW t \in Nat, NEW k, k = sortMapKeys(m)[t + 1]
  PROVE  Put(Restored(m, t), k, m[k]) = Restored(m, t + 1)
<1> DEFINE keys == sortMapKeys(m)
           S == {keys[j] : j \in 1 .. t}
           U == {keys[j] : j \in 1 .. t + 1}
           old == [n \in S |-> m[n]]
<1>1. U = S \cup {k}
  <2>1. 1 .. t + 1 = (1 .. t) \cup {t + 1}
    OBVIOUS
  <2> HIDE DEF keys
  <2> QED
    BY <2>1 DEF keys
<1>2. Restored(m, t) = old /\ Restored(m, t + 1) = [n \in U |-> m[n]]
  BY DEF Restored
<1> HIDE DEF U, S
<1>3. Put(old, k, m[k]) = [n \in S \cup {k} |-> m[n]]
  BY DEF Put
<1> QED
  BY <1>1, <1>2, <1>3

\* The next key is not back yet.
LEMMA RestoredLacks ==
  ASSUME NEW m, NEW t \in Nat, t + 1 \in DOMAIN sortMapKeys(m)
  PROVE  sortMapKeys(m)[t + 1] \notin DOMAIN Restored(m, t)
<1> DEFINE keys == sortMapKeys(m)
           T == ToSet(Names)
<1>1. Names \in Seq(T) /\ \A i, j \in 1 .. Len(Names) : Names[i] = Names[j] => i = j
  <2>1. Names \in Seq(ToSet(Names)) /\ DOMAIN Names = 1 .. Len(Names)
    BY NamesAssumption DEF IsSequence
  <2> QED
    BY <2>1, NamesAssumption
<1> HIDE DEF T
<1>2. \A i, j \in 1 .. Len(keys) : keys[i] = keys[j] => i = j
  BY <1>1, ThoseDiffer DEF sortMapKeys
<1>3. Len(keys) \in Nat /\ DOMAIN keys = 1 .. Len(keys)
  BY SortedKeys
<1>4. DOMAIN Restored(m, t) = {keys[j] : j \in 1 .. t}
  BY DEF Restored
<1> HIDE DEF keys
<1>5. t + 1 \in 1 .. Len(keys) /\ \A j \in 1 .. t : j \in 1 .. Len(keys) /\ j # t + 1
  BY <1>3 DEF keys
<1>6. \A j \in 1 .. t : keys[j] # keys[t + 1]
  BY <1>2, <1>5
<1> QED
  BY <1>4, <1>6 DEF keys

LEMMA NothingRebuilds ==
  ASSUME NEW f, NEW name, NEW v, f.kind \in Kinds,
         IsProperty(f, v) \/ v = Zero(f.kind)
  PROVE  Rebuilds(<<>>, f, name, v)
<1>1. f.kind \in {"int", "ints", "map", "points"}
  BY DEF Kinds
<1>2. Len(<<>>) = 0 /\ 0 .. 0 - 1 = {}
  OBVIOUS
<1>3. CASE IsProperty(f, v)
  <2>1. f.kind = "int" /\ Part(f, v, 0) = v
    BY <1>3 DEF IsProperty, Part
  <2> QED
    BY <1>2, <1>3, <2>1 DEF Rebuilds
<1>4. CASE ~IsProperty(f, v)
  <2>1. Part(f, v, 0) = Zero(f.kind)
    <3>1. CASE f.kind = "points"
      <4>1. [k \in 1 .. 0 |-> v[k]] = <<>>
        OBVIOUS
      <4>2. Zero(f.kind) = <<>> /\ Part(f, v, 0) = [k \in 1 .. 0 |-> v[k]]
        BY <3>1 DEF Zero, Part, IsProperty
      <4> QED
        BY <4>1, <4>2
    <3>2. CASE f.kind = "map" /\ "multiple" \in f.attrs
      <4>1. Zero(f.kind) = Empty /\ Part(f, v, 0) = Restored(v, 0)
        BY <3>2 DEF Zero, Part, IsProperty
      <4> QED
        BY <4>1, RestoredNone
    <3>3. CASE ~(f.kind = "points") /\ ~(f.kind = "map" /\ "multiple" \in f.attrs)
      BY <1>4, <3>3 DEF Part
    <3> QED
      BY <3>1, <3>2, <3>3
  <2> QED
    BY <1>2, <1>4, <2>1 DEF Rebuilds
<1> QED
  BY <1>3, <1>4

\* One node that brings the whole value.
LEMMA OneRebuilds ==
  ASSUME NEW f, NEW name, NEW v, NEW n, ~IsProperty(f, v), f.kind \in {"int", "ints", "map"},
         "multiple" \notin f.attrs, n.name = name,
         \A opts : toValue(f.kind, n, Zero(f.kind), opts) = Ok(v)
  PROVE  Rebuilds(<<n>>, f, name, v)
<1>1. Part(f, v, 0) = Zero(f.kind) /\ Part(f, v, 1) = v
  BY DEF Part
<1>2. Len(<<n>>) = 1 /\ <<n>>[1] = n /\ 1 \in Nat
  OBVIOUS
<1>3. ASSUME NEW t \in 0 .. 1 - 1, NEW opts
      PROVE  <<n>>[t + 1].name = name /\ Step(f, <<n>>[t + 1], Part(f, v, t), opts) = Ok(Part(f, v, t + 1))
  <2>1. t = 0 /\ t + 1 = 1
    OBVIOUS
  <2>2. Step(f, n, Zero(f.kind), opts) = Ok(v)
    BY DEF Step
  <2> QED
    BY <1>1, <1>2, <2>1, <2>2
<1> QED
  BY <1>1, <1>2, <1>3 DEF Rebuilds

LEMMA PointsRebuild ==
  ASSUME NEW f, NEW name, NEW v, f.kind = "points", "multiple" \in f.attrs, IsSequence(v), Null \notin Range(v)
  PROVE  Rebuilds(marshalMultiSliceToNodes(name, v), f, name, v)
<1> DEFINE node(i) == Node(name, <<>>, [p \in {PointName} |-> v[i]], <<>>)
           s == marshalMultiSliceToNodes(name, v)
           N == Len(v)
           P(t) == [k \in 1 .. t |-> v[k]]
<1>1. N \in Nat /\ DOMAIN v = 1 .. N /\ v = [k \in 1 .. N |-> v[k]] /\ \A k \in 1 .. N : v[k] # Null
  BY DEF IsSequence, Range
<1>2. s = [i \in 1 .. N |-> node(i)]
  BY <1>1 DEF marshalMultiSliceToNodes
<1> HIDE DEF N, node, s
<1>3. Len(s) = N /\ \A i \in 1 .. N : s[i] = node(i)
  BY <1>1, <1>2
<1>4. \A t : Part(f, v, t) = P(t)
  BY DEF Part, IsProperty
<1>5. ~IsProperty(f, v) /\ Zero(f.kind) = <<>>
  BY DEF IsProperty, Zero
<1>6. P(0) = <<>> /\ P(N) = v
  BY <1>1
<1>7. ASSUME NEW t \in 0 .. N - 1, NEW opts
      PROVE  s[t + 1].name = name /\ Step(f, s[t + 1], P(t), opts) = Ok(P(t + 1))
  <2>1. t + 1 \in 1 .. N /\ t \in Nat
    BY <1>1
  <2>2. s[t + 1] = node(t + 1) /\ node(t + 1).name = name
    <3>1. s[t + 1] = node(t + 1)
      BY <1>3, <2>1
    <3>2. node(t + 1).name = name
      BY NodeFields DEF node
    <3> QED
      BY <3>1, <3>2
  <2>3. toPoint(node(t + 1), opts) = Ok(v[t + 1])
    BY <1>1, <2>1, PointBack DEF node
  <2>4. Appended(Ok(v[t + 1]), P(t)) = Ok(Append(P(t), v[t + 1]))
    BY Outcomes DEF Appended
  <2>5. Append(P(t), v[t + 1]) = P(t + 1)
    <3> DEFINE S == ToSet(v)
    <3>1. \A k \in 1 .. N : v[k] \in S
      BY <1>1 DEF ToSet
    <3> HIDE DEF S
    <3>2. P(t) \in Seq(S) /\ P(t + 1) \in Seq(S) /\ Len(P(t)) = t /\ Len(P(t + 1)) = t + 1 /\ v[t + 1] \in S
      <4>1. t + 1 \in Nat /\ \A k \in 1 .. t + 1 : v[k] \in S
        BY <1>1, <2>1, <3>1
      <4>2. P(t) \in Seq(S) /\ Len(P(t)) = t
        BY <2>1, <4>1
      <4>3. P(t + 1) \in Seq(S) /\ Len(P(t + 1)) = t + 1
        BY <4>1
      <4> QED
        BY <2>1, <4>1, <4>2, <4>3
    <3>3. /\ Append(P(t), v[t + 1]) \in Seq(S) /\ Len(Append(P(t), v[t + 1])) = t + 1
          /\ \A k \in 1 .. t : Append(P(t), v[t + 1])[k] = v[k]
          /\ Append(P(t), v[t + 1])[t + 1] = v[t + 1]
      <4>1. \A k \in 1 .. t : P(t)[k] = v[k]
        OBVIOUS
      <4> HIDE DEF P
      <4> QED
        BY <3>2, <4>1, AppendProperties
    <3>4. \A k \in 1 .. t + 1 : P(t + 1)[k] = v[k]
      OBVIOUS
    <3> HIDE DEF P
    <3>5. \A k \in 1 .. t + 1 : Append(P(t), v[t + 1])[k] = P(t + 1)[k]
      BY <2>1, <3>3, <3>4
    <3> QED
      BY <3>2, <3>3, <3>5, SeqEqual
  <2>6. Step(f, node(t + 1), P(t), opts) = Appended(toPoint(node(t + 1), opts), P(t))
    BY DEF Step, toMultiple
  <2> QED
    BY <2>2, <2>3, <2>4, <2>5, <2>6
<1> HIDE DEF P
<1> QED
  BY <1>1, <1>3, <1>4, <1>5, <1>6, <1>7 DEF Rebuilds, s

LEMMA MultiMapRebuilds ==
  ASSUME NEW f, NEW name, NEW v, f.kind = "map", "multiple" \in f.attrs, Fits("map", v)
  PROVE  Rebuilds(marshalMultiMapToNodes(name, v), f, name, v)
<1> DEFINE keys == sortMapKeys(v)
           node(i) == Child(name, <<keys[i], v[keys[i]]>>)
           s == marshalMultiMapToNodes(name, v)
           N == Len(keys)
<1>1. N \in Nat /\ DOMAIN keys = 1 .. N /\ \A i \in 1 .. N : keys[i] \in DOMAIN v
  BY SortedKeys
<1>2. v \in [DOMAIN v -> Range(v) \ {Null}] /\ DOMAIN v \subseteq Range(Names)
  BY DEF Fits
<1>3. s = [i \in 1 .. N |-> node(i)]
  BY <1>1 DEF marshalMultiMapToNodes
<1> HIDE DEF N, node, s
<1>4. Len(s) = N /\ \A i \in 1 .. N : s[i] = node(i)
  BY <1>1, <1>3
<1>5. \A t : Part(f, v, t) = Restored(v, t)
  BY DEF Part, IsProperty
<1>6. ~IsProperty(f, v) /\ Zero(f.kind) = Empty
  BY DEF IsProperty, Zero
<1>7. Restored(v, 0) = Empty /\ Restored(v, N) = v
  BY <1>2, RestoredNone, RestoredAll DEF N
<1>8. ASSUME NEW t \in 0 .. N - 1, NEW opts
      PROVE  s[t + 1].name = name /\ Step(f, s[t + 1], Restored(v, t), opts) = Ok(Restored(v, t + 1))
  <2> DEFINE k == keys[t + 1]
  <2>1. t + 1 \in 1 .. N /\ t \in Nat
    BY <1>1
  <2>2. s[t + 1] = node(t + 1) /\ node(t + 1).name = name
    BY <1>4, <2>1, NodeFields DEF node, Child
  <2>3. v[k] # Null
    BY <1>1, <1>2, <2>1
  <2>7. k \notin DOMAIN Restored(v, t)
    BY <1>1, <2>1, RestoredLacks
  <2>4. toMultiMap(node(t + 1), Restored(v, t), opts) = Ok(Put(Restored(v, t), k, v[k]))
    BY <2>3, <2>7, MultiMapBack DEF node
  <2>5. Put(Restored(v, t), k, v[k]) = Restored(v, t + 1)
    BY <2>1, RestoredMore
  <2>6. Step(f, node(t + 1), Restored(v, t), opts) = toMultiMap(node(t + 1), Restored(v, t), opts)
    BY DEF Step, toMultiple
  <2> QED
    BY <2>2, <2>4, <2>5, <2>6
<1> QED
  BY <1>1, <1>4, <1>5, <1>6, <1>7, <1>8 DEF Rebuilds, s

\* The nodes of a field bring its value back.
LEMMA FieldRebuilds ==
  ASSUME NEW f, NEW name, NEW v, Fitting(f, v)
  PROVE  Rebuilds(tryMarshalValueAsChild(f, name, v), f, name, v)
<1> DEFINE r == tryMarshalValueAsChild(f, name, v)
<1>1. f.kind \in {"int", "ints", "map", "points"}
  BY DEF Fitting, Kinds
<1>2. CASE "omitempty" \in f.attrs /\ v = Zero(f.kind)
  <2>1. r = <<>>
    BY <1>2 DEF tryMarshalValueAsChild
  <2> QED
    BY <1>2, <2>1, NothingRebuilds DEF Fitting
<1>3. CASE ~("omitempty" \in f.attrs /\ v = Zero(f.kind))
  <2>1. CASE f.kind = "map" /\ "multiple" \in f.attrs
    <3>1. r = marshalMultiMapToNodes(name, v)
      BY <1>3, <2>1 DEF tryMarshalValueAsChild
    <3> QED
      BY <2>1, <3>1, MultiMapRebuilds DEF Fitting
  <2>2. CASE f.kind = "map" /\ "multiple" \notin f.attrs
    <3> DEFINE n == marshalMapToNode(name, v)
    <3>1. r = <<n>>
      BY <1>3, <2>2 DEF tryMarshalValueAsChild
    <3>2. n.name = name
      BY NodeFields DEF marshalMapToNode
    <3>3. v \in [DOMAIN v -> Range(v) \ {Null}] /\ NumbersFirst(v)
      BY <2>2 DEF Fitting, Fits
    <3>4. ~IsProperty(f, v) /\ Zero(f.kind) = Empty
      BY <2>2 DEF IsProperty, Zero
    <3>5. ASSUME NEW opts PROVE toValue(f.kind, n, Empty, opts) = Ok(v)
      <4>1. toMap(n, Empty, opts) = Ok(v)
        BY <3>3, MapBack
      <4> QED
        BY <2>2, <4>1 DEF toValue
    <3> HIDE DEF r, n
    <3>6. Rebuilds(<<n>>, f, name, v)
      BY <1>1, <2>2, <3>2, <3>4, <3>5, OneRebuilds
    <3> QED
      BY <3>1, <3>6 DEF r
  <2>3. CASE f.kind = "points"
    <3>1. r = marshalMultiSliceToNodes(name, v)
      BY <1>3, <2>3 DEF tryMarshalValueAsChild
    <3>2. "multiple" \in f.attrs /\ IsSequence(v) /\ Null \notin Range(v)
      BY <2>3 DEF Fitting, Fits
    <3> QED
      BY <2>3, <3>1, <3>2, PointsRebuild
  <2>4. CASE f.kind = "ints"
    <3> DEFINE n == Child(name, v)
    <3>1. r = <<n>>
      BY <1>3, <2>4 DEF tryMarshalValueAsChild
    <3>2. n.name = name
      BY NodeFields DEF Child
    <3>3. "multiple" \notin f.attrs /\ IsSequence(v) /\ Null \notin Range(v)
      BY <2>4 DEF Fitting, Fits
    <3>4. ~IsProperty(f, v) /\ Zero(f.kind) = <<>>
      BY <2>4 DEF IsProperty, Zero
    <3>5. ASSUME NEW opts PROVE toValue(f.kind, n, <<>>, opts) = Ok(v)
      <4>1. toInts(n, <<>>) = Ok(v)
        BY <3>3, IntsBack
      <4> QED
        BY <2>4, <4>1 DEF toValue
    <3> HIDE DEF r, n
    <3>6. Rebuilds(<<n>>, f, name, v)
      BY <2>4, <3>2, <3>3, <3>4, <3>5, OneRebuilds
    <3> QED
      BY <3>1, <3>6 DEF r
  <2>5. CASE f.kind = "int" /\ "child" \in f.attrs
    <3> DEFINE n == Child(name, <<v>>)
    <3>1. r = <<n>>
      BY <1>3, <2>5 DEF tryMarshalValueAsChild
    <3>2. n.name = name
      BY NodeFields DEF Child
    <3>3. "multiple" \notin f.attrs /\ v # Null
      BY <2>5 DEF Fitting, Fits
    <3>4. ~IsProperty(f, v)
      BY <2>5 DEF IsProperty
    <3>5. ASSUME NEW opts PROVE toValue(f.kind, n, Zero(f.kind), opts) = Ok(v)
      <4>1. toInt(n, opts) = Ok(v)
        BY <3>3, IntBack
      <4> QED
        BY <2>5, <4>1 DEF toValue
    <3> HIDE DEF r, n
    <3>6. Rebuilds(<<n>>, f, name, v)
      BY <2>5, <3>2, <3>3, <3>4, <3>5, OneRebuilds
    <3> QED
      BY <3>1, <3>6 DEF r
  <2>6. CASE f.kind = "int" /\ "child" \notin f.attrs
    <3>1. r = <<>>
      BY <1>3, <2>6 DEF tryMarshalValueAsChild
    <3>2. IsProperty(f, v)
      BY <1>3, <2>6 DEF IsProperty, Zero
    <3> QED
      BY <3>1, <3>2, NothingRebuilds DEF Fitting
  <2> QED
    BY <1>1, <2>1, <2>2, <2>3, <2>4, <2>5, <2>6
<1> QED
  BY <1>2, <1>3

\* Whether a field has nodes does not depend on its name.
LEMMA NoneByAnyName ==
  ASSUME NEW f, NEW a, NEW b, NEW v, Fitting(f, v), tryMarshalValueAsChild(f, a, v) = <<>>
  PROVE  tryMarshalValueAsChild(f, b, v) = <<>>
<1>1. <<marshalMapToNode(a, v)>> # <<>> /\ <<Child(a, v)>> # <<>> /\ <<Child(a, <<v>>)>> # <<>>
  OBVIOUS
<1>2. marshalMultiMapToNodes(a, v) = <<>> => marshalMultiMapToNodes(b, v) = <<>>
  <2> DEFINE keys == sortMapKeys(v)
             x == [i \in DOMAIN keys |-> Child(a, <<keys[i], v[keys[i]]>>)]
             y == [i \in DOMAIN keys |-> Child(b, <<keys[i], v[keys[i]]>>)]
  <2>1. marshalMultiMapToNodes(a, v) = x /\ marshalMultiMapToNodes(b, v) = y
    BY DEF marshalMultiMapToNodes
  <2>2. x = <<>> => DOMAIN keys = {}
    <3>1. DOMAIN x = DOMAIN keys
      OBVIOUS
    <3> HIDE DEF x
    <3> QED
      BY <3>1
  <2>3. DOMAIN keys = {} => y = <<>>
    OBVIOUS
  <2> HIDE DEF x, y
  <2> QED
    BY <2>1, <2>2, <2>3
<1>3. marshalMultiSliceToNodes(a, v) = <<>> => marshalMultiSliceToNodes(b, v) = <<>>
  <2> DEFINE x == [i \in DOMAIN v |-> Node(a, <<>>, [p \in {PointName} |-> v[i]], <<>>)]
             y == [i \in DOMAIN v |-> Node(b, <<>>, [p \in {PointName} |-> v[i]], <<>>)]
  <2>1. marshalMultiSliceToNodes(a, v) = x /\ marshalMultiSliceToNodes(b, v) = y
    BY DEF marshalMultiSliceToNodes
  <2>2. x = <<>> => DOMAIN v = {}
    <3>1. DOMAIN x = DOMAIN v
      OBVIOUS
    <3> HIDE DEF x
    <3> QED
      BY <3>1
  <2>3. DOMAIN v = {} => y = <<>>
    OBVIOUS
  <2> HIDE DEF x, y
  <2> QED
    BY <2>1, <2>2, <2>3
<1> QED
  BY <1>1, <1>2, <1>3 DEF tryMarshalValueAsChild, Fitting, Kinds

----------------------------------------------------------------------------
(* The node of a struct.                                                   *)

Plains(type) == {i \in DOMAIN type : type[i].attrs \cap Captures = {}}
Block(type, cs, value, i) == tryMarshalValueAsChild(type[i], fieldTagOrName(type[i], cs), value[i])

\* The name of a field is its own, as it is marshaled and as it is looked up.
LEMMA OwnName ==
  ASSUME NEW type, IsType(type), NEW cs, NEW i \in DOMAIN type,
         \A j \in DOMAIN type : fieldTagOrName(type[i], cs) = fieldTagOrName(type[j], cs) => i = j
  PROVE  LET name == fieldTagOrName(type[i], cs)
         IN  /\ normalizeKey(name, cs) = name
             /\ StructFields(type, cs, name) = {i}
             /\ StructFields(type, cs, normalizeKey(name, cs)) = {i}
             /\ Max({i}) = i
<1> DEFINE name == fieldTagOrName(type[i], cs)
<1>1. normalizeKey(name, cs) = name
  <2>1. type[i].name \in DOMAIN Lower
    BY DEF IsType
  <2> DEFINE nm == type[i].name
  <2>2. Lower[Lower[nm]] = Lower[nm]
    BY <2>1, LowerAssumption
  <2> HIDE DEF nm
  <2>3. name = IF type[i].tagged THEN Lower[nm] ELSE IF cs THEN nm ELSE Lower[nm]
    BY DEF fieldTagOrName, normalizeKey, nm
  <2> HIDE DEF name
  <2> QED
    BY <2>2, <2>3 DEF normalizeKey
<1>2. StructFields(type, cs, name) = {i}
  <2> DEFINE found == StructFields(type, cs, name)
             named == {j \in DOMAIN type : fieldTagOrName(type[j], cs) = name}
  <2>1. named = {i}
    OBVIOUS
  <2> HIDE DEF name
  <2>2. (\A j \in found : j \in named /\ found = {j}) /\ (found = {} <=> named = {})
    BY Named
  <2> HIDE DEF found, named
  <2>3. found = {i}
    BY <2>1, <2>2
  <2> QED
    BY <2>3 DEF found
<1>3. Max({i}) = i
  <2>1. i \in Nat
    BY DEF IsType, IsSequence
  <2>2. \E x \in {i} : \A y \in {i} : x >= y
    BY <2>1
  <2>3. Max({i}) \in {i}
    BY <2>2 DEF Max
  <2> QED
    BY <2>3
<1> QED
  BY <1>1, <1>2, <1>3

\* A type and a value that come back.
Given(type, cs, value) == IsType(type) /\ IsValue(type, value) /\ Separable(type, cs, value)

LEMMA GivenNames ==
  ASSUME NEW type, NEW cs, NEW value, Given(type, cs, value), NEW i \in DOMAIN type
  PROVE  LET name == fieldTagOrName(type[i], cs)
         IN  /\ normalizeKey(name, cs) = name
             /\ StructFields(type, cs, name) = {i}
             /\ StructFields(type, cs, normalizeKey(name, cs)) = {i}
             /\ Max(StructFields(type, cs, name)) = i
             /\ \A j \in DOMAIN type : name = fieldTagOrName(type[j], cs) => i = j
<1>1. \A j \in DOMAIN type : fieldTagOrName(type[i], cs) = fieldTagOrName(type[j], cs) => i = j
  BY DEF Given, Separable
<1>2. IsType(type)
  BY DEF Given
<1> DEFINE name == fieldTagOrName(type[i], cs)
           found == StructFields(type, cs, name)
<1>3. /\ normalizeKey(name, cs) = name
      /\ found = {i}
      /\ StructFields(type, cs, normalizeKey(name, cs)) = {i}
      /\ Max({i}) = i
  BY <1>1, <1>2, OwnName
<1> HIDE DEF found
<1>4. Max(found) = i
  BY <1>3
<1> QED
  BY <1>1, <1>3, <1>4 DEF found

LEMMA GivenFits ==
  ASSUME NEW type, NEW cs, NEW value, Given(type, cs, value), NEW i \in Plains(type)
  PROVE  Fitting(type[i], value[i])
<1> DEFINE f == type[i]
           v == value[i]
<1>1. i \in DOMAIN type /\ f.kind \in Kinds /\ Fits(f.kind, v)
  BY DEF Given, IsType, IsValue, Plains
<1>2. /\ f.kind = "points" => "multiple" \in f.attrs
      /\ "multiple" \in f.attrs => f.kind # "ints" /\ ~(f.kind = "int" /\ "child" \in f.attrs)
      /\ f.kind = "map" /\ "multiple" \notin f.attrs => NumbersFirst(v)
  BY DEF Given, Separable, Plains, NumbersFirst
<1> QED
  BY <1>1, <1>2 DEF Fitting

\* The fields that are not captured are each listed once.
LEMMA PlainIs ==
  ASSUME NEW type, NEW cs, NEW value, Given(type, cs, value)
  PROVE  LET fields == Plain(type, cs)
         IN  /\ Len(fields) \in Nat /\ DOMAIN fields = 1 .. Len(fields)
             /\ \A k \in 1 .. Len(fields) : fields[k] \in Plains(type)
             /\ \A j, k \in 1 .. Len(fields) : fields[j] = fields[k] => j = k
             /\ \A i \in Plains(type) : \E k \in 1 .. Len(fields) : fields[k] = i
<1> DEFINE n == Len(type)
           field == [i \in DOMAIN type |-> Max(StructFields(type, cs, fieldTagOrName(type[i], cs)))]
           numbers == [i \in 1 .. n |-> i]
           S == {i \in DOMAIN type : type[i].attrs \cap Captures = {} /\ type[i].name # "-"}
           r == Those(numbers, S)
<1>1. n \in Nat /\ DOMAIN type = 1 .. n /\ \A i \in DOMAIN type : type[i].name # "-"
  BY DEF Given, IsType, IsSequence, Separable
<1>2. field = numbers
  <2>1. \A i \in DOMAIN type : Max(StructFields(type, cs, fieldTagOrName(type[i], cs))) = i
    BY GivenNames
  <2> QED
    BY <1>1, <2>1
<1>3. S = Plains(type)
  BY <1>1 DEF Plains
<1>4. Plain(type, cs) = r
  <2>1. Plain(type, cs) = Those(field, S)
    BY DEF Plain
  <2> HIDE DEF field, S, numbers
  <2> QED
    BY <1>2, <2>1
<1> HIDE DEF field, S
<1>5. r \in Seq((1 .. n) \cap S) /\ \A j, k \in 1 .. Len(r) : j < k => r[j] < r[k]
  BY <1>1, ThoseNumbers
<1>6. ASSUME NEW i \in Plains(type) PROVE \E k \in 1 .. Len(r) : r[k] = i
  <2> DEFINE T == 1 .. n
  <2>1. numbers \in Seq(T) /\ Len(numbers) = n /\ i \in T /\ numbers[i] = i /\ i \in S
    BY <1>1, <1>3 DEF Plains
  <2> HIDE DEF numbers, T
  <2>2. i \in 1 .. Len(numbers)
    BY <1>1, <2>1 DEF T
  <2> QED
    BY <2>1, <2>2, ThoseKept
<1> HIDE DEF r
<1> DEFINE W == (1 .. n) \cap S
<1>7. r \in Seq(W) /\ W \subseteq Plains(type) /\ W \subseteq Nat
  BY <1>1, <1>3, <1>5
<1> HIDE DEF W
<1>8. Len(r) \in Nat /\ DOMAIN r = 1 .. Len(r) /\ \A k \in 1 .. Len(r) : r[k] \in Plains(type) /\ r[k] \in Nat
  <2>1. Len(r) \in Nat /\ DOMAIN r = 1 .. Len(r) /\ \A k \in 1 .. Len(r) : r[k] \in W
    BY <1>7
  <2> QED
    BY <1>7, <2>1
<1>9. \A j, k \in 1 .. Len(r) : r[j] = r[k] => j = k
  BY <1>5, <1>8
<1> QED
  BY <1>4, <1>6, <1>8, <1>9

\* How many nodes of each field are among the first so many children.
Taking(type, cs, value, children) ==
    {c \in [0 .. Len(children) -> [Plains(type) -> Nat]] :
        /\ \A i \in Plains(type) : c[0][i] = 0 /\ c[Len(children)][i] = Len(Block(type, cs, value, i))
        /\ \A n \in 1 .. Len(children) : \E i \in Plains(type) :
               /\ c[n - 1][i] < Len(Block(type, cs, value, i))
               /\ children[n] = Block(type, cs, value, i)[c[n - 1][i] + 1]
               /\ c[n][i] = c[n - 1][i] + 1
               /\ \A j \in Plains(type) : j # i => c[n][j] = c[n - 1][j]}

\* The children are the nodes of the fields that are not captured, and those of the one
\* that captures children; not both.
LEMMA ChildrenAre ==
  ASSUME NEW name, NEW type, NEW cs, NEW value, Given(type, cs, value)
  PROVE  LET children == marshalStructToNode(name, type, cs, value).children
             capturing == StructAttrs(type, "children")
         IN  /\ capturing = <<>> => Taking(type, cs, value, children) # {}
             /\ capturing # <<>> =>
                    /\ children = marshalMapToNodes(value[capturing[1]])
                    /\ \A i \in Plains(type) : Len(Block(type, cs, value, i)) = 0
<1> DEFINE capturing == StructAttrs(type, "children")
           fields == Plain(type, cs)
           nameOf(i) == fieldTagOrName(type[i], cs)
           q == [k \in DOMAIN fields |->
                        tryMarshalValueAsChild(type[fields[k]], nameOf(fields[k]), value[fields[k]])]
           captured(attr) == LET each == StructAttrs(type, attr) IN IF each = <<>> THEN <<>> ELSE <<value[each[1]]>>
           last == LET rest_ == captured("children")
                   IN  IF rest_ = <<>> THEN <<>> ELSE marshalMapToNodes(rest_[1])
           children == marshalStructToNode(name, type, cs, value).children
           r == FlattenSeq(q)
           N == Len(fields)
<1>1. children = r \o last
  <2> DEFINE each == StructAttrs(type, "arg")
             args == [i \in DOMAIN each |-> value[each[i]]] \o FlattenSeq(captured("args"))
  <2>1. PICK props : marshalStructToNode(name, type, cs, value) = Node(name, args, props, r \o last)
    BY DEF marshalStructToNode
  <2> DEFINE all == r \o last
  <2> HIDE DEF r, last, args, all
  <2>2. Node(name, args, props, all).children = all
    BY NodeFields
  <2>3. marshalStructToNode(name, type, cs, value) = Node(name, args, props, all)
    BY <2>1 DEF all
  <2> QED
    BY <2>2, <2>3 DEF all
<1>2. last = IF capturing = <<>> THEN <<>> ELSE marshalMapToNodes(value[capturing[1]])
  OBVIOUS
<1>3. /\ N \in Nat /\ DOMAIN fields = 1 .. N
      /\ \A k \in 1 .. N : fields[k] \in Plains(type)
      /\ \A j, k \in 1 .. N : fields[j] = fields[k] => j = k
      /\ \A i \in Plains(type) : \E k \in 1 .. N : fields[k] = i
  BY PlainIs
<1>4. q = [k \in 1 .. N |-> Block(type, cs, value, fields[k])]
  BY <1>3 DEF Block
<1> HIDE DEF q, N, children, last, fields
<1>5. Len(q) = N /\ DOMAIN q = 1 .. N /\ \A k \in 1 .. N : q[k] = Block(type, cs, value, fields[k])
  BY <1>3, <1>4
<1>6. \A k \in 1 .. N : AreNodes(q[k])
  <2>1. ASSUME NEW k \in 1 .. N PROVE AreNodes(q[k])
    <3> DEFINE i == fields[k]
               f == type[i]
               v == value[i]
               n == nameOf(i)
    <3>1. Fitting(f, v)
      BY <1>3, GivenFits
    <3>2. f.kind \in Kinds /\ (f.kind \in {"ints", "points"} => IsSequence(v))
      BY <3>1 DEF Fitting, Fits
    <3>3. q[k] = tryMarshalValueAsChild(f, n, v)
      BY <1>5 DEF Block
    <3> HIDE DEF f, v, n
    <3> QED
      BY <3>2, <3>3, FieldNodes
  <2> QED
    BY <2>1
<1> DEFINE S == UNION {ToSet(q[k]) : k \in 1 .. N}
<1>7. q \in Seq(Seq(S))
  <2>1. ASSUME NEW k \in 1 .. N PROVE q[k] \in Seq(S)
    <3>1. q[k] \in Seq(ToSet(q[k])) /\ ToSet(q[k]) \subseteq S
      BY <1>6 DEF AreNodes, IsSequence
    <3> HIDE DEF S
    <3> QED
      BY <3>1, Elements
  <2> HIDE DEF S
  <2> QED
    BY <1>3, <1>4, <2>1
<1> HIDE DEF S
<1>8. r \in Seq(S) /\ Len(r) \in Nat
  <2>1. r \in Seq(S)
    BY <1>7, FlattenTyped
  <2> HIDE DEF r
  <2> QED
    BY <2>1
<1>9. PICK c \in Shares(q, r, N) : TRUE
  BY <1>5, <1>7, FlattenShares
<1> HIDE DEF r
<1>10. /\ c \in [0 .. Len(r) -> [1 .. N -> Nat]]
       /\ \A b \in 1 .. N : c[0][b] = 0 /\ c[Len(r)][b] = Len(q[b])
       /\ \A n \in 1 .. Len(r) : \E b \in 1 .. N : Draw(c, q, r, n, b)
  <2>1. \A b \in 1 .. N : b <= N
    BY <1>3
  <2> QED
    BY <1>5, <1>9, <2>1 DEF Shares
<1>11. ASSUME capturing = <<>> PROVE Taking(type, cs, value, children) # {}
  <2>1. children = r
    <3>1. last = <<>>
      BY <1>2, <1>11
    <3> QED
      BY <1>1, <1>8, <3>1, ConcatEmptySeq
  <2> DEFINE at(i) == CHOOSE b \in 1 .. N : fields[b] = i
             d == [n \in 0 .. Len(r) |-> [i \in Plains(type) |-> c[n][at(i)]]]
  <2>2. \A i \in Plains(type) : at(i) \in 1 .. N /\ fields[at(i)] = i
    BY <1>3
  <2>3. \A b \in 1 .. N : at(fields[b]) = b
    BY <1>3, <2>2
  <2> HIDE DEF at
  <2>4. d \in [0 .. Len(r) -> [Plains(type) -> Nat]]
    <3>1. ASSUME NEW n \in 0 .. Len(r) PROVE [i \in Plains(type) |-> c[n][at(i)]] \in [Plains(type) -> Nat]
      <4>1. c[n] \in [1 .. N -> Nat]
        BY <1>10
      <4> QED
        BY <2>2, <4>1
    <3> QED
      BY <3>1
  <2>5. \A n \in 0 .. Len(r), i \in Plains(type) : d[n][i] = c[n][at(i)]
    OBVIOUS
  <2> HIDE DEF d
  <2>6. ASSUME NEW i \in Plains(type) PROVE d[0][i] = 0 /\ d[Len(r)][i] = Len(Block(type, cs, value, i))
    <3>1. 0 \in 0 .. Len(r) /\ Len(r) \in 0 .. Len(r)
      BY <1>8
    <3>2. d[0][i] = c[0][at(i)] /\ d[Len(r)][i] = c[Len(r)][at(i)]
      BY <2>5, <3>1
    <3>3. c[0][at(i)] = 0 /\ c[Len(r)][at(i)] = Len(q[at(i)])
      BY <1>10, <2>2
    <3>4. q[at(i)] = Block(type, cs, value, i)
      BY <1>5, <2>2
    <3> QED
      BY <3>2, <3>3, <3>4
  <2>7. ASSUME NEW n \in 1 .. Len(r)
        PROVE  \E i \in Plains(type) :
               /\ d[n - 1][i] < Len(Block(type, cs, value, i))
               /\ r[n] = Block(type, cs, value, i)[d[n - 1][i] + 1]
               /\ d[n][i] = d[n - 1][i] + 1
               /\ \A j \in Plains(type) : j # i => d[n][j] = d[n - 1][j]
    <3>1. PICK b \in 1 .. N : Draw(c, q, r, n, b)
      BY <1>10
    <3> DEFINE i == fields[b]
    <3>2. i \in Plains(type) /\ at(i) = b /\ q[b] = Block(type, cs, value, i)
      BY <1>3, <1>5, <2>3
    <3>3. n \in 0 .. Len(r) /\ n - 1 \in 0 .. Len(r)
      BY <1>8
    <3> HIDE DEF i
    <3>4. d[n - 1][i] = c[n - 1][b] /\ d[n][i] = c[n][b]
      BY <2>5, <3>2, <3>3
    <3>5. \A j \in Plains(type) : j # i => d[n][j] = d[n - 1][j]
      <4>1. ASSUME NEW j \in Plains(type), j # i PROVE d[n][j] = d[n - 1][j]
        <5>1. at(j) \in 1 .. N /\ at(j) # b
          BY <2>2, <4>1 DEF i
        <5>2. c[n][at(j)] = c[n - 1][at(j)]
          BY <1>5, <3>1, <5>1 DEF Draw
        <5> QED
          BY <2>5, <3>3, <5>2
      <4> QED
        BY <4>1
    <3>6. c[n - 1][b] < Len(q[b]) /\ r[n] = q[b][c[n - 1][b] + 1] /\ c[n][b] = c[n - 1][b] + 1
      BY <3>1 DEF Draw
    <3> QED
      BY <3>2, <3>4, <3>5, <3>6
  <2>8. d \in Taking(type, cs, value, r)
    BY <2>4, <2>6, <2>7 DEF Taking
  <2> QED
    BY <2>1, <2>8
<1>12. ASSUME capturing # <<>>
       PROVE  /\ children = marshalMapToNodes(value[capturing[1]])
              /\ \A i \in Plains(type) : Len(Block(type, cs, value, i)) = 0
  <2>1. \A i \in Plains(type) : Len(Block(type, cs, value, i)) = 0
    <3>1. ASSUME NEW i \in Plains(type) PROVE Block(type, cs, value, i) = <<>>
      <4>1. tryMarshalValueAsChild(type[i], "-", value[i]) = <<>>
        BY <1>12 DEF Given, Separable, Plains
      <4>2. Fitting(type[i], value[i])
        BY GivenFits
      <4> QED
        BY <4>1, <4>2, NoneByAnyName DEF Block
    <3> QED
      BY <3>1
  <2>2. Len(r) = 0
    <3>1. SUFFICES ASSUME Len(r) # 0 PROVE FALSE
      OBVIOUS
    <3>2. 1 \in 1 .. Len(r) /\ 1 - 1 = 0
      BY <1>8, <3>1
    <3>3. PICK b \in 1 .. N : Draw(c, q, r, 1, b)
      BY <1>10, <3>2
    <3>4. c[0][b] < Len(q[b])
      BY <3>2, <3>3 DEF Draw
    <3>5. c[0][b] = 0 /\ Len(q[b]) = 0
      BY <1>3, <1>5, <1>10, <2>1
    <3> QED
      BY <3>4, <3>5
  <2>3. r = <<>>
    BY <1>8, <2>2, EmptySeq
  <2>4. AreNodes(last)
    <3> DEFINE m == value[capturing[1]]
               keys == sortMapKeys(m)
    <3>1. last = [i \in DOMAIN keys |-> Child(keys[i], <<m[keys[i]]>>)]
      BY <1>2, <1>12 DEF marshalMapToNodes
    <3>2. Len(keys) \in Nat /\ DOMAIN keys = 1 .. Len(keys)
      BY SortedKeys
    <3> HIDE DEF keys, m
    <3>3. last = [i \in 1 .. Len(keys) |-> last[i]]
      BY <3>1, <3>2
    <3>4. IsSequence(last) /\ DOMAIN last = 1 .. Len(keys)
      BY <3>2, <3>3, Listed
    <3>5. \A i \in DOMAIN last : IsNode(last[i])
      <4>1. ASSUME NEW i \in DOMAIN last PROVE IsNode(last[i])
        <5>1. IsSequence(<<m[keys[i]]>>)
          BY DEF IsSequence, ToSet
        <5>2. last[i] = Child(keys[i], <<m[keys[i]]>>)
          BY <3>1, <3>2, <3>4
        <5> QED
          BY <5>1, <5>2, ChildIsNode
      <4> QED
        BY <4>1
    <3> QED
      BY <3>4, <3>5 DEF AreNodes
  <2>5. children = last
    <3>1. last \in Seq(ToSet(last))
      BY <2>4 DEF AreNodes, IsSequence
    <3> QED
      BY <1>1, <2>3, <3>1, ConcatEmptySeq
  <2> QED
    BY <1>2, <1>12, <2>1, <2>5
<1> QED
  BY <1>11, <1>12 DEF children

LEMMA FlattenOne ==
  ASSUME NEW S, NEW v \in Seq(S)
  PROVE  FlattenSeq(<<v>>) = v
<1> DEFINE q == <<v>>
<1>1. q \in Seq(Seq(S)) /\ Len(q) = 1 /\ q[1] = v
  OBVIOUS
<1> HIDE DEF q
<1>2. PICK f \in Flattenings(q, S) : TRUE
  BY <1>1, FlattenSteps
<1>3. f[0] = <<>> /\ FlattenSeq(q) = f[1] /\ f[1] = f[1 - 1] \o q[1] /\ 1 - 1 = 0
  BY <1>1, <1>2 DEF Flattenings
<1>4. <<>> \o v = v
  BY ConcatEmptySeq
<1> QED
  BY <1>1, <1>3, <1>4 DEF q

\* The arguments are those of each field for one, and the list of the field for the rest.
LEMMA ArgumentsAre ==
  ASSUME NEW name, NEW type, NEW cs, NEW value, Given(type, cs, value)
  PROVE  LET args == marshalStructToNode(name, type, cs, value).args
             each == StructAttrs(type, "arg")
             more == StructAttrs(type, "args")
             list == IF more = <<>> THEN <<>> ELSE value[more[1]]
         IN  /\ Len(args) = Len(each) + Len(list) /\ IsSequence(args) /\ IsSequence(list)
             /\ Null \notin Range(list)
             /\ \A k \in 1 .. Len(each) : args[k] = value[each[k]] /\ args[k] # Null
             /\ \A k \in 1 .. Len(list) : args[Len(each) + k] = list[k]
<1> DEFINE captured(attr) == LET fields == StructAttrs(type, attr) IN IF fields = <<>> THEN <<>> ELSE <<value[fields[1]]>>
           args == marshalStructToNode(name, type, cs, value).args
           each == StructAttrs(type, "arg")
           more == StructAttrs(type, "args")
           list == IF more = <<>> THEN <<>> ELSE value[more[1]]
           first == [i \in DOMAIN each |-> value[each[i]]]
<1>1. IsType(type) /\ IsValue(type, value)
  BY DEF Given
<1>2. args = first \o FlattenSeq(captured("args"))
  <2> DEFINE all == first \o FlattenSeq(captured("args"))
  <2>1. \E props, children : marshalStructToNode(name, type, cs, value) = Node(name, all, props, children)
    BY DEF marshalStructToNode
  <2> HIDE DEF all
  <2>2. PICK props, children : marshalStructToNode(name, type, cs, value) = Node(name, all, props, children)
    BY <2>1
  <2>3. Node(name, all, props, children).args = all
    BY NodeFields
  <2> QED
    BY <2>2, <2>3 DEF all
<1>3. IsSequence(list) /\ Null \notin Range(list) /\ FlattenSeq(captured("args")) = list
  <2>1. CASE more = <<>>
    <3>1. list = <<>> /\ captured("args") = <<>>
      BY <2>1
    <3>2. FlattenSeq(<<>>) = <<>> /\ IsSequence(<<>>) /\ Range(<<>>) = {}
      BY DEF FlattenSeq, IsSequence, ToSet, Range
    <3> HIDE DEF list, captured
    <3> QED
      BY <3>1, <3>2
  <2>2. CASE more # <<>>
    <3> DEFINE v == value[more[1]]
    <3>1. more[1] \in DOMAIN type /\ "args" \in type[more[1]].attrs
      BY <1>1, <2>2, Attributed
    <3>2. IsSequence(v) /\ Null \notin Range(v)
      <4>1. type[more[1]].kind = "ints"
        BY <1>1, <3>1 DEF IsType
      <4>2. Fits("ints", v)
        BY <1>1, <3>1, <4>1 DEF IsValue
      <4> HIDE DEF v
      <4> QED
        BY <4>2 DEF Fits
    <3>3. list = v /\ captured("args") = <<v>>
      BY <2>2
    <3> HIDE DEF v, list, captured
    <3>4. FlattenSeq(<<v>>) = v
      <4> DEFINE S == ToSet(v)
      <4>1. v \in Seq(S)
        BY <3>2 DEF IsSequence
      <4> HIDE DEF S
      <4> QED
        BY <4>1, FlattenOne
    <3> QED
      BY <3>2, <3>3, <3>4
  <2> QED
    BY <2>1, <2>2
<1>4. /\ Len(each) \in Nat /\ DOMAIN each = 1 .. Len(each)
      /\ \A k \in 1 .. Len(each) : each[k] \in DOMAIN type /\ "arg" \in type[each[k]].attrs
  <2>1. /\ each \in Seq(DOMAIN type) /\ Len(each) \in Nat /\ DOMAIN each = 1 .. Len(each)
        /\ \A k \in 1 .. Len(each) : "arg" \in type[each[k]].attrs
    BY <1>1, Attributed
  <2> HIDE DEF each
  <2>2. \A k \in 1 .. Len(each) : each[k] \in DOMAIN type
    BY <2>1
  <2> QED
    BY <2>1, <2>2
<1>5. \A k \in 1 .. Len(each) : value[each[k]] # Null
  <2>1. ASSUME NEW k \in 1 .. Len(each) PROVE value[each[k]] # Null
    <3> DEFINE i == each[k]
    <3>1. i \in DOMAIN type /\ type[i].kind = "int"
      BY <1>1, <1>4 DEF IsType
    <3> HIDE DEF i
    <3>2. Fits("int", value[i])
      BY <1>1, <3>1 DEF IsValue
    <3>3. value[i] # Null
      BY <3>2 DEF Fits
    <3> QED
      BY <3>3 DEF i
  <2> QED
    BY <2>1
<1> HIDE DEF each, list, captured, args
<1>6. IsSequence(first) /\ Len(first) = Len(each) /\ DOMAIN first = 1 .. Len(each)
  <2>1. first = [i \in 1 .. Len(each) |-> first[i]]
    BY <1>4
  <2> HIDE DEF first
  <2> QED
    BY <1>4, <2>1, Listed
<1>7. \A k \in 1 .. Len(each) : first[k] = value[each[k]]
  BY <1>4
<1> HIDE DEF first
<1>8. args = first \o list
  BY <1>2, <1>3
<1> DEFINE S == ToSet(first) \cup ToSet(list)
<1>9. first \in Seq(S) /\ list \in Seq(S)
  <2>1. first \in Seq(ToSet(first)) /\ ToSet(first) \subseteq S /\ list \in Seq(ToSet(list)) /\ ToSet(list) \subseteq S
    BY <1>3, <1>6 DEF IsSequence
  <2> HIDE DEF S
  <2> QED
    BY <2>1, Elements
<1> HIDE DEF S
<1>10. /\ args \in Seq(S) /\ Len(args) = Len(each) + Len(list) /\ Len(list) \in Nat
       /\ \A k \in 1 .. Len(each) + Len(list) : args[k] = IF k <= Len(each) THEN first[k] ELSE list[k - Len(each)]
  <2>1. Len(list) \in Nat
    BY <1>9
  <2> HIDE DEF args
  <2>2. /\ first \o list \in Seq(S) /\ Len(first \o list) = Len(first) + Len(list)
        /\ \A k \in 1 .. Len(first) + Len(list) :
              (first \o list)[k] = IF k <= Len(first) THEN first[k] ELSE list[k - Len(first)]
    BY <1>9, ConcatProperties
  <2> QED
    BY <1>6, <1>8, <2>1, <2>2
<1>11. \A k \in 1 .. Len(each) : args[k] = value[each[k]] /\ args[k] # Null
  BY <1>4, <1>5, <1>7, <1>10
<1>12. \A k \in 1 .. Len(list) : args[Len(each) + k] = list[k]
  <2>1. ASSUME NEW k \in 1 .. Len(list) PROVE args[Len(each) + k] = list[k]
    <3>1. Len(each) + k \in 1 .. Len(each) + Len(list) /\ ~(Len(each) + k <= Len(each)) /\ (Len(each) + k) - Len(each) = k
      BY <1>4, <1>10
    <3> QED
      BY <1>10, <3>1
  <2> QED
    BY <2>1
<1>13. IsSequence(args)
  BY <1>10, OwnElements DEF IsSequence
<1> QED
  BY <1>3, <1>10, <1>11, <1>12, <1>13 DEF args, each, list

\* The properties are those of the fields for one, or the map of the field for all; not
\* both.
LEMMA PropertiesAre ==
  ASSUME NEW name, NEW type, NEW cs, NEW value, Given(type, cs, value)
  PROVE  LET props == marshalStructToNode(name, type, cs, value).props
             collecting == StructAttrs(type, "props")
             P == {i \in Plains(type) : IsProperty(type[i], value[i])}
             m == value[collecting[1]]
         IN  /\ collecting = <<>> =>
                    /\ DOMAIN props = {fieldTagOrName(type[i], cs) : i \in P}
                    /\ \A i \in P : props[fieldTagOrName(type[i], cs)] = value[i]
             /\ collecting # <<>> =>
                    /\ P = {} /\ DOMAIN props = DOMAIN m
                    /\ \A k \in DOMAIN m : props[k] = m[k] /\ StructFields(type, cs, normalizeKey(k, cs)) = {}
<1> DEFINE fields == Plain(type, cs)
           nameOf(i) == fieldTagOrName(type[i], cs)
           properties == {i \in Range(fields) : IsProperty(type[i], value[i])}
           named == [n \in {nameOf(i) : i \in properties} |-> value[Max(StructFields(type, cs, n))]]
           captured(attr) == LET each == StructAttrs(type, attr) IN IF each = <<>> THEN <<>> ELSE <<value[each[1]]>>
           all == LET rest_ == captured("props")
                  IN  IF rest_ = <<>> THEN named
                      ELSE [k \in DOMAIN named \cup DOMAIN rest_[1] |->
                               IF k \in DOMAIN named THEN named[k] ELSE rest_[1][k]]
           props == marshalStructToNode(name, type, cs, value).props
           collecting == StructAttrs(type, "props")
           P == {i \in Plains(type) : IsProperty(type[i], value[i])}
           m == value[collecting[1]]
<1>1. props = all
  <2>1. \E args, children : marshalStructToNode(name, type, cs, value) = Node(name, args, all, children)
    BY DEF marshalStructToNode
  <2> HIDE DEF all
  <2>2. PICK args, children : marshalStructToNode(name, type, cs, value) = Node(name, args, all, children)
    BY <2>1
  <2>3. Node(name, args, all, children).props = all
    BY NodeFields
  <2> QED
    BY <2>2, <2>3
<1>2. properties = P
  <2>1. /\ DOMAIN fields = 1 .. Len(fields)
        /\ \A k \in 1 .. Len(fields) : fields[k] \in Plains(type)
        /\ \A i \in Plains(type) : \E k \in 1 .. Len(fields) : fields[k] = i
    BY PlainIs
  <2> HIDE DEF fields
  <2>2. Range(fields) = Plains(type)
    BY <2>1 DEF Range
  <2> QED
    BY <2>2
<1>3. all = IF collecting = <<>> THEN named
            ELSE [k \in DOMAIN named \cup DOMAIN m |-> IF k \in DOMAIN named THEN named[k] ELSE m[k]]
  <2>1. CASE collecting = <<>>
    <3>1. captured("props") = <<>>
      BY <2>1
    <3> HIDE DEF captured, named
    <3> QED
      BY <2>1, <3>1
  <2>2. CASE collecting # <<>>
    <3>1. captured("props") = <<m>>
      BY <2>2
    <3>2. <<m>> # <<>> /\ <<m>>[1] = m
      OBVIOUS
    <3> HIDE DEF captured, named, m, collecting
    <3> QED
      BY <2>2, <3>1, <3>2
  <2> QED
    BY <2>1, <2>2
<1>4. DOMAIN named = {nameOf(i) : i \in P}
  BY <1>2
<1>5. ASSUME NEW i \in P PROVE named[nameOf(i)] = value[i]
  <2>1. i \in DOMAIN type /\ Max(StructFields(type, cs, nameOf(i))) = i
    BY GivenNames DEF Plains
  <2>2. nameOf(i) \in {nameOf(j) : j \in properties}
    BY <1>2
  <2> HIDE DEF nameOf, properties
  <2>3. named[nameOf(i)] = value[Max(StructFields(type, cs, nameOf(i)))]
    BY <2>2
  <2> QED
    BY <2>1, <2>3
<1>6. ASSUME collecting # <<>>
      PROVE  P = {} /\ \A k \in DOMAIN m : StructFields(type, cs, normalizeKey(k, cs)) = {}
  <2>1. collecting[1] \in Range(collecting)
    <3>1. DOMAIN collecting = 1 .. Len(collecting) /\ 1 \in 1 .. Len(collecting)
      BY <1>6, Attributed DEF Given
    <3> HIDE DEF collecting
    <3> QED
      BY <3>1 DEF Range
  <2>2. \A i \in Range(collecting) :
               /\ \A j \in Plains(type) : ~IsProperty(type[j], value[j])
               /\ \A k \in DOMAIN value[i] : StructFields(type, cs, normalizeKey(k, cs)) = {}
    BY DEF Given, Separable, Plains
  <2> QED
    BY <2>1, <2>2
<1> HIDE DEF named, all, props
<1>7. CASE collecting = <<>>
  <2>1. props = named
    BY <1>1, <1>3, <1>7
  <2> QED
    BY <1>4, <1>5, <1>7, <2>1 DEF props
<1>8. CASE collecting # <<>>
  <2>1. props = [k \in DOMAIN named \cup DOMAIN m |-> IF k \in DOMAIN named THEN named[k] ELSE m[k]]
    BY <1>1, <1>3, <1>8
  <2>2. DOMAIN named = {}
    BY <1>4, <1>6, <1>8
  <2> HIDE DEF m
  <2>3. DOMAIN props = DOMAIN m /\ \A k \in DOMAIN m : props[k] = m[k]
    BY <2>1, <2>2
  <2> QED
    BY <1>6, <1>8, <2>3 DEF props, m
<1> QED
  BY <1>7, <1>8

----------------------------------------------------------------------------
(* A struct comes back.                                                    *)

Sensitive == case.opts.caseSensitive
NameOf(i) == fieldTagOrName(case.type[i], Sensitive)

\* A call for a node that a value was marshaled to, which comes back.
Comes ==
    /\ Given(case.type, Sensitive, case.value)
    /\ case.node = marshalStructToNode("n", case.type, Sensitive, case.value)
    /\ case.opts.children => Capturing("children") # <<>> \/ case.node.children = <<>>

\* How many nodes of a field have been unmarshaled.
Takings == Taking(case.type, Sensitive, case.value, case.node.children)
Taken(i) == IF Capturing("children") # <<>> THEN 0 ELSE (CHOOSE c \in Takings : TRUE)[Done][i]

\* What each sort of field holds on the way.
ArgumentsBack ==
    \A i \in DOMAIN dest :
        case.type[i].attrs \cap {"arg", "args"} # {} =>
            dest[i] = IF pc = "arguments" THEN Zero(case.type[i].kind) ELSE case.value[i]
CollectedBack ==
    \A i \in DOMAIN dest :
        "props" \in case.type[i].attrs =>
            dest[i] = IF pc \in {"arguments", "properties"} THEN Empty ELSE case.value[i]
CapturedBack ==
    \A i \in DOMAIN dest :
        "children" \in case.type[i].attrs => dest[i] = Restored(case.value[i], Done)
PropertiesBack ==
    \A i \in Plains(case.type) :
        IsProperty(case.type[i], case.value[i]) =>
            dest[i] = IF NameOf(i) \in visited THEN case.value[i] ELSE "0"
NodesBack ==
    \A i \in Plains(case.type) :
        ~IsProperty(case.type[i], case.value[i]) =>
            dest[i] = Part(case.type[i], case.value[i], Taken(i))

Coming ==
    /\ outcome = "ok" /\ dest = [i \in DOMAIN case.type |-> dest[i]]
    /\ pc \in {"children", "done"} => visited = DOMAIN case.node.props
    /\ pc = "done" => rest = <<>>
    /\ ArgumentsBack /\ CollectedBack /\ CapturedBack /\ PropertiesBack /\ NodesBack

Back == Comes => Coming

\* Each field is of one sort.
LEMMA Sorts ==
  ASSUME Typed, NEW i \in DOMAIN dest
  PROVE  LET attrs == case.type[i].attrs
         IN  /\ i \in DOMAIN case.type
             /\ i \in Plains(case.type) \/ attrs \cap {"arg", "args"} # {} \/ "props" \in attrs \/ "children" \in attrs
             /\ i \in Plains(case.type) => "arg" \notin attrs /\ "args" \notin attrs
                                           /\ "props" \notin attrs /\ "children" \notin attrs
             /\ "arg" \in attrs => "args" \notin attrs /\ "props" \notin attrs /\ "children" \notin attrs
             /\ "args" \in attrs => "props" \notin attrs /\ "children" \notin attrs
             /\ "props" \in attrs => "children" \notin attrs
BY CapturesOnce DEF Typed, Plains, Captures

\* Every field that captures in a way is listed with those that do.
LEMMA CapturingAll ==
  ASSUME Typed, NEW attr, NEW i \in DOMAIN dest, attr \in case.type[i].attrs
  PROVE  \E k \in 1 .. Len(Capturing(attr)) : Capturing(attr)[k] = i
<1> DEFINE type == case.type
           n == Len(type)
           S == {j \in DOMAIN type : attr \in type[j].attrs}
           numbers == [j \in 1 .. n |-> j]
           T == 1 .. n
<1>1. n \in Nat /\ DOMAIN type = 1 .. n /\ i \in 1 .. n
  BY DEF Typed, IsType, IsSequence
<1>2. Capturing(attr) = Those(numbers, S)
  BY <1>1 DEF Capturing, StructAttrs
<1>3. numbers \in Seq(T) /\ Len(numbers) = n /\ numbers[i] = i /\ i \in S
  BY <1>1
<1> HIDE DEF numbers, S, T
<1>4. i \in 1 .. Len(numbers)
  BY <1>1, <1>3
<1> QED
  BY <1>2, <1>3, <1>4, ThoseKept

\* Where one field captures in a way, it is the one.
LEMMA CapturingOne ==
  ASSUME Typed, Comes, NEW attr \in {"args", "props", "children"}
  PROVE  LET r == Capturing(attr)
         IN  /\ Len(r) <= 1
             /\ \A i \in DOMAIN dest : attr \in case.type[i].attrs => r # <<>> /\ r[1] = i
             /\ r # <<>> => Head(r) = r[1] /\ r[1] \in DOMAIN dest /\ attr \in case.type[r[1]].attrs
<1>1. Len(Capturing(attr)) <= 1
  BY DEF Comes, Given, Separable, Capturing
<1>2. ASSUME NEW i \in DOMAIN dest, attr \in case.type[i].attrs
      PROVE  Capturing(attr) # <<>> /\ Capturing(attr)[1] = i
  <2>1. PICK k \in 1 .. Len(Capturing(attr)) : Capturing(attr)[k] = i
    BY <1>2, CapturingAll
  <2>2. Len(Capturing(attr)) \in Nat /\ (Capturing(attr) = <<>> <=> Len(Capturing(attr)) = 0)
    BY CapturingIs
  <2>3. k = 1 /\ Len(Capturing(attr)) # 0
    BY <1>1, <2>2
  <2> QED
    BY <2>1, <2>2, <2>3
<1>3. Capturing(attr) # <<>> => /\ Head(Capturing(attr)) = Capturing(attr)[1]
                                /\ Capturing(attr)[1] \in DOMAIN dest
                                /\ attr \in case.type[Capturing(attr)[1]].attrs
  BY CapturingIs
<1> QED
  BY <1>1, <1>2, <1>3

\* What a field that captures a map holds fits.
LEMMA CapturedMap ==
  ASSUME Typed, Comes, NEW i \in DOMAIN dest, "props" \in case.type[i].attrs \/ "children" \in case.type[i].attrs
  PROVE  LET m == case.value[i]
         IN  /\ m \in [DOMAIN m -> Range(m) \ {Null}] /\ DOMAIN m \subseteq Range(Names)
             /\ \A k \in DOMAIN m : m[k] # Null
<1> DEFINE m == case.value[i]
<1>1. case.type[i].kind = "map" /\ i \in DOMAIN case.type
  BY CapturesOnce DEF Typed
<1>2. Fits("map", m)
  BY <1>1 DEF Comes, Given, IsValue
<1> HIDE DEF m
<1>3. m \in [DOMAIN m -> Range(m) \ {Null}] /\ DOMAIN m \subseteq Range(Names)
  BY <1>2 DEF Fits
<1>4. \A k \in DOMAIN m : m[k] # Null
  BY <1>3
<1> QED
  BY <1>3, <1>4 DEF m

LEMMA TakenIs ==
  ASSUME Typed, Comes, Capturing("children") = <<>>
  PROVE  \E c \in Takings : \A i : Taken(i) = c[Done][i]
<1>1. Takings # {}
  BY ChildrenAre DEF Comes, Takings, Capturing
<1>2. (CHOOSE c \in Takings : TRUE) \in Takings
  BY <1>1
<1> QED
  BY <1>2 DEF Taken

\* Before the first child nothing has been taken, and after the last everything.
LEMMA TakenEnds ==
  ASSUME Typed, Comes, NEW i \in Plains(case.type)
  PROVE  /\ Done = 0 => Taken(i) = 0
         /\ rest = <<>> => Taken(i) = Len(Block(case.type, Sensitive, case.value, i))
<1>1. CASE Capturing("children") # <<>>
  <2>1. Len(Block(case.type, Sensitive, case.value, i)) = 0
    BY <1>1, ChildrenAre DEF Comes, Capturing
  <2> QED
    BY <1>1, <2>1 DEF Taken
<1>2. CASE Capturing("children") = <<>>
  <2>1. PICK c \in Takings : \A j : Taken(j) = c[Done][j]
    BY <1>2, TakenIs
  <2>2. c[0][i] = 0 /\ c[Len(case.node.children)][i] = Len(Block(case.type, Sensitive, case.value, i))
    BY DEF Takings, Taking
  <2>3. rest = <<>> => Done = Len(case.node.children)
    BY DEF Typed, Done, AreNodes, IsSequence
  <2> QED
    BY <2>1, <2>2, <2>3
<1> QED
  BY <1>1, <1>2

\* A call stays what it is.
LEMMA ComesStays ==
  ASSUME UNCHANGED case
  PROVE  Comes' <=> Comes
BY DEF Comes, Sensitive, Capturing

\* Where nothing is taken, as much has been.
LEMMA TakenStays ==
  ASSUME UNCHANGED <<case, rest>>
  PROVE  Done' = Done /\ \A i : Taken(i)' = Taken(i)
BY DEF Taken, Takings, Done, Sensitive, Capturing

LEMMA BackInit ==
  ASSUME Init, Typed, Comes PROVE Coming
<1>1. /\ pc = "arguments" /\ visited = {} /\ outcome = "ok"
      /\ dest = [i \in DOMAIN case.type |-> Zero(case.type[i].kind)]
  BY DEF Init
<1>2. Done = 0
  BY <1>1 DEF Typed
<1>3. \A i \in DOMAIN dest : i \in DOMAIN case.type /\ dest[i] = Zero(case.type[i].kind)
  BY <1>1
<1>4. ArgumentsBack
  BY <1>1, <1>3 DEF ArgumentsBack
<1>5. ASSUME NEW i \in DOMAIN dest, case.type[i].kind = "map" PROVE dest[i] = Empty
  BY <1>3, <1>5 DEF Zero
<1>6. CollectedBack
  BY <1>1, <1>5, CapturesOnce DEF CollectedBack
<1>7. CapturedBack
  BY <1>2, <1>5, CapturesOnce, RestoredNone DEF CapturedBack
<1>8. PropertiesBack
  <2>1. ASSUME NEW i \in Plains(case.type), IsProperty(case.type[i], case.value[i])
        PROVE  dest[i] = "0"
    <3>1. i \in DOMAIN dest /\ case.type[i].kind = "int"
      BY <2>1 DEF Plains, IsProperty, Typed
    <3> QED
      BY <1>3, <3>1 DEF Zero
  <2> QED
    BY <1>1, <2>1 DEF PropertiesBack
<1>9. NodesBack
  <2>1. ASSUME NEW i \in Plains(case.type), ~IsProperty(case.type[i], case.value[i])
        PROVE  dest[i] = Part(case.type[i], case.value[i], Taken(i))
    <3> DEFINE f == case.type[i]
               v == case.value[i]
               n == NameOf(i)
    <3>1. i \in DOMAIN dest /\ Taken(i) = 0
      BY <1>2, TakenEnds DEF Plains, Typed
    <3>2. Fitting(f, v)
      BY GivenFits DEF Comes
    <3>3. ~IsProperty(f, v)
      BY <2>1
    <3> HIDE DEF f, v, n
    <3>4. Part(f, v, 0) = Zero(f.kind)
      BY <3>2, <3>3, FieldRebuilds DEF Rebuilds
    <3> QED
      BY <1>3, <3>1, <3>4 DEF f, v
  <2> QED
    BY <2>1 DEF NodesBack
<1>10. dest = [i \in DOMAIN case.type |-> dest[i]]
  BY <1>1
<1> QED
  BY <1>1, <1>4, <1>6, <1>7, <1>8, <1>9, <1>10 DEF Coming

\* The arguments of the node, where they go.
LEMMA ArgumentsCome ==
  ASSUME Typed, Comes
  PROVE  LET args == case.node.args
             each == Capturing("arg")
             more == Capturing("args")
             list == IF more = <<>> THEN <<>> ELSE case.value[more[1]]
         IN  /\ Len(args) = Len(each) + Len(list) /\ Len(args) \in Nat /\ Len(list) \in Nat /\ Len(each) \in Nat
             /\ list = [k \in 1 .. Len(list) |-> list[k]]
             /\ \A k \in 1 .. Len(each) : args[k] = case.value[each[k]] /\ ToInt(args[k]) = args[k]
             /\ \A k \in 1 .. Len(list) : ToInt(args[Len(each) + k]) = list[k]
             /\ Len(more) <= 1 /\ (args = <<>> => Len(args) = 0)
<1> DEFINE args == case.node.args
           each == Capturing("arg")
           more == Capturing("args")
           list == IF more = <<>> THEN <<>> ELSE case.value[more[1]]
<1>1. /\ Len(args) = Len(each) + Len(list) /\ IsSequence(args) /\ IsSequence(list)
      /\ Null \notin Range(list)
      /\ \A k \in 1 .. Len(each) : args[k] = case.value[each[k]] /\ args[k] # Null
      /\ \A k \in 1 .. Len(list) : args[Len(each) + k] = list[k]
  <2> DEFINE type == case.type
             cs == Sensitive
             value == case.value
             node == marshalStructToNode("n", type, cs, value)
             A == StructAttrs(type, "arg")
             B == StructAttrs(type, "args")
             L == IF B = <<>> THEN <<>> ELSE value[B[1]]
  <2>1. Given(type, cs, value) /\ case.node = node
    BY DEF Comes
  <2>2. each = A /\ more = B /\ list = L /\ args = node.args
    BY <2>1 DEF Capturing
  <2> HIDE DEF cs, type, value
  <2>3. /\ Len(node.args) = Len(A) + Len(L) /\ IsSequence(node.args) /\ IsSequence(L)
        /\ Null \notin Range(L)
        /\ \A k \in 1 .. Len(A) : node.args[k] = value[A[k]] /\ node.args[k] # Null
        /\ \A k \in 1 .. Len(L) : node.args[Len(A) + k] = L[k]
    BY <2>1, ArgumentsAre
  <2>4. value = case.value
    BY DEF value
  <2> HIDE DEF node, A, B, L, args, each, more, list
  <2> QED
    BY <2>2, <2>3, <2>4
<1>2. Len(more) <= 1 /\ Len(each) \in Nat
  BY CapturingOne, CapturingIs
<1> HIDE DEF args, each, list, more
<1>3. /\ Len(args) \in Nat /\ Len(list) \in Nat /\ (args = <<>> => Len(args) = 0)
      /\ list = [k \in 1 .. Len(list) |-> list[k]] /\ \A k \in 1 .. Len(list) : list[k] # Null
  BY <1>1 DEF IsSequence, Range
<1>4. \A x : x # Null => ToInt(x) = x
  BY DEF ToInt
<1> QED
  BY <1>1, <1>2, <1>3, <1>4 DEF args, each, list, more

LEMMA BackAssignArguments ==
  ASSUME Typed, Comes, Coming, AssignArguments PROVE Coming'
<1> DEFINE args == case.node.args
           each == Capturing("arg")
           more == Capturing("args")
           list == IF more = <<>> THEN <<>> ELSE case.value[more[1]]
           n == Len(args) - Len(each)
           tail == [k \in 1 .. n |-> ToInt(args[Len(each) + k])]
           one(i) == ToInt(args[CHOOSE k \in DOMAIN each : each[k] = i])
<1>1. UNCHANGED <<case, visited, rest, outcome>> /\ pc = "arguments" /\ pc' = "properties"
  BY DEF AssignArguments, Goes
<1>2. dest' = IF args = <<>> THEN dest
              ELSE [i \in DOMAIN dest |->
                       CASE Contains(each, i) -> one(i)
                         [] Contains(more, i) -> tail
                         [] OTHER -> dest[i]]
  BY DEF AssignArguments
<1>3. /\ Len(args) = Len(each) + Len(list) /\ Len(args) \in Nat /\ Len(list) \in Nat /\ Len(each) \in Nat
      /\ list = [k \in 1 .. Len(list) |-> list[k]]
      /\ \A k \in 1 .. Len(each) : args[k] = case.value[each[k]] /\ ToInt(args[k]) = args[k]
      /\ \A k \in 1 .. Len(list) : ToInt(args[Len(each) + k]) = list[k]
      /\ Len(more) <= 1 /\ (args = <<>> => Len(args) = 0)
  BY ArgumentsCome
<1>4. /\ DOMAIN each = 1 .. Len(each)
      /\ \A i : Contains(each, i) => i \in DOMAIN dest /\ "arg" \in case.type[i].attrs
      /\ \A j, k \in 1 .. Len(each) : each[j] = each[k] => j = k
  BY CapturingIs DEF Contains
<1>5. \A i : Contains(more, i) => i \in DOMAIN dest /\ "args" \in case.type[i].attrs
  BY CapturingIs DEF Contains
<1>6. tail = list
  <2> HIDE DEF list, each, args
  <2>1. n = Len(list)
    BY <1>3
  <2> HIDE DEF n
  <2>2. tail = [k \in 1 .. Len(list) |-> list[k]]
    BY <1>3, <2>1
  <2> HIDE DEF tail
  <2> QED
    BY <1>3, <2>2
<1> HIDE DEF tail, one, n
<1>7. ASSUME NEW i \in DOMAIN dest, "arg" \in case.type[i].attrs PROVE dest'[i] = case.value[i]
  <2>1. PICK k \in 1 .. Len(each) : each[k] = i
    BY <1>7, CapturingAll
  <2>2. Contains(each, i) /\ ~Contains(more, i)
    BY <1>5, <1>7, <2>1, Sorts DEF Contains
  <2>3. args # <<>>
    <3> HIDE DEF args, each, list
    <3> QED
      BY <1>3, <2>1
  <2>4. dest'[i] = one(i)
    <3> HIDE DEF args, each, more, list
    <3> QED
      BY <1>2, <2>2, <2>3
  <2>5. (CHOOSE j \in DOMAIN each : each[j] = i) = k
    <3> HIDE DEF each
    <3> QED
      BY <1>4, <2>1
  <2>6. one(i) = ToInt(args[k])
    BY <2>5 DEF one
  <2> HIDE DEF args, each, list
  <2> QED
    BY <1>3, <2>1, <2>4, <2>6
<1>8. ASSUME NEW i \in DOMAIN dest, "args" \in case.type[i].attrs PROVE dest'[i] = case.value[i]
  <2>1. more # <<>> /\ more[1] = i
    BY <1>8, CapturingOne
  <2>2. list = case.value[i]
    BY <2>1
  <2>3. CASE args = <<>>
    <3> HIDE DEF args, each, list
    <3>1. Len(list) = 0
      BY <1>3, <2>3
    <3>2. list = <<>>
      BY <1>3, <3>1
    <3>3. dest[i] = <<>>
      <4>1. case.type[i].kind = "ints"
        BY <1>8, CapturesOnce
      <4>2. dest[i] = Zero(case.type[i].kind)
        BY <1>1, <1>8 DEF Coming, ArgumentsBack
      <4> QED
        BY <4>1, <4>2 DEF Zero
    <3> QED
      BY <1>2, <2>2, <2>3, <3>2, <3>3
  <2>4. CASE args # <<>>
    <3>1. Contains(more, i)
      <4>1. 1 \in 1 .. Len(more)
        BY <2>1, CapturingIs
      <4> QED
        BY <2>1, <4>1 DEF Contains
    <3>2. ~Contains(each, i)
      BY <1>4, <1>8, Sorts
    <3> HIDE DEF args, each, more, list
    <3>3. dest'[i] = tail
      BY <1>2, <2>4, <3>1, <3>2
    <3> QED
      BY <1>6, <2>2, <3>3
  <2> QED
    BY <2>3, <2>4
<1>9. ASSUME NEW i \in DOMAIN dest, case.type[i].attrs \cap {"arg", "args"} = {} PROVE dest'[i] = dest[i]
  <2>1. ~Contains(each, i) /\ ~Contains(more, i)
    BY <1>4, <1>5, <1>9
  <2> HIDE DEF args, each, more, list
  <2> QED
    BY <1>2, <2>1
<1>10. DOMAIN dest' = DOMAIN dest /\ dest' = [i \in DOMAIN dest |-> dest'[i]] /\ DOMAIN dest = DOMAIN case.type
  <2> DEFINE new == [i \in DOMAIN dest |-> CASE Contains(each, i) -> one(i)
                                              [] Contains(more, i) -> tail
                                              [] OTHER -> dest[i]]
  <2>1. dest = [i \in DOMAIN dest |-> dest[i]] /\ DOMAIN dest = DOMAIN case.type
    BY DEF Coming, Typed
  <2>2. DOMAIN new = DOMAIN dest /\ new = [i \in DOMAIN dest |-> new[i]]
    OBVIOUS
  <2>3. dest' = IF args = <<>> THEN dest ELSE new
    BY <1>2
  <2> HIDE DEF args, new
  <2> QED
    BY <2>1, <2>2, <2>3
<1>11. ArgumentsBack'
  BY <1>1, <1>7, <1>8, <1>10 DEF ArgumentsBack
<1>12. CollectedBack'
  <2>1. \A i \in DOMAIN dest : "props" \in case.type[i].attrs => dest'[i] = Empty
    BY <1>1, <1>9, Sorts DEF Coming, CollectedBack
  <2> QED
    BY <1>1, <1>10, <2>1 DEF CollectedBack
<1>13. CapturedBack'
  <2>1. \A i \in DOMAIN dest : "children" \in case.type[i].attrs => dest'[i] = Restored(case.value[i], Done)
    BY <1>9, Sorts DEF Coming, CapturedBack
  <2> QED
    BY <1>1, <1>10, <2>1, TakenStays DEF CapturedBack
<1>14. \A i \in Plains(case.type) : dest'[i] = dest[i]
  <2>1. ASSUME NEW i \in Plains(case.type) PROVE dest'[i] = dest[i]
    <3>1. i \in DOMAIN dest
      BY DEF Plains, Typed
    <3> QED
      BY <1>9, <3>1, Sorts
  <2> QED
    BY <2>1
<1>15. PropertiesBack'
  BY <1>1, <1>14 DEF PropertiesBack, Coming, NameOf, Sensitive
<1>16. NodesBack'
  BY <1>1, <1>14, TakenStays DEF NodesBack, Coming
<1> QED
  BY <1>1, <1>10, <1>11, <1>12, <1>13, <1>15, <1>16 DEF Coming

\* The properties of the node, where they go.
LEMMA PropertyComes ==
  ASSUME Typed, Comes, NEW p \in DOMAIN case.node.props
  PROVE  \/ \E i \in Plains(case.type) :
                /\ IsProperty(case.type[i], case.value[i]) /\ p = NameOf(i) /\ Field(p) = {i}
                /\ case.type[i].kind = "int" /\ ToInt(case.node.props[p]) = case.value[i]
                /\ Capturing("props") = <<>>
         \/ Field(p) = {} /\ Capturing("props") # <<>>
            /\ \A i \in Plains(case.type) : ~IsProperty(case.type[i], case.value[i])
<1> DEFINE type == case.type
           props == case.node.props
           collecting == Capturing("props")
           P == {i \in Plains(type) : IsProperty(type[i], case.value[i])}
<1>1. /\ collecting = <<>> =>
             /\ DOMAIN props = {fieldTagOrName(type[i], Sensitive) : i \in P}
             /\ \A i \in P : props[fieldTagOrName(type[i], Sensitive)] = case.value[i]
      /\ collecting # <<>> =>
             /\ P = {} /\ DOMAIN props = DOMAIN case.value[collecting[1]]
             /\ \A k \in DOMAIN case.value[collecting[1]] :
                    StructFields(type, Sensitive, normalizeKey(k, Sensitive)) = {}
  BY PropertiesAre DEF Comes, Capturing
<1>2. \A q : Field(q) = StructFields(type, Sensitive, normalizeKey(q, Sensitive))
  BY DEF Field, Sensitive
<1> HIDE DEF props
<1>3. CASE collecting = <<>>
  <2>1. PICK i \in P : p = fieldTagOrName(type[i], Sensitive)
    BY <1>1, <1>3 DEF props
  <2>2. i \in DOMAIN type /\ type[i].kind = "int"
    BY DEF Plains, IsProperty
  <2>3. Field(p) = {i}
    <3>1. StructFields(type, Sensitive, normalizeKey(fieldTagOrName(type[i], Sensitive), Sensitive)) = {i}
      BY <2>2, GivenNames DEF Comes
    <3> QED
      BY <1>2, <2>1, <3>1
  <2>4. props[p] = case.value[i]
    BY <1>1, <1>3, <2>1
  <2>5. case.value[i] # Null
    <3>1. Fits("int", case.value[i])
      BY <2>2 DEF Comes, Given, IsValue
    <3> QED
      BY <3>1 DEF Fits
  <2>6. ToInt(props[p]) = case.value[i]
    BY <2>4, <2>5 DEF ToInt
  <2> QED
    BY <1>3, <2>1, <2>2, <2>3, <2>6 DEF NameOf, props
<1>4. CASE collecting # <<>>
  <2>1. P = {} /\ Field(p) = {}
    BY <1>1, <1>2, <1>4 DEF props
  <2> QED
    BY <1>4, <2>1
<1> QED
  BY <1>3, <1>4

LEMMA BackAssignProperty ==
  ASSUME Typed, Comes, Coming, NEW p \in DOMAIN case.node.props, AssignProperty(p) PROVE Coming'
<1>1. UNCHANGED <<case, rest>> /\ visited' = visited \cup {p} /\ pc = "properties" /\ p \notin visited
  BY DEF AssignProperty
<1>2. \/ Field(p) = {} /\ UNCHANGED <<pc, dest, outcome>>
      \/ \E i \in Field(p) : IF case.type[i].kind = "int"
                             THEN dest' = [dest EXCEPT ![i] = ToInt(case.node.props[p])] /\ UNCHANGED <<pc, outcome>>
                             ELSE pc' = "done" /\ outcome' = "error" /\ UNCHANGED dest
  BY DEF AssignProperty
<1>3. dest = [j \in DOMAIN case.type |-> dest[j]] /\ DOMAIN dest = DOMAIN case.type
  BY DEF Coming, Typed
<1> DEFINE Moved ==
      /\ UNCHANGED <<pc, outcome>> /\ DOMAIN dest' = DOMAIN dest /\ dest' = [j \in DOMAIN case.type |-> dest'[j]]
      /\ \A j \in DOMAIN dest : j \notin Plains(case.type) => dest'[j] = dest[j]
      /\ \A j \in Plains(case.type) :
             dest'[j] = IF IsProperty(case.type[j], case.value[j]) /\ NameOf(j) = p THEN case.value[j] ELSE dest[j]
<1>4. Moved
  <2>1. CASE Field(p) = {} /\ \A i \in Plains(case.type) : ~IsProperty(case.type[i], case.value[i])
    BY <1>2, <1>3, <2>1
  <2>2. ASSUME NEW i \in Plains(case.type), IsProperty(case.type[i], case.value[i]), p = NameOf(i), Field(p) = {i},
               case.type[i].kind = "int", ToInt(case.node.props[p]) = case.value[i]
        PROVE  Moved
    <3>1. dest' = [dest EXCEPT ![i] = case.value[i]] /\ UNCHANGED <<pc, outcome>>
      BY <1>2, <2>2
    <3>2. i \in DOMAIN dest
      BY DEF Plains, Typed
    <3>3. ASSUME NEW j \in Plains(case.type), NameOf(j) = p PROVE j = i
      <4>1. i \in DOMAIN case.type /\ j \in DOMAIN case.type
        BY DEF Plains
      <4>2. fieldTagOrName(case.type[i], Sensitive) = fieldTagOrName(case.type[j], Sensitive)
        BY <2>2, <3>3 DEF NameOf
      <4> QED
        BY <4>1, <4>2, GivenNames DEF Comes
    <3>4. DOMAIN dest' = DOMAIN dest /\ dest' = [j \in DOMAIN case.type |-> dest'[j]]
      BY <1>3, <3>1
    <3>5. \A j \in DOMAIN dest : dest'[j] = IF j = i THEN case.value[i] ELSE dest[j]
      BY <3>1
    <3>6. \A j \in Plains(case.type) : j \in DOMAIN dest
      BY DEF Plains, Typed
    <3> QED
      BY <2>2, <3>1, <3>3, <3>4, <3>5, <3>6
  <2> HIDE DEF Moved
  <2> QED
    BY <2>1, <2>2, PropertyComes
<1>5. \A j \in DOMAIN dest : case.type[j].attrs \cap {"arg", "args"} # {} \/ "props" \in case.type[j].attrs
                              \/ "children" \in case.type[j].attrs => dest'[j] = dest[j]
  BY <1>4, Sorts
<1>6. ArgumentsBack'
  BY <1>1, <1>4, <1>5 DEF ArgumentsBack, Coming
<1>7. CollectedBack'
  BY <1>1, <1>4, <1>5 DEF CollectedBack, Coming
<1>8. CapturedBack'
  BY <1>1, <1>4, <1>5, TakenStays DEF CapturedBack, Coming
<1>9. PropertiesBack'
  <2>1. ASSUME NEW j \in Plains(case.type), IsProperty(case.type[j], case.value[j])
        PROVE  dest'[j] = IF NameOf(j) \in visited \cup {p} THEN case.value[j] ELSE "0"
    BY <1>4, <2>1 DEF Coming, PropertiesBack
  <2>2. \A j : NameOf(j)' = NameOf(j)
    BY <1>1 DEF NameOf, Sensitive
  <2> QED
    BY <1>1, <2>1, <2>2 DEF PropertiesBack
<1>10. NodesBack'
  BY <1>1, <1>4, TakenStays DEF NodesBack, Coming
<1> QED
  BY <1>1, <1>3, <1>4, <1>6, <1>7, <1>8, <1>9, <1>10 DEF Coming

LEMMA BackCollectProperties ==
  ASSUME Typed, Comes, Coming, CollectProperties PROVE Coming'
<1> DEFINE new(i) == [k \in visited |-> ToInt(case.node.props[k])]
           collecting == Capturing("props")
<1>1. UNCHANGED <<case, visited, rest, outcome>> /\ pc = "properties" /\ pc' = "children"
      /\ visited = DOMAIN case.node.props
  BY DEF CollectProperties, Goes, Visited
<1>2. dest' = [i \in DOMAIN dest |-> IF Contains(collecting, i) THEN new(i) ELSE dest[i]]
  BY DEF CollectProperties
<1>3. \A i : Contains(collecting, i) => i \in DOMAIN dest /\ "props" \in case.type[i].attrs
  BY CapturingIs DEF Contains
<1>4. ASSUME NEW i \in DOMAIN dest, "props" \in case.type[i].attrs PROVE dest'[i] = case.value[i]
  <2> DEFINE m == case.value[i]
             props == case.node.props
  <2>1. collecting # <<>> /\ collecting[1] = i /\ Contains(collecting, i)
    <3>1. collecting # <<>> /\ collecting[1] = i
      BY <1>4, CapturingOne
    <3>2. 1 \in 1 .. Len(collecting)
      BY <3>1, CapturingIs
    <3> QED
      BY <3>1, <3>2 DEF Contains
  <2>2. DOMAIN props = DOMAIN m /\ \A k \in DOMAIN m : props[k] = m[k]
    <3>1. StructAttrs(case.type, "props") # <<>> /\ StructAttrs(case.type, "props")[1] = i
      BY <2>1 DEF Capturing
    <3> QED
      BY <3>1, PropertiesAre DEF Comes
  <2>3. m \in [DOMAIN m -> Range(m) \ {Null}] /\ \A k \in DOMAIN m : m[k] # Null
    BY <1>4, CapturedMap
  <2>4. dest[i] = Empty /\ DOMAIN Empty = {}
    BY <1>1, <1>4 DEF Coming, CollectedBack, Empty
  <2>5. dest'[i] = new(i)
    <3> HIDE DEF new, collecting
    <3> QED
      BY <1>2, <2>1
  <2> HIDE DEF m, props
  <2>6. visited = DOMAIN m /\ \A k \in DOMAIN m : ToInt(props[k]) = m[k]
    BY <1>1, <2>2, <2>3 DEF ToInt, props
  <2>7. new(i) = [k \in DOMAIN m |-> m[k]]
    BY <2>4, <2>6 DEF props
  <2>8. [k \in DOMAIN m |-> m[k]] = m
    BY <2>3
  <2> QED
    BY <2>5, <2>7, <2>8 DEF m
<1>5. ASSUME NEW i \in DOMAIN dest, "props" \notin case.type[i].attrs PROVE dest'[i] = dest[i]
  <2>1. ~Contains(collecting, i)
    BY <1>3, <1>5
  <2> HIDE DEF new, collecting
  <2> QED
    BY <1>2, <2>1
<1>6. DOMAIN dest' = DOMAIN dest /\ dest' = [i \in DOMAIN case.type |-> dest'[i]]
  <2>1. DOMAIN dest = DOMAIN case.type
    BY DEF Typed
  <2> HIDE DEF new, collecting
  <2> QED
    BY <1>2, <2>1
<1>7. ArgumentsBack'
  <2>1. \A i \in DOMAIN dest : case.type[i].attrs \cap {"arg", "args"} # {} => dest'[i] = dest[i]
    BY <1>5, Sorts
  <2> QED
    BY <1>1, <1>6, <2>1 DEF ArgumentsBack, Coming
<1>8. CollectedBack'
  BY <1>1, <1>4, <1>6 DEF CollectedBack
<1>9. CapturedBack'
  <2>1. \A i \in DOMAIN dest : "children" \in case.type[i].attrs => dest'[i] = dest[i]
    BY <1>5, Sorts
  <2> QED
    BY <1>1, <1>6, <2>1, TakenStays DEF CapturedBack, Coming
<1>10. \A i \in Plains(case.type) : dest'[i] = dest[i]
  <2>1. ASSUME NEW i \in Plains(case.type) PROVE dest'[i] = dest[i]
    <3>1. i \in DOMAIN dest
      BY DEF Plains, Typed
    <3> QED
      BY <1>5, <3>1, Sorts
  <2> QED
    BY <2>1
<1>11. PropertiesBack'
  BY <1>1, <1>10 DEF PropertiesBack, Coming, NameOf, Sensitive
<1>12. NodesBack'
  BY <1>1, <1>10, TakenStays DEF NodesBack, Coming
<1> QED
  BY <1>1, <1>6, <1>7, <1>8, <1>9, <1>11, <1>12 DEF Coming

\* No argument is left over, and none is missing.
LEMMA ArgumentsFit ==
  ASSUME Typed, Comes PROVE ~RejectArguments /\ ~RunOutOfArguments
<1> DEFINE args == case.node.args
           each == Capturing("arg")
           more == Capturing("args")
           list == IF more = <<>> THEN <<>> ELSE case.value[more[1]]
<1>1. /\ Len(args) = Len(each) + Len(list) /\ Len(args) \in Nat /\ Len(list) \in Nat /\ Len(each) \in Nat
      /\ Len(more) <= 1 /\ (args = <<>> => Len(args) = 0)
  BY ArgumentsCome
<1>2. more = <<>> => Len(list) = 0
  OBVIOUS
<1>3. Len(more) \in Nat
  BY CapturingIs
<1> HIDE DEF args, each, more, list
<1>4. ~(more = <<>> /\ Len(each) < Len(args)) /\ ~(Len(each) > Len(args)) /\ ~(Len(more) > 1)
  BY <1>1, <1>2, <1>3
<1> QED
  BY <1>4 DEF RejectArguments, RunOutOfArguments, TooManyArguments, ArgumentMissing, args, each, more

LEMMA PropertiesFit ==
  ASSUME Typed, Comes PROVE ~RejectProperties
<1>1. ~(Len(Capturing("props")) > 1)
  <2>1. Len(Capturing("props")) \in Nat /\ Len(Capturing("props")) <= 1
    BY CapturingIs, CapturingOne
  <2> QED
    BY <2>1
<1>2. ASSUME Capturing("props") = <<>> PROVE Handled = visited
  <2>1. ASSUME NEW p \in visited PROVE Field(p) # {}
    <3>1. p \in DOMAIN case.node.props
      BY DEF Typed
    <3> QED
      BY <1>2, <3>1, PropertyComes
  <2> QED
    BY <2>1 DEF Handled
<1> QED
  BY <1>1, <1>2 DEF RejectProperties, UnhandledProperties

\* The next child, where no field captures them, is the next node of one field.
LEMMA ChildComes ==
  ASSUME Typed, Comes, Capturing("children") = <<>>, rest # <<>>
  PROVE  \E i \in Plains(case.type) :
            /\ i \in DOMAIN dest /\ ~IsProperty(case.type[i], case.value[i])
            /\ Field(Head(rest).name) = {i}
            /\ \A opts : Step(case.type[i], Head(rest), Part(case.type[i], case.value[i], Taken(i)), opts)
                            = Ok(Part(case.type[i], case.value[i], Taken(i) + 1))
            /\ rest' = Tail(rest) /\ UNCHANGED case =>
                   /\ Taken(i)' = Taken(i) + 1
                   /\ \A j \in Plains(case.type) : j # i => Taken(j)' = Taken(j)
<1> DEFINE type == case.type
           value == case.value
           cs == Sensitive
           children == case.node.children
           N == Len(children)
           c == CHOOSE d \in Takings : TRUE
           B(i) == Block(type, cs, value, i)
<1>1. c \in Takings /\ \A i : Taken(i) = c[Done][i]
  <2>1. Takings # {}
    BY ChildrenAre DEF Comes, Takings, Capturing
  <2> QED
    BY <2>1 DEF Taken
<1>2. Done + 1 \in 1 .. N /\ Done \in Nat /\ Head(rest) = children[Done + 1]
  <2>1. DOMAIN children = 1 .. N
    BY DEF Typed, AreNodes, IsSequence
  <2> QED
    BY <2>1, FirstIsNext DEF Typed
<1>3. rest' = Tail(rest) /\ UNCHANGED case => Done' = Done + 1 /\ \A i : Taken(i)' = c[Done + 1][i]
  <2>1. ASSUME rest' = Tail(rest), UNCHANGED case
        PROVE  Done' = Done + 1 /\ Takings' = Takings /\ Capturing("children")' = <<>>
    BY <2>1, TailRemains DEF Takings, Sensitive, Capturing
  <2> QED
    BY <2>1 DEF Taken
<1> HIDE DEF c
<1>4. c \in [0 .. N -> [Plains(type) -> Nat]]
      /\ \A n \in 1 .. N : \E i \in Plains(type) :
               /\ c[n - 1][i] < Len(B(i))
               /\ children[n] = B(i)[c[n - 1][i] + 1]
               /\ c[n][i] = c[n - 1][i] + 1
               /\ \A j \in Plains(type) : j # i => c[n][j] = c[n - 1][j]
  BY <1>1 DEF Takings, Taking
<1>5. PICK i \in Plains(type) :
               /\ c[Done][i] < Len(B(i))
               /\ children[Done + 1] = B(i)[c[Done][i] + 1]
               /\ c[Done + 1][i] = c[Done][i] + 1
               /\ \A j \in Plains(type) : j # i => c[Done + 1][j] = c[Done][j]
  <2> DEFINE Taker(n, m, i) ==
               /\ c[m][i] < Len(B(i))
               /\ children[n] = B(i)[c[m][i] + 1]
               /\ c[n][i] = c[m][i] + 1
               /\ \A j \in Plains(type) : j # i => c[n][j] = c[m][j]
             n == Done + 1
  <2>1. n - 1 = Done /\ n \in 1 .. N
    BY <1>2
  <2>2. \A k \in 1 .. N : \E i \in Plains(type) : Taker(k, k - 1, i)
    BY <1>4
  <2> HIDE DEF Taker, n
  <2>3. PICK i \in Plains(type) : Taker(n, n - 1, i)
    BY <2>1, <2>2
  <2> QED
    BY <2>1, <2>3 DEF Taker, n
<1> DEFINE t == Taken(i)
           f == type[i]
           v == value[i]
           b == B(i)
<1>6. t \in Nat /\ t < Len(b) /\ Head(rest) = b[t + 1]
  <2>1. Done \in 0 .. N
    BY <1>2
  <2>2. c[Done] \in [Plains(type) -> Nat]
    BY <1>4, <2>1
  <2>3. c[Done][i] \in Nat
    BY <2>2
  <2> QED
    BY <1>1, <1>2, <1>5, <2>3
<1>7. i \in DOMAIN dest /\ i \in DOMAIN type
  BY DEF Plains, Typed
<1>8. Rebuilds(b, f, NameOf(i), v)
  <2>1. Fitting(f, v)
    BY GivenFits DEF Comes
  <2>2. b = tryMarshalValueAsChild(f, NameOf(i), v)
    BY DEF Block, NameOf
  <2> HIDE DEF f, v, b
  <2> QED
    BY <2>1, <2>2, FieldRebuilds
<1> HIDE DEF b
<1>9. Len(b) \in Nat /\ t \in 0 .. Len(b) - 1 /\ ~IsProperty(f, v)
  BY <1>6, <1>8 DEF Rebuilds
<1>10. \A opts : b[t + 1].name = NameOf(i) /\ Step(f, b[t + 1], Part(f, v, t), opts) = Ok(Part(f, v, t + 1))
  <2> HIDE DEF f, v, t
  <2> QED
    BY <1>8, <1>9 DEF Rebuilds
<1>11. Field(Head(rest).name) = {i}
  <2>1. StructFields(type, cs, normalizeKey(fieldTagOrName(type[i], cs), cs)) = {i}
    BY <1>7, GivenNames DEF Comes
  <2>2. Head(rest).name = fieldTagOrName(type[i], cs)
    BY <1>6, <1>10 DEF NameOf
  <2> QED
    BY <2>1, <2>2 DEF Field, Sensitive
<1>12. rest' = Tail(rest) /\ UNCHANGED case =>
           /\ Taken(i)' = Taken(i) + 1
           /\ \A j \in Plains(case.type) : j # i => Taken(j)' = Taken(j)
  BY <1>1, <1>3, <1>5
<1>13. \A opts : Step(f, Head(rest), Part(f, v, t), opts) = Ok(Part(f, v, t + 1))
  BY <1>6, <1>10
<1> QED
  BY <1>7, <1>9, <1>11, <1>12, <1>13

\* Every child has a field.
LEMMA ChildrenFit ==
  ASSUME Typed, Comes PROVE ~NoChildrenField /\ ~NoField
<1>1. ~NoChildrenField
  <2>1. SUFFICES ASSUME NoChildrenField PROVE FALSE
    OBVIOUS
  <2>2. rest # <<>> /\ case.node.children = <<>>
    BY <2>1 DEF NoChildrenField, Comes
  <2>3. Done + 1 \in DOMAIN case.node.children
    BY <2>2, FirstIsNext DEF Typed
  <2> QED
    BY <2>2, <2>3
<1>2. ~NoField
  BY ChildComes DEF NoField
<1> QED
  BY <1>1, <1>2

LEMMA BackToMap ==
  ASSUME Typed, Comes, Coming, UnmarshalToMap PROVE Coming'
<1> DEFINE i == Head(Capturing("children"))
           r == PutChild(Head(rest), case.opts, dest[i])
           m == case.value[i]
           keys == sortMapKeys(m)
           key == keys[Done + 1]
<1>1. i \in DOMAIN dest /\ "children" \in case.type[i].attrs /\ Takes(i, r)
  BY ToMapTakes
<1>2. pc = "children" /\ rest # <<>> /\ rest' = Tail(rest) /\ UNCHANGED <<case, visited>> /\ Capturing("children") # <<>>
  BY DEF UnmarshalToMap
<1>3. Done' = Done + 1 /\ Done \in Nat
  BY <1>2, TailRemains, FirstIsNext DEF Typed
<1>4. Done + 1 \in DOMAIN case.node.children /\ Head(rest) = case.node.children[Done + 1]
  BY <1>2, FirstIsNext DEF Typed
<1>5. case.node.children = marshalMapToNodes(m)
  <2>1. StructAttrs(case.type, "children") # <<>> /\ StructAttrs(case.type, "children")[1] = i
    BY <1>2, CapturingIs DEF Capturing
  <2> QED
    BY <2>1, ChildrenAre DEF Comes
<1>6. Head(rest) = Child(key, <<m[key]>>) /\ Done + 1 \in DOMAIN keys
  <2> HIDE DEF i, m, keys
  <2>1. case.node.children = [j \in DOMAIN keys |-> Child(keys[j], <<m[keys[j]]>>)]
    BY <1>5 DEF marshalMapToNodes, keys
  <2> QED
    BY <1>4, <2>1
<1>7. m[key] # Null
  <2>1. key \in DOMAIN m
    BY <1>6, SortedKeys
  <2>2. \A k \in DOMAIN m : m[k] # Null
    BY <1>1, CapturedMap
  <2> QED
    BY <2>1, <2>2
<1>8. dest[i] = Restored(m, Done)
  BY <1>1 DEF Coming, CapturedBack
<1> HIDE DEF i
<1>9. r = Ok(Restored(m, Done + 1))
  <2>1. toInt(Head(rest), case.opts) = Ok(m[key]) /\ Head(rest).name = key
    <3> HIDE DEF m, key
    <3>1. Child(key, <<m[key]>>).name = key
      BY NodeFields DEF Child
    <3> QED
      BY <1>6, <1>7, <3>1, IntBack
  <2>4. key \notin DOMAIN dest[i]
    BY <1>3, <1>6, <1>8, RestoredLacks
  <2>2. r = Ok(Put(dest[i], key, m[key]))
    <3>1. toInt(Head(rest), case.opts).outcome = "ok" /\ toInt(Head(rest), case.opts).value = m[key]
      BY <2>1, Outcomes
    <3> HIDE DEF m, key
    <3> QED
      BY <2>1, <2>4, <3>1 DEF PutChild
  <2>3. Put(Restored(m, Done), key, m[key]) = Restored(m, Done + 1)
    BY <1>3, RestoredMore
  <2> QED
    BY <1>8, <2>2, <2>3
<1> HIDE DEF m, r
<1>10. dest' = [dest EXCEPT ![i] = Restored(m, Done + 1)] /\ pc' = "children" /\ outcome' = "ok"
  BY <1>1, <1>2, <1>9 DEF Takes, Ok, Result
<1>11. dest = [j \in DOMAIN case.type |-> dest[j]] /\ DOMAIN dest = DOMAIN case.type
  BY DEF Coming, Typed
<1>12. DOMAIN dest' = DOMAIN dest /\ dest' = [j \in DOMAIN case.type |-> dest'[j]]
       /\ dest'[i] = Restored(m, Done + 1) /\ \A j \in DOMAIN dest : j # i => dest'[j] = dest[j]
  BY <1>1, <1>10, <1>11
<1>13. \A j \in DOMAIN dest : "children" \notin case.type[j].attrs => dest'[j] = dest[j]
  BY <1>1, <1>12
<1>14. ArgumentsBack'
  <2>1. \A j \in DOMAIN dest : case.type[j].attrs \cap {"arg", "args"} # {} => dest'[j] = dest[j]
    BY <1>13, Sorts
  <2> QED
    BY <1>2, <1>10, <1>12, <2>1 DEF ArgumentsBack, Coming
<1>15. CollectedBack'
  <2>1. \A j \in DOMAIN dest : "props" \in case.type[j].attrs => dest'[j] = dest[j]
    BY <1>13, Sorts
  <2> QED
    BY <1>2, <1>10, <1>12, <2>1 DEF CollectedBack, Coming
<1>16. CapturedBack'
  <2>1. \A j \in DOMAIN dest : "children" \in case.type[j].attrs => j = i
    <3>1. ASSUME NEW j \in DOMAIN dest, "children" \in case.type[j].attrs PROVE j = i
      BY <1>2, <3>1, CapturingOne DEF i
    <3> QED
      BY <3>1
  <2> QED
    BY <1>2, <1>3, <1>12, <2>1 DEF CapturedBack, m
<1>17. \A j \in Plains(case.type) : dest'[j] = dest[j]
  <2>1. ASSUME NEW j \in Plains(case.type) PROVE dest'[j] = dest[j]
    <3>1. j \in DOMAIN dest
      BY DEF Plains, Typed
    <3> QED
      BY <1>13, <3>1, Sorts
  <2> QED
    BY <2>1
<1>18. PropertiesBack'
  BY <1>2, <1>17 DEF PropertiesBack, Coming, NameOf, Sensitive
<1>19. NodesBack'
  <2>1. \A j : Taken(j) = 0 /\ Taken(j)' = 0
    BY <1>2 DEF Taken, Capturing
  <2>2. ASSUME NEW j \in Plains(case.type), ~IsProperty(case.type[j], case.value[j])
        PROVE  dest'[j] = Part(case.type[j], case.value[j], Taken(j)')
    <3>1. dest[j] = Part(case.type[j], case.value[j], Taken(j))
      BY <2>2 DEF Coming, NodesBack
    <3> QED
      BY <1>17, <2>1, <3>1
  <2> QED
    BY <1>2, <2>2 DEF NodesBack
<1>20. visited = DOMAIN case.node.props
  BY <1>2 DEF Coming
<1> QED
  BY <1>2, <1>10, <1>12, <1>14, <1>15, <1>16, <1>18, <1>19, <1>20 DEF Coming

LEMMA BackToField ==
  ASSUME Typed, Comes, Coming, UnmarshalToField PROVE Coming'
<1>1. pc = "children" /\ rest # <<>> /\ rest' = Tail(rest) /\ UNCHANGED <<case, visited>> /\ Capturing("children") = <<>>
  BY DEF UnmarshalToField
<1>2. PICK i \in Plains(case.type) :
            /\ i \in DOMAIN dest /\ ~IsProperty(case.type[i], case.value[i])
            /\ Field(Head(rest).name) = {i}
            /\ Step(case.type[i], Head(rest), Part(case.type[i], case.value[i], Taken(i)), case.opts)
                    = Ok(Part(case.type[i], case.value[i], Taken(i) + 1))
            /\ Taken(i)' = Taken(i) + 1
            /\ \A j \in Plains(case.type) : j # i => Taken(j)' = Taken(j)
  BY <1>1, ChildComes
<1> DEFINE f == case.type[i]
           v == case.value[i]
           r == Step(f, Head(rest), dest[i], case.opts)
           new == Part(f, v, Taken(i) + 1)
<1>3. Takes(i, r)
  BY <1>2 DEF UnmarshalToField, Step
<1>4. dest[i] = Part(f, v, Taken(i))
  BY <1>2 DEF Coming, NodesBack
<1>5. r = Ok(new)
  BY <1>2, <1>4
<1> HIDE DEF r, new
<1>6. dest' = [dest EXCEPT ![i] = new] /\ pc' = "children" /\ outcome' = "ok"
  BY <1>1, <1>3, <1>5 DEF Takes, Ok, Result
<1>7. dest = [j \in DOMAIN case.type |-> dest[j]] /\ DOMAIN dest = DOMAIN case.type
  BY DEF Coming, Typed
<1>8. DOMAIN dest' = DOMAIN dest /\ dest' = [j \in DOMAIN case.type |-> dest'[j]]
      /\ dest'[i] = new /\ \A j \in DOMAIN dest : j # i => dest'[j] = dest[j]
  BY <1>2, <1>6, <1>7
<1>9. \A j \in DOMAIN dest : case.type[j].attrs \cap {"arg", "args"} # {} \/ "props" \in case.type[j].attrs
                              \/ "children" \in case.type[j].attrs => dest'[j] = dest[j]
  BY <1>2, <1>8, Sorts
<1>10. ArgumentsBack'
  BY <1>1, <1>6, <1>8, <1>9 DEF ArgumentsBack, Coming
<1>11. CollectedBack'
  BY <1>1, <1>6, <1>8, <1>9 DEF CollectedBack, Coming
<1>12. CapturedBack'
  <2>1. \A j \in DOMAIN dest : "children" \notin case.type[j].attrs
    BY <1>1, CapturingOne
  <2> QED
    BY <1>1, <1>8, <2>1 DEF CapturedBack
<1>13. \A j \in Plains(case.type) : j \in DOMAIN dest
  BY DEF Plains, Typed
<1>14. PropertiesBack'
  <2>1. \A j \in Plains(case.type) : IsProperty(case.type[j], case.value[j]) => dest'[j] = dest[j]
    BY <1>2, <1>8, <1>13
  <2>2. \A j : NameOf(j)' = NameOf(j)
    BY <1>1 DEF NameOf, Sensitive
  <2> QED
    BY <1>1, <2>1, <2>2 DEF PropertiesBack, Coming
<1>15. NodesBack'
  <2>1. ASSUME NEW j \in Plains(case.type), ~IsProperty(case.type[j], case.value[j])
        PROVE  dest'[j] = Part(case.type[j], case.value[j], Taken(j)')
    <3>1. CASE j = i
      BY <1>2, <1>8, <3>1 DEF new
    <3>2. CASE j # i
      <4>1. dest'[j] = dest[j] /\ Taken(j)' = Taken(j)
        BY <1>2, <1>8, <1>13, <3>2
      <4>2. dest[j] = Part(case.type[j], case.value[j], Taken(j))
        BY <2>1 DEF Coming, NodesBack
      <4> QED
        BY <4>1, <4>2
    <3> QED
      BY <3>1, <3>2
  <2> QED
    BY <1>1, <2>1 DEF NodesBack
<1>16. visited = DOMAIN case.node.props
  BY <1>1 DEF Coming
<1> QED
  BY <1>1, <1>6, <1>8, <1>10, <1>11, <1>12, <1>14, <1>15, <1>16 DEF Coming

LEMMA BackReturn ==
  ASSUME Typed, Comes, Coming, Return PROVE Coming'
<1>1. pc = "children" /\ pc' = "done" /\ rest = <<>> /\ UNCHANGED <<case, dest, visited, rest, outcome>>
  BY DEF Return, Goes
<1>2. Done' = Done /\ \A i : Taken(i)' = Taken(i)
  BY <1>1, TakenStays
<1>3. ArgumentsBack' /\ CollectedBack'
  BY <1>1 DEF Coming, ArgumentsBack, CollectedBack
<1>4. CapturedBack' /\ PropertiesBack' /\ NodesBack'
  BY <1>1, <1>2 DEF Coming, CapturedBack, PropertiesBack, NodesBack, NameOf, Sensitive
<1> QED
  BY <1>1, <1>3, <1>4 DEF Coming

LEMMA BackStutter ==
  ASSUME Coming, UNCHANGED vars PROVE Coming'
<1>1. UNCHANGED <<case, pc, dest, visited, rest, outcome>>
  BY DEF vars
<1>2. Done' = Done /\ \A i : Taken(i)' = Taken(i)
  BY <1>1, TakenStays
<1>3. ArgumentsBack' /\ CollectedBack'
  BY <1>1 DEF Coming, ArgumentsBack, CollectedBack
<1>4. CapturedBack' /\ PropertiesBack' /\ NodesBack'
  BY <1>1, <1>2 DEF Coming, CapturedBack, PropertiesBack, NodesBack, NameOf, Sensitive
<1> QED
  BY <1>1, <1>3, <1>4 DEF Coming

LEMMA BackNext ==
  ASSUME Typed, Back, [Next]_vars PROVE Back'
<1>1. UNCHANGED case
  BY DEF Next, vars, RejectArguments, RunOutOfArguments, AssignArguments, AssignProperty, RejectProperties,
         CollectProperties, NoChildrenField, UnmarshalToMap, UnmarshalToField, NoField, Return, Finished, Fails
<1>2. SUFFICES ASSUME Comes PROVE Coming'
  BY <1>1, ComesStays DEF Back
<1>3. Coming
  BY <1>2 DEF Back
<1>4. CASE UNCHANGED vars
  BY <1>3, <1>4, BackStutter
<1>5. ~(RejectArguments \/ RunOutOfArguments \/ RejectProperties \/ NoChildrenField \/ NoField)
  BY <1>2, ArgumentsFit, PropertiesFit, ChildrenFit
<1>6. CASE AssignArguments
  BY <1>2, <1>3, <1>6, BackAssignArguments
<1>7. CASE \E p \in DOMAIN case.node.props : AssignProperty(p)
  BY <1>2, <1>3, <1>7, BackAssignProperty
<1>8. CASE CollectProperties
  BY <1>2, <1>3, <1>8, BackCollectProperties
<1>9. CASE UnmarshalToMap
  BY <1>2, <1>3, <1>9, BackToMap
<1>10. CASE UnmarshalToField
  BY <1>2, <1>3, <1>10, BackToField
<1>11. CASE Return
  BY <1>2, <1>3, <1>11, BackReturn
<1> QED
  BY <1>4, <1>5, <1>6, <1>7, <1>8, <1>9, <1>10, <1>11 DEF Next, Finished

\* The node of a call that has a value is the one that the value was marshaled to.
Marshals ==
    case.value # <<>> =>
        /\ IsType(case.type) /\ IsValue(case.type, case.value)
        /\ case.node = marshalStructToNode("n", case.type, Sensitive, case.value)

LEMMA MarshalsInit ==
  ASSUME Init PROVE Marshals
<1>1. PICK t \in DOMAIN Types, opts \in Options : Marshaled(t, opts) \/ Written(t, opts)
  BY DEF Init
<1>2. CASE Marshaled(t, opts)
  <2>1. PICK value \in Values[t] :
            case = Call(Types[t], opts, value, marshalStructToNode("n", Types[t], opts.caseSensitive, value))
    BY <1>2 DEF Marshaled
  <2> DEFINE node == marshalStructToNode("n", Types[t], opts.caseSensitive, value)
  <2> HIDE DEF node
  <2>2. case.type = Types[t] /\ case.opts = opts /\ case.value = value /\ case.node = node
    BY <2>1 DEF Call, node
  <2>3. IsType(Types[t]) /\ IsValue(Types[t], value)
    BY TypesAssumption
  <2> QED
    BY <2>2, <2>3 DEF Marshals, Sensitive, node
<1>3. CASE Written(t, opts)
  <2>1. case.value = <<>>
    BY <1>3 DEF Written, Call
  <2> QED
    BY <2>1 DEF Marshals
<1> QED
  BY <1>1, <1>2, <1>3

LEMMA MarshalsNext ==
  ASSUME Marshals, [Next]_vars PROVE Marshals'
<1>1. UNCHANGED case
  BY DEF Next, vars, RejectArguments, RunOutOfArguments, AssignArguments, AssignProperty, RejectProperties,
         CollectProperties, NoChildrenField, UnmarshalToMap, UnmarshalToField, NoField, Return, Finished, Fails
<1> QED
  BY <1>1 DEF Marshals, Sensitive

\* When the call returns, each field has come back.
LEMMA AllBack ==
  ASSUME Typed, Comes, Coming, pc = "done" PROVE dest = case.value
<1> DEFINE type == case.type
           value == case.value
<1>1. rest = <<>> /\ visited = DOMAIN case.node.props
  BY DEF Coming
<1>2. dest = [i \in DOMAIN type |-> dest[i]] /\ value = [i \in DOMAIN type |-> value[i]] /\ DOMAIN dest = DOMAIN type
  BY DEF Coming, Comes, Given, IsValue, Typed
<1>3. ASSUME NEW i \in DOMAIN dest PROVE dest[i] = value[i]
  <2>1. CASE type[i].attrs \cap {"arg", "args"} # {}
    BY <2>1 DEF Coming, ArgumentsBack
  <2>2. CASE "props" \in type[i].attrs
    BY <2>2 DEF Coming, CollectedBack
  <2>3. CASE "children" \in type[i].attrs
    <3> DEFINE m == value[i]
               keys == sortMapKeys(m)
    <3>1. Capturing("children") # <<>> /\ Capturing("children")[1] = i
      BY <2>3, CapturingOne
    <3>2. case.node.children = marshalMapToNodes(m)
      <4>1. StructAttrs(type, "children") # <<>> /\ StructAttrs(type, "children")[1] = i
        BY <3>1 DEF Capturing
      <4> QED
        BY <4>1, ChildrenAre DEF Comes
    <3>3. Len(case.node.children) = Len(keys)
      <4> HIDE DEF m
      <4>1. case.node.children = [j \in DOMAIN keys |-> Child(keys[j], <<m[keys[j]]>>)]
        BY <3>2 DEF marshalMapToNodes
      <4>2. Len(keys) \in Nat /\ DOMAIN keys = 1 .. Len(keys)
        BY SortedKeys
      <4> HIDE DEF keys
      <4> QED
        BY <4>1, <4>2
    <3>4. Done = Len(keys)
      <4>1. Len(case.node.children) \in Nat
        BY DEF Typed, AreNodes, IsSequence
      <4> QED
        BY <1>1, <3>3, <4>1 DEF Done
    <3>5. m \in [DOMAIN m -> Range(m) \ {Null}] /\ DOMAIN m \subseteq Range(Names)
      BY <2>3, CapturedMap
    <3>6. Restored(m, Len(keys)) = m
      BY <3>5, RestoredAll
    <3>7. dest[i] = Restored(m, Done)
      BY <2>3 DEF Coming, CapturedBack
    <3> QED
      BY <3>4, <3>6, <3>7
  <2>4. CASE i \in Plains(type) /\ IsProperty(type[i], value[i])
    <3>1. NameOf(i) \in visited
      <4>1. StructAttrs(type, "props") = <<>>
        BY <2>4, PropertiesAre DEF Comes
      <4>2. DOMAIN case.node.props = {fieldTagOrName(type[j], Sensitive) : j \in {k \in Plains(type) : IsProperty(type[k], value[k])}}
        BY <4>1, PropertiesAre DEF Comes
      <4> QED
        BY <1>1, <2>4, <4>2 DEF NameOf
    <3> QED
      BY <2>4, <3>1 DEF Coming, PropertiesBack
  <2>5. CASE i \in Plains(type) /\ ~IsProperty(type[i], value[i])
    <3> DEFINE f == type[i]
               v == value[i]
               b == Block(type, Sensitive, value, i)
    <3>1. Taken(i) = Len(b)
      BY <1>1, <2>5, TakenEnds
    <3>2. dest[i] = Part(f, v, Taken(i))
      BY <2>5 DEF Coming, NodesBack
    <3>3. Fitting(f, v)
      BY <2>5, GivenFits DEF Comes
    <3>4. b = tryMarshalValueAsChild(f, NameOf(i), v)
      BY DEF Block, NameOf
    <3> HIDE DEF f, v, b
    <3>5. Part(f, v, Len(b)) = v
      BY <3>3, <3>4, FieldRebuilds DEF Rebuilds
    <3> QED
      BY <3>1, <3>2, <3>5 DEF f, v
  <2> QED
    BY <2>1, <2>2, <2>3, <2>4, <2>5, Sorts
<1> QED
  BY <1>2, <1>3

\* A value of a type that marshaling does not mix up comes back from the node that it was
\* marshaled to, whatever the options, unless they make the code drop children that no
\* field captures (marshalStructToNode, marshal.go:545, and unmarshalNodeToStruct,
\* unmarshal.go:613).
THEOREM StructsComeBack == Spec => []RoundTrip
<1>1. Init => Back
  BY TypedInit, BackInit DEF Back
<1>2. Typed /\ Back /\ [Next]_vars => Back'
  BY BackNext
<1>3. Typed /\ Back /\ Marshals => RoundTrip
  <2>1. SUFFICES ASSUME Typed, Back, Marshals, case.value # <<>>, pc = "done",
                        Separable(case.type, case.opts.caseSensitive, case.value),
                        case.opts.children => Capturing("children") # <<>> \/ case.node.children = <<>>
                 PROVE  outcome = "ok" /\ dest = case.value
    BY DEF RoundTrip
  <2>2. Comes
    BY <2>1 DEF Marshals, Comes, Given, Sensitive
  <2>3. Coming
    BY <2>1, <2>2 DEF Back
  <2> QED
    BY <2>1, <2>2, <2>3, AllBack DEF Coming
<1> QED
  BY <1>1, <1>2, <1>3, MarshalsInit, MarshalsNext, AlwaysTyped, PTL DEF Spec
============================================================================
