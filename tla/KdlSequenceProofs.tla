------------------------- MODULE KdlSequenceProofs -------------------------
(***************************************************************************)
(* Induction on natural numbers, and what it gives for the recursive       *)
(* definitions on sequences that the modules use.                          *)
(*                                                                         *)
(* The library's induction theorems take a predicate; these take the set   *)
(* of the numbers that have it.  A recursive function is a CHOOSE of one   *)
(* that satisfies its equation, so that each use of it first needs one.    *)
(***************************************************************************)
EXTENDS Integers, Sequences, SequencesExt, SequenceTheorems, WellFoundedInduction, TLAPS

\* A set of natural numbers that is not empty has a least element.
LEMMA LeastNumber ==
  ASSUME NEW S \in SUBSET Nat, S # {}
  PROVE  \E n \in S : \A m \in S : n <= m
<1>1. IsWellFoundedOn(OpToRel(<, Nat), Nat)
  BY NatLessThanWellFounded
<1>2. PICK n \in S : \A m \in S : ~(<<m, n>> \in OpToRel(<, Nat))
  BY <1>1, WFMin
<1>3. \A m \in S : ~(m < n)
  BY <1>2 DEF OpToRel
<1> QED
  BY <1>3

\* What holds of zero, and of each number's successor with the number, holds of all.
LEMMA Induction ==
  ASSUME NEW S, 0 \in S, \A n \in Nat : n \in S => n + 1 \in S
  PROVE  Nat \subseteq S
<1>1. SUFFICES ASSUME Nat \ S # {} PROVE FALSE
  OBVIOUS
<1>2. PICK n \in Nat \ S : \A m \in Nat \ S : n <= m
  BY <1>1, LeastNumber
<1>3. n # 0 /\ n - 1 \in Nat
  BY <1>2
<1>4. n - 1 \in S
  BY <1>2, <1>3
<1> QED
  BY <1>2, <1>3, <1>4

\* What n steps from a set to itself make of a beginning, one after another.
Steps(n, T) == [1 .. n -> [T -> T]]
Results(n, T, base, step) ==
    {g \in [0 .. n -> T] : g[0] = base /\ \A i \in 1 .. n : g[i] = step[i][g[i - 1]]}

\* There is what a recursive definition is the choice of.
LEMMA Recursion ==
  ASSUME NEW n \in Nat, NEW T, NEW base \in T, NEW step \in Steps(n, T)
  PROVE  Results(n, T, base, step) # {}
<1> USE DEF Steps
<1> DEFINE Is(g, k) == g[0] = base /\ \A i \in 1 .. k : g[i] = step[i][g[i - 1]]
           A == {k \in Nat : k <= n => \E g \in [0 .. k -> T] : Is(g, k)}
<1>1. 0 \in A
  <2> DEFINE g == [i \in 0 .. 0 |-> base]
  <2>1. g \in [0 .. 0 -> T] /\ Is(g, 0)
    OBVIOUS
  <2> QED
    BY <2>1
<1>2. ASSUME NEW k \in Nat, k \in A PROVE k + 1 \in A
  <2>1. SUFFICES ASSUME k + 1 <= n PROVE \E h \in [0 .. k + 1 -> T] : Is(h, k + 1)
    OBVIOUS
  <2>2. PICK g \in [0 .. k -> T] : Is(g, k)
    BY <1>2, <2>1
  <2> HIDE DEF A
  <2> DEFINE h == [i \in 0 .. k + 1 |-> IF i <= k THEN g[i] ELSE step[k + 1][g[k]]]
  <2>3. h \in [0 .. k + 1 -> T]
    <3>1. g[k] \in T /\ k + 1 \in 1 .. n
      BY <2>1
    <3>2. step[k + 1][g[k]] \in T
      BY <3>1
    <3> QED
      BY <3>2
  <2>4. h[0] = base
    BY <2>2
  <2>5. ASSUME NEW i \in 1 .. k + 1 PROVE h[i] = step[i][h[i - 1]]
    <3>1. CASE i <= k
      <4>1. g[i] = step[i][g[i - 1]] /\ i \in 1 .. k
        BY <2>2, <3>1
      <4>2. h[i] = g[i] /\ h[i - 1] = g[i - 1]
        BY <3>1
      <4> QED
        BY <4>1, <4>2
    <3>2. CASE i = k + 1
      <4>1. h[i] = step[k + 1][g[k]] /\ h[i - 1] = g[k]
        BY <3>2
      <4> QED
        BY <4>1, <3>2
    <3> QED
      BY <3>1, <3>2
  <2> HIDE DEF h
  <2> QED
    BY <2>3, <2>4, <2>5
<1>3. n \in A
  <2> HIDE DEF A
  <2> QED
    BY <1>1, <1>2, Induction
<1> QED
  BY <1>3 DEF Results

\* What holds of a number when it holds of all above it, up to a bound, holds of all.
LEMMA DownwardInduction ==
  ASSUME NEW lo \in Int, NEW hi \in Int, NEW S,
         \A k \in lo .. hi : k + 1 .. hi \subseteq S => k \in S
  PROVE  lo .. hi \subseteq S
<1> DEFINE A == {n \in Nat : \A k \in lo .. hi : k > hi - n => k \in S}
<1>1. 0 \in A
  OBVIOUS
<1>2. ASSUME NEW n \in Nat, n \in A PROVE n + 1 \in A
  <2>1. SUFFICES ASSUME NEW k \in lo .. hi, k > hi - (n + 1) PROVE k \in S
    OBVIOUS
  <2>2. k + 1 .. hi \subseteq S
    BY <1>2, <2>1
  <2> QED
    BY <2>1, <2>2
<1>3. Nat \subseteq A
  <2> HIDE DEF A
  <2> QED
    BY <1>1, <1>2, Induction
<1>4. ASSUME NEW k \in lo .. hi PROVE k \in S
  <2>1. hi - k + 1 \in Nat
    OBVIOUS
  <2>2. hi - k + 1 \in A
    BY <1>3, <2>1
  <2>3. k > hi - (hi - k + 1)
    OBVIOUS
  <2> QED
    BY <2>2, <2>3
<1> QED
  BY <1>4

\* A step of a recursion that goes down from a bound looks at what is above it.
Descents(lo, hi, T) ==
    {step \in [lo .. hi -> [[lo .. hi -> T] -> T]] :
        \A k \in lo .. hi, g, h \in [lo .. hi -> T] :
            (\A l \in k + 1 .. hi : g[l] = h[l]) => step[k][g] = step[k][h]}
Tables(lo, hi, T, step) == {f \in [lo .. hi -> T] : \A k \in lo .. hi : f[k] = step[k][f]}

LEMMA DownwardRecursion ==
  ASSUME NEW lo \in Int, NEW hi \in Int, NEW T, NEW base \in T, NEW step \in Descents(lo, hi, T)
  PROVE  Tables(lo, hi, T, step) # {}
<1> DEFINE F == [lo .. hi -> T]
           A == {n \in Nat : \E f \in F : \A k \in lo .. hi : k > hi - n => f[k] = step[k][f]}
<1>1. /\ step \in [lo .. hi -> [F -> T]]
      /\ \A k \in lo .. hi, g, h \in F :
            (\A l \in k + 1 .. hi : g[l] = h[l]) => step[k][g] = step[k][h]
  BY DEF Descents
<1>2. 0 \in A
  <2>1. PICK f \in F : TRUE
    <3>1. [k \in lo .. hi |-> base] \in F
      OBVIOUS
    <3> QED
      BY <3>1
  <2>2. \A k \in lo .. hi : ~(k > hi - 0)
    OBVIOUS
  <2> HIDE DEF F
  <2> QED
    BY <2>1, <2>2
<1>3. ASSUME NEW n \in Nat, n \in A PROVE n + 1 \in A
  <2>1. PICK f \in F : \A k \in lo .. hi : k > hi - n => f[k] = step[k][f]
    BY <1>3
  <2>2. CASE hi - n \notin lo .. hi
    BY <2>1, <2>2
  <2>3. CASE hi - n \in lo .. hi
    <3> DEFINE m == hi - n
               g == [f EXCEPT ![m] = step[m][f]]
    <3>1. m \in lo .. hi /\ step[m][f] \in T
      BY <1>1, <2>1, <2>3
    <3>2. g \in F /\ g[m] = step[m][f] /\ \A k \in lo .. hi : k # m => g[k] = f[k]
      BY <3>1
    <3> HIDE DEF g
    <3>3. ASSUME NEW k \in lo .. hi, k >= m PROVE step[k][g] = step[k][f]
      <4>1. \A l \in k + 1 .. hi : g[l] = f[l]
        BY <3>1, <3>2, <3>3
      <4> QED
        BY <1>1, <2>1, <3>2, <4>1
    <3>4. ASSUME NEW k \in lo .. hi, k > hi - (n + 1) PROVE g[k] = step[k][g]
      <4>1. CASE k = m
        BY <3>1, <3>2, <3>3, <4>1
      <4>2. CASE k # m
        <5>1. k > hi - n
          BY <3>4, <4>2
        <5>2. g[k] = f[k] /\ f[k] = step[k][f] /\ step[k][g] = step[k][f]
          BY <2>1, <3>1, <3>2, <3>3, <4>2, <5>1
        <5> QED
          BY <5>2
      <4> QED
        BY <4>1, <4>2
    <3> QED
      BY <3>2, <3>4
  <2> QED
    BY <2>2, <2>3
<1>4. Nat \subseteq A
  <2> HIDE DEF A
  <2> QED
    BY <1>2, <1>3, Induction
<1>5. \E f \in F : \A k \in lo .. hi : f[k] = step[k][f]
  <2>1. CASE hi < lo
    <3>1. PICK f \in F : TRUE
      <4>1. [k \in lo .. hi |-> base] \in F
        OBVIOUS
      <4> QED
        BY <4>1
    <3>2. \A k \in lo .. hi : f[k] = step[k][f]
      BY <2>1
    <3> QED
      BY <3>1, <3>2
  <2>2. CASE hi >= lo
    <3>1. hi - lo + 1 \in A
      <4>1. hi - lo + 1 \in Nat
        BY <2>2
      <4> HIDE DEF A
      <4> QED
        BY <1>4, <4>1
    <3>2. PICK f \in F : \A k \in lo .. hi : k > hi - (hi - lo + 1) => f[k] = step[k][f]
      BY <3>1
    <3>3. \A k \in lo .. hi : k > hi - (hi - lo + 1)
      OBVIOUS
    <3> QED
      BY <3>2, <3>3
  <2> QED
    BY <2>1, <2>2
<1> QED
  BY <1>5 DEF Tables

\* What the sequences of a sequence are, one behind another, up to each of them.
Flattenings(q, S) ==
    {f \in [0 .. Len(q) -> Seq(S)] :
        /\ f[0] = <<>>
        /\ \A i \in 1 .. Len(q) : f[i] = f[i - 1] \o q[i]
        /\ FlattenSeq(q) = f[Len(q)]}

LEMMA FlattenSteps ==
  ASSUME NEW S, NEW q \in Seq(Seq(S))
  PROVE  Flattenings(q, S) # {}
<1> DEFINE n == Len(q)
           step == [i \in 1 .. n |-> [s \in Seq(S) |-> s \o q[i]]]
           flatten[i \in 1 .. n] == IF i = 1 THEN q[i] ELSE flatten[i - 1] \o q[i]
<1>1. n \in Nat /\ <<>> \in Seq(S) /\ \A i \in 1 .. n : q[i] \in Seq(S)
  BY EmptySeq
<1>2. step \in [1 .. n -> [Seq(S) -> Seq(S)]]
  BY <1>1, ConcatProperties
<1>3. PICK g \in [0 .. n -> Seq(S)] : g[0] = <<>> /\ \A i \in 1 .. n : g[i] = step[i][g[i - 1]]
  <2>1. step \in Steps(n, Seq(S))
    BY <1>2 DEF Steps
  <2> HIDE DEF step, n
  <2>2. Results(n, Seq(S), <<>>, step) # {}
    BY <1>1, <2>1, Recursion
  <2> QED
    BY <2>2 DEF Results
<1>4. \A i \in 1 .. n : g[i] = g[i - 1] \o q[i]
  <2> HIDE DEF n
  <2>1. ASSUME NEW i \in 1 .. n PROVE g[i] = g[i - 1] \o q[i]
    <3>1. i - 1 \in 0 .. n /\ g[i - 1] \in Seq(S)
      BY <1>1
    <3>2. g[i] = step[i][g[i - 1]]
      BY <1>3
    <3> QED
      BY <3>1, <3>2
  <2> QED
    BY <2>1
<1> HIDE DEF step
<1>5. CASE n = 0
  <2>1. FlattenSeq(q) = <<>>
    BY <1>5, EmptySeq DEF FlattenSeq
  <2> QED
    BY <1>3, <1>4, <1>5, <2>1 DEF Flattenings
<1>6. CASE n # 0
  <2>1. FlattenSeq(q) = flatten[n]
    BY <1>6 DEF FlattenSeq
  <2> HIDE DEF n
  <2> DEFINE h == [i \in 1 .. n |-> g[i]]
             B == {k \in Nat : 0 < k /\ k <= n => flatten[k] = g[k]}
  <2>2. ASSUME NEW i \in 1 .. n
        PROVE  h[i] = IF i = 1 THEN q[i] ELSE h[i - 1] \o q[i]
    <3>1. g[i] = g[i - 1] \o q[i] /\ h[i] = g[i] /\ (i # 1 => h[i - 1] = g[i - 1])
      <4>1. g[i] = g[i - 1] \o q[i]
        BY <1>4 DEF n
      <4>2. i # 1 => i - 1 \in 1 .. n
        BY <1>1
      <4> QED
        BY <4>1, <4>2
    <3> HIDE DEF h
    <3>2. CASE i = 1
      <4>1. <<>> \o q[1] = q[1] /\ g[0] = <<>>
        BY <1>1, <1>3, <3>2, ConcatEmptySeq
      <4>2. h[1] = g[1] /\ g[1] = g[1 - 1] \o q[1]
        BY <3>1, <3>2
      <4>3. 1 - 1 = 0
        OBVIOUS
      <4> QED
        BY <3>2, <4>1, <4>2, <4>3
    <3>3. CASE i # 1
      BY <3>1, <3>3
    <3> QED
      BY <3>2, <3>3
  <2>3. h = [i \in 1 .. n |-> IF i = 1 THEN q[i] ELSE h[i - 1] \o q[i]]
    BY <2>2
  <2>4. flatten = [i \in 1 .. n |-> IF i = 1 THEN q[i] ELSE flatten[i - 1] \o q[i]]
    <3> HIDE DEF h
    <3> QED
      BY <2>3
  <2>5. \A i \in 1 .. n : flatten[i] = IF i = 1 THEN q[i] ELSE flatten[i - 1] \o q[i]
    <3> HIDE DEF flatten
    <3> QED
      BY <2>4
  <2>6. ASSUME NEW k \in Nat, k \in B PROVE k + 1 \in B
    <3> HIDE DEF flatten, h
    <3>1. SUFFICES ASSUME k + 1 <= n PROVE flatten[k + 1] = g[k + 1]
      OBVIOUS
    <3>2. k + 1 \in 1 .. n /\ (k + 1) - 1 = k
      BY <1>1, <3>1
    <3>3. flatten[k + 1] = IF k + 1 = 1 THEN q[k + 1] ELSE flatten[k] \o q[k + 1]
      BY <2>5, <3>2
    <3>4. g[k + 1] = g[k] \o q[k + 1]
      <4>1. g[k + 1] = g[(k + 1) - 1] \o q[k + 1]
        BY <1>4, <3>2 DEF n
      <4> QED
        BY <3>2, <4>1
    <3>5. CASE k = 0
      <4>1. <<>> \o q[1] = q[1]
        BY <1>1, <3>2, <3>5, ConcatEmptySeq
      <4> QED
        <5> HIDE DEF B
        <5>1. flatten[1] = q[1] /\ g[1] = g[0] \o q[1] /\ g[0] = <<>>
          <6>1. k + 1 = 1
            BY <3>5
          <6>2. flatten[1] = q[1]
            BY <3>3, <6>1
          <6>3. g[1] = g[0] \o q[1]
            BY <3>4, <3>5, <6>1
          <6> QED
            BY <1>3, <6>2, <6>3
        <5> QED
          BY <3>5, <4>1, <5>1
    <3>6. CASE k # 0
      <4>1. flatten[k] = g[k] /\ k + 1 # 1
        BY <1>1, <2>6, <3>1, <3>6
      <4> QED
        BY <3>3, <3>4, <4>1
    <3> QED
      BY <3>5, <3>6
  <2>7. n \in B
    <3>1. 0 \in B
      OBVIOUS
    <3> HIDE DEF B
    <3> QED
      BY <1>1, <3>1, <2>6, Induction
  <2>8. flatten[n] = g[n]
    <3> HIDE DEF flatten
    <3> QED
      BY <1>1, <1>6, <2>7
  <2> HIDE DEF flatten
  <2> QED
    BY <1>3, <1>4, <2>1, <2>8 DEF n, Flattenings
<1> QED
  BY <1>5, <1>6

\* Sequences of elements of a set, one behind another, are a sequence of them.
LEMMA FlattenTyped ==
  ASSUME NEW S, NEW q \in Seq(Seq(S))
  PROVE  FlattenSeq(q) \in Seq(S)
<1>1. PICK f \in Flattenings(q, S) : TRUE
  BY FlattenSteps
<1>2. Len(q) \in 0 .. Len(q)
  OBVIOUS
<1> QED
  BY <1>1, <1>2 DEF Flattenings

\* How many elements of each of the first m sequences are among the first so many of all
\* of theirs, which take them from the front of one sequence at a time.
Draw(c, q, r, n, b) ==
    /\ c[n - 1][b] < Len(q[b]) /\ r[n] = q[b][c[n - 1][b] + 1]
    /\ c[n][b] = c[n - 1][b] + 1
    /\ \A d \in 1 .. Len(q) : d # b => c[n][d] = c[n - 1][d]
Shares(q, r, m) ==
    {c \in [0 .. Len(r) -> [1 .. Len(q) -> Nat]] :
        /\ \A b \in 1 .. Len(q) : c[0][b] = 0 /\ c[Len(r)][b] = IF b <= m THEN Len(q[b]) ELSE 0
        /\ \A n \in 1 .. Len(r) : \E b \in 1 .. Len(q) : Draw(c, q, r, n, b)}

LEMMA FlattenShares ==
  ASSUME NEW S, NEW q \in Seq(Seq(S))
  PROVE  Shares(q, FlattenSeq(q), Len(q)) # {}
<1> DEFINE N == Len(q)
<1>1. N \in Nat /\ \A i \in 1 .. N : q[i] \in Seq(S) /\ Len(q[i]) \in Nat
  OBVIOUS
<1>2. PICK f \in [0 .. N -> Seq(S)] : /\ f[0] = <<>>
                                      /\ \A i \in 1 .. N : f[i] = f[i - 1] \o q[i]
                                      /\ FlattenSeq(q) = f[N]
  BY FlattenSteps DEF Flattenings
<1> HIDE DEF N
<1> DEFINE A == {m \in Nat : m <= N => Shares(q, f[m], m) # {}}
<1>3. 0 \in A
  <2> DEFINE c == [n \in 0 .. 0 |-> [b \in 1 .. N |-> 0]]
  <2>1. Len(f[0]) = 0
    BY <1>2, EmptySeq
  <2>2. c \in [0 .. 0 -> [1 .. N -> Nat]] /\ \A b \in 1 .. N : c[0][b] = 0 /\ ~(b <= 0)
    OBVIOUS
  <2> HIDE DEF c
  <2>3. c \in Shares(q, f[0], 0)
    BY <2>1, <2>2 DEF Shares, N
  <2> QED
    BY <2>3
<1>4. ASSUME NEW m \in Nat, m \in A PROVE m + 1 \in A
  <2>1. SUFFICES ASSUME m + 1 <= N PROVE Shares(q, f[m + 1], m + 1) # {}
    OBVIOUS
  <2> DEFINE r == f[m]
             k == Len(r)
             s == f[m + 1]
             x == q[m + 1]
  <2>2. PICK c \in Shares(q, r, m) : TRUE
    <3>1. m <= N
      BY <1>1, <2>1
    <3> QED
      BY <1>4, <3>1
  <2> HIDE DEF A
  <2>3. /\ k \in Nat /\ Len(x) \in Nat /\ Len(s) = k + Len(x)
        /\ \A n \in 1 .. k + Len(x) : s[n] = IF n <= k THEN r[n] ELSE x[n - k]
    <3>1. m + 1 \in 1 .. N /\ (m + 1) - 1 = m /\ m \in 0 .. N
      BY <1>1, <2>1
    <3>2. r \in Seq(S) /\ x \in Seq(S) /\ s = r \o x
      BY <1>1, <1>2, <3>1
    <3> HIDE DEF r, s, x
    <3>3. Len(r) \in Nat /\ Len(x) \in Nat
      BY <3>2
    <3> QED
      BY <3>2, <3>3, ConcatProperties
  <2> HIDE DEF r, s, k
  <2> DEFINE h == [n \in 0 .. Len(s) |-> IF n <= k THEN c[n] ELSE [b \in 1 .. N |-> IF b = m + 1 THEN n - k ELSE c[k][b]]]
  <2>4. /\ \A n \in 0 .. k : n \in 0 .. Len(s) /\ h[n] = c[n]
        /\ \A n \in k + 1 .. Len(s) :
              h[n] = [b \in 1 .. N |-> IF b = m + 1 THEN n - k ELSE c[k][b]]
    BY <2>3
  <2>5. c \in [0 .. k -> [1 .. N -> Nat]] /\ c[k] \in [1 .. N -> Nat] /\ \A b \in 1 .. N : c[0][b] = 0 /\ c[k][b] = IF b <= m THEN Len(q[b]) ELSE 0
    <3>1. c \in [0 .. k -> [1 .. N -> Nat]]
      BY <2>2 DEF Shares, k, N
    <3>2. k \in 0 .. k
      BY <2>3
    <3>3. c[k] \in [1 .. N -> Nat]
      BY <3>1, <3>2
    <3>4. \A b \in 1 .. N : c[0][b] = 0 /\ c[k][b] = IF b <= m THEN Len(q[b]) ELSE 0
      BY <2>2 DEF Shares, k, N
    <3> QED
      BY <3>1, <3>3, <3>4
  <2>6. h \in [0 .. Len(s) -> [1 .. N -> Nat]]
    <3>1. ASSUME NEW n \in 0 .. Len(s)
          PROVE  (IF n <= k THEN c[n] ELSE [b \in 1 .. N |-> IF b = m + 1 THEN n - k ELSE c[k][b]]) \in [1 .. N -> Nat]
      <4>1. CASE n <= k
        BY <2>3, <2>5, <4>1
      <4>2. CASE ~(n <= k)
        <5>1. n - k \in Nat
          BY <2>3, <4>2
        <5> QED
          BY <2>5, <4>2, <5>1
      <4> QED
        BY <4>1, <4>2
    <3> QED
      BY <3>1
  <2> HIDE DEF h
  <2>7. ASSUME NEW b \in 1 .. N PROVE h[0][b] = 0 /\ h[Len(s)][b] = IF b <= m + 1 THEN Len(q[b]) ELSE 0
    <3>1. h[0][b] = 0
      BY <2>3, <2>4, <2>5
    <3>2. CASE Len(x) = 0
      <4>1. h[Len(s)] = c[k]
        <5>1. Len(s) = k /\ k \in 0 .. k
          BY <2>3, <3>2
        <5> QED
          BY <2>4, <5>1
      <4>2. c[k][b] = IF b <= m THEN Len(q[b]) ELSE 0
        BY <2>5
      <4>3. CASE b = m + 1
        BY <3>1, <3>2, <4>1, <4>2, <4>3
      <4>4. CASE b # m + 1
        <5>1. b <= m <=> b <= m + 1
          BY <4>4
        <5> QED
          BY <3>1, <4>1, <4>2, <5>1
      <4> QED
        BY <4>3, <4>4
    <3>3. CASE Len(x) # 0
      <4>1. h[Len(s)] = [d \in 1 .. N |-> IF d = m + 1 THEN Len(x) ELSE c[k][d]]
        <5>1. Len(s) \in k + 1 .. Len(s) /\ Len(s) - k = Len(x)
          BY <2>3, <3>3
        <5> QED
          BY <2>4, <5>1
      <4>2. h[Len(s)][b] = IF b = m + 1 THEN Len(x) ELSE c[k][b]
        BY <4>1
      <4>3. c[k][b] = IF b <= m THEN Len(q[b]) ELSE 0
        BY <2>5
      <4>4. CASE b = m + 1
        BY <3>1, <4>2, <4>4
      <4>5. CASE b # m + 1
        <5>1. b <= m <=> b <= m + 1
          BY <4>5
        <5> QED
          BY <3>1, <4>2, <4>3, <4>5, <5>1
      <4> QED
        BY <4>4, <4>5
    <3> QED
      BY <3>2, <3>3
  <2> HIDE DEF x
  <2>8. ASSUME NEW n \in 1 .. Len(s) PROVE \E b \in 1 .. N : Draw(h, q, s, n, b)
    <3>1. CASE n <= k
      <4>1. n \in 1 .. k
        BY <3>1, <2>3
      <4>2. PICK b \in 1 .. N : Draw(c, q, r, n, b)
        BY <2>2, <4>1 DEF Shares, k, N
      <4>3. h[n] = c[n] /\ h[n - 1] = c[n - 1] /\ s[n] = r[n]
        BY <2>3, <2>4, <3>1
      <4>4. Draw(h, q, s, n, b)
        BY <4>2, <4>3 DEF Draw
      <4> QED
        BY <4>4
    <3>2. CASE ~(n <= k)
      <4> DEFINE b == m + 1
      <4>1. b \in 1 .. N /\ n \in k + 1 .. Len(s) /\ n - k \in 1 .. Len(x)
        BY <1>1, <2>1, <2>3, <3>2
      <4>8. s[n] = q[b][n - k]
        BY <2>3, <3>2, <4>1 DEF x
      <4>2. h[n] = [d \in 1 .. N |-> IF d = m + 1 THEN n - k ELSE c[k][d]]
        BY <2>4, <4>1
      <4>3. h[n - 1] = [d \in 1 .. N |-> IF d = m + 1 THEN n - 1 - k ELSE c[k][d]]
        <5>1. CASE n = k + 1
          <6>1. h[n - 1] = c[k] /\ n - 1 - k = 0 /\ c[k][b] = 0
            BY <2>3, <2>4, <2>5, <4>1, <5>1
          <6>2. c[k] = [d \in 1 .. N |-> IF d = m + 1 THEN 0 ELSE c[k][d]]
            BY <2>5, <6>1
          <6> QED
            BY <6>1, <6>2
        <5>2. CASE n # k + 1
          <6>1. n - 1 \in k + 1 .. Len(s)
            BY <2>3, <4>1, <5>2
          <6> QED
            BY <2>4, <6>1
        <5> QED
          BY <5>1, <5>2
      <4>4. h[n - 1][b] = n - 1 - k /\ h[n][b] = n - k
        BY <4>1, <4>2, <4>3
      <4>5. n - 1 - k < Len(x) /\ (n - 1 - k) + 1 = n - k
        BY <2>3, <4>1
      <4>6. \A d \in 1 .. N : d # b => h[n][d] = h[n - 1][d]
        BY <4>2, <4>3
      <4>7. Draw(h, q, s, n, b)
        <5> HIDE DEF b
        <5>1. n - 1 - k < Len(q[b])
          BY <4>5 DEF x, b
        <5> QED
          BY <4>1, <4>4, <4>5, <4>6, <4>8, <5>1 DEF Draw, N
      <4> QED
        BY <4>1, <4>7
    <3> QED
      BY <3>1, <3>2
  <2>9. h \in Shares(q, s, m + 1)
    BY <2>6, <2>7, <2>8 DEF Shares, N
  <2> QED
    BY <2>9 DEF s
<1>5. N \in A
  <2> HIDE DEF A
  <2> QED
    BY <1>1, <1>3, <1>4, Induction
<1> QED
  BY <1>1, <1>2, <1>5 DEF N

\* A sequence of elements of some set is one of its own elements.
LEMMA OwnElements ==
  ASSUME NEW S, NEW q \in Seq(S)
  PROVE  /\ q \in Seq(ToSet(q))
         /\ DOMAIN q = 1 .. Len(q) /\ Len(q) \in Nat
         /\ ToSet(q) \subseteq S
BY DEF ToSet

\* A sequence of elements of a set is one of elements of a larger one.
LEMMA Elements ==
  ASSUME NEW S, NEW T, S \subseteq T, NEW q \in Seq(S)
  PROVE  /\ q \in Seq(T)
         /\ DOMAIN q = 1 .. Len(q) /\ Len(q) \in Nat
         /\ \A k \in 1 .. Len(q) : q[k] \in S
OBVIOUS

\* A first element for another, and one more in front.
LEMMA Replaced ==
  ASSUME NEW s, s \in Seq(ToSet(s)), s # <<>>, NEW x
  PROVE  LET r == <<x>> \o Tail(s)
         IN  /\ r \in Seq(ToSet(r))
             /\ Len(r) = Len(s) /\ r[1] = x
             /\ \A k \in 2 .. Len(s) : r[k] = s[k]
<1> DEFINE r == <<x>> \o Tail(s)
           S == ToSet(s) \cup {x}
<1>1. s \in Seq(S) /\ Tail(s) \in Seq(S) /\ Len(Tail(s)) = Len(s) - 1 /\ Len(s) \in Nat \ {0}
      /\ \A k \in 1 .. Len(s) - 1 : Tail(s)[k] = s[k + 1]
  OBVIOUS
<1>2. <<x>> \in Seq(S) /\ Len(<<x>>) = 1 /\ <<x>>[1] = x
  OBVIOUS
<1> HIDE DEF S
<1>3. /\ r \in Seq(S) /\ Len(r) = Len(s)
      /\ \A k \in 1 .. Len(s) : r[k] = IF k <= 1 THEN <<x>>[k] ELSE Tail(s)[k - 1]
  BY <1>1, <1>2, ConcatProperties
<1>4. \A k \in 2 .. Len(s) : r[k] = s[k]
  BY <1>1, <1>3
<1>5. r[1] = x
  BY <1>1, <1>2, <1>3
<1> HIDE DEF r
<1>6. r \in Seq(ToSet(r))
  BY <1>3, OwnElements
<1> QED
  BY <1>3, <1>4, <1>5, <1>6 DEF r

LEMMA Pushed ==
  ASSUME NEW s, s \in Seq(ToSet(s)), NEW x
  PROVE  LET r == <<x>> \o s
         IN  /\ r \in Seq(ToSet(r))
             /\ Len(r) = Len(s) + 1 /\ r[1] = x
             /\ \A k \in 1 .. Len(s) : r[k + 1] = s[k]
<1> DEFINE r == <<x>> \o s
           S == ToSet(s) \cup {x}
<1>1. s \in Seq(S) /\ Len(s) \in Nat
  OBVIOUS
<1>2. <<x>> \in Seq(S) /\ Len(<<x>>) = 1 /\ <<x>>[1] = x
  OBVIOUS
<1> HIDE DEF S
<1>3. /\ r \in Seq(S) /\ Len(r) = Len(s) + 1
      /\ \A k \in 1 .. Len(s) + 1 : r[k] = IF k <= 1 THEN <<x>>[k] ELSE s[k - 1]
  BY <1>1, <1>2, ConcatProperties
<1>4. \A k \in 1 .. Len(s) : r[k + 1] = s[k]
  BY <1>1, <1>3
<1>5. r[1] = x
  BY <1>1, <1>2, <1>3
<1> HIDE DEF r
<1>6. r \in Seq(ToSet(r))
  BY <1>3, OwnElements
<1> QED
  BY <1>3, <1>4, <1>5, <1>6 DEF r

LEMMA Popped ==
  ASSUME NEW s, s \in Seq(ToSet(s)), Len(s) > 1, NEW x
  PROVE  LET r == <<x>> \o SubSeq(s, 3, Len(s))
         IN  /\ r \in Seq(ToSet(r))
             /\ Len(r) = Len(s) - 1 /\ r[1] = x
             /\ \A k \in 2 .. Len(s) - 1 : r[k] = s[k + 1]
<1> DEFINE r == <<x>> \o SubSeq(s, 3, Len(s))
           S == ToSet(s) \cup {x}
<1>1. s \in Seq(S) /\ Len(s) \in Nat
  OBVIOUS
<1>2. <<x>> \in Seq(S) /\ Len(<<x>>) = 1 /\ <<x>>[1] = x
  OBVIOUS
<1> HIDE DEF S
<1>3. /\ SubSeq(s, 3, Len(s)) \in Seq(S) /\ Len(SubSeq(s, 3, Len(s))) = Len(s) - 2
      /\ \A k \in 1 .. Len(s) - 2 : SubSeq(s, 3, Len(s))[k] = s[k + 2]
  <2>1. 3 \in Int /\ Len(s) \in Int /\ \A i \in 3 .. Len(s) : s[i] \in S
    BY <1>1
  <2> DEFINE q == SubSeq(s, 3, Len(s))
  <2>2. /\ q \in Seq(S) /\ Len(q) = IF 3 <= Len(s) THEN Len(s) - 3 + 1 ELSE 0
        /\ \A k \in 1 .. Len(s) - 3 + 1 : q[k] = s[3 + k - 1]
    BY <2>1, SubSeqProperties
  <2> HIDE DEF q
  <2>3. \A k \in 1 .. Len(s) - 2 : q[k] = s[k + 2]
    BY <1>1, <2>2
  <2>4. Len(q) = Len(s) - 2
    <3> DEFINE n == Len(s)
    <3>1. n \in Nat /\ n > 1 /\ Len(q) = IF 3 <= n THEN n - 3 + 1 ELSE 0
      BY <1>1, <2>2
    <3> HIDE DEF n
    <3>2. Len(q) = n - 2
      BY <3>1
    <3> QED
      BY <3>2 DEF n
  <2> QED
    BY <2>2, <2>3, <2>4 DEF q
<1>4. /\ r \in Seq(S) /\ Len(r) = Len(s) - 1
      /\ \A k \in 1 .. Len(s) - 1 : r[k] = IF k <= 1 THEN <<x>>[k] ELSE SubSeq(s, 3, Len(s))[k - 1]
  BY <1>1, <1>2, <1>3, ConcatProperties
<1>5. \A k \in 2 .. Len(s) - 1 : r[k] = s[k + 1]
  BY <1>1, <1>3, <1>4
<1>6. r[1] = x
  BY <1>1, <1>2, <1>4
<1> HIDE DEF r
<1>7. r \in Seq(ToSet(r))
  BY <1>4, OwnElements
<1> QED
  BY <1>4, <1>5, <1>6, <1>7 DEF r

\* A set of numbers up to a bound has a largest.
LEMMA Largest ==
  ASSUME NEW n \in Nat, NEW S \in SUBSET (1 .. n), S # {}
  PROVE  Max(S) \in S /\ \A m \in S : m <= Max(S)
<1> DEFINE Above == {k \in Nat : \A m \in S : m <= k}
<1>1. n \in Above
  OBVIOUS
<1>2. PICK k \in Above : \A m \in Above : k <= m
  <2> HIDE DEF Above
  <2>1. Above \in SUBSET Nat
    BY DEF Above
  <2> QED
    BY <1>1, <2>1, LeastNumber
<1>3. \A m \in S : m <= k /\ m \in Nat \ {0}
  BY <1>2
<1>4. k \in S
  <2>1. SUFFICES ASSUME k \notin S PROVE FALSE
    OBVIOUS
  <2>2. \A m \in S : m <= k - 1
    BY <1>2, <1>3, <2>1
  <2>3. k - 1 \in Nat
    <3>1. PICK m \in S : TRUE
      OBVIOUS
    <3>2. m \in Nat \ {0} /\ m <= k - 1 /\ k \in Nat
      BY <1>2, <1>3, <2>2
    <3> QED
      BY <3>2
  <2>4. k - 1 \in Above
    BY <2>2, <2>3
  <2> QED
    BY <1>2, <2>4
<1>5. \A m \in S : k >= m
  BY <1>2, <1>3
<1>6. \E x \in S : \A y \in S : x >= y
  BY <1>4, <1>5
<1>7. Max(S) \in S /\ \A y \in S : Max(S) >= y
  BY <1>6 DEF Max
<1> QED
  BY <1>3, <1>7
============================================================================
