-------------------------- MODULE KdlScannerProofs -------------------------
(***************************************************************************)
(* Proofs about KdlScanner, for every text.  What each reader of KdlLexer  *)
(* answers (Reads) comes first, then what one call of readNext does, and   *)
(* the invariant of the scanner (IInv), which keeps of its last two tokens *)
(* how they follow each other and how the last one was read.  Then every   *)
(* reader is compared with itself on the text of its token alone (Cut).    *)
(***************************************************************************)
EXTENDS KdlScanner, KdlSequenceProofs, FiniteSetTheorems

----------------------------------------------------------------------------
(* Characters and runs of characters.                                      *)

Characters == STRING \ {End}

IsScanner(x) ==
    /\ x.text \in Seq(Characters)
    /\ x.nginx \in BOOLEAN /\ x.yaml \in BOOLEAN /\ x.suffixes \in BOOLEAN

LEMMA Texts ==
  ASSUME NEW x, IsScanner(x)
  PROVE  /\ Len(x.text) \in Nat
         /\ DOMAIN x.text = 1 .. Len(x.text)
         /\ \A k \in 1 .. Len(x.text) : At(x, k) = x.text[k] /\ x.text[k] # End
         /\ \A k : k \notin 1 .. Len(x.text) => At(x, k) = End
BY DEF IsScanner, Characters, At

\* j is where the characters of S from i on stop.
Stops(x, S, i, j) ==
    /\ j \in i .. Len(x.text) + 1
    /\ \A k \in i .. j - 1 : At(x, k) \in S
    /\ At(x, j) \notin S

LEMMA OneStop ==
  ASSUME NEW x, NEW S, NEW i \in Int, NEW j, NEW k, Stops(x, S, i, j), Stops(x, S, i, k)
  PROVE  j = k
BY DEF Stops

LEMMA SomeStop ==
  ASSUME NEW x, IsScanner(x), NEW S, NEW i \in 1 .. Len(x.text) + 1,
         \E j \in i .. Len(x.text) + 1 : At(x, j) \notin S
  PROVE  \E j : Stops(x, S, i, j)
<1> DEFINE A == {j \in Nat : j \in i .. Len(x.text) + 1 /\ At(x, j) \notin S}
<1>1. Len(x.text) \in Nat
  BY Texts
<1>2. A \in SUBSET Nat /\ A # {}
  BY <1>1
<1>3. PICK j \in A : \A k \in A : j <= k
  <2> HIDE DEF A
  <2> QED
    BY <1>2, LeastNumber
<1>4. ASSUME NEW k \in i .. j - 1 PROVE At(x, k) \in S
  BY <1>1, <1>3
<1> QED
  BY <1>3, <1>4 DEF Stops

LEMMA RunStops ==
  ASSUME NEW x, IsScanner(x), NEW S, End \notin S, NEW i \in 1 .. Len(x.text) + 1
  PROVE  Stops(x, S, i, Run(x, S, i))
<1> DEFINE P(j) == /\ \A k \in i .. j - 1 : x.text[k] \in S
                   /\ At(x, j) \notin S
<1>1. Len(x.text) \in Nat /\ At(x, Len(x.text) + 1) = End
  BY Texts
<1>2. PICK j : Stops(x, S, i, j)
  BY <1>1, SomeStop
<1>3. \A m \in i .. Len(x.text) + 1 : P(m) <=> Stops(x, S, i, m)
  <2>1. \A m \in i .. Len(x.text) + 1 : \A k \in i .. m - 1 : At(x, k) = x.text[k]
    BY <1>1, Texts
  <2> QED
    BY <2>1 DEF Stops
<1>4. j \in i .. Len(x.text) + 1
  BY <1>2 DEF Stops
<1> DEFINE r == CHOOSE m \in i .. Len(x.text) + 1 : P(m)
<1>5. r \in i .. Len(x.text) + 1 /\ P(r)
  <2> HIDE DEF P
  <2> QED
    BY <1>2, <1>3, <1>4
<1>6. r = Run(x, S, i)
  BY DEF Run
<1> HIDE DEF r, P
<1> QED
  BY <1>3, <1>5, <1>6

LEMMA RunToStops ==
  ASSUME NEW x, IsScanner(x), NEW S, NEW i \in 1 .. Len(x.text) + 1,
         \E j \in i .. Len(x.text) + 1 : At(x, j) \in S
  PROVE  /\ RunTo(x, S, i) \in i .. Len(x.text) + 1
         /\ \A k \in i .. RunTo(x, S, i) - 1 : At(x, k) \notin S
         /\ At(x, RunTo(x, S, i)) \in S
<1> DEFINE P(j) == /\ \A k \in i .. j - 1 : x.text[k] \notin S
                   /\ At(x, j) \in S
           T == {At(x, k) : k \in i .. Len(x.text) + 1} \ S
<1>1. Len(x.text) \in Nat
  BY Texts
<1>2. PICK j : Stops(x, T, i, j)
  <2>1. \E j \in i .. Len(x.text) + 1 : At(x, j) \notin T
    OBVIOUS
  <2> HIDE DEF T
  <2> QED
    BY <2>1, SomeStop
<1>3. \A m \in i .. Len(x.text) + 1 : P(m) <=> /\ \A k \in i .. m - 1 : At(x, k) \notin S
                                               /\ At(x, m) \in S
  <2>1. \A m \in i .. Len(x.text) + 1 : \A k \in i .. m - 1 : At(x, k) = x.text[k]
    BY <1>1, Texts
  <2> QED
    BY <2>1
<1>4. j \in i .. Len(x.text) + 1 /\ P(j)
  <2>1. j \in i .. Len(x.text) + 1 /\ (\A k \in i .. j - 1 : At(x, k) \in T) /\ At(x, j) \notin T
    BY <1>2 DEF Stops
  <2>2. j \in i .. Len(x.text) + 1 /\ (\A k \in i .. j - 1 : At(x, k) \notin S) /\ At(x, j) \in S
    BY <2>1
  <2> QED
    BY <2>2, <1>3
<1> DEFINE r == CHOOSE m \in i .. Len(x.text) + 1 : P(m)
<1>5. r \in i .. Len(x.text) + 1 /\ P(r)
  <2> HIDE DEF P
  <2> QED
    BY <1>4
<1>6. r = RunTo(x, S, i)
  BY DEF RunTo
<1> HIDE DEF r, P
<1> QED
  BY <1>3, <1>5, <1>6

----------------------------------------------------------------------------
(* Raw strings, tripled quotes and comments are read by recursion.         *)

\* Where the content of a raw string goes on, and where it ends.
RawGoesOn(x, n, k) ==
    /\ At(x, k) \notin {End, Invalid}
    /\ ~(At(x, k) = "QUOTE" /\ Hashes(x, k + 1, n))
    /\ ~(At(x, k) \in NewlineChars /\ x.version = "V2")

RawEnds(x, i, n, k) ==
    /\ k \in i .. Len(x.text)
    /\ At(x, k) = "QUOTE" /\ Hashes(x, k + 1, n)
    /\ \A l \in i .. k - 1 : RawGoesOn(x, n, l)

LEMMA RawReads ==
  ASSUME NEW x, IsScanner(x), NEW id, NEW i \in 1 .. Len(x.text) + 1, NEW n \in Nat
  PROVE  /\ \A k : RawEnds(x, i, n, k) => rawContent(x, id, i, n) = Token(id, k + 1 + n)
         /\ (\A k : ~RawEnds(x, i, n, k)) => rawContent(x, id, i, n) = Error
<1> DEFINE hi == Len(x.text) + 1
           Q == {Error} \cup {Token(id, j) : j \in Int}
           F == [i .. hi -> Q]
           e(k, h) == CASE At(x, k) \in {End, Invalid} -> Error
                        [] At(x, k) = "QUOTE" /\ Hashes(x, k + 1, n) -> Token(id, k + 1 + n)
                        [] At(x, k) \in NewlineChars /\ x.version = "V2" -> Error
                        [] OTHER -> h[k + 1]
           step == [k \in i .. hi |-> [h \in F |-> e(k, h)]]
           read[k \in i .. hi] ==
               CASE At(x, k) \in {End, Invalid} -> Error
                 [] At(x, k) = "QUOTE" /\ Hashes(x, k + 1, n) -> Token(id, k + 1 + n)
                 [] At(x, k) \in NewlineChars /\ x.version = "V2" -> Error
                 [] OTHER -> read[k + 1]
<1>1. /\ Len(x.text) \in Nat /\ hi \in Int /\ i \in Int /\ i <= hi
      /\ \A k \in i .. hi : At(x, k) \notin {End, Invalid} => k < hi
      /\ \A k \in i .. Len(x.text) : k \in i .. hi /\ k + 1 \in i .. hi
  BY Texts
<1>2. rawContent(x, id, i, n) = read[i]
  BY DEF rawContent
<1> HIDE DEF read
<1>3. \A h : \A k \in i .. hi : e(k, h) = IF RawGoesOn(x, n, k) THEN h[k + 1]
                                      ELSE IF At(x, k) = "QUOTE" /\ Hashes(x, k + 1, n)
                                      THEN Token(id, k + 1 + n) ELSE Error
  BY DEF RawGoesOn, End, Invalid, NewlineChars
<1> HIDE DEF e, hi
<1>4. \A k \in i .. hi : RawGoesOn(x, n, k) => k + 1 \in i .. hi
  <2>1. \A k \in i .. hi : RawGoesOn(x, n, k) => k < hi
    BY <1>1 DEF RawGoesOn
  <2> QED
    BY <1>1, <2>1
<1>5. step \in Descents(i, hi, Q)
  <2>1. ASSUME NEW k \in i .. hi, NEW h \in F PROVE e(k, h) \in Q
    <3>1. k + 1 + n \in Int
      OBVIOUS
    <3>2. RawGoesOn(x, n, k) => h[k + 1] \in Q
      BY <1>4
    <3>3. Error \in Q /\ Token(id, k + 1 + n) \in Q
      BY <3>1
    <3> HIDE DEF Q
    <3> QED
      BY <1>3, <3>2, <3>3
  <2>2. ASSUME NEW k \in i .. hi, NEW g \in F, NEW h \in F, \A l \in k + 1 .. hi : g[l] = h[l]
        PROVE  e(k, g) = e(k, h)
    <3>1. RawGoesOn(x, n, k) => g[k + 1] = h[k + 1]
      BY <1>1, <1>4, <2>2
    <3> QED
      BY <1>3, <3>1
  <2> HIDE DEF Q
  <2>3. step \in [i .. hi -> [F -> Q]]
    BY <2>1
  <2>4. \A k \in i .. hi, h \in F : step[k][h] = e(k, h)
    OBVIOUS
  <2>5. ASSUME NEW k \in i .. hi, NEW g \in F, NEW h \in F, \A l \in k + 1 .. hi : g[l] = h[l]
        PROVE  step[k][g] = step[k][h]
    BY <2>2, <2>4, <2>5
  <2> HIDE DEF step
  <2> QED
    BY <2>3, <2>5 DEF Descents
<1>6. PICK f \in F : \A k \in i .. hi : f[k] = e(k, f)
  <2>1. Error \in Q
    OBVIOUS
  <2> HIDE DEF Q
  <2>2. \A k \in i .. hi, h \in F : step[k][h] = e(k, h)
    OBVIOUS
  <2> HIDE DEF step
  <2>3. Tables(i, hi, Q, step) # {}
    BY <1>1, <1>5, <2>1, DownwardRecursion
  <2> QED
    BY <2>2, <2>3 DEF Tables
<1>7. \A k \in i .. hi : read[k] = e(k, read)
  <2>1. f = [k \in i .. hi |-> e(k, f)]
    BY <1>6
  <2>2. read = CHOOSE h : h = [k \in i .. hi |-> e(k, h)]
    BY DEF read, e
  <2>3. read = [k \in i .. hi |-> e(k, read)]
    BY <2>1, <2>2
  <2> QED
    BY <2>3
<1> HIDE DEF F, Q, step
<1> DEFINE A == {k \in i .. hi :
                    /\ \A m : RawEnds(x, k, n, m) => read[k] = Token(id, m + 1 + n)
                    /\ (\A m : ~RawEnds(x, k, n, m)) => read[k] = Error}
<1>8. ASSUME NEW k \in i .. hi, k + 1 .. hi \subseteq A PROVE k \in A
  <2> HIDE DEF A
  <2>0. k \in Int /\ Len(x.text) \in Int
    BY <1>1
  <2> USE <2>0
  <2>1. read[k] = IF RawGoesOn(x, n, k) THEN read[k + 1]
                  ELSE IF At(x, k) = "QUOTE" /\ Hashes(x, k + 1, n)
                  THEN Token(id, k + 1 + n) ELSE Error
    BY <1>3, <1>7
  <2>2. CASE RawGoesOn(x, n, k)
    <3>1. k + 1 \in i .. hi /\ k + 1 \in A
      BY <1>1, <1>4, <1>8, <2>2
    <3>2. \A m : RawEnds(x, k, n, m) <=> RawEnds(x, k + 1, n, m)
      <4>1. ASSUME NEW m, RawEnds(x, k, n, m) PROVE RawEnds(x, k + 1, n, m)
        <5>1. m # k
          BY <2>2, <4>1 DEF RawEnds, RawGoesOn
        <5>2. m \in k .. Len(x.text)
          BY <4>1 DEF RawEnds
        <5>3. m \in k + 1 .. Len(x.text) /\ \A l \in k + 1 .. m - 1 : l \in k .. m - 1
          BY <5>1, <5>2
        <5> QED
          BY <4>1, <5>3 DEF RawEnds
      <4>2. ASSUME NEW m, RawEnds(x, k + 1, n, m) PROVE RawEnds(x, k, n, m)
        <5>2. m \in k + 1 .. Len(x.text)
          BY <4>2 DEF RawEnds
        <5>3. m \in k .. Len(x.text)
          BY <5>2
        <5>1. m \in k .. Len(x.text) /\ \A l \in k .. m - 1 : l = k \/ l \in k + 1 .. m - 1
          BY <5>2, <5>3
        <5> QED
          BY <2>2, <4>2, <5>1 DEF RawEnds
      <4> QED
        BY <4>1, <4>2
    <3> QED
      BY <2>1, <2>2, <3>1, <3>2 DEF A
  <2>3. CASE ~RawGoesOn(x, n, k)
    <3>1. ASSUME NEW m, RawEnds(x, k, n, m) PROVE m = k /\ At(x, k) = "QUOTE" /\ Hashes(x, k + 1, n)
      <4>1. m \in k .. Len(x.text) /\ \A l \in k .. m - 1 : RawGoesOn(x, n, l)
        BY <3>1 DEF RawEnds
      <4>2. m = k
        BY <2>3, <4>1
      <4> QED
        BY <3>1, <4>2 DEF RawEnds
    <3>2. ASSUME At(x, k) = "QUOTE", Hashes(x, k + 1, n) PROVE RawEnds(x, k, n, k)
      <4>1. k \in k .. Len(x.text)
        <5>1. At(x, k) # End
          BY <3>2 DEF End
        <5> QED
          BY <1>1, <5>1, Texts DEF hi
      <4>2. \A l : l \notin k .. k - 1
        OBVIOUS
      <4> QED
        BY <3>2, <4>1, <4>2 DEF RawEnds
    <3> QED
      BY <2>1, <2>3, <3>1, <3>2 DEF A
  <2> QED
    BY <2>2, <2>3
<1>9. i \in A
  <2> HIDE DEF A
  <2>1. i .. hi \subseteq A
    BY <1>1, <1>8, DownwardInduction
  <2> QED
    BY <1>1, <2>1
<1> QED
  BY <1>2, <1>9

\* A pair of characters that opens a comment, and one that closes it.
Opens(x, k) == At(x, k) = "/" /\ At(x, k + 1) = "*"
Closes(x, k) == At(x, k) = "*" /\ At(x, k + 1) = "/"

CommentResults == {Error} \cup {Token("MultiLineComment", j) : j \in Int}

\* What is read from k on at depth d, where h is what is read behind it.
CommentStep(x, k, d, h) ==
    CASE At(x, k) \in {End, Invalid} -> Error
      [] At(x, k) = "*" /\ At(x, k + 1) = "/" ->
             IF d = 1 THEN Token("MultiLineComment", k + 2) ELSE h[k + 2][d - 1]
      [] At(x, k) = "/" /\ At(x, k + 1) = "*" -> h[k + 2][d + 1]
      [] OTHER -> h[k + 1][d]

LEMMA CommentSteps ==
  ASSUME NEW x, NEW k, NEW d, NEW h
  PROVE  CommentStep(x, k, d, h) =
             IF At(x, k) \in {End, Invalid} THEN Error
             ELSE IF Closes(x, k)
             THEN IF d = 1 THEN Token("MultiLineComment", k + 2) ELSE h[k + 2][d - 1]
             ELSE IF Opens(x, k) THEN h[k + 2][d + 1] ELSE h[k + 1][d]
BY DEF CommentStep, Opens, Closes, End, Invalid

CommentTables(x, i) ==
    {h \in [i .. Len(x.text) + 1 -> [Int -> CommentResults]] :
        /\ \A k \in i .. Len(x.text) + 1, d \in Int : h[k][d] = CommentStep(x, k, d, h)
        /\ readMultiLineComment(x, i) = h[i][0]}

\* Where the readers that look at pairs go on is within the text.
LEMMA PairsAreInside ==
  ASSUME NEW x, IsScanner(x), NEW i \in 1 .. Len(x.text) + 1, NEW k \in i .. Len(x.text) + 1,
         At(x, k) \notin {End, Invalid}
  PROVE  /\ k \in i .. Len(x.text) /\ k + 1 \in i .. Len(x.text) + 1
         /\ At(x, k + 1) # End => k + 1 \in i .. Len(x.text) /\ k + 2 \in i .. Len(x.text) + 1
<1>1. Len(x.text) \in Nat /\ i \in Int /\ k \in Int
  BY Texts
<1>2. k # Len(x.text) + 1 /\ (At(x, k + 1) # End => k + 1 \in 1 .. Len(x.text))
  BY <1>1, Texts
<1> QED
  BY <1>1, <1>2

LEMMA CommentReads ==
  ASSUME NEW x, IsScanner(x), NEW i \in 1 .. Len(x.text) + 1
  PROVE  CommentTables(x, i) # {}
<1> DEFINE hi == Len(x.text) + 1
           T == [Int -> CommentResults]
           F == [i .. hi -> T]
           row(k, h) == [d \in Int |-> CommentStep(x, k, d, h)]
           step == [k \in i .. hi |-> [h \in F |-> row(k, h)]]
           read[k \in i .. Len(x.text) + 1] ==
               [depth \in Int |->
                   CASE At(x, k) \in {End, Invalid} -> Error
                     [] At(x, k) = "*" /\ At(x, k + 1) = "/" ->
                            IF depth = 1 THEN Token("MultiLineComment", k + 2)
                            ELSE read[k + 2][depth - 1]
                     [] At(x, k) = "/" /\ At(x, k + 1) = "*" -> read[k + 2][depth + 1]
                     [] OTHER -> read[k + 1][depth]]
<1>1. /\ Len(x.text) \in Nat /\ hi \in Int /\ i \in Int /\ i <= hi /\ 0 \in Int
      /\ \A k \in i .. hi : k \in Int
  BY Texts
<1>2. readMultiLineComment(x, i) = read[i][0]
  BY DEF readMultiLineComment
<1>3. \A k \in i .. hi : At(x, k) \notin {End, Invalid} =>
          k + 1 \in i .. hi /\ (Opens(x, k) \/ Closes(x, k) => k + 2 \in i .. hi)
  <2>1. \A k : Opens(x, k) \/ Closes(x, k) => At(x, k + 1) # End
    BY DEF Opens, Closes, End
  <2> QED
    BY <2>1, PairsAreInside
<1>6. ASSUME NEW k \in i .. hi, NEW g, NEW h, \A l \in k + 1 .. hi : g[l] = h[l]
      PROVE  row(k, g) = row(k, h)
  <2> HIDE DEF hi
  <2>1. /\ k + 1 \in i .. hi => k + 1 \in k + 1 .. hi
        /\ k + 2 \in i .. hi => k + 2 \in k + 1 .. hi
    BY <1>1
  <2>2. At(x, k) \notin {End, Invalid} =>
            g[k + 1] = h[k + 1] /\ (Opens(x, k) \/ Closes(x, k) => g[k + 2] = h[k + 2])
    BY <1>3, <1>6, <2>1
  <2>3. \A d \in Int : CommentStep(x, k, d, g) = CommentStep(x, k, d, h)
    BY <2>2, CommentSteps
  <2> QED
    BY <2>3
<1> HIDE DEF read, hi
<1>4. step \in Descents(i, hi, T)
  <2>1. ASSUME NEW k \in i .. hi, NEW h \in F, NEW d \in Int
        PROVE  CommentStep(x, k, d, h) \in CommentResults
    <3>1. k \in Int /\ k + 2 \in Int /\ d - 1 \in Int /\ d + 1 \in Int
      BY <1>1
    <3>2. Error \in CommentResults /\ Token("MultiLineComment", k + 2) \in CommentResults
      BY <3>1 DEF CommentResults
    <3> QED
      BY <1>3, <3>1, <3>2, CommentSteps
  <2>3. step \in [i .. hi -> [F -> T]]
    BY <2>1
  <2>4. \A k \in i .. hi, h \in F : step[k][h] = row(k, h)
    OBVIOUS
  <2>5. ASSUME NEW k \in i .. hi, NEW g \in F, NEW h \in F, \A l \in k + 1 .. hi : g[l] = h[l]
        PROVE  step[k][g] = step[k][h]
    <3> HIDE DEF step, row, F
    <3> QED
      BY <1>6, <2>4, <2>5
  <2> HIDE DEF step, T
  <2> QED
    BY <2>3, <2>5 DEF Descents
<1>5. PICK f \in F : \A k \in i .. hi : f[k] = row(k, f)
  <2>1. T # {}
    <3>1. [d \in Int |-> Error] \in T
      BY DEF CommentResults
    <3> QED
      BY <3>1
  <2>2. \A k \in i .. hi, h \in F : step[k][h] = row(k, h)
    OBVIOUS
  <2> HIDE DEF T, step, row
  <2>3. Tables(i, hi, T, step) # {}
    BY <1>1, <1>4, <2>1, DownwardRecursion
  <2> QED
    BY <2>2, <2>3 DEF Tables
<1>7. \A k \in i .. hi : read[k] = row(k, read)
  <2>1. f = [k \in i .. hi |-> row(k, f)]
    <3> HIDE DEF row
    <3> QED
      BY <1>5
  <2>2. read = CHOOSE h : h = [k \in i .. hi |-> row(k, h)]
    BY DEF read, CommentStep, hi
  <2> HIDE DEF row
  <2>3. read = [k \in i .. hi |-> row(k, read)]
    BY <2>1, <2>2
  <2> QED
    BY <2>3
<1> DEFINE A == {k \in i .. hi : read[k] = f[k]}
<1>8. i \in A
  <2>1. ASSUME NEW k \in i .. hi, k + 1 .. hi \subseteq A PROVE k \in A
    <3> HIDE DEF row
    <3>1. \A l \in k + 1 .. hi : read[l] = f[l]
      BY <2>1
    <3> QED
      BY <1>5, <1>6, <1>7, <3>1
  <2> HIDE DEF A
  <2>2. i .. hi \subseteq A
    BY <1>1, <2>1, DownwardInduction
  <2> QED
    BY <1>1, <2>2
<1>9. \A k \in i .. hi, d \in Int : f[k][d] = CommentStep(x, k, d, f)
  BY <1>5
<1>10. readMultiLineComment(x, i) = f[i][0]
  BY <1>2, <1>8
<1> QED
  BY <1>9, <1>10 DEF CommentTables, hi

\* How many of the n hashes that end a string stand from k on.
Matched(x, k, n) == CHOOSE l \in 0 .. n : Hashes(x, k, l) /\ (l = n \/ At(x, k + l) # "#")

LEMMA Matches ==
  ASSUME NEW x, NEW k \in Int, NEW n \in Nat
  PROVE  /\ Matched(x, k, n) \in 0 .. n
         /\ Hashes(x, k, Matched(x, k, n))
         /\ Matched(x, k, n) = n \/ At(x, k + Matched(x, k, n)) # "#"
<1> DEFINE A == {l \in Nat : l = n \/ At(x, k + l) # "#"}
           P(l) == Hashes(x, k, l) /\ (l = n \/ At(x, k + l) # "#")
<1>1. PICK l \in A : \A m \in A : l <= m
  <2>1. A \in SUBSET Nat /\ n \in A
    OBVIOUS
  <2> HIDE DEF A
  <2> QED
    BY <2>1, LeastNumber
<1>2. l \in 0 .. n
  BY <1>1
<1>3. ASSUME NEW m \in k .. k + l - 1 PROVE At(x, m) = "#"
  <2>1. m - k \in Nat /\ m - k < l /\ k + (m - k) = m
    BY <1>1, <1>3
  <2> QED
    BY <1>1, <2>1
<1>4. P(l)
  BY <1>1, <1>3 DEF Hashes
<1> DEFINE r == CHOOSE m \in 0 .. n : P(m)
<1>5. r \in 0 .. n /\ P(r)
  <2> HIDE DEF P
  <2> QED
    BY <1>2, <1>4
<1>6. r = Matched(x, k, n)
  BY DEF Matched
<1> HIDE DEF r
<1> QED
  BY <1>5, <1>6

LEMMA OneMatch ==
  ASSUME NEW x, NEW k \in Int, NEW n \in Nat, NEW l \in 0 .. n,
         Hashes(x, k, l), l = n \/ At(x, k + l) # "#"
  PROVE  Matched(x, k, n) = l
<1>1. PICK m \in 0 .. n : m = Matched(x, k, n) /\ Hashes(x, k, m) /\ (m = n \/ At(x, k + m) # "#")
  BY Matches
<1>2. CASE m < l
  <2>1. k + m \in k .. k + l - 1
    BY <1>2
  <2> QED
    BY <1>1, <1>2, <2>1 DEF Hashes
<1>3. CASE l < m
  <2>1. k + l \in k .. k + m - 1
    BY <1>3
  <2> QED
    BY <1>1, <1>3, <2>1 DEF Hashes
<1> QED
  BY <1>1, <1>2, <1>3

\* What is read from k on in a string between tripled quotes.
TripleStep(x, id, q, n, escapes, k, h) ==
    CASE At(x, k) \in {End, Invalid} -> Error
      [] At(x, k) = "\\" /\ escapes ->
             IF At(x, k + 1) \in {End, Invalid} THEN Error ELSE h[k + 2]
      [] At(x, k) = q /\ Tripled(x, q, k) ->
             IF Matched(x, k + 3, n) = n THEN Token(id, k + 3 + n)
             ELSE h[k + 3 + Matched(x, k + 3, n)]
      [] OTHER -> h[k + 1]

Quotes == {"QUOTE", "BACKTICK", "APOSTROPHE"}

LEMMA TripleSteps ==
  ASSUME NEW x, NEW id, NEW q \in Quotes, NEW n, NEW escapes, NEW k \in Int, NEW h
  PROVE  TripleStep(x, id, q, n, escapes, k, h) =
             IF At(x, k) \in {End, Invalid} THEN Error
             ELSE IF At(x, k) = "\\" /\ escapes
             THEN IF At(x, k + 1) \in {End, Invalid} THEN Error ELSE h[k + 2]
             ELSE IF Tripled(x, q, k)
             THEN IF Matched(x, k + 3, n) = n THEN Token(id, k + 3 + n)
                  ELSE h[k + 3 + Matched(x, k + 3, n)]
             ELSE h[k + 1]
<1>1. Tripled(x, q, k) => At(x, k) = q
  BY DEF Tripled
<1>2. q \notin {"\\", End, Invalid}
  BY DEF Quotes, End, Invalid
<1> QED
  BY <1>1, <1>2 DEF TripleStep, End, Invalid

\* Three quotes, and the hashes behind them, are within the text.
LEMMA QuotesAreInside ==
  ASSUME NEW x, IsScanner(x), NEW q \in Quotes, NEW k \in Int, Tripled(x, q, k),
         NEW l \in Nat, Hashes(x, k + 3, l)
  PROVE  k \in 1 .. Len(x.text) /\ k + 2 + l \in 1 .. Len(x.text)
<1>1. At(x, k) # End /\ At(x, k + 2) # End /\ (l > 0 => At(x, k + 2 + l) # End)
  <2>1. q # End /\ "#" # End
    BY DEF Quotes, End
  <2>2. At(x, k) = q /\ At(x, k + 2) = q
    BY DEF Tripled
  <2>3. l > 0 => At(x, k + 2 + l) = "#"
    <3>1. l > 0 => k + 2 + l \in k + 3 .. k + 3 + l - 1
      OBVIOUS
    <3> QED
      BY <3>1 DEF Hashes
  <2> QED
    BY <2>1, <2>2, <2>3
<1>2. Len(x.text) \in Nat /\ \A m : At(x, m) # End => m \in 1 .. Len(x.text)
  BY Texts
<1> QED
  BY <1>1, <1>2

StringResults(id) == {Error} \cup {Token(id, j) : j \in Int}

TripleTables(x, id, q, i, n, escapes) ==
    {h \in [i .. Len(x.text) + 1 -> StringResults(id)] :
        /\ \A k \in i .. Len(x.text) + 1 : h[k] = TripleStep(x, id, q, n, escapes, k, h)
        /\ tripleContent(x, id, q, i, n, escapes) = h[i]}

LEMMA TripleReads ==
  ASSUME NEW x, IsScanner(x), NEW id, NEW q \in Quotes, NEW i \in 1 .. Len(x.text) + 1,
         NEW n \in Nat, NEW escapes \in BOOLEAN
  PROVE  TripleTables(x, id, q, i, n, escapes) # {}
<1> DEFINE hi == Len(x.text) + 1
           T == StringResults(id)
           F == [i .. hi -> T]
           row(k, h) == TripleStep(x, id, q, n, escapes, k, h)
           step == [k \in i .. hi |-> [h \in F |-> row(k, h)]]
           tripled(k) == \A l \in k .. k + 2 : At(x, l) = q
           matched(k) == CHOOSE l \in 0 .. n : Hashes(x, k, l) /\ (l = n \/ At(x, k + l) # "#")
           read[k \in i .. Len(x.text) + 1] ==
               CASE At(x, k) \in {End, Invalid} -> Error
                 [] At(x, k) = "\\" /\ escapes ->
                        IF At(x, k + 1) \in {End, Invalid} THEN Error ELSE read[k + 2]
                 [] At(x, k) = q /\ tripled(k) ->
                        IF matched(k + 3) = n THEN Token(id, k + 3 + n)
                        ELSE read[k + 3 + matched(k + 3)]
                 [] OTHER -> read[k + 1]
<1>1. /\ Len(x.text) \in Nat /\ hi \in Int /\ i \in Int /\ i <= hi /\ hi = Len(x.text) + 1
      /\ \A k \in i .. hi : k \in Int
  BY Texts
<1>2. tripleContent(x, id, q, i, n, escapes) = read[i]
  BY DEF tripleContent
<1> HIDE DEF read, hi
<1>3. ASSUME NEW k \in i .. hi, At(x, k) \notin {End, Invalid}
      PROVE  /\ k + 1 \in i .. hi
             /\ At(x, k + 1) \notin {End, Invalid} => k + 2 \in i .. hi
             /\ Tripled(x, q, k) => k + 3 + Matched(x, k + 3, n) \in i .. hi
                                    /\ Matched(x, k + 3, n) \in Nat
  <2>1. k + 1 \in i .. hi /\ (At(x, k + 1) # End => k + 2 \in i .. hi)
    BY <1>3, PairsAreInside DEF hi
  <2>2. ASSUME Tripled(x, q, k)
        PROVE  k + 3 + Matched(x, k + 3, n) \in i .. hi /\ Matched(x, k + 3, n) \in Nat
    <3>1. PICK l \in 0 .. n : l = Matched(x, k + 3, n) /\ Hashes(x, k + 3, l)
      BY <1>1, Matches
    <3>2. k + 2 + l \in 1 .. Len(x.text)
      BY <1>1, <2>2, <3>1, QuotesAreInside
    <3>3. k + 3 + l \in i .. hi /\ l \in Nat
      BY <1>1, <3>2
    <3> QED
      BY <3>1, <3>3
  <2> QED
    BY <2>1, <2>2
<1>4. ASSUME NEW k \in i .. hi, NEW g, NEW h, \A l \in k + 1 .. hi : g[l] = h[l]
      PROVE  row(k, g) = row(k, h)
  <2>1. \A m \in Nat : /\ k + 1 \in i .. hi => k + 1 \in k + 1 .. hi
                       /\ k + 2 \in i .. hi => k + 2 \in k + 1 .. hi
                       /\ k + 3 + m \in i .. hi => k + 3 + m \in k + 1 .. hi
    BY <1>1
  <2>2. At(x, k) \notin {End, Invalid} =>
            /\ g[k + 1] = h[k + 1]
            /\ At(x, k + 1) \notin {End, Invalid} => g[k + 2] = h[k + 2]
            /\ Tripled(x, q, k) => g[k + 3 + Matched(x, k + 3, n)] = h[k + 3 + Matched(x, k + 3, n)]
    BY <1>3, <1>4, <2>1
  <2> QED
    BY <1>1, <2>2, TripleSteps
<1>5. step \in Descents(i, hi, T)
  <2>1. ASSUME NEW k \in i .. hi, NEW h \in F PROVE row(k, h) \in T
    <3>1. k + 3 + n \in Int
      BY <1>1
    <3>2. Error \in T /\ Token(id, k + 3 + n) \in T
      BY <3>1 DEF StringResults
    <3>3. \A m \in i .. hi : h[m] \in T
      OBVIOUS
    <3> HIDE DEF T, F
    <3> QED
      BY <1>1, <1>3, <3>2, <3>3, TripleSteps
  <2> HIDE DEF row, T
  <2>3. step \in [i .. hi -> [F -> T]]
    BY <2>1
  <2>4. \A k \in i .. hi, h \in F : step[k][h] = row(k, h)
    OBVIOUS
  <2>5. ASSUME NEW k \in i .. hi, NEW g \in F, NEW h \in F, \A l \in k + 1 .. hi : g[l] = h[l]
        PROVE  step[k][g] = step[k][h]
    <3> HIDE DEF step, F
    <3> QED
      BY <1>4, <2>4, <2>5
  <2> HIDE DEF step
  <2> QED
    BY <2>3, <2>5 DEF Descents
<1>6. PICK f \in F : \A k \in i .. hi : f[k] = row(k, f)
  <2>1. Error \in T
    BY DEF StringResults
  <2> HIDE DEF T, row
  <2>2. \A k \in i .. hi, h \in F : step[k][h] = row(k, h)
    OBVIOUS
  <2> HIDE DEF step
  <2>3. Tables(i, hi, T, step) # {}
    BY <1>1, <1>5, <2>1, DownwardRecursion
  <2> QED
    BY <2>2, <2>3 DEF Tables
<1>7. \A k \in i .. hi : read[k] = row(k, read)
  <2>1. f = [k \in i .. hi |-> row(k, f)]
    <3> HIDE DEF row
    <3> QED
      BY <1>6
  <2>2. read = CHOOSE h : h = [k \in i .. hi |-> row(k, h)]
    BY DEF read, TripleStep, hi, Matched, Tripled
  <2> HIDE DEF row
  <2>3. read = [k \in i .. hi |-> row(k, read)]
    BY <2>1, <2>2
  <2> QED
    BY <2>3
<1> DEFINE A == {k \in i .. hi : read[k] = f[k]}
<1>8. i \in A
  <2>1. ASSUME NEW k \in i .. hi, k + 1 .. hi \subseteq A PROVE k \in A
    <3> HIDE DEF row
    <3>1. \A l \in k + 1 .. hi : read[l] = f[l]
      BY <2>1
    <3> QED
      BY <1>4, <1>6, <1>7, <3>1
  <2> HIDE DEF A, F, T, row, step
  <2>3. i \in Int /\ hi \in Int
    BY <1>1
  <2>2. i .. hi \subseteq A
    BY <2>1, <2>3, DownwardInduction
  <2> QED
    BY <1>1, <2>2
<1>9. tripleContent(x, id, q, i, n, escapes) = f[i]
  BY <1>2, <1>8
<1> QED
  BY <1>6, <1>9 DEF TripleTables, hi

----------------------------------------------------------------------------
(* What a reader answers: an error, a token that is not empty, or the end  *)
(* of the input, with no separator before it.                              *)

Unseparated(x, i) == \A k \in i .. Len(x.text) : At(x, k) \notin Separators

Reads(x, i, ids, o) ==
    \/ o = Error
    \/ o = Ended /\ Unseparated(x, i)
    \/ \E id \in ids, j \in i + 1 .. Len(x.text) + 1 : o = Token(id, j)

LEMMA OutcomesDiffer ==
  /\ Failed(Error) /\ Failed(Ended) /\ Error.err = "error" /\ Ended.err = "eof" /\ Error # Ended
  /\ \A id, j : ~Failed(Token(id, j)) /\ Token(id, j).id = id /\ Token(id, j).to = j
                /\ Token(id, j) # Error /\ Token(id, j) # Ended
  /\ \A id, j, id2, j2 : Token(id, j) = Token(id2, j2) => id = id2 /\ j = j2
BY DEF Failed, Error, Ended, Token

LEMMA ReadsMore ==
  ASSUME NEW x, NEW i, NEW ids, NEW o, Reads(x, i, ids, o), NEW all, ids \subseteq all
  PROVE  Reads(x, i, all, o)
BY DEF Reads

LEMMA OneToken ==
  ASSUME NEW x, NEW i, NEW id, NEW ids, id \in ids, NEW j \in i + 1 .. Len(x.text) + 1
  PROVE  Reads(x, i, ids, Token(id, j))
BY DEF Reads

LEMMA ErrorReads == ASSUME NEW x, NEW i, NEW ids PROVE Reads(x, i, ids, Error)
BY DEF Reads

\* A character that is there.
LEMMA Within ==
  ASSUME NEW x, IsScanner(x), NEW i \in Int, At(x, i) # End
  PROVE  i \in 1 .. Len(x.text) /\ i + 1 \in 1 .. Len(x.text) + 1
<1>1. Len(x.text) \in Nat /\ (i \notin 1 .. Len(x.text) => At(x, i) = End)
  BY Texts
<1> QED
  BY <1>1

LEMMA LookErrorReads ==
  ASSUME NEW x, IsScanner(x), NEW i \in 1 .. Len(x.text) + 1, NEW ids, NEW c, c = End => Unseparated(x, i)
  PROVE  Reads(x, i, ids, LookError(c))
BY DEF LookError, Reads

LEMMA WhileReads ==
  ASSUME NEW x, IsScanner(x), NEW S, End \notin S, NEW i \in 1 .. Len(x.text) + 1, NEW id, NEW min
  PROVE  LET j == Run(x, S, i)
         IN  \/ readWhile(x, id, S, i, min) = Error
             \/ /\ readWhile(x, id, S, i, min) = Token(id, j)
                /\ Stops(x, S, i, j) /\ j \in i + 1 .. Len(x.text) + 1 /\ At(x, j) # Invalid
<1> DEFINE j == Run(x, S, i)
<1>1. Stops(x, S, i, j)
  BY RunStops
<1>2. Len(x.text) \in Nat /\ i \in Int /\ j \in i .. Len(x.text) + 1
  BY <1>1, Texts DEF Stops
<1>3. j # i => j \in i + 1 .. Len(x.text) + 1
  BY <1>2
<1>4. readWhile(x, id, S, i, min) =
          IF At(x, j) = Invalid \/ j = i \/ j - i < min THEN Error ELSE Token(id, j)
  BY DEF readWhile
<1> HIDE DEF j
<1> QED
  BY <1>1, <1>3, <1>4 DEF j

LEMMA WhileIsRead ==
  ASSUME NEW x, IsScanner(x), NEW S, End \notin S, NEW i \in 1 .. Len(x.text) + 1, NEW id, NEW min
  PROVE  Reads(x, i, {id}, readWhile(x, id, S, i, min))
BY WhileReads DEF Reads

LEMMA LineCommentReads ==
  ASSUME NEW x, IsScanner(x), NEW i \in 1 .. Len(x.text), At(x, i) \in {"/", "#"}
  PROVE  LET j == RunTo(x, NewlineChars \cup {Invalid, End}, i)
         IN  /\ \/ readSingleLineComment(x, i) = Error /\ At(x, j) = Invalid
                \/ readSingleLineComment(x, i) = Token("SingleLineComment", j) /\ At(x, j) # Invalid
             /\ j \in i + 1 .. Len(x.text) + 1
             /\ \A k \in i .. j - 1 : At(x, k) \notin NewlineChars \cup {Invalid, End}
             /\ At(x, j) \in NewlineChars \cup {Invalid, End}
<1> DEFINE S == NewlineChars \cup {Invalid, End}
           j == RunTo(x, S, i)
<1>1. Len(x.text) \in Nat /\ i \in 1 .. Len(x.text) + 1 /\ At(x, Len(x.text) + 1) \in S
  BY Texts
<1>2. j \in i .. Len(x.text) + 1 /\ (\A k \in i .. j - 1 : At(x, k) \notin S) /\ At(x, j) \in S
  <2>1. Len(x.text) + 1 \in i .. Len(x.text) + 1
    BY <1>1
  <2> HIDE DEF S
  <2> QED
    BY <1>1, <2>1, RunToStops
<1>3. j # i
  BY <1>2 DEF NewlineChars, Invalid, End
<1>4. readSingleLineComment(x, i) = IF At(x, j) = Invalid THEN Error ELSE Token("SingleLineComment", j)
  BY DEF readSingleLineComment
<1> HIDE DEF j
<1>5. j \in i + 1 .. Len(x.text) + 1
  BY <1>1, <1>2, <1>3
<1> QED
  BY <1>2, <1>4, <1>5 DEF j

LEMMA CommentEnds ==
  ASSUME NEW x, IsScanner(x), NEW i \in 1 .. Len(x.text) + 1, NEW h \in CommentTables(x, i),
         NEW k \in i .. Len(x.text) + 1, NEW d \in Int
  PROVE  \/ h[k][d] = Error
         \/ \E j \in k + 2 .. Len(x.text) + 1 :
                h[k][d] = Token("MultiLineComment", j) /\ Closes(x, j - 2)
<1> DEFINE hi == Len(x.text) + 1
           Settled(m, b) == \/ h[m][b] = Error
                           \/ \E j \in m + 2 .. hi :
                                 h[m][b] = Token("MultiLineComment", j) /\ Closes(x, j - 2)
           A == {m \in i .. hi : \A b \in Int : Settled(m, b)}
<1>1. i \in Int /\ hi \in Int
  BY Texts
<1>2. ASSUME NEW m \in i .. hi, m + 1 .. hi \subseteq A PROVE m \in A
  <2>1. SUFFICES ASSUME NEW b \in Int PROVE Settled(m, b)
    OBVIOUS
  <2>2. h[m][b] = CommentStep(x, m, b, h) /\ m \in Int /\ b - 1 \in Int /\ b + 1 \in Int
    BY <1>1 DEF CommentTables
  <2>3. \A l \in m + 1 .. hi, c \in Int : h[m][b] = h[l][c] => Settled(m, b)
    <3>1. ASSUME NEW l \in m + 1 .. hi, NEW c \in Int, h[m][b] = h[l][c] PROVE Settled(m, b)
      <4>1. Settled(l, c)
        BY <1>2, <3>1
      <4>2. \A j \in l + 2 .. hi : j \in m + 2 .. hi
        BY <1>1, <2>2
      <4> QED
        BY <3>1, <4>1, <4>2
    <3> QED
      BY <3>1
  <2>4. At(x, m) \notin {End, Invalid} =>
           /\ m + 1 \in m + 1 .. hi
           /\ Opens(x, m) \/ Closes(x, m) => m + 2 \in m + 1 .. hi /\ m + 2 \in m + 2 .. hi
    <3>1. Opens(x, m) \/ Closes(x, m) => At(x, m + 1) # End
      BY DEF Opens, Closes, End
    <3>2. At(x, m) \notin {End, Invalid} =>
              m + 1 \in i .. hi /\ (At(x, m + 1) # End => m + 2 \in i .. hi)
      BY PairsAreInside
    <3> HIDE DEF hi
    <3> QED
      BY <1>1, <2>2, <3>1, <3>2
  <2>5. m + 2 - 2 = m
    BY <2>2
  <2>6. CASE Closes(x, m) /\ h[m][b] = Token("MultiLineComment", m + 2) /\ At(x, m) \notin {End, Invalid}
    BY <2>4, <2>5, <2>6
  <2> HIDE DEF Settled, hi
  <2>7. h[m][b] = Error => Settled(m, b)
    BY DEF Settled
  <2> QED
    BY <2>2, <2>3, <2>4, <2>6, <2>7, CommentSteps
<1>3. i .. hi \subseteq A
  <2> HIDE DEF A, hi
  <2> QED
    BY <1>1, <1>2, DownwardInduction
<1> QED
  BY <1>3

LEMMA TripleIsRead ==
  ASSUME NEW x, IsScanner(x), NEW id, NEW q \in Quotes, NEW i \in 1 .. Len(x.text) + 1,
         NEW n \in Nat, NEW escapes \in BOOLEAN
  PROVE  \/ tripleContent(x, id, q, i, n, escapes) = Error
         \/ \E j \in i + 1 .. Len(x.text) + 1 : tripleContent(x, id, q, i, n, escapes) = Token(id, j)
<1>4. PICK h \in TripleTables(x, id, q, i, n, escapes) : TRUE
  BY TripleReads
<1> DEFINE hi == Len(x.text) + 1
           Settled(m) == h[m] = Error \/ \E j \in m + 1 .. hi : h[m] = Token(id, j)
           A == {m \in i .. hi : Settled(m)}
<1>1. i \in Int /\ hi \in Int
  BY Texts
<1>2. ASSUME NEW m \in i .. hi, m + 1 .. hi \subseteq A PROVE m \in A
  <2>1. h[m] = TripleStep(x, id, q, n, escapes, m, h) /\ m \in Int
    BY <1>1 DEF TripleTables
  <2>2. \A l \in m + 1 .. hi : h[m] = h[l] => Settled(m)
    <3>1. ASSUME NEW l \in m + 1 .. hi, h[m] = h[l] PROVE Settled(m)
      <4>1. Settled(l)
        BY <1>2, <3>1
      <4>2. \A j \in l + 1 .. hi : j \in m + 1 .. hi
        BY <1>1, <2>1
      <4> QED
        BY <3>1, <4>1, <4>2
    <3> QED
      BY <3>1
  <2>3. At(x, m) \notin {End, Invalid} =>
           m + 1 \in m + 1 .. hi /\ (At(x, m + 1) # End => m + 2 \in m + 1 .. hi)
    <3>1. At(x, m) \notin {End, Invalid} =>
              m + 1 \in i .. hi /\ (At(x, m + 1) # End => m + 2 \in i .. hi)
      BY PairsAreInside
    <3> HIDE DEF hi
    <3> QED
      BY <1>1, <2>1, <3>1
  <2>4. Tripled(x, q, m) => m + 3 + Matched(x, m + 3, n) \in m + 1 .. hi
    <3>1. PICK l \in 0 .. n : l = Matched(x, m + 3, n) /\ Hashes(x, m + 3, l)
      BY <2>1, Matches
    <3>2. Tripled(x, q, m) => m + 2 + l \in 1 .. Len(x.text)
      BY <2>1, <3>1, QuotesAreInside
    <3>3. Tripled(x, q, m) => m + 3 + l \in m + 1 .. hi
      BY <1>1, <2>1, <3>2
    <3> QED
      BY <3>1, <3>3
  <2>5. ASSUME NEW l \in m + 1 .. hi, h[m] = Token(id, l) PROVE Settled(m)
    BY <2>5
  <2> HIDE DEF Settled, hi
  <2>7. h[m] = Error => Settled(m)
    BY DEF Settled
  <2>8. Settled(m)
    BY <2>1, <2>2, <2>3, <2>4, <2>5, <2>7, TripleSteps
  <2> QED
    BY <2>8
<1>3. i .. hi \subseteq A
  <2> HIDE DEF A, hi
  <2> QED
    BY <1>1, <1>2, DownwardInduction
<1>5. i \in i .. hi
  BY Texts
<1> QED
  BY <1>3, <1>5 DEF TripleTables

LEMMA CommentIsRead ==
  ASSUME NEW x, IsScanner(x), NEW i \in 1 .. Len(x.text) + 1
  PROVE  Reads(x, i, {"MultiLineComment"}, readMultiLineComment(x, i))
<1>1. PICK h \in CommentTables(x, i) : TRUE
  BY CommentReads
<1>2. readMultiLineComment(x, i) = h[i][0] /\ i \in i .. Len(x.text) + 1 /\ 0 \in Int
  BY Texts DEF CommentTables
<1>3. \/ h[i][0] = Error
      \/ \E j \in i + 2 .. Len(x.text) + 1 : h[i][0] = Token("MultiLineComment", j)
  BY <1>2, CommentEnds
<1>4. \A j \in i + 2 .. Len(x.text) + 1 : j \in i + 1 .. Len(x.text) + 1
  BY Texts
<1> QED
  BY <1>2, <1>3, <1>4 DEF Reads

LEMMA RawIsRead ==
  ASSUME NEW x, IsScanner(x), NEW id, NEW i \in 1 .. Len(x.text) + 1, NEW n \in Nat
  PROVE  Reads(x, i, {id}, rawContent(x, id, i, n))
<1>1. CASE \A k : ~RawEnds(x, i, n, k)
  BY <1>1, RawReads DEF Reads
<1>2. CASE \E k : RawEnds(x, i, n, k)
  <2>1. PICK k : RawEnds(x, i, n, k)
    BY <1>2
  <2>2. k \in i .. Len(x.text) /\ At(x, k) # End /\ Hashes(x, k + 1, n) /\ Len(x.text) \in Nat
    BY <2>1, Texts DEF RawEnds, End
  <2>3. n > 0 => k + n \in 1 .. Len(x.text)
    <3>1. n > 0 => k + n \in k + 1 .. k + 1 + n - 1
      BY <2>2
    <3>2. n > 0 => At(x, k + n) # End
      BY <2>2, <3>1 DEF Hashes, End
    <3> QED
      BY <2>2, <3>2, Within
  <2>4. k + 1 + n \in i + 1 .. Len(x.text) + 1
    BY <2>2, <2>3
  <2>5. rawContent(x, id, i, n) = Token(id, k + 1 + n)
    BY <2>1, RawReads
  <2> QED
    BY <2>4, <2>5, OneToken
<1> QED
  BY <1>1, <1>2

\* What is read from further on, with the same token's end.
LEMMA ReadsFrom ==
  ASSUME NEW x, IsScanner(x), NEW i \in Int, NEW k \in Int, i <= k, NEW ids, NEW o, Reads(x, k, ids, o),
         o = Ended => Unseparated(x, i)
  PROVE  Reads(x, i, ids, o)
<1>1. \A j \in k + 1 .. Len(x.text) + 1 : j \in i + 1 .. Len(x.text) + 1
  BY Texts
<1> QED
  BY <1>1, OutcomesDiffer DEF Reads

LEMMA NeverEnded ==
  ASSUME NEW x, IsScanner(x), NEW id, NEW i \in 1 .. Len(x.text) + 1, NEW n \in Nat
  PROVE  rawContent(x, id, i, n) # Ended /\ readMultiLineComment(x, i) # Ended
<1>1. rawContent(x, id, i, n) # Ended
  <2>1. CASE \A k : ~RawEnds(x, i, n, k)
    BY <2>1, RawReads, OutcomesDiffer
  <2>2. ASSUME NEW k, RawEnds(x, i, n, k) PROVE rawContent(x, id, i, n) # Ended
    BY <2>2, RawReads, OutcomesDiffer
  <2> QED
    BY <2>1, <2>2
<1>2. PICK h \in CommentTables(x, i) : TRUE
  BY CommentReads
<1>3. readMultiLineComment(x, i) = h[i][0] /\ i \in i .. Len(x.text) + 1 /\ 0 \in Int
  BY Texts DEF CommentTables
<1> QED
  BY <1>1, <1>3, CommentEnds, OutcomesDiffer

LEMMA RawStringReads ==
  ASSUME NEW x, IsScanner(x), NEW i \in 1 .. Len(x.text)
  PROVE  LET j == Run(x, {"#"}, i + 1)
         IN  /\ j \in i + 1 .. Len(x.text) + 1 /\ j - i - 1 \in Nat
             /\ \A k \in i + 1 .. j - 1 : At(x, k) = "#"
             /\ IF At(x, j) = "QUOTE"
                THEN /\ j \in i + 1 .. Len(x.text)
                     /\ readRawString(x, i) = rawContent(x, "RawString", j + 1, j - i - 1)
                ELSE readRawString(x, i) = Error
             /\ Reads(x, i, {"RawString"}, readRawString(x, i)) /\ readRawString(x, i) # Ended
<1> DEFINE j == Run(x, {"#"}, i + 1)
<1>1. Len(x.text) \in Nat /\ i + 1 \in 1 .. Len(x.text) + 1 /\ End \notin {"#"}
  BY Texts DEF End
<1>2. Stops(x, {"#"}, i + 1, j)
  BY <1>1, RunStops
<1>3. /\ j \in i + 1 .. Len(x.text) + 1 /\ j - i - 1 \in Nat /\ j \in Int
      /\ \A k \in i + 1 .. j - 1 : At(x, k) = "#"
  BY <1>1, <1>2 DEF Stops
<1>4. readRawString(x, i) = IF At(x, j) # "QUOTE" THEN Error ELSE rawContent(x, "RawString", j + 1, j - i - 1)
  BY DEF readRawString
<1> HIDE DEF j
<1>5. ASSUME At(x, j) = "QUOTE"
      PROVE  /\ j \in i + 1 .. Len(x.text)
             /\ Reads(x, i, {"RawString"}, readRawString(x, i)) /\ readRawString(x, i) # Ended
  <2>1. j \in 1 .. Len(x.text) /\ j + 1 \in 1 .. Len(x.text) + 1
    BY <1>3, <1>5, Within DEF End
  <2>2. Reads(x, j + 1, {"RawString"}, readRawString(x, i)) /\ readRawString(x, i) # Ended
    BY <1>3, <1>4, <1>5, <2>1, RawIsRead, NeverEnded
  <2>3. i \in Int /\ j + 1 \in Int /\ i <= j + 1
    BY <1>1, <1>3
  <2> QED
    BY <1>3, <2>1, <2>2, <2>3, ReadsFrom
<1> QED
  BY <1>3, <1>4, <1>5, ErrorReads, OutcomesDiffer DEF j

LEMMA QuotedReads ==
  ASSUME NEW x, IsScanner(x), NEW id, NEW q, NEW i \in 1 .. Len(x.text) + 1
  PROVE  /\ Reads(x, i, {id}, readQuotedStringQ(x, id, q, i))
         /\ readQuotedStringQ(x, id, q, i) # Ended
<1> DEFINE mode[k \in i .. Len(x.text) + 1] ==
               IF k = i THEN "first"
               ELSE quoteMode(x, q, mode[k - 1], At(x, k - 1), At(x, k))
           goesOn(k) == k <= Len(x.text) /\ At(x, k) # Invalid /\ mode[k + 1] # "stopped"
           j == CHOOSE k \in i .. Len(x.text) + 1 :
                    ~goesOn(k) /\ \A l \in i .. k - 1 : goesOn(l)
<1>1. readQuotedStringQ(x, id, q, i) =
          IF At(x, j) = Invalid \/ j - i < 2 THEN Error ELSE Token(id, j)
  BY DEF readQuotedStringQ
<1> HIDE DEF mode
<1>2. Len(x.text) \in Nat /\ i \in Int
  BY Texts
<1>3. \E k \in i .. Len(x.text) + 1 : ~goesOn(k) /\ \A l \in i .. k - 1 : goesOn(l)
  <2> DEFINE B == {k \in Nat : k \in i .. Len(x.text) + 1 /\ ~goesOn(k)}
  <2>1. B \in SUBSET Nat /\ Len(x.text) + 1 \in B
    BY <1>2
  <2>2. PICK k \in B : \A m \in B : k <= m
    <3> HIDE DEF B
    <3> QED
      BY <2>1, LeastNumber
  <2> HIDE DEF goesOn
  <2>3. \A l \in i .. k - 1 : goesOn(l)
    BY <1>2, <2>2
  <2> QED
    BY <2>2, <2>3
<1>4. j \in i .. Len(x.text) + 1
  <2> HIDE DEF goesOn
  <2> QED
    BY <1>3
<1> HIDE DEF j
<1>5. j - i >= 2 => j \in i + 1 .. Len(x.text) + 1
  BY <1>2, <1>4
<1>6. \/ readQuotedStringQ(x, id, q, i) = Error
      \/ j \in i + 1 .. Len(x.text) + 1 /\ readQuotedStringQ(x, id, q, i) = Token(id, j)
  BY <1>1, <1>2, <1>4, <1>5
<1> QED
  BY <1>6, OutcomesDiffer DEF Reads

LEMMA TripledReads ==
  ASSUME NEW x, IsScanner(x), NEW id, NEW q \in Quotes, NEW i \in Nat \ {0}, Tripled(x, q, i),
         NEW n \in Nat, NEW escapes \in BOOLEAN
  PROVE  LET j == Run(x, WhiteSpace, i + 3)
         IN  /\ i + 3 \in 1 .. Len(x.text) + 1
             /\ Stops(x, WhiteSpace, i + 3, j)
             /\ \/ /\ readTripled(x, id, q, i, n, escapes) = Error
                   /\ At(x, j) \notin NewlineChars
                \/ /\ readTripled(x, id, q, i, n, escapes) = tripleContent(x, id, q, j, n, escapes)
                   /\ At(x, j) \in NewlineChars /\ j \in i + 3 .. Len(x.text)
             /\ Reads(x, i, {id}, readTripled(x, id, q, i, n, escapes))
             /\ readTripled(x, id, q, i, n, escapes) # Ended
<1> DEFINE j == Run(x, WhiteSpace, i + 3)
           o == readTripled(x, id, q, i, n, escapes)
<1>1. Len(x.text) \in Nat /\ i + 3 \in 1 .. Len(x.text) + 1
  <2>1. Hashes(x, i + 3, 0) /\ 0 \in Nat /\ i \in Int
    BY DEF Hashes
  <2>2. i + 2 + 0 \in 1 .. Len(x.text)
    BY <2>1, QuotesAreInside
  <2> QED
    BY <2>2, Texts
<1>2. End \notin WhiteSpace
  BY DEF End, WhiteSpace
<1>3. Stops(x, WhiteSpace, i + 3, j)
  BY <1>1, <1>2, RunStops
<1>4. o = IF At(x, j) \notin NewlineChars THEN Error ELSE tripleContent(x, id, q, j, n, escapes)
  BY DEF readTripled
<1>5. j \in i + 3 .. Len(x.text) + 1
  BY <1>3 DEF Stops
<1> HIDE DEF j, o
<1>6. CASE At(x, j) \in NewlineChars
  <2>1. j \in i + 3 .. Len(x.text)
    <3>1. At(x, j) # End
      BY <1>6 DEF NewlineChars, End
    <3> QED
      BY <1>1, <1>5, <3>1, Within
  <2>2. j \in 1 .. Len(x.text) + 1 /\ j \in j .. Len(x.text) + 1
    BY <1>1, <2>1
  <2>4. \/ tripleContent(x, id, q, j, n, escapes) = Error
        \/ \E l \in j + 1 .. Len(x.text) + 1 : tripleContent(x, id, q, j, n, escapes) = Token(id, l)
    BY <2>2, TripleIsRead
  <2>5. o = tripleContent(x, id, q, j, n, escapes)
    BY <1>4, <1>6
  <2>6. \A l \in j + 1 .. Len(x.text) + 1 : l \in i + 1 .. Len(x.text) + 1
    BY <1>1, <2>1
  <2>7. Reads(x, i, {id}, o) /\ o # Ended
    BY <2>4, <2>5, <2>6, OutcomesDiffer DEF Reads
  <2> QED
    BY <1>1, <1>3, <1>4, <1>6, <2>1, <2>7 DEF j, o
<1>7. CASE At(x, j) \notin NewlineChars
  <2>1. o = Error
    BY <1>4, <1>7
  <2>2. Reads(x, i, {id}, o) /\ o # Ended
    BY <2>1, OutcomesDiffer DEF Reads
  <2> QED
    BY <1>1, <1>3, <1>7, <2>1, <2>2 DEF j, o
<1> QED
  BY <1>6, <1>7

----------------------------------------------------------------------------
(* Identifiers, keywords and numbers.                                      *)

LEMMA EndsBare == ASSUME NEW x PROVE {End, Invalid} \subseteq NotBare(x)
BY DEF NotBare

WordIds == {"BareIdentifier", "Boolean", "Null"}

LEMMA BareReads ==
  ASSUME NEW x, IsScanner(x), NEW i \in 1 .. Len(x.text) + 1
  PROVE  Reads(x, i, WordIds, readBareIdentifier(x, i)) /\ readBareIdentifier(x, i) # Ended
<1> DEFINE c == At(x, i)
           c2 == At(x, i + 1)
           S == {At(x, k) : k \in i .. Len(x.text)} \ NotBare(x)
           o == readWhile(x, "BareIdentifier", S, i, 1)
           w == Slice(x, i, o.to)
           r == readBareIdentifier(x, i)
<1>1. \/ r = Error
      \/ c \in Signs /\ r = Token("BareIdentifier", i + 1)
      \/ ~Failed(o) /\ r = Token(wordId(w), o.to)
  BY DEF readBareIdentifier
<1>2. End \notin S
  BY EndsBare
<1>3. o = Error \/ \E j \in i + 1 .. Len(x.text) + 1 : o = Token("BareIdentifier", j)
  <2> HIDE DEF S
  <2> QED
    BY <1>2, WhileReads
<1>4. c \in Signs => i + 1 \in i + 1 .. Len(x.text) + 1
  BY Within DEF Signs, End
<1> HIDE DEF o, r, w, c, c2
<1>5. wordId(w) \in WordIds /\ "BareIdentifier" \in WordIds
  BY DEF wordId, WordIds
<1>6. r = Error \/ \E id \in WordIds, j \in i + 1 .. Len(x.text) + 1 : r = Token(id, j)
  BY <1>1, <1>3, <1>4, <1>5, OutcomesDiffer
<1> QED
  BY <1>6, OutcomesDiffer DEF Reads, r

\* What is read by none of the readers that the properties single out.
PlainIds ==
    {"BareIdentifier", "Boolean", "Null", "Keyword", "QuotedString", "ExpressionString",
     "Decimal", "SuffixedDecimal", "Hexadecimal", "Octal", "Binary", "Whitespace", "Newline",
     "SingleLineComment", "TokenComment", "BraceOpen", "BraceClose", "Equals", "Semicolon",
     "ParensOpen", "ParensClose", "Continuation"}

LEMMA EndUnseparated ==
  ASSUME NEW x, IsScanner(x), NEW i \in Int, NEW k \in 1 .. Len(x.text) + 1, At(x, k) = End,
         \A l \in i .. k - 1 : At(x, l) \notin Separators
  PROVE  Unseparated(x, i)
<1>1. Len(x.text) \in Nat /\ (k \in 1 .. Len(x.text) => At(x, k) # End)
  BY Texts
<1>2. \A l \in i .. Len(x.text) : l \in i .. k - 1
  BY <1>1
<1> QED
  BY <1>2 DEF Unseparated

LEMMA IdentifierReads ==
  ASSUME NEW x, IsScanner(x), NEW i \in 1 .. Len(x.text)
  PROVE  /\ \/ readIdentifier(x, i) = readRawString(x, i) /\ At(x, i) = "r" /\ x.version # "V2"
            \/ Reads(x, i, PlainIds, readIdentifier(x, i))
         /\ readIdentifier(x, i) # Ended
<1> DEFINE c == At(x, i)
           r == readIdentifier(x, i)
<1>1. i \in 1 .. Len(x.text) + 1 /\ i \in Nat \ {0} /\ 0 \in Nat /\ c # End
  BY Texts
<1>2. \/ r = Error
      \/ c = "r" /\ x.version # "V2" /\ r = readRawString(x, i)
      \/ Tripled(x, "QUOTE", i) /\ r = readTripled(x, "QuotedString", "QUOTE", i, 0, TRUE)
      \/ r = readQuotedStringQ(x, "QuotedString", "QUOTE", i)
      \/ Tripled(x, "BACKTICK", i) /\ r = readTripled(x, "ExpressionString", "BACKTICK", i, 0, TRUE)
      \/ r = readQuotedStringQ(x, "ExpressionString", "BACKTICK", i)
      \/ r = readQuotedStringQ(x, "QuotedString", "APOSTROPHE", i)
      \/ r = readBareIdentifier(x, i)
  <2>1. x.nginx \in BOOLEAN
    BY DEF IsScanner
  <2> DEFINE c2 == At(x, i + 1)
             raw == readRawString(x, i)
             tripled == readTripled(x, "QuotedString", "QUOTE", i, 0, TRUE)
             quoted == readQuotedStringQ(x, "QuotedString", "QUOTE", i)
             tripledX == readTripled(x, "ExpressionString", "BACKTICK", i, 0, TRUE)
             quotedX == readQuotedStringQ(x, "ExpressionString", "BACKTICK", i)
             single == readQuotedStringQ(x, "QuotedString", "APOSTROPHE", i)
             bare == readBareIdentifier(x, i)
             t1 == Tripled(x, "QUOTE", i)
             t2 == Tripled(x, "BACKTICK", i)
             blank == c \in {Invalid, "NUL"} \cup WhiteSpace \cup NewlineChars
             isRaw == c = "r" /\ x.version # "V2" /\ c2 \in {"#", "QUOTE"}
             isSingle == c = "APOSTROPHE" /\ x.version # "V2" /\ x.nginx
             v2 == x.version = "V2"
             begins == c2 \notin {End, Invalid} /\ ~Starts(x, c) /\ ~(c = "-" /\ c2 \notin Digits)
  <2>2. r = CASE c = End -> Ended
              [] blank -> Error
              [] isRaw -> raw
              [] c = "QUOTE" -> IF v2 /\ t1 THEN tripled ELSE quoted
              [] c = "BACKTICK" -> IF t2 THEN tripledX ELSE quotedX
              [] isSingle -> single
              [] OTHER -> IF begins THEN Error ELSE bare
    BY DEF readIdentifier
  <2>3. c # End /\ t1 \in BOOLEAN /\ t2 \in BOOLEAN /\ begins \in BOOLEAN
      /\ blank \in BOOLEAN /\ isRaw \in BOOLEAN /\ isSingle \in BOOLEAN /\ v2 \in BOOLEAN
    BY <1>1, <2>1 DEF Tripled
  <2> HIDE DEF c, c2, r, raw, tripled, quoted, tripledX, quotedX, single, bare, t1, t2, begins,
           blank, isRaw, isSingle, v2
  <2>4. \/ r = Error
        \/ isRaw /\ r = raw
        \/ t1 /\ r = tripled
        \/ r = quoted
        \/ t2 /\ r = tripledX
        \/ r = quotedX \/ r = single \/ r = bare
    BY <2>2, <2>3
  <2> QED
    BY <2>4 DEF isRaw, raw, tripled, quoted, tripledX, quotedX, single, bare, t1, t2
<1> HIDE DEF r, c
<1>3. "QUOTE" \in Quotes /\ "BACKTICK" \in Quotes /\ TRUE \in BOOLEAN
  BY DEF Quotes
<1>4. {"QuotedString"} \subseteq PlainIds /\ {"ExpressionString"} \subseteq PlainIds
      /\ WordIds \subseteq PlainIds
  BY DEF PlainIds, WordIds
<1>5. CASE r = Error
  BY <1>5, ErrorReads, OutcomesDiffer DEF r
<1>6. CASE c = "r" /\ x.version # "V2" /\ r = readRawString(x, i)
  BY <1>6, RawStringReads DEF r, c
<1>7. CASE Tripled(x, "QUOTE", i) /\ r = readTripled(x, "QuotedString", "QUOTE", i, 0, TRUE)
  <2>1. Reads(x, i, {"QuotedString"}, r) /\ r # Ended
    BY <1>1, <1>3, <1>7, TripledReads
  <2> QED
    BY <1>4, <2>1, ReadsMore DEF r
<1>8. CASE Tripled(x, "BACKTICK", i) /\ r = readTripled(x, "ExpressionString", "BACKTICK", i, 0, TRUE)
  <2>1. Reads(x, i, {"ExpressionString"}, r) /\ r # Ended
    BY <1>1, <1>3, <1>8, TripledReads
  <2> QED
    BY <1>4, <2>1, ReadsMore DEF r
<1>9. CASE r = readQuotedStringQ(x, "QuotedString", "QUOTE", i)
           \/ r = readQuotedStringQ(x, "QuotedString", "APOSTROPHE", i)
  <2>1. Reads(x, i, {"QuotedString"}, r) /\ r # Ended
    BY <1>1, <1>9, QuotedReads
  <2> QED
    BY <1>4, <2>1, ReadsMore DEF r
<1>10. CASE r = readQuotedStringQ(x, "ExpressionString", "BACKTICK", i)
  <2>1. Reads(x, i, {"ExpressionString"}, r) /\ r # Ended
    BY <1>1, <1>10, QuotedReads
  <2> QED
    BY <1>4, <2>1, ReadsMore DEF r
<1>11. CASE r = readBareIdentifier(x, i)
  <2>1. Reads(x, i, WordIds, r) /\ r # Ended
    BY <1>1, <1>11, BareReads
  <2> QED
    BY <1>4, <2>1, ReadsMore DEF r
<1> QED
  BY <1>2, <1>5, <1>6, <1>7, <1>8, <1>9, <1>10, <1>11

NumberChars == Digits \cup {"_"} \cup SuffixLetters \cup Signs
NumberIds == {"Decimal", "SuffixedDecimal"}

\* A token that is a number up to j.
IsNumber(x, i, o) ==
    \E id \in NumberIds, j \in i + 1 .. Len(x.text) + 1 :
        o = Token(id, j) /\ \A k \in i .. j - 1 : At(x, k) \in NumberChars

LEMMA IntegerReads ==
  ASSUME NEW x, IsScanner(x), NEW i \in 1 .. Len(x.text) + 1
  PROVE  readInteger(x, i) = Error \/ IsNumber(x, i, readInteger(x, i))
<1> DEFINE signed == At(x, i) \in Signs
           allowed == Digits \cup {"_"} \cup (IF signed THEN {} ELSE SuffixLetters)
           b == IF signed THEN i + 1 ELSE i
           j == Run(x, allowed, b)
           D == Digits \cup {"_"}
           r == readInteger(x, i)
<1>1. r = IF ~x.suffixes
          THEN IF At(x, i) \notin Digits THEN Error ELSE readWhile(x, "Decimal", D, i, 1)
          ELSE IF j = i \/ At(x, j) = Invalid THEN Error
          ELSE Token(IF \E k \in i .. j - 1 : At(x, k) \in SuffixLetters
                     THEN "SuffixedDecimal" ELSE "Decimal", j)
  BY DEF readInteger
<1>2. Len(x.text) \in Nat /\ x.suffixes \in BOOLEAN
  BY Texts DEF IsScanner
<1>3. End \notin D /\ End \notin allowed
  BY DEF End, Digits, SuffixLetters
<1>4. D \subseteq NumberChars /\ allowed \subseteq NumberChars /\ Signs \subseteq NumberChars
  BY DEF NumberChars
<1>5. b \in 1 .. Len(x.text) + 1 /\ (signed => b = i + 1) /\ (~signed => b = i)
  <2>1. signed => At(x, i) # End
    BY DEF Signs, End
  <2> QED
    BY <1>2, <2>1, Within
<1> HIDE DEF D, allowed, b
<1>6. Stops(x, allowed, b, j)
  BY <1>3, <1>5, RunStops
<1>7. "Decimal" \in NumberIds /\ "SuffixedDecimal" \in NumberIds
  BY DEF NumberIds
<1> HIDE DEF j, r
<1>8. j \in b .. Len(x.text) + 1 /\ \A k \in b .. j - 1 : At(x, k) \in NumberChars
  BY <1>4, <1>6 DEF Stops
<1>9. CASE ~x.suffixes /\ r # Error
  <2>1. r = readWhile(x, "Decimal", D, i, 1)
    BY <1>1, <1>9
  <2>2. PICK l \in i + 1 .. Len(x.text) + 1 : r = Token("Decimal", l) /\ Stops(x, D, i, l)
    BY <1>3, <1>9, <2>1, WhileReads
  <2> QED
    BY <1>4, <1>7, <2>2 DEF IsNumber, Stops, r
<1>10. CASE x.suffixes /\ r # Error
  <2>1. j # i /\ \E id \in NumberIds : r = Token(id, j)
    BY <1>1, <1>7, <1>10
  <2>2. j \in i + 1 .. Len(x.text) + 1
    BY <1>2, <1>5, <1>8, <2>1
  <2>3. \A k \in i .. j - 1 : At(x, k) \in NumberChars
    <3>1. \A k \in i .. j - 1 : k \in b .. j - 1 \/ (k = i /\ signed)
      BY <1>2, <1>5, <1>8
    <3> QED
      BY <1>4, <1>8, <3>1
  <2> QED
    BY <2>1, <2>2, <2>3 DEF IsNumber, r
<1> QED
  BY <1>2, <1>9, <1>10 DEF r

LEMMA NumberFrom ==
  ASSUME NEW x, IsScanner(x), NEW i \in Int, NEW o, IsNumber(x, i + 1, o), At(x, i) \in NumberChars
  PROVE  IsNumber(x, i, o)
<1>1. PICK id \in NumberIds, j \in i + 1 + 1 .. Len(x.text) + 1 :
          o = Token(id, j) /\ \A k \in i + 1 .. j - 1 : At(x, k) \in NumberChars
  BY DEF IsNumber
<1>2. j \in i + 1 .. Len(x.text) + 1 /\ \A k \in i .. j - 1 : k = i \/ k \in i + 1 .. j - 1
  BY Texts
<1> QED
  BY <1>1, <1>2 DEF IsNumber

LEMMA SignedReads ==
  ASSUME NEW x, IsScanner(x), NEW i \in 1 .. Len(x.text) + 1
  PROVE  \/ readSignedInteger(x, i) = Error
         \/ readSignedInteger(x, i) = Ended /\ At(x, i) = End
         \/ IsNumber(x, i, readSignedInteger(x, i))
<1>1. CASE At(x, i) \in {End, Invalid}
  <2>1. readSignedInteger(x, i) = LookError(At(x, i))
    BY <1>1 DEF readSignedInteger, End, Invalid, Signs
  <2> QED
    BY <2>1 DEF LookError
<1>2. CASE At(x, i) \in Signs
  <2>1. readSignedInteger(x, i) = readInteger(x, i + 1) /\ At(x, i) # End
    BY <1>2 DEF readSignedInteger, End, Invalid, Signs
  <2>2. i + 1 \in 1 .. Len(x.text) + 1 /\ i \in Int
    BY <2>1, Within
  <2>3. At(x, i) \in NumberChars
    BY <1>2 DEF NumberChars
  <2> QED
    BY <2>1, <2>2, <2>3, IntegerReads, NumberFrom
<1>3. CASE At(x, i) \notin {End, Invalid} \cup Signs
  <2>1. readSignedInteger(x, i) = readInteger(x, i)
    BY <1>3 DEF readSignedInteger
  <2> QED
    BY <2>1, IntegerReads
<1> QED
  BY <1>1, <1>2, <1>3

LEMMA KeywordReads ==
  ASSUME NEW x, IsScanner(x), NEW w \in Keywords, NEW id, NEW k \in Int
  PROVE  \/ keyword(x, id, w, k) = Error
         \/ keyword(x, id, w, k) = Token(id, k + 1) /\ k \in 1 .. Len(x.text)
         \/ /\ keyword(x, id, w, k) = Ended
            /\ At(x, k) \in {"t", "f", "i", "n"} /\ At(x, k + 1) = End
<1>1. Initial[w] \in {"t", "f", "i", "n"} /\ w # End
  BY DEF Initial, Keywords, End
<1>2. At(x, k) = w => k \in 1 .. Len(x.text)
  BY <1>1, Within
<1>3. \/ keyword(x, id, w, k) = Error
      \/ keyword(x, id, w, k) = Token(id, k + 1) /\ At(x, k) = w
      \/ keyword(x, id, w, k) = Ended /\ At(x, k) = Initial[w] /\ At(x, k + 1) = End
  BY DEF keyword
<1> QED
  BY <1>1, <1>2, <1>3

\* The end of the text right behind characters that are no separators.
LEMMA SoonEnded ==
  ASSUME NEW x, IsScanner(x), NEW i \in 1 .. Len(x.text), At(x, i) \notin Separators,
         \/ At(x, i + 1) = End
         \/ At(x, i + 1) \notin Separators /\ At(x, i + 2) = End
         \/ At(x, i + 1) \notin Separators /\ At(x, i + 2) \notin Separators /\ At(x, i + 3) = End
  PROVE  Unseparated(x, i)
<1>1. Len(x.text) \in Nat /\ \A l \in i .. Len(x.text) : At(x, l) # End
  BY Texts
<1>2. \A l \in i .. Len(x.text) : l = i \/ l = i + 1 \/ l = i + 2 \/ l \in i + 3 .. Len(x.text)
  BY <1>1
<1>3. /\ At(x, i + 1) = End => i + 1 > Len(x.text)
      /\ At(x, i + 2) = End => i + 2 > Len(x.text)
      /\ At(x, i + 3) = End => i + 3 > Len(x.text)
  BY <1>1
<1>4. \A l \in i .. Len(x.text) : /\ i + 1 > Len(x.text) => l = i
                                  /\ i + 2 > Len(x.text) => l = i \/ l = i + 1
                                  /\ i + 3 > Len(x.text) => l = i \/ l = i + 1 \/ l = i + 2
  BY <1>1
<1> QED
  BY <1>3, <1>4 DEF Unseparated

LEMMA WordReads ==
  ASSUME NEW x, IsScanner(x), NEW i \in 1 .. Len(x.text), At(x, i) = "#",
         NEW w \in Keywords, NEW id \in {"Boolean", "Keyword"},
         NEW k, k = i + 1 \/ (k = i + 2 /\ At(x, i + 1) = "-")
  PROVE  Reads(x, i, PlainIds, keyword(x, id, w, k))
<1>1. k \in Int /\ Len(x.text) \in Nat
  BY Texts
<1>2. CASE keyword(x, id, w, k) = Error
  BY <1>2, ErrorReads
<1>3. CASE keyword(x, id, w, k) = Token(id, k + 1) /\ k \in 1 .. Len(x.text)
  <2>1. k + 1 \in i + 1 .. Len(x.text) + 1 /\ id \in PlainIds
    BY <1>1, <1>3 DEF PlainIds
  <2> QED
    BY <1>3, <2>1, OneToken
<1>4. CASE /\ keyword(x, id, w, k) = Ended
           /\ At(x, k) \in {"t", "f", "i", "n"} /\ At(x, k + 1) = End
  <2>1. {"t", "f", "i", "n", "#", "-"} \cap Separators = {}
    BY DEF Separators, WhiteSpace, NewlineChars
  <2>2. i + 1 + 1 = i + 2 /\ i + 2 + 1 = i + 3
    OBVIOUS
  <2>3. Unseparated(x, i)
    BY <1>4, <2>1, <2>2, SoonEnded
  <2> QED
    BY <1>4, <2>3 DEF Reads
<1> QED
  BY <1>1, <1>2, <1>3, <1>4, KeywordReads

\* A raw string that begins at i: its hashes, its quote, its content.
RawFrom(x, i, o) ==
    \E quote \in i + 1 .. Len(x.text), n \in Nat :
        /\ At(x, quote) = "QUOTE" /\ \A k \in i + 1 .. quote - 1 : At(x, k) = "#"
        /\ \/ At(x, i) = "r" /\ n = quote - i - 1
           \/ At(x, i) = "#" /\ n = quote - i
        /\ o = rawContent(x, "RawString", quote + 1, n)

LEMMA RawFromReads ==
  ASSUME NEW x, IsScanner(x), NEW i \in 1 .. Len(x.text), NEW o, RawFrom(x, i, o)
  PROVE  Reads(x, i, {"RawString"}, o) /\ o # Ended
<1>1. PICK quote \in i + 1 .. Len(x.text), n \in Nat : o = rawContent(x, "RawString", quote + 1, n)
  BY DEF RawFrom
<1>2. quote + 1 \in 1 .. Len(x.text) + 1 /\ quote + 1 \in Int /\ i \in Int /\ i <= quote + 1
  BY Texts
<1>3. Reads(x, quote + 1, {"RawString"}, o) /\ o # Ended
  BY <1>1, <1>2, RawIsRead, NeverEnded
<1> QED
  BY <1>2, <1>3, ReadsFrom

LEMMA HashReads ==
  ASSUME NEW x, IsScanner(x), NEW i \in 1 .. Len(x.text), At(x, i) = "#"
  PROVE  \/ RawFrom(x, i, readHashToken(x, i))
         \/ Reads(x, i, PlainIds, readHashToken(x, i))
<1> DEFINE c == At(x, i + 1)
           j == Run(x, {"#"}, i + 1)
           r == readHashToken(x, i)
<1>1. Len(x.text) \in Nat /\ i + 1 \in 1 .. Len(x.text) + 1 /\ i \in Int
  BY Texts
<1>2. CASE c \in {"QUOTE", "#"} /\ r # Error
  <2>1. /\ At(x, j) = "QUOTE"
        /\ \/ Tripled(x, "QUOTE", j) /\ r = readTripled(x, "QuotedString", "QUOTE", j, j - i, FALSE)
           \/ r = rawContent(x, "RawString", j + 1, j - i)
    BY <1>2 DEF readHashToken
  <2>2. Stops(x, {"#"}, i + 1, j)
    BY <1>1, RunStops DEF End
  <2> HIDE DEF j, r
  <2>3. j \in i + 1 .. Len(x.text) + 1 /\ \A k \in i + 1 .. j - 1 : At(x, k) = "#"
    BY <2>2 DEF Stops
  <2>4. j \in 1 .. Len(x.text)
    <3>1. j \in Int /\ At(x, j) # End
      BY <1>1, <2>1, <2>3 DEF End
    <3> QED
      BY <3>1, Within
  <2>5. j \in i + 1 .. Len(x.text) /\ j - i \in Nat /\ j \in Nat \ {0} /\ j \in Int /\ i <= j
    BY <1>1, <2>3, <2>4
  <2>6. CASE r = rawContent(x, "RawString", j + 1, j - i)
    BY <2>1, <2>3, <2>5, <2>6 DEF RawFrom, r
  <2>7. CASE Tripled(x, "QUOTE", j) /\ r = readTripled(x, "QuotedString", "QUOTE", j, j - i, FALSE)
    <3>1. "QUOTE" \in Quotes /\ FALSE \in BOOLEAN
      BY DEF Quotes
    <3>2. Reads(x, j, {"QuotedString"}, r) /\ r # Ended
      BY <2>5, <2>7, <3>1, TripledReads
    <3>3. Reads(x, i, {"QuotedString"}, r)
      BY <2>5, <3>2, ReadsFrom
    <3>4. {"QuotedString"} \subseteq PlainIds
      BY DEF PlainIds
    <3> QED
      BY <3>3, <3>4, ReadsMore DEF r
  <2> QED
    BY <2>1, <2>6, <2>7 DEF j, r
<1>3. CASE c \notin {"QUOTE", "#"} /\ r # Error
  <2>1. \/ r = keyword(x, "Boolean", "true", i + 1)
        \/ r = keyword(x, "Boolean", "false", i + 1)
        \/ c = "n" /\ r = LookError(At(x, i + 2))
        \/ c = "null" /\ r = Token("Null", i + 2)
        \/ c = "nan" /\ r = Token("Keyword", i + 2)
        \/ r = keyword(x, "Keyword", "inf", i + 1)
        \/ c = "-" /\ r = Ended /\ At(x, i + 2) = End
        \/ c = "-" /\ r = keyword(x, "Keyword", "inf", i + 2)
    BY <1>3 DEF readHashToken
  <2>2. {"#", "n", "-"} \cap Separators = {}
    BY DEF Separators, WhiteSpace, NewlineChars
  <2>3. {"true", "false", "inf"} \subseteq Keywords
    BY DEF Keywords
  <2>4. CASE \/ c = "null" /\ r = Token("Null", i + 2)
             \/ c = "nan" /\ r = Token("Keyword", i + 2)
    <3>1. i + 1 \in 1 .. Len(x.text)
      BY <1>1, <2>4, Within DEF End
    <3>2. i + 2 \in i + 1 .. Len(x.text) + 1 /\ "Null" \in PlainIds /\ "Keyword" \in PlainIds
      BY <1>1, <3>1 DEF PlainIds
    <3> QED
      BY <2>4, <3>2, OneToken
  <2>5. CASE At(x, i + 2) = End /\ c \in {"n", "-"} /\ r = Ended
    BY <2>2, <2>5, SoonEnded DEF Reads
  <2>6. CASE c = "n" /\ r = LookError(At(x, i + 2))
    BY <2>5, <2>6, ErrorReads DEF LookError
  <2>7. CASE \/ r = keyword(x, "Boolean", "true", i + 1)
             \/ r = keyword(x, "Boolean", "false", i + 1)
             \/ r = keyword(x, "Keyword", "inf", i + 1)
             \/ c = "-" /\ r = keyword(x, "Keyword", "inf", i + 2)
    BY <2>3, <2>7, WordReads
  <2>8. CASE c = "-" /\ r = Ended /\ At(x, i + 2) = End
    BY <2>5, <2>8
  <2> HIDE DEF r, c
  <2> QED
    BY <2>1, <2>4, <2>6, <2>7, <2>8
<1> QED
  BY <1>2, <1>3, ErrorReads

\* A number with its fraction and its exponent.
DecimalChars == NumberChars \cup {".", "e"}

Spelled(x, i, j) ==
    /\ j \in i + 1 .. Len(x.text) + 1
    /\ \A k \in i .. j - 1 : At(x, k) \in DecimalChars

IsDecimal(x, i, o) == \E id \in NumberIds, j \in i + 1 .. Len(x.text) + 1 :
                          o = Token(id, j) /\ Spelled(x, i, j)

LEMMA NumberIsDecimal ==
  ASSUME NEW x, NEW i, NEW o, IsNumber(x, i, o)
  PROVE  IsDecimal(x, i, o)
BY DEF IsNumber, IsDecimal, Spelled, DecimalChars

LEMMA SpelledOn ==
  ASSUME NEW x, IsScanner(x), NEW i \in 1 .. Len(x.text), NEW j, Spelled(x, i, j),
         At(x, j) \in {".", "e"}
  PROVE  /\ j + 1 \in 1 .. Len(x.text) + 1
         /\ Spelled(x, i, j + 1)
         /\ \A o : IsNumber(x, j + 1, o) => IsDecimal(x, i, o)
<1>1. Len(x.text) \in Nat /\ j \in i + 1 .. Len(x.text) + 1 /\ j \in Int
  BY Texts DEF Spelled
<1>2. At(x, j) # End
  BY DEF End
<1>3. j \in 1 .. Len(x.text) /\ j + 1 \in 1 .. Len(x.text) + 1
  BY <1>1, <1>2, Within
<1>4. j + 1 \in i + 1 .. Len(x.text) + 1 /\ \A k \in i .. j + 1 - 1 : k \in i .. j - 1 \/ k = j
  BY <1>1, <1>3
<1>5. Spelled(x, i, j + 1)
  BY <1>4 DEF Spelled, DecimalChars
<1>6. ASSUME NEW o, IsNumber(x, j + 1, o) PROVE IsDecimal(x, i, o)
  <2>1. PICK id \in NumberIds, m \in j + 1 + 1 .. Len(x.text) + 1 :
            o = Token(id, m) /\ \A k \in j + 1 .. m - 1 : At(x, k) \in NumberChars
    BY <1>6 DEF IsNumber
  <2>2. m \in i + 1 .. Len(x.text) + 1 /\ \A k \in i .. m - 1 : k \in i .. j - 1 \/ k = j \/ k \in j + 1 .. m - 1
    BY <1>1, <1>3
  <2>3. Spelled(x, i, m)
    BY <2>1, <2>2 DEF Spelled, DecimalChars
  <2> QED
    BY <2>1, <2>2, <2>3 DEF IsDecimal
<1> QED
  BY <1>3, <1>5, <1>6

LEMMA AfterNumberReads ==
  ASSUME NEW x, IsScanner(x), NEW i \in 1 .. Len(x.text), NEW id \in NumberIds, NEW j, Spelled(x, i, j)
  PROVE  Reads(x, i, PlainIds, afterNumber(x, Token(id, j)))
<1> DEFINE v1 == [x EXCEPT !.version = "V1"]
           S == {At(x, k) : k \in j .. Len(x.text)} \ NotBare(v1)
           o == readWhile(x, "BareIdentifier", S, j, 1)
           r == afterNumber(x, Token(id, j))
<1>1. j \in i + 1 .. Len(x.text) + 1 /\ j \in 1 .. Len(x.text) + 1 /\ j \in Int /\ i \in Int /\ i <= j
  BY Texts DEF Spelled
<1>2. r = Error \/ r = Token(id, j) \/ r = o
  <2>1. Token(id, j).to = j
    BY OutcomesDiffer
  <2>2. r = LET c == At(x, Token(id, j).to)
            IN  CASE c \in Separators \cup {End, Invalid} -> Token(id, j)
                  [] x.nginx /\ c \notin NotBare(v1) ->
                         readWhile(x, "BareIdentifier",
                                   {At(x, k) : k \in Token(id, j).to .. Len(x.text)} \ NotBare(v1),
                                   Token(id, j).to, 1)
                  [] OTHER -> Error
    BY DEF afterNumber
  <2>3. r = CASE At(x, j) \in Separators \cup {End, Invalid} -> Token(id, j)
              [] x.nginx /\ At(x, j) \notin NotBare(v1) -> o
              [] OTHER -> Error
    BY <2>1, <2>2
  <2>4. x.nginx \in BOOLEAN
    BY DEF IsScanner
  <2> HIDE DEF r, o, v1
  <2> QED
    BY <2>3, <2>4
<1>3. End \notin S
  BY EndsBare
<1> HIDE DEF S
<1>4. Reads(x, j, {"BareIdentifier"}, o) /\ o # Ended
  <2>1. o = Error \/ \E m \in j + 1 .. Len(x.text) + 1 : o = Token("BareIdentifier", m)
    BY <1>1, <1>3, WhileReads
  <2> QED
    BY <2>1, OutcomesDiffer DEF Reads
<1> HIDE DEF o
<1>5. Reads(x, i, {"BareIdentifier"}, o)
  BY <1>1, <1>4, ReadsFrom
<1>6. id \in PlainIds /\ {"BareIdentifier"} \subseteq PlainIds
  BY DEF PlainIds, NumberIds
<1>7. Reads(x, i, PlainIds, Token(id, j)) /\ Reads(x, i, PlainIds, o) /\ Reads(x, i, PlainIds, Error)
  BY <1>1, <1>5, <1>6, OneToken, ReadsMore, ErrorReads
<1> QED
  BY <1>2, <1>7

LEMMA DecimalReads ==
  ASSUME NEW x, IsScanner(x), NEW i \in 1 .. Len(x.text)
  PROVE  Reads(x, i, PlainIds, readDecimal(x, i))
<1> DEFINE int == readSignedInteger(x, i)
           mantissa == IF At(x, int.to) = "." THEN readInteger(x, int.to + 1) ELSE int
           exponent == IF At(x, mantissa.to) = "e" THEN readSignedInteger(x, mantissa.to + 1)
                       ELSE mantissa
           r == readDecimal(x, i)
<1>1. /\ i \in 1 .. Len(x.text) + 1 /\ At(x, i) # End /\ At(x, 0) = End /\ "." # End /\ "e" # End
      /\ Error.to = 0
  BY Texts DEF End, Error
<1>2. \/ r = int /\ Failed(int)
      \/ r = mantissa /\ Failed(mantissa)
      \/ r = exponent /\ Failed(exponent)
      \/ r = afterNumber(x, [exponent EXCEPT !.id = mantissa.id]) /\ ~Failed(exponent)
         /\ ~Failed(mantissa)
  BY DEF readDecimal
<1>3. int = Error \/ IsDecimal(x, i, int)
  BY <1>1, SignedReads, NumberIsDecimal
<1> HIDE DEF int
<1>4. mantissa = Error \/ IsDecimal(x, i, mantissa)
  <2>1. CASE At(x, int.to) = "."
    <3>1. PICK id \in NumberIds, j \in i + 1 .. Len(x.text) + 1 : int = Token(id, j) /\ Spelled(x, i, j)
      BY <1>1, <1>3, <2>1 DEF IsDecimal
    <3>2. At(x, j) = "." /\ mantissa = readInteger(x, j + 1)
      BY <2>1, <3>1, OutcomesDiffer
    <3> QED
      BY <3>1, <3>2, SpelledOn, IntegerReads
  <2> QED
    BY <1>3, <2>1
<1> HIDE DEF mantissa
<1>5. \/ exponent = Error
      \/ exponent = Ended /\ Unseparated(x, i)
      \/ IsDecimal(x, i, exponent)
  <2>1. CASE At(x, mantissa.to) = "e"
    <3>1. PICK id \in NumberIds, j \in i + 1 .. Len(x.text) + 1 : mantissa = Token(id, j) /\ Spelled(x, i, j)
      BY <1>1, <1>4, <2>1 DEF IsDecimal
    <3>2. At(x, j) = "e" /\ exponent = readSignedInteger(x, j + 1)
      BY <2>1, <3>1, OutcomesDiffer
    <3>3. j + 1 \in 1 .. Len(x.text) + 1 /\ Spelled(x, i, j + 1)
      BY <3>1, <3>2, SpelledOn
    <3>4. CASE exponent = Ended /\ At(x, j + 1) = End
      <4>1. DecimalChars \cap Separators = {}
        BY DEF DecimalChars, NumberChars, Digits, SuffixLetters, Signs, Separators, WhiteSpace,
               NewlineChars
      <4>2. \A l \in i .. j + 1 - 1 : At(x, l) \notin Separators
        BY <3>3, <4>1 DEF Spelled
      <4>3. i \in Int
        OBVIOUS
      <4> QED
        BY <3>3, <3>4, <4>2, <4>3, EndUnseparated
    <3> QED
      BY <3>1, <3>2, <3>3, <3>4, SpelledOn, SignedReads
  <2> QED
    BY <1>4, <2>1
<1> HIDE DEF exponent, r
<1>6. CASE r = afterNumber(x, [exponent EXCEPT !.id = mantissa.id]) /\ ~Failed(exponent)
           /\ ~Failed(mantissa)
  <2>1. PICK id \in NumberIds : mantissa.id = id
    BY <1>4, <1>6, OutcomesDiffer DEF IsDecimal
  <2>2. PICK id2 \in NumberIds, j \in i + 1 .. Len(x.text) + 1 : exponent = Token(id2, j) /\ Spelled(x, i, j)
    BY <1>5, <1>6, OutcomesDiffer DEF IsDecimal
  <2>3. [exponent EXCEPT !.id = mantissa.id] = Token(id, j)
    BY <2>1, <2>2 DEF Token
  <2> QED
    BY <1>6, <2>2, <2>3, AfterNumberReads DEF r
<1>7. CASE r = Error \/ (r = Ended /\ Unseparated(x, i))
  BY <1>7 DEF r, Reads
<1>8. \A o : IsDecimal(x, i, o) => ~Failed(o)
  BY OutcomesDiffer DEF IsDecimal
<1> QED
  BY <1>2, <1>3, <1>4, <1>5, <1>6, <1>7, <1>8

LEMMA NumericBaseReads ==
  ASSUME NEW x, IsScanner(x), NEW i \in 1 .. Len(x.text), At(x, i) = "0", At(x, i + 1) # End,
         NEW S, End \notin S, NEW id \in {"Hexadecimal", "Octal", "Binary"}
  PROVE  Reads(x, i, PlainIds, readNumericBase(x, id, S, i))
<1> DEFINE A == S \cup {"_"}
           j == Run(x, A, i + 2)
           r == readNumericBase(x, id, S, i)
<1>1. Len(x.text) \in Nat /\ i + 2 \in 1 .. Len(x.text) + 1
  <2>1. i + 1 \in 1 .. Len(x.text)
    BY Within
  <2> QED
    BY <2>1, Texts
<1>2. Stops(x, A, i + 2, j)
  <2>1. End \notin A
    BY DEF End
  <2> HIDE DEF A
  <2> QED
    BY <1>1, <2>1, RunStops
<1>3. r = Error \/ r = Token(id, j)
  BY DEF readNumericBase
<1> HIDE DEF j, r, A
<1>4. j \in i + 2 .. Len(x.text) + 1
  BY <1>2 DEF Stops
<1>5. j \in i + 1 .. Len(x.text) + 1 /\ id \in PlainIds
  BY <1>1, <1>4 DEF PlainIds
<1> QED
  BY <1>3, <1>5, OneToken, ErrorReads DEF r

----------------------------------------------------------------------------
(* readNext.                                                               *)

\* A comment that begins at i.
CommentFrom(x, i, o) == Opens(x, i) /\ o = readMultiLineComment(x, i)

Answers(x, i, o) == RawFrom(x, i, o) \/ CommentFrom(x, i, o) \/ Reads(x, i, PlainIds, o)

LEMMA IdentifierAnswers ==
  ASSUME NEW x, IsScanner(x), NEW i \in 1 .. Len(x.text)
  PROVE  Answers(x, i, readIdentifier(x, i))
<1>1. CASE readIdentifier(x, i) = readRawString(x, i) /\ At(x, i) = "r"
  <2>1. PICK j \in i + 1 .. Len(x.text) + 1 :
            /\ j - i - 1 \in Nat
            /\ \A k \in i + 1 .. j - 1 : At(x, k) = "#"
            /\ IF At(x, j) = "QUOTE"
               THEN /\ j \in i + 1 .. Len(x.text)
                    /\ readRawString(x, i) = rawContent(x, "RawString", j + 1, j - i - 1)
               ELSE readRawString(x, i) = Error
    BY RawStringReads
  <2>2. CASE At(x, j) = "QUOTE"
    BY <1>1, <2>1, <2>2 DEF Answers, RawFrom
  <2>3. CASE At(x, j) # "QUOTE"
    BY <1>1, <2>1, <2>3, ErrorReads DEF Answers
  <2> QED
    BY <2>2, <2>3
<1>2. CASE Reads(x, i, PlainIds, readIdentifier(x, i))
  BY <1>2 DEF Answers
<1> QED
  BY <1>1, <1>2, IdentifierReads

LEMMA LineCommentIsRead ==
  ASSUME NEW x, IsScanner(x), NEW i \in 1 .. Len(x.text), At(x, i) \in {"/", "#"}
  PROVE  Reads(x, i, PlainIds, readSingleLineComment(x, i))
<1>1. "SingleLineComment" \in PlainIds
  BY DEF PlainIds
<1>2. PICK j \in i + 1 .. Len(x.text) + 1 :
          \/ readSingleLineComment(x, i) = Error
          \/ readSingleLineComment(x, i) = Token("SingleLineComment", j)
  BY LineCommentReads
<1> QED
  BY <1>1, <1>2, OneToken, ErrorReads

LEMMA SlashAnswers ==
  ASSUME NEW x, IsScanner(x), NEW i \in 1 .. Len(x.text), At(x, i) = "/"
  PROVE  Answers(x, i, readSlash(x, i))
<1> DEFINE c2 == At(x, i + 1)
           r == readSlash(x, i)
<1>1. \/ c2 \in {End, Invalid} /\ r = LookError(c2)
      \/ c2 = "*" /\ r = readMultiLineComment(x, i)
      \/ r = readSingleLineComment(x, i)
      \/ c2 = "-" /\ r = Token("TokenComment", i + 2)
      \/ r = readIdentifier(x, i) \/ r = Error
  <2>1. x.nginx \in BOOLEAN
    BY DEF IsScanner
  <2>2. c2 \in {End, Invalid} => r = LookError(c2)
    BY DEF readSlash, End, Invalid
  <2>3. c2 \notin {End, Invalid} =>
            \/ c2 = "*" /\ r = readMultiLineComment(x, i)
            \/ r = readSingleLineComment(x, i)
            \/ c2 = "-" /\ r = Token("TokenComment", i + 2)
            \/ r = readIdentifier(x, i) \/ r = Error
    BY <2>1 DEF readSlash
  <2> QED
    BY <2>2, <2>3
<1>2. "/" \notin Separators
  BY DEF Separators, WhiteSpace, NewlineChars
<1>3. c2 = "-" => Reads(x, i, PlainIds, Token("TokenComment", i + 2))
  <2>1. c2 = "-" => i + 1 \in 1 .. Len(x.text)
    BY Within DEF End
  <2>2. c2 = "-" => i + 2 \in i + 1 .. Len(x.text) + 1
    BY <2>1, Texts
  <2>3. "TokenComment" \in PlainIds
    BY DEF PlainIds
  <2> QED
    BY <2>2, <2>3, OneToken
<1>4. c2 = End => Unseparated(x, i)
  BY <1>2, SoonEnded
<1>5. Reads(x, i, PlainIds, LookError(c2))
  BY <1>4, LookErrorReads, Texts
<1> HIDE DEF r
<1> QED
  BY <1>1, <1>3, <1>5, IdentifierAnswers, LineCommentIsRead, ErrorReads
     DEF Answers, CommentFrom, Opens, r

LEMMA SignedAnswers ==
  ASSUME NEW x, IsScanner(x), NEW i \in 1 .. Len(x.text), At(x, i) \in Signs \cup {"?"}
  PROVE  Answers(x, i, readSigned(x, i))
<1> DEFINE c2 == At(x, i + 1)
           r == readSigned(x, i)
<1>1. \/ c2 = End /\ r = Ended
      \/ r = Error \/ r = readDecimal(x, i) \/ r = readIdentifier(x, i)
  BY DEF readSigned
<1>2. (Signs \cup {"?"}) \cap Separators = {}
  BY DEF Separators, WhiteSpace, NewlineChars, Signs
<1>3. c2 = End => Unseparated(x, i)
  BY <1>2, SoonEnded
<1> HIDE DEF r
<1> QED
  BY <1>1, <1>3, DecimalReads, IdentifierAnswers, ErrorReads DEF Answers, Reads, r

LEMMA ZeroReads ==
  ASSUME NEW x, IsScanner(x), NEW i \in 1 .. Len(x.text), At(x, i) = "0"
  PROVE  Reads(x, i, PlainIds, readZero(x, i))
<1> DEFINE c2 == At(x, i + 1)
           r == readZero(x, i)
           Hex == Digits \cup {"a", "b", "c", "d", "e", "f"}
           Oct == Digits \ {"8", "9"}
<1>1. \/ c2 \in {End, Invalid} /\ r = LookError(c2)
      \/ c2 # End /\ r = readNumericBase(x, "Hexadecimal", Hex, i)
      \/ c2 # End /\ r = readNumericBase(x, "Octal", Oct, i)
      \/ c2 # End /\ r = readNumericBase(x, "Binary", {"0", "1"}, i)
      \/ r = readDecimal(x, i)
  <2>1. c2 \in {End, Invalid} => r = LookError(c2)
    BY DEF readZero, End, Invalid
  <2>2. c2 \notin {End, Invalid} =>
            \/ r = readNumericBase(x, "Hexadecimal", Hex, i)
            \/ r = readNumericBase(x, "Octal", Oct, i)
            \/ r = readNumericBase(x, "Binary", {"0", "1"}, i)
            \/ r = readDecimal(x, i)
    BY DEF readZero
  <2> HIDE DEF Hex, Oct
  <2> QED
    BY <2>1, <2>2
<1>2. End \notin Hex /\ End \notin Oct /\ End \notin {"0", "1"}
  BY DEF End, Digits
<1>3. "0" \notin Separators
  BY DEF Separators, WhiteSpace, NewlineChars
<1>4. Reads(x, i, PlainIds, LookError(c2))
  <2>1. c2 = End => Unseparated(x, i)
    BY <1>3, SoonEnded
  <2> QED
    BY <2>1, LookErrorReads, Texts
<1> HIDE DEF r, Hex, Oct
<1> QED
  BY <1>1, <1>2, <1>4, NumericBaseReads, DecimalReads DEF r

LEMMA OtherAnswers ==
  ASSUME NEW x, IsScanner(x), NEW i \in 1 .. Len(x.text)
  PROVE  Answers(x, i, readOther(x, i))
<1> DEFINE c == At(x, i)
           r == readOther(x, i)
<1>1. \/ r = Error
      \/ c = "#" /\ r = readHashToken(x, i)
      \/ c = "#" /\ r = readSingleLineComment(x, i)
      \/ r = Token("Whitespace", i + 1)
      \/ r = readIdentifier(x, i)
  <2>1. x.nginx \in BOOLEAN /\ x.yaml \in BOOLEAN
    BY DEF IsScanner
  <2> QED
    BY <2>1 DEF readOther
<1>2. Reads(x, i, PlainIds, Token("Whitespace", i + 1))
  <2>1. i + 1 \in i + 1 .. Len(x.text) + 1 /\ "Whitespace" \in PlainIds
    BY Texts DEF PlainIds
  <2> QED
    BY <2>1, OneToken
<1> HIDE DEF r
<1> QED
  BY <1>1, <1>2, HashReads, LineCommentIsRead, IdentifierAnswers, ErrorReads DEF Answers, r

LEMMA SingleReads ==
  ASSUME NEW x, IsScanner(x), NEW i \in 1 .. Len(x.text), NEW id \in PlainIds
  PROVE  /\ Reads(x, i, PlainIds, Token(id, i + 1))
         /\ At(x, i + 1) # End => Reads(x, i, PlainIds, Token(id, i + 2))
<1>1. i + 1 \in i + 1 .. Len(x.text) + 1 /\ i + 1 \in Int
  BY Texts
<1>2. At(x, i + 1) # End => i + 2 \in i + 1 .. Len(x.text) + 1
  <2>1. At(x, i + 1) # End => i + 1 \in 1 .. Len(x.text)
    BY <1>1, Within
  <2> QED
    BY <2>1, Texts
<1> QED
  BY <1>1, <1>2, OneToken

LEMMA NextAnswers ==
  ASSUME NEW x, IsScanner(x), NEW i \in 1 .. Len(x.text) + 1
  PROVE  /\ Answers(x, i, readNext(x, i))
         /\ At(x, i) = Bom /\ ~Failed(readNext(x, i)) => i = 1
<1> DEFINE c == At(x, i)
           c2 == At(x, i + 1)
           r == readNext(x, i)
<1>1. Len(x.text) \in Nat /\ (c # End => i \in 1 .. Len(x.text)) /\ x.nginx \in BOOLEAN
  BY Within, Texts DEF IsScanner
<1>2. CASE c \in {End, Invalid}
  <2>1. r = LookError(c)
    BY <1>2 DEF readNext, End, Invalid, WhiteSpace, NewlineChars, Bom, Punctuation,
                StrictPunctuation, Signs, Digits
  <2>2. c = End => Unseparated(x, i)
    <3>1. c = End => i = Len(x.text) + 1
      BY <1>1, Texts
    <3> QED
      BY <1>1, <3>1 DEF Unseparated
  <2> QED
    BY <1>2, <2>1, <2>2, LookErrorReads DEF Answers, Bom, End, Invalid
<1>3. CASE c = Bom
  <2>1. r = IF i = 1 THEN Token("Whitespace", 2) ELSE Error
    BY <1>3 DEF readNext, End, Invalid, WhiteSpace, NewlineChars, Bom, Punctuation,
                StrictPunctuation, Signs, Digits
  <2>2. i \in 1 .. Len(x.text) /\ "Whitespace" \in PlainIds /\ (i = 1 => i + 1 = 2)
    BY <1>1, <1>3 DEF Bom, End, PlainIds
  <2>3. Reads(x, i, PlainIds, Token("Whitespace", i + 1)) /\ Reads(x, i, PlainIds, Error)
    BY <2>2, SingleReads, ErrorReads
  <2> QED
    BY <1>3, <2>1, <2>2, <2>3, OutcomesDiffer DEF Answers
<1>4. CASE c \notin {End, Invalid, Bom}
  <2>1. \/ r = readWhile(x, "Whitespace", WhiteSpace, i, 1)
        \/ r = Token("Newline", i + 1)
        \/ r = Token("Newline", i + 2) /\ c2 = "\n"
        \/ c = "/" /\ r = readSlash(x, i)
        \/ c \in DOMAIN Punctuation /\ r = Token(Punctuation[c], i + 1)
        \/ c \in DOMAIN StrictPunctuation /\ r = Token(StrictPunctuation[c], i + 1)
        \/ r = Error
        \/ c \in Signs \cup {"?"} /\ r = readSigned(x, i)
        \/ c = "0" /\ r = readZero(x, i)
        \/ r = readDecimal(x, i)
        \/ r = readOther(x, i)
    <3> DEFINE blank == c \in WhiteSpace
               ended == c \in {End, Invalid}
               breaks == c \in NewlineChars
               mark == c = Bom
               isPunctuation == c \in DOMAIN Punctuation
               isStrict == c \in DOMAIN StrictPunctuation /\ ~x.nginx
               signed == c \in Signs \cup {"?"}
               digit == c \in Digits \ {"0"}
               slash == c = "/"
               comma == c = ","
               zero == c = "0"
               pair == c = "\r" /\ c2 = "\n"
               white == readWhile(x, "Whitespace", WhiteSpace, i, 1)
               newline == Token("Newline", IF pair THEN i + 2 ELSE i + 1)
               punctuation == Token(Punctuation[c], i + 1)
               strict == Token(StrictPunctuation[c], i + 1)
               first == IF i = 1 THEN Token("Whitespace", 2) ELSE Error
    <3>1. r = CASE ended -> LookError(c)
                [] blank -> white
                [] mark -> first
                [] breaks -> newline
                [] slash -> readSlash(x, i)
                [] isPunctuation -> punctuation
                [] isStrict -> strict
                [] comma -> Error
                [] signed -> readSigned(x, i)
                [] zero -> readZero(x, i)
                [] digit -> readDecimal(x, i)
                [] OTHER -> readOther(x, i)
      BY DEF readNext
    <3>2. /\ ~ended /\ ~mark
      BY <1>1, <1>4
    <3>3. newline = Token("Newline", i + 1) \/ (c2 = "\n" /\ newline = Token("Newline", i + 2))
      OBVIOUS
    <3> HIDE DEF r, c, ended, blank, mark, breaks, isPunctuation, isStrict, signed, digit, slash, comma,
                 zero, white,
                 newline, punctuation, strict, first
    <3>4. \/ blank /\ r = white
          \/ breaks /\ r = newline
          \/ slash /\ r = readSlash(x, i)
          \/ isPunctuation /\ r = punctuation
          \/ isStrict /\ r = strict
          \/ comma /\ r = Error
          \/ signed /\ r = readSigned(x, i)
          \/ zero /\ r = readZero(x, i)
          \/ digit /\ r = readDecimal(x, i)
          \/ r = readOther(x, i)
      BY <3>1, <3>2, SMT
    <3> QED
      BY <3>3, <3>4 DEF slash, zero, white, isPunctuation, punctuation, isStrict, strict, signed
  <2>2. /\ \A p \in DOMAIN Punctuation : Punctuation[p] \in PlainIds
        /\ \A p \in DOMAIN StrictPunctuation : StrictPunctuation[p] \in PlainIds
    BY DEF Punctuation, StrictPunctuation, PlainIds
  <2>3. "Newline" \in PlainIds /\ {"Whitespace"} \subseteq PlainIds /\ "\n" # End
    BY DEF PlainIds, End
  <2>4. i \in 1 .. Len(x.text)
    BY <1>1, <1>4
  <2>5. Reads(x, i, PlainIds, readWhile(x, "Whitespace", WhiteSpace, i, 1))
    <3>1. End \notin WhiteSpace
      BY DEF End, WhiteSpace
    <3>2. Reads(x, i, {"Whitespace"}, readWhile(x, "Whitespace", WhiteSpace, i, 1))
      BY <3>1, WhileIsRead
    <3> QED
      BY <2>3, <3>2, ReadsMore
  <2> HIDE DEF r, c, c2
  <2>6. Answers(x, i, r)
    BY <2>1, <2>2, <2>3, <2>4, <2>5, SingleReads, SlashAnswers, SignedAnswers, ZeroReads,
       DecimalReads, OtherAnswers, ErrorReads DEF Answers, c, c2
  <2> QED
    BY <1>4, <2>6 DEF r, c
<1> QED
  BY <1>2, <1>3, <1>4

\* Every answer of readNext is an error, the end of the input with no separator
\* before it, or a token that is not empty.
LEMMA NextReads ==
  ASSUME NEW x, IsScanner(x), NEW i \in 1 .. Len(x.text) + 1
  PROVE  LET o == readNext(x, i)
         IN  /\ Reads(x, i, PlainIds \cup {"RawString", "MultiLineComment"}, o)
             /\ o.id = "RawString" => RawFrom(x, i, o)
             /\ o.id = "MultiLineComment" => CommentFrom(x, i, o)
<1> DEFINE o == readNext(x, i)
           all == PlainIds \cup {"RawString", "MultiLineComment"}
<1>1. Answers(x, i, o)
  BY NextAnswers
<1> HIDE DEF o
<1>2. "RawString" \notin PlainIds /\ "MultiLineComment" \notin PlainIds /\ "Unknown" \notin PlainIds
  BY DEF PlainIds
<1>3. Error.id = "Unknown" /\ Ended.id = "Unknown"
  BY DEF Error, Ended
<1>4. CASE RawFrom(x, i, o)
  <2>1. i \in 1 .. Len(x.text)
    BY <1>4, Texts DEF RawFrom
  <2>2. Reads(x, i, {"RawString"}, o)
    BY <1>4, <2>1, RawFromReads
  <2>3. o.id # "MultiLineComment"
    BY <1>3, <2>2, OutcomesDiffer DEF Reads
  <2> QED
    BY <1>4, <2>2, <2>3, ReadsMore DEF o
<1>5. CASE CommentFrom(x, i, o)
  <2>1. Reads(x, i, {"MultiLineComment"}, o)
    BY <1>5, CommentIsRead DEF CommentFrom
  <2>3. o.id # "RawString"
    BY <1>3, <2>1, OutcomesDiffer DEF Reads
  <2> QED
    BY <1>5, <2>1, <2>3, ReadsMore DEF o
<1>6. CASE Reads(x, i, PlainIds, o)
  <2>1. o.id # "RawString" /\ o.id # "MultiLineComment"
    BY <1>2, <1>3, <1>6, OutcomesDiffer DEF Reads
  <2> QED
    BY <1>6, <2>1, ReadsMore DEF o
<1> QED
  BY <1>1, <1>4, <1>5, <1>6 DEF Answers

----------------------------------------------------------------------------
(* detectVersion finds a marker line exactly where the grammar has one.    *)

\* MarkerLine, for any scanner.
Marks(x, i, n) ==
    /\ At(x, i) = "/" /\ At(x, i + 1) = "-"
    /\ \E name \in i + 2 .. Len(x.text), end \in i .. Len(x.text) + 1 :
        \E number \in name + 2 .. end - 1 :
            /\ x.text[name] = "kdl-version"
            /\ x.text[number] = n
            /\ At(x, end) \in NewlineChars \cup {End}
            /\ \A k \in (i + 2 .. end - 1) \ {name, number} : x.text[k] \in WhiteSpace

Slash(x, i) == IF At(x, i) = Bom THEN i + 1 ELSE i

LEMMA MarkerChars ==
  /\ End \notin WhiteSpace /\ {"kdl-version", "1", "2"} \cap (WhiteSpace \cup {End}) = {}
  /\ (NewlineChars \cup {End}) \cap WhiteSpace = {} /\ "1" # "2" /\ "-" # End /\ "/" # End
BY DEF End, WhiteSpace, NewlineChars

\* The condition of detectVersion, with the positions it computes.
Finds(x, i, n) ==
    LET name == Run(x, WhiteSpace, i + 2)
        number == Run(x, WhiteSpace, name + 1)
        end == Run(x, WhiteSpace, number + 1)
    IN  /\ At(x, i) = "/" /\ At(x, i + 1) = "-"
        /\ At(x, name) = "kdl-version" /\ number > name + 1
        /\ At(x, number) = n /\ At(x, end) \in NewlineChars \cup {End}

LEMMA FindsMarks ==
  ASSUME NEW x, IsScanner(x), NEW i \in 1 .. Len(x.text) + 1, NEW n \in {"1", "2"}, Finds(x, i, n)
  PROVE  Marks(x, i, n)
<1> DEFINE name == Run(x, WhiteSpace, i + 2)
           number == Run(x, WhiteSpace, name + 1)
           end == Run(x, WhiteSpace, number + 1)
<1>1. /\ At(x, i) = "/" /\ At(x, i + 1) = "-"
      /\ At(x, name) = "kdl-version" /\ number > name + 1
      /\ At(x, number) = n /\ At(x, end) \in NewlineChars \cup {End}
  BY DEF Finds
<1>2. Len(x.text) \in Nat /\ i + 2 \in 1 .. Len(x.text) + 1
  <2>1. i + 1 \in 1 .. Len(x.text)
    BY <1>1, Within, MarkerChars
  <2> QED
    BY <2>1, Texts
<1>3. Stops(x, WhiteSpace, i + 2, name)
  BY <1>2, RunStops, MarkerChars
<1> HIDE DEF name
<1>4. name \in i + 2 .. Len(x.text) /\ name + 1 \in 1 .. Len(x.text) + 1
  <2>1. name \in i + 2 .. Len(x.text) + 1
    BY <1>3 DEF Stops
  <2>2. name \in Int /\ At(x, name) # End
    BY <1>1, <2>1, MarkerChars
  <2> QED
    BY <1>2, <2>1, <2>2, Within
<1>5. Stops(x, WhiteSpace, name + 1, number)
  BY <1>4, RunStops, MarkerChars
<1> HIDE DEF number
<1>6. number \in name + 2 .. Len(x.text) /\ number + 1 \in 1 .. Len(x.text) + 1
  <2>1. number \in name + 1 .. Len(x.text) + 1
    BY <1>5 DEF Stops
  <2>2. number \in Int /\ At(x, number) # End
    BY <1>1, <2>1, MarkerChars
  <2> QED
    BY <1>1, <1>2, <1>4, <2>1, <2>2, Within
<1>7. Stops(x, WhiteSpace, number + 1, end)
  BY <1>6, RunStops, MarkerChars
<1> HIDE DEF end
<1>8. end \in number + 1 .. Len(x.text) + 1
  BY <1>7 DEF Stops
<1>9. end \in i .. Len(x.text) + 1 /\ number \in name + 2 .. end - 1
  BY <1>2, <1>4, <1>6, <1>8
<1>10. ASSUME NEW k \in (i + 2 .. end - 1) \ {name, number} PROVE x.text[k] \in WhiteSpace
  <2>1. k \in i + 2 .. name - 1 \/ k \in name + 1 .. number - 1 \/ k \in number + 1 .. end - 1
    BY <1>4, <1>6, <1>8
  <2>2. At(x, k) \in WhiteSpace
    BY <1>3, <1>5, <1>7, <2>1 DEF Stops
  <2>3. k \in 1 .. Len(x.text)
    BY <1>2, <1>8
  <2> QED
    BY <2>2, <2>3, Texts
<1>11. x.text[name] = "kdl-version" /\ x.text[number] = n
  <2>1. name \in 1 .. Len(x.text) /\ number \in 1 .. Len(x.text)
    BY <1>2, <1>4, <1>6
  <2> QED
    BY <1>1, <2>1, Texts
<1> QED
  BY <1>1, <1>4, <1>9, <1>10, <1>11 DEF Marks

LEMMA MarksFinds ==
  ASSUME NEW x, IsScanner(x), NEW i \in 1 .. Len(x.text) + 1, NEW n \in {"1", "2"}, Marks(x, i, n)
  PROVE  Finds(x, i, n)
<1>1. PICK name \in i + 2 .. Len(x.text), end \in i .. Len(x.text) + 1 :
        \E number \in name + 2 .. end - 1 :
            /\ x.text[name] = "kdl-version"
            /\ x.text[number] = n
            /\ At(x, end) \in NewlineChars \cup {End}
            /\ \A k \in (i + 2 .. end - 1) \ {name, number} : x.text[k] \in WhiteSpace
  BY DEF Marks
<1>2. PICK number \in name + 2 .. end - 1 :
            /\ x.text[name] = "kdl-version"
            /\ x.text[number] = n
            /\ At(x, end) \in NewlineChars \cup {End}
            /\ \A k \in (i + 2 .. end - 1) \ {name, number} : x.text[k] \in WhiteSpace
  BY <1>1
<1>3. /\ Len(x.text) \in Nat /\ name \in 1 .. Len(x.text) /\ number \in 1 .. Len(x.text)
      /\ i + 2 \in 1 .. Len(x.text) + 1 /\ name + 1 \in 1 .. Len(x.text) + 1
      /\ number + 1 \in 1 .. Len(x.text) + 1
      /\ name \in i + 2 .. Len(x.text) + 1 /\ number \in name + 1 .. Len(x.text) + 1
      /\ end \in number + 1 .. Len(x.text) + 1 /\ number > name + 1
  BY Texts
<1>4. At(x, name) = "kdl-version" /\ At(x, number) = n
  BY <1>2, <1>3, Texts
<1>5. \A k \in (i + 2 .. end - 1) \ {name, number} : At(x, k) \in WhiteSpace
  <2>1. \A k \in i + 2 .. end - 1 : k \in 1 .. Len(x.text)
    BY <1>3
  <2> QED
    BY <1>2, <2>1, Texts
<1>6. Stops(x, WhiteSpace, i + 2, name)
  <2>1. \A k \in i + 2 .. name - 1 : k \in (i + 2 .. end - 1) \ {name, number}
    BY <1>3
  <2> QED
    BY <1>3, <1>4, <1>5, <2>1, MarkerChars DEF Stops
<1>7. Stops(x, WhiteSpace, name + 1, number)
  <2>1. \A k \in name + 1 .. number - 1 : k \in (i + 2 .. end - 1) \ {name, number}
    BY <1>3
  <2> QED
    BY <1>3, <1>4, <1>5, <2>1, MarkerChars DEF Stops
<1>8. Stops(x, WhiteSpace, number + 1, end)
  <2>1. \A k \in number + 1 .. end - 1 : k \in (i + 2 .. end - 1) \ {name, number}
    BY <1>3
  <2>2. At(x, end) \notin WhiteSpace
    BY <1>2, MarkerChars
  <2> QED
    BY <1>3, <1>5, <2>1, <2>2 DEF Stops
<1>9. name = Run(x, WhiteSpace, i + 2)
  BY <1>3, <1>6, RunStops, OneStop, MarkerChars
<1>10. number = Run(x, WhiteSpace, name + 1)
  BY <1>3, <1>7, RunStops, OneStop, MarkerChars
<1>11. end = Run(x, WhiteSpace, number + 1)
  BY <1>3, <1>8, RunStops, OneStop, MarkerChars
<1>12. At(x, i) = "/" /\ At(x, i + 1) = "-"
  BY DEF Marks
<1> QED
  BY <1>2, <1>3, <1>4, <1>9, <1>10, <1>11, <1>12 DEF Finds

LEMMA DetectReads ==
  ASSUME NEW x, IsScanner(x), NEW i \in 1 .. Len(x.text) + 1
  PROVE  LET d == detectVersion(x, i)
         IN  /\ \A n \in {"1", "2"} : Marks(x, Slash(x, i), n) => d.version = Named(n)
             /\ \/ d.version = x.version
                \/ \E n \in {"1", "2"} : Marks(x, Slash(x, i), n) /\ d.version = Named(n)
<1> DEFINE slash == Slash(x, i)
           name == Run(x, WhiteSpace, slash + 2)
           number == Run(x, WhiteSpace, name + 1)
           end == Run(x, WhiteSpace, number + 1)
           d == detectVersion(x, i)
           found == /\ At(x, slash) = "/" /\ At(x, slash + 1) = "-"
                    /\ At(x, name) = "kdl-version" /\ number > name + 1
                    /\ At(x, number) \in {"1", "2"} /\ At(x, end) \in NewlineChars \cup {End}
           begins == At(x, slash) \notin {"/", "NUL", End, Invalid}
<1>1. d = CASE begins -> [version |-> x.version, detected |-> TRUE]
            [] found -> [version |-> IF At(x, number) = "1" THEN "V1" ELSE "V2", detected |-> TRUE]
            [] OTHER -> [version |-> x.version, detected |-> FALSE]
  BY DEF detectVersion, Slash
<1>2. found => ~begins
  OBVIOUS
<1>3. found <=> \E n \in {"1", "2"} : Finds(x, slash, n)
  BY DEF Finds
<1>4. \A n \in {"1", "2"} : Finds(x, slash, n) => At(x, number) = n
  BY DEF Finds
<1> HIDE DEF d, found, begins, number
<1>5. /\ found => d.version = IF At(x, number) = "1" THEN "V1" ELSE "V2"
      /\ ~found => d.version = x.version
  BY <1>1, <1>2
<1>6. slash \in 1 .. Len(x.text) + 1
  <2>1. At(x, i) = Bom => At(x, i) # End
    BY DEF Bom, End
  <2> QED
    BY <2>1, Within DEF Slash
<1> HIDE DEF slash
<1>7. \A n \in {"1", "2"} : Marks(x, slash, n) <=> Finds(x, slash, n)
  BY <1>6, FindsMarks, MarksFinds
<1>8. \A n \in {"1", "2"} : Marks(x, slash, n) => d.version = Named(n)
  BY <1>3, <1>4, <1>5, <1>7 DEF Named
<1>9. \/ d.version = x.version
      \/ \E n \in {"1", "2"} : Marks(x, slash, n) /\ d.version = Named(n)
  BY <1>3, <1>5, <1>7, <1>8
<1> QED
  BY <1>8, <1>9 DEF slash, d

----------------------------------------------------------------------------
(* The scanner between two tokens.                                         *)

AllIds == PlainIds \cup {"RawString", "MultiLineComment"}

Scanners ==
    [text : Seq(Characters), version : Versions, asked : Versions, nginx : BOOLEAN,
     yaml : BOOLEAN, suffixes : BOOLEAN, at : Int, marker : BOOLEAN, line : Int, column : Int]

Tokens ==
    [id : AllIds \cup {"Unknown"}, from : Int, to : Int, line : Int, column : Int,
     version : Versions, bytes : Int]

LEMMA ScannersScan ==
  ASSUME NEW x \in Scanners
  PROVE  IsScanner(x)
BY DEF Scanners, IsScanner

LEMMA SpansAreFinite ==
  ASSUME NEW i \in Int, NEW j \in Int, NEW S, S \subseteq i .. j
  PROVE  /\ IsFiniteSet(S) /\ Cardinality(S) \in Nat
         /\ Cardinality(S) = 0 <=> S = {}
         /\ S # {} => \E k \in S : \A l \in S : l <= k
<1>1. IsFiniteSet(S)
  BY FS_Interval, FS_Subset
<1>2. ASSUME S # {} PROVE \E k \in S : \A l \in S : l <= k
  <2> DEFINE A == {n \in Nat : j - n \in S}
  <2>1. PICK k \in S : TRUE
    BY <1>2
  <2>2. A \in SUBSET Nat /\ j - k \in A
    <3>1. j - k \in Nat /\ j - (j - k) = k
      BY <2>1
    <3> QED
      BY <2>1, <3>1
  <2>3. PICK n \in A : \A m \in A : n <= m
    <3> HIDE DEF A
    <3> QED
      BY <2>2, LeastNumber
  <2>4. ASSUME NEW l \in S PROVE l <= j - n
    <3>1. j - l \in Nat /\ j - (j - l) = l
      BY <2>4
    <3> QED
      BY <2>3, <3>1
  <2> QED
    BY <2>3, <2>4
<1> QED
  BY <1>1, <1>2, FS_CardinalityType, FS_EmptySet

\* Where the text goes on behind the characters from i to j.
Reach(text, i, j, line, column, line2, column2) ==
    IF \E k \in i .. j - 1 : text[k] \in NewlineChars THEN line2 > line
    ELSE line2 = line /\ column2 = column + (j - i)

LEMMA Advanced ==
  ASSUME NEW x \in Scanners, NEW j \in Int
  PROVE  LET y == advance(x, j)
         IN  /\ y \in Scanners /\ y.at = j /\ y.text = x.text /\ y.version = x.version
             /\ y.asked = x.asked /\ y.marker = x.marker
             /\ Reach(x.text, x.at, j, x.line, x.column, y.line, y.column)
<1> DEFINE lines == {k \in x.at .. j - 1 : x.text[k] \in NewlineChars}
           last == CHOOSE k \in lines : \A l \in lines : l <= k
           line == x.line + Cardinality(lines)
           column == IF lines = {} THEN x.column + j - x.at ELSE j - last
           y == advance(x, j)
<1>1. x.at \in Int /\ x.line \in Int /\ x.column \in Int
  BY DEF Scanners
<1>2. y = [x EXCEPT !.at = j, !.line = line, !.column = column]
  BY DEF advance
<1>3. /\ Cardinality(lines) \in Nat /\ (Cardinality(lines) = 0 <=> lines = {})
      /\ lines # {} => last \in lines
  <2>1. lines \subseteq x.at .. j - 1 /\ j - 1 \in Int
    OBVIOUS
  <2> HIDE DEF lines
  <2> QED
    BY <1>1, <2>1, SpansAreFinite
<1>4. column \in Int /\ line \in Int
  BY <1>1, <1>3
<1>5. lines # {} <=> \E k \in x.at .. j - 1 : x.text[k] \in NewlineChars
  OBVIOUS
<1>6. lines = {} => column = x.column + (j - x.at)
  BY <1>1
<1>7. lines = {} => line = x.line
  BY <1>1, <1>3
<1>8. lines # {} => line > x.line
  BY <1>1, <1>3
<1> HIDE DEF lines, line, column, y
<1>9. y \in Scanners
  BY <1>2, <1>4 DEF Scanners
<1>10. /\ y.at = j /\ y.text = x.text /\ y.version = x.version /\ y.asked = x.asked
      /\ y.marker = x.marker /\ y.line = line /\ y.column = column
  BY <1>2 DEF Scanners
<1>11. Reach(x.text, x.at, j, x.line, x.column, y.line, y.column)
  BY <1>5, <1>6, <1>10, <1>7, <1>8 DEF Reach
<1> QED
  BY <1>9, <1>10, <1>11 DEF y

LEMMA SameMarks ==
  ASSUME NEW x, NEW y, x.text = y.text, NEW i, NEW n
  PROVE  Marks(x, i, n) <=> Marks(y, i, n)
BY DEF Marks, At

LEMMA Versioned ==
  ASSUME NEW x \in Scanners, x.at \in 1 .. Len(x.text) + 1
  PROVE  LET y == versioned(x)
         IN  /\ y \in Scanners /\ y.at = x.at /\ y.text = x.text /\ y.asked = x.asked
             /\ y.line = x.line /\ y.column = x.column
             /\ x.version = "Auto" /\ ~x.marker =>
                    \A n \in {"1", "2"} : Marks(x, Slash(x, x.at), n) => y.version = Named(n)
             /\ \/ y.version = x.version
                \/ /\ x.version = "Auto"
                   /\ \E n \in {"1", "2"} : Marks(x, Slash(x, x.at), n) /\ y.version = Named(n)
<1> DEFINE d == detectVersion(x, x.at)
           y == versioned(x)
<1>1. /\ \A n \in {"1", "2"} : Marks(x, Slash(x, x.at), n) => d.version = Named(n)
      /\ \/ d.version = x.version
         \/ \E n \in {"1", "2"} : Marks(x, Slash(x, x.at), n) /\ d.version = Named(n)
  BY ScannersScan, DetectReads
<1>2. d.detected \in BOOLEAN
  BY DEF detectVersion
<1>3. y = IF x.version = "Auto" /\ ~x.marker
          THEN [x EXCEPT !.version = d.version, !.marker = d.detected] ELSE x
  BY DEF versioned
<1> HIDE DEF d, y
<1>4. d.version \in Versions
  BY <1>1 DEF Scanners, Named, Versions
<1>5. /\ y \in Scanners /\ y.at = x.at /\ y.text = x.text /\ y.asked = x.asked
      /\ y.line = x.line /\ y.column = x.column
      /\ y.version = IF x.version = "Auto" /\ ~x.marker THEN d.version ELSE x.version
  BY <1>2, <1>3, <1>4 DEF Scanners
<1> QED
  BY <1>1, <1>5 DEF y

LEMMA Sized ==
  ASSUME NEW x, NEW i \in Int, NEW j \in Int
  PROVE  /\ Bytes(x, i, j) \in Int
         /\ Bytes(x, i, j) = j - i <=> \A k \in i .. j - 1 : x.text[k] \notin MultiByte
<1> DEFINE S == {k \in i .. j - 1 : x.text[k] \in MultiByte}
<1>1. Cardinality(S) \in Nat /\ (Cardinality(S) = 0 <=> S = {})
  <2>1. S \subseteq i .. j - 1 /\ j - 1 \in Int
    OBVIOUS
  <2> HIDE DEF S
  <2> QED
    BY <2>1, SpansAreFinite
<1>2. Bytes(x, i, j) = j - i + Cardinality(S)
  BY DEF Bytes
<1>3. S = {} <=> \A k \in i .. j - 1 : x.text[k] \notin MultiByte
  OBVIOUS
<1> HIDE DEF S
<1> QED
  BY <1>1, <1>2, <1>3

----------------------------------------------------------------------------
(* The inductive invariant.                                                *)

TypeOK ==
    /\ s \in Scanners /\ s.at \in 1 .. Len(s.text) + 1
    /\ token \in Tokens /\ prev \in Tokens
    /\ pc \in {"token", "eof", "error", "done"}

\* Tokens are not empty and follow each other.
Order ==
    /\ Exists(token) => token.from \in 1 .. token.to - 1 /\ token.to = s.at
    /\ Exists(prev) => /\ Exists(token)
                       /\ prev.from \in 1 .. prev.to - 1 /\ prev.to = token.from

\* Their lines and columns do too, and their lengths are those of their characters.
Follows(t, line, column) == Reach(s.text, t.from, t.to, t.line, t.column, line, column)

Places ==
    /\ Exists(token) => Follows(token, s.line, s.column)
    /\ Exists(prev) => Follows(prev, token.line, token.column)

Sizes ==
    /\ Exists(token) => token.bytes = Bytes(s, token.from, token.to)
    /\ Exists(prev) => prev.bytes = Bytes(s, prev.from, prev.to)

\* The version is the one that was asked for until a marker sets it.
VersionIsKept ==
    /\ s.asked # "Auto" => s.version = s.asked
    /\ pc = "token" => IF Exists(token) THEN s.version = token.version
                       ELSE s.at = 1 /\ ~s.marker /\ s.version = s.asked /\ ~Exists(prev)

\* A raw string, and a comment, is what its reader read where it begins.
IsRead ==
    LET o == [id |-> token.id, to |-> token.to, err |-> "none"]
        x == [s EXCEPT !.version = token.version]
    IN  /\ token.id = "RawString" => RawFrom(x, token.from, o)
        /\ token.id = "MultiLineComment" => CommentFrom(x, token.from, o)

IInv ==
    /\ TypeOK /\ Order /\ Places /\ Sizes /\ VersionIsKept /\ IsRead
    /\ MarkerDecides /\ VersionIsExplained /\ LosesOneTokenAtMost

LEMMA MarkerLines ==
  ASSUME NEW i, NEW n
  PROVE  MarkerLine(i, n) <=> Marks(s, i, n)
BY DEF MarkerLine, Marks

LEMMA NoTokenExists == ~Exists(NoToken) /\ NoToken \in Tokens
BY DEF Exists, NoToken, Tokens, Versions, AllIds

LEMMA InitIInv ==
  ASSUME Init
  PROVE  IInv
<1>1. PICK k \in DOMAIN Inputs : \E text \in Inputs[k].texts, m \in Inputs[k].modes : s = NewSlice(text, m)
  BY DEF Init
<1>2. PICK text \in Inputs[k].texts, m \in Inputs[k].modes : s = NewSlice(text, m)
  BY <1>1
<1>3. text \in Seq(Characters) /\ m.version \in Versions
      /\ m.nginx \in BOOLEAN /\ m.yaml \in BOOLEAN /\ m.suffixes \in BOOLEAN
  BY InputsAssumption DEF Characters
<1>4. /\ s \in Scanners /\ s.at = 1 /\ s.marker = FALSE /\ s.text = text /\ s.version = s.asked
  BY <1>2, <1>3 DEF NewSlice, Scanners
<1>5. Len(text) \in Nat /\ 1 \in 1 .. Len(text) + 1
  BY <1>3
<1>6. token = NoToken /\ prev = NoToken /\ pc = "token"
  BY DEF Init
<1>7. token.id = "Unknown"
  BY <1>6 DEF NoToken
<1> QED
  BY <1>4, <1>5, <1>6, <1>7, NoTokenExists
     DEF IInv, TypeOK, Order, Places, Sizes, VersionIsKept, IsRead, MarkerDecides,
         VersionIsExplained, LosesOneTokenAtMost

\* What readNext answers in a state of the invariant.
LEMMA TokenScanned ==
  ASSUME TypeOK, NEW x, x = versioned(s), NEW o, o = readNext(x, x.at), ~Failed(o)
  PROVE  /\ x \in Scanners /\ x.at = s.at /\ x.text = s.text /\ x.asked = s.asked
         /\ x.line = s.line /\ x.column = s.column /\ Len(s.text) \in Nat
         /\ o.id \in AllIds /\ o.to \in s.at + 1 .. Len(s.text) + 1 /\ o = Token(o.id, o.to)
         /\ o.id = "RawString" => RawFrom(x, s.at, o)
         /\ o.id = "MultiLineComment" => CommentFrom(x, s.at, o)
         /\ At(s, s.at) = Bom => s.at = 1
<1>1. s \in Scanners /\ s.at \in 1 .. Len(s.text) + 1
  BY DEF TypeOK
<1>2. /\ x \in Scanners /\ x.at = s.at /\ x.text = s.text /\ x.asked = s.asked
      /\ x.line = s.line /\ x.column = s.column
  BY <1>1, Versioned
<1>3. IsScanner(x) /\ Len(s.text) \in Nat
  BY <1>2, ScannersScan, Texts
<1>4. /\ Reads(x, s.at, AllIds, o)
      /\ o.id = "RawString" => RawFrom(x, s.at, o)
      /\ o.id = "MultiLineComment" => CommentFrom(x, s.at, o)
  BY <1>1, <1>2, <1>3, NextReads DEF AllIds
<1>5. \E id \in AllIds, j \in s.at + 1 .. Len(s.text) + 1 : o = Token(id, j)
  BY <1>2, <1>4, OutcomesDiffer DEF Reads
<1>6. o.id \in AllIds /\ o.to \in s.at + 1 .. Len(s.text) + 1 /\ o = Token(o.id, o.to)
  BY <1>5, OutcomesDiffer
<1>7. At(x, s.at) = Bom => s.at = 1
  BY <1>1, <1>2, <1>3, NextAnswers
<1> QED
  BY <1>2, <1>3, <1>4, <1>6, <1>7 DEF At

\* The answer of Scan is a token.
Accepts(x, o) ==
    /\ x = versioned(s) /\ o = readNext(x, x.at)
    /\ pc = "token" /\ ~Failed(o)
    /\ prev' = token /\ token' = TokenOf(x, o) /\ s' = advance(x, o.to) /\ UNCHANGED pc

LEMMA AcceptedPlace ==
  ASSUME IInv, NEW x, NEW o, Accepts(x, o)
  PROVE  /\ s' \in Scanners /\ s'.at = o.to /\ s'.text = s.text /\ s'.asked = s.asked
         /\ s'.version = x.version /\ x.version \in Versions
         /\ token'.id = o.id /\ token'.from = s.at /\ token'.to = o.to /\ token'.line = s.line
         /\ token'.column = s.column /\ token'.version = x.version
         /\ token'.bytes = Bytes(s, s.at, o.to) /\ token' \in Tokens /\ Exists(token')
         /\ Reach(s.text, s.at, o.to, s.line, s.column, s'.line, s'.column)
<1>1. TypeOK /\ x = versioned(s) /\ o = readNext(x, x.at) /\ ~Failed(o)
  BY DEF IInv, Accepts
<1>2. /\ x \in Scanners /\ x.at = s.at /\ x.text = s.text /\ x.asked = s.asked
      /\ x.line = s.line /\ x.column = s.column /\ Len(s.text) \in Nat
      /\ o.id \in AllIds /\ o.to \in s.at + 1 .. Len(s.text) + 1
  BY <1>1, TokenScanned
<1>3. s.at \in 1 .. Len(s.text) + 1 /\ s.at \in Int /\ o.to \in Int
      /\ s.line \in Int /\ s.column \in Int
  BY <1>1, <1>2 DEF TypeOK, Scanners
<1>4. /\ s' \in Scanners /\ s'.at = o.to /\ s'.text = x.text /\ s'.version = x.version
      /\ s'.asked = x.asked /\ Reach(x.text, x.at, o.to, x.line, x.column, s'.line, s'.column)
  BY <1>2, <1>3, Advanced DEF Accepts
<1>5. Bytes(x, x.at, o.to) = Bytes(s, s.at, o.to) /\ Bytes(s, s.at, o.to) \in Int
  BY <1>2, <1>3, Sized DEF Bytes
<1>6. token' = [id |-> o.id, from |-> s.at, to |-> o.to, line |-> s.line, column |-> s.column,
                version |-> x.version, bytes |-> Bytes(s, s.at, o.to)]
  BY <1>2, <1>5 DEF Accepts, TokenOf
<1>7. x.version \in Versions
  BY <1>2 DEF Scanners
<1>8. token' \in Tokens
  BY <1>2, <1>3, <1>5, <1>6, <1>7 DEF Tokens
<1>9. o.id # "Unknown"
  BY <1>2 DEF AllIds, PlainIds
<1> QED
  BY <1>2, <1>4, <1>6, <1>7, <1>8, <1>9 DEF Exists

LEMMA AcceptedVersion ==
  ASSUME IInv, NEW x, NEW o, Accepts(x, o)
  PROVE  VersionIsKept' /\ MarkerDecides' /\ VersionIsExplained'
<1>1. TypeOK /\ VersionIsKept /\ MarkerDecides /\ x = versioned(s) /\ pc = "token" /\ pc' = pc
      /\ prev' = token /\ o = readNext(x, x.at) /\ ~Failed(o)
  BY DEF IInv, Accepts
<1>2. /\ s'.text = s.text /\ s'.asked = s.asked /\ s'.version = x.version
      /\ token'.version = x.version /\ token'.from = s.at /\ Exists(token')
  BY AcceptedPlace
<1>3. s \in Scanners /\ s.at \in 1 .. Len(s.text) + 1
  BY <1>1 DEF TypeOK
<1>4. /\ s.version = "Auto" /\ ~s.marker =>
             \A n \in {"1", "2"} : Marks(s, Slash(s, s.at), n) => x.version = Named(n)
      /\ \/ x.version = s.version
         \/ /\ s.version = "Auto"
            /\ \E n \in {"1", "2"} : Marks(s, Slash(s, s.at), n) /\ x.version = Named(n)
  BY <1>1, <1>3, Versioned
<1>5. \A i, n : MarkerLine(i, n)' <=> Marks(s, i, n)
  BY <1>2 DEF MarkerLine, Marks, At
<1>6. \A i : At(s', i) = At(s, i)
  BY <1>2 DEF At
<1>7. VersionIsKept'
  BY <1>1, <1>2, <1>4 DEF VersionIsKept
<1>8. MarkerDecides'
  <2>1. SUFFICES ASSUME s'.asked = "Auto", NEW n \in {"1", "2"},
                        MarkerLine(IF At(s, 1) = Bom THEN 2 ELSE 1, n)'
                 PROVE  x.version = Named(n)
    BY <1>2, <1>6 DEF MarkerDecides
  <2>2. Marks(s, Slash(s, 1), n)
    BY <1>5, <2>1, <1>6 DEF Slash
  <2>3. CASE Exists(token)
    <3>1. s.version = token.version
      BY <1>1, <2>3 DEF VersionIsKept
    <3>2. token.version = Named(n)
      BY <1>1, <1>2, <2>1, <2>2, <2>3, MarkerLines DEF MarkerDecides, Slash
    <3>3. Named(n) # "Auto"
      BY DEF Named
    <3> QED
      BY <1>4, <3>1, <3>2, <3>3
  <2>4. CASE ~Exists(token)
    <3>1. s.at = 1 /\ ~s.marker /\ s.version = "Auto"
      BY <1>1, <1>2, <2>1, <2>4 DEF VersionIsKept
    <3> QED
      BY <1>4, <2>2, <3>1
  <2> QED
    BY <2>3, <2>4
<1>9. VersionIsExplained'
  <2>1. SUFFICES ASSUME x.version # token.version, x.version # s.asked
                 PROVE  /\ s.asked = "Auto"
                        /\ \E n \in {"1", "2"} :
                              /\ x.version = Named(n)
                              /\ \/ Marks(s, s.at, n)
                                 \/ At(s, 1) = Bom /\ s.at = 1 /\ Marks(s, 2, n)
    BY <1>1, <1>2, <1>5, <1>6 DEF VersionIsExplained
  <2>2. x.version # s.version
    BY <1>1, <2>1 DEF VersionIsKept
  <2>3. s.asked = "Auto"
    BY <1>1, <1>4, <2>1, <2>2 DEF VersionIsKept
  <2>4. PICK n \in {"1", "2"} : Marks(s, Slash(s, s.at), n) /\ x.version = Named(n)
    BY <1>4, <2>2
  <2>5. At(s, s.at) = Bom => s.at = 1
    BY <1>1, TokenScanned
  <2> QED
    BY <2>3, <2>4, <2>5 DEF Slash
<1> QED
  BY <1>7, <1>8, <1>9

\* What is read at a place is a matter of the text and its version.
LEMMA SameReads ==
  ASSUME NEW x, NEW y, x.text = y.text, x.version = y.version, NEW i, NEW o
  PROVE  /\ RawFrom(x, i, o) => RawFrom(y, i, o)
         /\ CommentFrom(x, i, o) => CommentFrom(y, i, o)
<1>1. \A k : At(y, k) = At(x, k)
  BY DEF At
<1>2. \A id, j, n : rawContent(x, id, j, n) = rawContent(y, id, j, n)
  BY DEF rawContent, Hashes, At
<1>3. \A j : readMultiLineComment(x, j) = readMultiLineComment(y, j)
  BY DEF readMultiLineComment, At
<1> QED
  BY <1>1, <1>2, <1>3 DEF RawFrom, CommentFrom, Opens

LEMMA AcceptedIInv ==
  ASSUME IInv, NEW x, NEW o, Accepts(x, o)
  PROVE  IInv'
<1>1. /\ TypeOK /\ Order /\ Places /\ Sizes /\ x = versioned(s) /\ pc = "token" /\ pc' = pc
      /\ prev' = token /\ o = readNext(x, x.at) /\ ~Failed(o)
  BY DEF IInv, Accepts
<1>2. /\ s' \in Scanners /\ s'.at = o.to /\ s'.text = s.text /\ s'.asked = s.asked
      /\ s'.version = x.version /\ x.version \in Versions
      /\ token'.id = o.id /\ token'.from = s.at /\ token'.to = o.to /\ token'.line = s.line
      /\ token'.column = s.column /\ token'.version = x.version
      /\ token'.bytes = Bytes(s, s.at, o.to) /\ token' \in Tokens /\ Exists(token')
      /\ Reach(s.text, s.at, o.to, s.line, s.column, s'.line, s'.column)
  BY AcceptedPlace
<1>3. /\ Len(s.text) \in Nat /\ o.to \in s.at + 1 .. Len(s.text) + 1 /\ o = Token(o.id, o.to)
      /\ o.id = "RawString" => RawFrom(x, s.at, o)
      /\ o.id = "MultiLineComment" => CommentFrom(x, s.at, o)
      /\ x.text = s.text
  BY <1>1, TokenScanned
<1>4. s.at \in 1 .. Len(s.text) + 1
  BY <1>1 DEF TypeOK
<1>5. o.to \in 1 .. Len(s.text) + 1 /\ s.at \in 1 .. o.to - 1
  BY <1>3, <1>4
<1>6. TypeOK'
  BY <1>1, <1>2, <1>5 DEF TypeOK
<1>7. Order'
  BY <1>1, <1>2, <1>5 DEF Order
<1>8. Places'
  BY <1>1, <1>2 DEF Places, Follows, Order
<1>9. Sizes'
  BY <1>1, <1>2 DEF Sizes, Bytes
<1>10. IsRead'
  <2> DEFINE y == [s' EXCEPT !.version = x.version]
  <2>1. y.text = x.text /\ y.version = x.version
    BY <1>2, <1>3 DEF Scanners
  <2>2. [id |-> o.id, to |-> o.to, err |-> "none"] = o
    BY <1>3 DEF Token
  <2> HIDE DEF y
  <2>3. /\ o.id = "RawString" => RawFrom(y, s.at, o)
        /\ o.id = "MultiLineComment" => CommentFrom(y, s.at, o)
    BY <1>3, <2>1, SameReads
  <2> QED
    BY <1>2, <2>2, <2>3 DEF IsRead, y
<1>11. LosesOneTokenAtMost'
  BY <1>1 DEF LosesOneTokenAtMost
<1> QED
  BY <1>6, <1>7, <1>8, <1>9, <1>10, <1>11, AcceptedVersion DEF IInv

\* The answer of Scan is an error or the end of the input.
LEMMA StoppedIInv ==
  ASSUME IInv, NEW x, x = versioned(s), NEW o, o = readNext(x, x.at), pc = "token",
         \/ o.err = "eof" /\ pc' = "eof"
         \/ o.err = "error" /\ pc' = "error",
         s' = x, UNCHANGED <<token, prev>>
  PROVE  IInv'
<1>1. TypeOK /\ Order /\ Places /\ Sizes /\ VersionIsKept /\ IsRead /\ MarkerDecides /\ VersionIsExplained
      /\ token' = token /\ prev' = prev
  BY DEF IInv
<1>2. s \in Scanners /\ s.at \in 1 .. Len(s.text) + 1
  BY <1>1 DEF TypeOK
<1>3. /\ s' \in Scanners /\ s'.at = s.at /\ s'.text = s.text /\ s'.asked = s.asked
      /\ s'.line = s.line /\ s'.column = s.column
      /\ s'.version = s.version \/ s.version = "Auto"
  BY <1>2, Versioned
<1>4. \A k : At(s', k) = At(s, k)
  BY <1>3 DEF At
<1>5. TypeOK'
  BY <1>1, <1>3 DEF TypeOK
<1>6. Order' /\ Places' /\ Sizes'
  BY <1>1, <1>3 DEF Order, Places, Sizes, Follows, Bytes
<1>7. VersionIsKept'
  BY <1>1, <1>3 DEF VersionIsKept
<1>8. \A i, n : MarkerLine(i, n)' <=> MarkerLine(i, n)
  BY <1>3 DEF MarkerLine, At
<1>9. MarkerDecides' /\ VersionIsExplained'
  BY <1>1, <1>3, <1>4, <1>8 DEF MarkerDecides, VersionIsExplained
<1>10. IsRead'
  <2> DEFINE y == [s EXCEPT !.version = token.version]
             z == [s' EXCEPT !.version = token.version]
  <2>1. z.text = y.text /\ z.version = y.version
    BY <1>2, <1>3 DEF Scanners
  <2> HIDE DEF y, z
  <2>2. \A i, o2 : /\ RawFrom(y, i, o2) => RawFrom(z, i, o2)
                   /\ CommentFrom(y, i, o2) => CommentFrom(z, i, o2)
    BY <2>1, SameReads
  <2> QED
    BY <1>1, <2>2 DEF IsRead, y, z
<1>11. LosesOneTokenAtMost'
  <2>1. SUFFICES ASSUME o.err = "eof" PROVE Unseparated(x, s.at)
    <3>1. Unseparated(x, s.at) => \A k \in s'.at .. Len(s'.text) : s'.text[k] \notin Separators
      <4>1. \A k \in s.at .. Len(s.text) : k \in 1 .. Len(s.text)
        BY <1>2, ScannersScan, Texts
      <4>2. \A k \in 1 .. Len(x.text) : At(x, k) = x.text[k]
        BY <1>3, ScannersScan, Texts
      <4> QED
        BY <1>3, <4>1, <4>2 DEF Unseparated
    <3> QED
      BY <3>1 DEF LosesOneTokenAtMost
  <2>2. Reads(x, s.at, AllIds, o)
    BY <1>2, <1>3, ScannersScan, NextReads DEF AllIds
  <2> QED
    BY <2>1, <2>2, OutcomesDiffer DEF Reads, Failed
<1> QED
  BY <1>5, <1>6, <1>7, <1>9, <1>10, <1>11 DEF IInv

LEMMA NextIInv ==
  ASSUME IInv, [Next]_vars
  PROVE  IInv'
<1>1. CASE Scan
  <2> DEFINE x == versioned(s)
             o == readNext(x, x.at)
  <2>1. \/ Accepts(x, o)
        \/ /\ pc = "token" /\ s' = x /\ UNCHANGED <<token, prev>>
           /\ \/ o.err = "eof" /\ pc' = "eof"
              \/ o.err = "error" /\ pc' = "error"
    BY <1>1 DEF Scan, Accepts
  <2> HIDE DEF o
  <2> QED
    BY <2>1, AcceptedIInv, StoppedIInv DEF o
<1>2. CASE ScanFalse
  BY <1>2 DEF ScanFalse, IInv, TypeOK, Order, Places, Sizes, Follows, VersionIsKept, IsRead,
              MarkerDecides, MarkerLine, VersionIsExplained, LosesOneTokenAtMost, Bytes, At
<1>3. CASE UNCHANGED vars
  BY <1>3 DEF vars, IInv, TypeOK, Order, Places, Sizes, Follows, VersionIsKept, IsRead,
              MarkerDecides, MarkerLine, VersionIsExplained, LosesOneTokenAtMost, Bytes, At
<1> QED
  BY <1>1, <1>2, <1>3 DEF Next, Returned

LEMMA Invariance == Spec => []IInv
<1>1. Init => IInv
  BY InitIInv
<1>2. IInv /\ [Next]_vars => IInv'
  BY NextIInv
<1> QED
  BY <1>1, <1>2, PTL DEF Spec

----------------------------------------------------------------------------
(* A token read alone: its text is a part of the whole text.               *)

\* What w is when it is the part of the text from i to j.
IsPart(x, i, j, w) ==
  /\ Len(w) = j - i /\ j - i \in Nat /\ DOMAIN w = 1 .. j - i
  /\ \A k \in i .. j - 1 : w[k - i + 1] = At(x, k)
  /\ \A k \in 1 .. j - i : w[k] = At(x, i + k - 1)

LEMMA Sliced ==
  ASSUME NEW x, IsScanner(x), NEW i \in 1 .. Len(x.text), NEW j \in i + 1 .. Len(x.text) + 1
  PROVE  IsPart(x, i, j, Slice(x, i, j))
<1> DEFINE w == Slice(x, i, j)
<1>1. Len(x.text) \in Nat /\ x.text \in Seq(Characters) /\ j - 1 \in i .. Len(x.text) /\ j - 1 \in Int
      /\ (j - 1) - i + 1 = j - i /\ j - i \in Nat
  BY Texts DEF IsScanner
<1>2. w = SubSeq(x.text, i, j - 1)
  BY DEF Slice
<1> HIDE DEF w
<1>3. w \in Seq(Characters) /\ Len(w) = j - i /\ \A k \in 1 .. j - i : w[k] = x.text[i + k - 1]
  BY <1>1, <1>2
<1>4. DOMAIN w = 1 .. j - i
  BY <1>3
<1>5. \A k \in 1 .. j - i : i + k - 1 \in 1 .. Len(x.text)
  BY <1>1
<1>6. \A k \in 1 .. j - i : x.text[i + k - 1] = At(x, i + k - 1)
  BY <1>5, Texts
<1>7. \A k \in i .. j - 1 : k - i + 1 \in 1 .. j - i /\ i + (k - i + 1) - 1 = k
  BY <1>1
<1>8. \A k \in 1 .. j - i : w[k] = At(x, i + k - 1)
  BY <1>3, <1>6
<1>9. \A k \in i .. j - 1 : w[k - i + 1] = At(x, k)
  BY <1>7, <1>8
<1>10. IsPart(x, i, j, w)
  BY <1>1, <1>3, <1>4, <1>8, <1>9 DEF IsPart
<1> QED
  BY <1>10 DEF w

LEMMA RunToIs ==
  ASSUME NEW x, NEW S, NEW i \in Int, NEW j \in i .. Len(x.text) + 1, Len(x.text) \in Nat,
         i .. j \subseteq DOMAIN x.text, \A k \in i .. j - 1 : x.text[k] \notin S, x.text[j] \in S
  PROVE  RunTo(x, S, i) = j
<1> DEFINE P(m) == /\ \A k \in i .. m - 1 : x.text[k] \notin S
                   /\ At(x, m) \in S
           r == CHOOSE m \in i .. Len(x.text) + 1 : P(m)
<1>1. \A m \in i .. j : At(x, m) = x.text[m]
  BY DEF At
<1>2. j \in i .. j /\ j \in Int
  OBVIOUS
<1>3. P(j)
  BY <1>1, <1>2
<1>4. r \in i .. Len(x.text) + 1 /\ P(r)
  <2> HIDE DEF P
  <2> QED
    BY <1>3
<1>5. r = RunTo(x, S, i)
  BY DEF RunTo
<1> HIDE DEF r
<1>6. r < j => r \in i .. j - 1 /\ r \in i .. j
  BY <1>2, <1>4
<1>7. r > j => j \in i .. r - 1
  BY <1>2, <1>4
<1> QED
  BY <1>1, <1>2, <1>3, <1>4, <1>5, <1>6, <1>7

\* How many of O there are from a on to before n, beyond those of C.
Depth(O, C, a, n) == Cardinality(O \cap (a .. n - 1)) - Cardinality(C \cap (a .. n - 1))

LEMMA DepthSteps ==
  ASSUME NEW O, NEW C, NEW a \in Int, NEW n \in Int, O \cap C = {}
  PROVE  /\ Depth(O, C, a, n) \in Int
         /\ n <= a => Depth(O, C, a, n) = 0
         /\ a \notin O \cup C => Depth(O, C, a, n) = Depth(O, C, a + 1, n)
         /\ a < n /\ (a + 1 < n => a + 1 \notin O \cup C) =>
                /\ a \in O => Depth(O, C, a, n) = Depth(O, C, a + 2, n) + 1
                /\ a \in C => Depth(O, C, a, n) = Depth(O, C, a + 2, n) - 1
<1> DEFINE In(S, b) == S \cap (b .. n - 1)
           N(S, b) == Cardinality(In(S, b))
<1>1. ASSUME NEW S, NEW b \in Int PROVE IsFiniteSet(In(S, b)) /\ N(S, b) \in Nat
  <2>1. IsFiniteSet(b .. n - 1)
    BY <1>1, FS_Interval
  <2>2. In(S, b) \in SUBSET (b .. n - 1)
    OBVIOUS
  <2>3. IsFiniteSet(In(S, b))
    BY <2>1, <2>2, FS_Subset
  <2> QED
    BY <2>3, FS_CardinalityType
<1>2. \A S : IsFiniteSet(In(S, a + 2)) /\ N(S, a + 2) \in Nat /\ N(S, a) \in Nat
  <2>1. a + 2 \in Int
    OBVIOUS
  <2> HIDE DEF In, N
  <2> QED
    BY <1>1, <2>1
<1>3. ASSUME n <= a, NEW S PROVE N(S, a) = 0
  <2>1. In(S, a) = {}
    BY <1>3
  <2> QED
    BY <2>1, FS_EmptySet
<1>4. ASSUME NEW S, a \notin S PROVE N(S, a) = N(S, a + 1)
  <2>1. In(S, a) = In(S, a + 1)
    BY <1>4
  <2> QED
    BY <2>1
<1>5. ASSUME NEW S, a \notin S, a + 1 < n => a + 1 \notin S PROVE N(S, a) = N(S, a + 2)
  <2>1. In(S, a) = In(S, a + 2)
    BY <1>5
  <2> QED
    BY <2>1
<1>6. ASSUME NEW S, a \in S, a < n, a + 1 < n => a + 1 \notin S PROVE N(S, a) = N(S, a + 2) + 1
  <2>1. In(S, a) = In(S, a + 2) \cup {a} /\ a \notin In(S, a + 2)
    BY <1>6
  <2>2. IsFiniteSet(In(S, a + 2))
    BY <1>2
  <2> HIDE DEF In
  <2> QED
    BY <2>1, <2>2, FS_AddElement
<1>7. \A b : Depth(O, C, b, n) = N(O, b) - N(C, b)
  BY DEF Depth
<1> HIDE DEF In, N
<1>8. N(O, a) \in Nat /\ N(C, a) \in Nat /\ N(O, a + 2) \in Nat /\ N(C, a + 2) \in Nat
  BY <1>2
<1>9. Depth(O, C, a, n) \in Int
  BY <1>7, <1>8
<1>10. n <= a => Depth(O, C, a, n) = 0
  BY <1>3, <1>7
<1>11. a \notin O \cup C => Depth(O, C, a, n) = Depth(O, C, a + 1, n)
  BY <1>4, <1>7
<1>12. ASSUME a < n, a + 1 < n => a + 1 \notin O \cup C, a \in O
       PROVE  Depth(O, C, a, n) = Depth(O, C, a + 2, n) + 1
  <2>1. N(O, a) = N(O, a + 2) + 1 /\ N(C, a) = N(C, a + 2)
    BY <1>5, <1>6, <1>12
  <2> QED
    BY <1>7, <1>8, <2>1
<1>13. ASSUME a < n, a + 1 < n => a + 1 \notin O \cup C, a \in C
       PROVE  Depth(O, C, a, n) = Depth(O, C, a + 2, n) - 1
  <2>1. N(C, a) = N(C, a + 2) + 1 /\ N(O, a) = N(O, a + 2)
    BY <1>5, <1>6, <1>13
  <2> QED
    BY <1>7, <1>8, <2>1
<1> QED
  BY <1>9, <1>10, <1>11, <1>12, <1>13

\* The marks of comments, counted from i on.
OpensFrom(x, i) == {p \in Int : Opens(x, i + p - 1)}
ClosesFrom(x, i) == {p \in Int : Closes(x, i + p - 1)}

\* No mark from a on shares a character with the next one before n.
Apart(x, i, a, n) ==
    \A p \in a .. n - 2 : p \in OpensFrom(x, i) \cup ClosesFrom(x, i) =>
                              p + 1 \notin OpensFrom(x, i) \cup ClosesFrom(x, i)

\* What stands at depth d before a is outside all comments behind n and not before.
Leaves(x, i, a, n, d) ==
    /\ Depth(OpensFrom(x, i), ClosesFrom(x, i), a, n) = -d
    /\ \A m \in a - 1 .. n - 1 : Depth(OpensFrom(x, i), ClosesFrom(x, i), a, m) > -d

LEMMA LeavesSteps ==
  ASSUME NEW x, NEW i, NEW a \in Int, NEW n \in Int, a - 1 <= n, NEW d \in Nat \ {0}, Apart(x, i, a, n)
  PROVE  LET S == OpensFrom(x, i)  T == ClosesFrom(x, i)
         IN  /\ a \notin S \cup T /\ a <= n /\ Leaves(x, i, a + 1, n, d) => Leaves(x, i, a, n, d)
             /\ a \in S /\ a + 1 <= n /\ Leaves(x, i, a + 2, n, d + 1) => Leaves(x, i, a, n, d)
             /\ a \in T /\ a + 1 <= n /\ d # 1 /\ Leaves(x, i, a + 2, n, d - 1) => Leaves(x, i, a, n, d)
             /\ a \in T /\ d = 1 /\ n = a + 1 => Leaves(x, i, a, n, d)
<1> DEFINE S == OpensFrom(x, i)
           T == ClosesFrom(x, i)
           D(b, m) == Depth(S, T, b, m)
<1>1. S \cap T = {}
  BY DEF OpensFrom, ClosesFrom, Opens, Closes
<1>2. ASSUME NEW m \in a - 1 .. n
      PROVE  /\ D(a, m) \in Int /\ (m <= a => D(a, m) = 0)
             /\ a \notin S \cup T => D(a, m) = D(a + 1, m)
             /\ m > a /\ a \in S => D(a, m) = D(a + 2, m) + 1
             /\ m > a /\ a \in T => D(a, m) = D(a + 2, m) - 1
  <2>1. m \in Int /\ m <= n
    OBVIOUS
  <2>2. a + 1 < m /\ a \in S \cup T => a + 1 \notin S \cup T
    BY DEF Apart
  <2> HIDE DEF S, T
  <2> QED
    BY <1>1, <2>1, <2>2, DepthSteps
<1>3. ASSUME NEW m \in Int, m <= a + 2 PROVE D(a + 2, m) = 0
  <2>1. a + 2 \in Int
    OBVIOUS
  <2> HIDE DEF S, T
  <2> QED
    BY <1>1, <1>3, <2>1, DepthSteps
<1> HIDE DEF D, S, T
<1>4. \A b, e : Leaves(x, i, b, n, e) <=> D(b, n) = -e /\ \A m \in b - 1 .. n - 1 : D(b, m) > -e
  BY DEF Leaves, D, S, T
<1>5. ASSUME a \notin S \cup T, a <= n, Leaves(x, i, a + 1, n, d) PROVE Leaves(x, i, a, n, d)
  <2>1. D(a, n) = -d
    BY <1>2, <1>4, <1>5
  <2>2. ASSUME NEW m \in a - 1 .. n - 1 PROVE D(a, m) > -d
    <3>1. m \in a - 1 .. n /\ m \in Int /\ (m <= a \/ m \in (a + 1) - 1 .. n - 1)
      OBVIOUS
    <3> QED
      BY <1>2, <1>4, <1>5, <3>1
  <2> QED
    BY <1>4, <2>1, <2>2
<1>6. ASSUME a \in S, a + 1 <= n, Leaves(x, i, a + 2, n, d + 1) PROVE Leaves(x, i, a, n, d)
  <2>1. D(a + 2, n) = -(d + 1) /\ n > a /\ n \in a - 1 .. n
    BY <1>4, <1>6
  <2>2. D(a, n) = -d
    BY <1>2, <1>6, <2>1
  <2>3. ASSUME NEW m \in a - 1 .. n - 1 PROVE D(a, m) > -d
    <3>1. CASE m <= a
      BY <1>2, <1>3, <1>6, <3>1
    <3>2. CASE m > a
      <4>1. m \in (a + 2) - 1 .. n - 1 /\ m \in a - 1 .. n /\ m \in Int
        BY <3>2
      <4>2. D(a + 2, m) > -(d + 1)
        BY <1>4, <1>6, <4>1
      <4>3. D(a, m) = D(a + 2, m) + 1 /\ D(a, m) \in Int
        BY <1>2, <1>6, <4>1
      <4>4. D(a + 2, m) \in Int
        BY <1>1, <4>1, DepthSteps DEF D
      <4> QED
        BY <4>2, <4>3, <4>4
    <3> QED
      BY <3>1, <3>2
  <2> QED
    BY <1>4, <2>2, <2>3
<1>7. ASSUME a \in T, a + 1 <= n, d # 1, Leaves(x, i, a + 2, n, d - 1) PROVE Leaves(x, i, a, n, d)
  <2>1. D(a + 2, n) = -(d - 1) /\ n > a /\ n \in a - 1 .. n
    BY <1>4, <1>7
  <2>2. D(a, n) = -d
    BY <1>2, <1>7, <2>1
  <2>3. ASSUME NEW m \in a - 1 .. n - 1 PROVE D(a, m) > -d
    <3>1. CASE m <= a
      BY <1>2, <1>3, <1>7, <3>1
    <3>2. CASE m > a
      <4>1. m \in (a + 2) - 1 .. n - 1 /\ m \in a - 1 .. n /\ m \in Int
        BY <3>2
      <4>2. D(a + 2, m) > -(d - 1)
        BY <1>4, <1>7, <4>1
      <4>3. D(a, m) = D(a + 2, m) - 1 /\ D(a, m) \in Int
        BY <1>2, <1>7, <4>1
      <4>4. D(a + 2, m) \in Int
        BY <1>1, <4>1, DepthSteps DEF D
      <4> QED
        BY <4>2, <4>3, <4>4
    <3> QED
      BY <3>1, <3>2
  <2> QED
    BY <1>4, <2>2, <2>3
<1>8. ASSUME a \in T, d = 1, n = a + 1 PROVE Leaves(x, i, a, n, d)
  <2>1. n \in a - 1 .. n /\ n > a /\ n <= a + 2
    BY <1>8
  <2>2. D(a, n) = -1
    BY <1>2, <1>3, <1>8, <2>1
  <2>3. ASSUME NEW m \in a - 1 .. n - 1 PROVE D(a, m) > -1
    <3>1. m \in a - 1 .. n /\ m <= a
      BY <1>8
    <3> QED
      BY <1>2, <3>1
  <2> QED
    BY <1>4, <1>8, <2>2, <2>3
<1> QED
  BY <1>5, <1>6, <1>7, <1>8 DEF S, T

LEMMA CommentLeaves ==
  ASSUME NEW x, IsScanner(x), NEW i \in 1 .. Len(x.text) + 1, NEW h \in CommentTables(x, i),
         NEW k \in i .. Len(x.text) + 1, NEW d \in Nat \ {0},
         NEW j \in k .. Len(x.text) + 1, h[k][d] = Token("MultiLineComment", j),
         Apart(x, i, k - i + 1, j - i)
  PROVE  Leaves(x, i, k - i + 1, j - i, d)
<1> DEFINE hi == Len(x.text) + 1
           S == OpensFrom(x, i)
           T == ClosesFrom(x, i)
           Settled(m) ==
               \A e \in Nat \ {0}, l \in m .. hi :
                   h[m][e] = Token("MultiLineComment", l) /\ Apart(x, i, m - i + 1, l - i) =>
                       Leaves(x, i, m - i + 1, l - i, e)
           A == {m \in i .. hi : Settled(m)}
<1>1. i \in Int /\ hi \in Int
  BY Texts
<1>2. ASSUME NEW m \in i .. hi, m + 1 .. hi \subseteq A PROVE m \in A
  <2>1. SUFFICES ASSUME NEW e \in Nat \ {0}, NEW l \in m .. hi,
                        h[m][e] = Token("MultiLineComment", l), Apart(x, i, m - i + 1, l - i)
                 PROVE  Leaves(x, i, m - i + 1, l - i, e)
    OBVIOUS
  <2> DEFINE a == m - i + 1
             n == l - i
  <2>2. m \in Int /\ l \in Int /\ e \in Int /\ a \in Int /\ n \in Int /\ a - 1 <= n
        /\ (m + 1) - i + 1 = a + 1 /\ (m + 2) - i + 1 = a + 2 /\ (m + 2) - i = a + 1 /\ i + a - 1 = m
    <3>1. m \in Int /\ l \in Int /\ m <= l
      <4> HIDE DEF hi
      <4> QED
        BY <1>1
    <3> QED
      BY <1>1, <3>1
  <2>3. (a \in S <=> Opens(x, m)) /\ (a \in T <=> Closes(x, m))
    BY <2>2 DEF OpensFrom, ClosesFrom
  <2>4. \A b \in Int : b >= a /\ Apart(x, i, a, n) => Apart(x, i, b, n)
    BY <2>2 DEF Apart
  <2>5. \E j2 \in m + 2 .. hi : h[m][e] = Token("MultiLineComment", j2)
    BY <1>2, <2>1, CommentEnds, OutcomesDiffer
  <2>6. l >= m + 2
    BY <2>1, <2>2, <2>5, OutcomesDiffer
  <2>7. h[m][e] = CommentStep(x, m, e, h) /\ At(x, m) \notin {End, Invalid}
    <3>1. h[m][e] = CommentStep(x, m, e, h)
      BY <1>2, <2>2 DEF CommentTables
    <3> QED
      BY <2>1, <3>1, CommentSteps, OutcomesDiffer
  <2>8. ASSUME NEW b \in m + 1 .. m + 2, NEW f \in Nat \ {0}, h[m][e] = h[b][f]
        PROVE  Leaves(x, i, b - i + 1, n, f)
    <3>1. b \in m + 1 .. hi /\ l \in b .. hi /\ b - i + 1 \in Int /\ b - i + 1 >= a
      BY <1>1, <2>2, <2>6, <2>8
    <3>2. Settled(b)
      BY <1>2, <3>1
    <3>3. Apart(x, i, b - i + 1, n)
      BY <2>1, <2>4, <3>1
    <3> QED
      BY <2>1, <2>8, <3>1, <3>2, <3>3
  <2>9. m + 1 \in m + 1 .. m + 2 /\ m + 2 \in m + 1 .. m + 2 /\ a + 1 <= n
    BY <2>2, <2>6
  <2> HIDE DEF a, n, S, T
  <2>10. /\ a \notin S \cup T /\ Leaves(x, i, a + 1, n, e) => Leaves(x, i, a, n, e)
         /\ a \in S /\ Leaves(x, i, a + 2, n, e + 1) => Leaves(x, i, a, n, e)
         /\ a \in T /\ e # 1 /\ Leaves(x, i, a + 2, n, e - 1) => Leaves(x, i, a, n, e)
         /\ a \in T /\ e = 1 /\ n = a + 1 => Leaves(x, i, a, n, e)
    BY <2>1, <2>2, <2>9, LeavesSteps DEF a, n, S, T
  <2>11. CASE ~Opens(x, m) /\ ~Closes(x, m)
    <3>1. h[m][e] = h[m + 1][e]
      BY <2>7, <2>11, CommentSteps
    <3>2. Leaves(x, i, a + 1, n, e)
      BY <2>2, <2>8, <2>9, <3>1
    <3> QED
      BY <2>3, <2>10, <2>11, <3>2 DEF a, n
  <2>12. CASE Opens(x, m)
    <3>1. h[m][e] = h[m + 2][e + 1]
      <4>1. ~Closes(x, m)
        BY <2>12 DEF Opens, Closes
      <4> QED
        BY <2>7, <2>12, <4>1, CommentSteps
    <3>2. Leaves(x, i, a + 2, n, e + 1)
      <4>1. e + 1 \in Nat \ {0}
        OBVIOUS
      <4> QED
        BY <2>2, <2>8, <2>9, <3>1, <4>1
    <3> QED
      BY <2>3, <2>10, <2>12, <3>2 DEF a, n
  <2>13. CASE Closes(x, m) /\ e # 1
    <3>1. h[m][e] = h[m + 2][e - 1]
      BY <2>7, <2>13, CommentSteps
    <3>2. Leaves(x, i, a + 2, n, e - 1)
      <4>1. e - 1 \in Nat \ {0}
        BY <2>13
      <4> QED
        BY <2>2, <2>8, <2>9, <3>1, <4>1
    <3> QED
      BY <2>3, <2>10, <2>13, <3>2 DEF a, n
  <2>14. CASE Closes(x, m) /\ e = 1
    <3>1. l = m + 2
      BY <2>1, <2>7, <2>14, CommentSteps, OutcomesDiffer
    <3>2. n = a + 1
      BY <2>2, <3>1 DEF n
    <3> QED
      BY <2>3, <2>10, <2>14, <3>2 DEF a, n
  <2> QED
    BY <2>11, <2>12, <2>13, <2>14
<1>3. i .. hi \subseteq A
  <2> HIDE DEF A, hi
  <2> QED
    BY <1>1, <1>2, DownwardInduction
<1> QED
  BY <1>3

----------------------------------------------------------------------------
(* Two texts: every reader answers the same on a text and on the part of   *)
(* it that ends where the token does.                                      *)

\* The text of y is the text of x behind r and before j.
Cut(x, y, r, j) ==
    /\ r \in Nat /\ j \in Int /\ r < j /\ j <= Len(x.text) + 1
    /\ Len(y.text) = j - r - 1
    /\ y.version = x.version /\ y.nginx = x.nginx /\ y.yaml = x.yaml /\ y.suffixes = x.suffixes
    /\ \A k \in Int : k > r => At(y, k - r) = IF k < j THEN At(x, k) ELSE End

LEMMA CutChars ==
  ASSUME NEW x, IsScanner(x), NEW y, IsScanner(y), NEW r, NEW j, Cut(x, y, r, j)
  PROVE  /\ r \in Int /\ j \in Int /\ Len(x.text) \in Nat /\ Len(y.text) = j - r - 1
         /\ \A k \in r + 1 .. j : /\ k \in Int /\ k \in 1 .. Len(x.text) + 1
                                  /\ k - r \in Int /\ k - r \in 1 .. Len(y.text) + 1
         /\ \A k \in r + 1 .. j - 1 : /\ k \in r + 1 .. j /\ k \in 1 .. Len(x.text)
                                      /\ k - r \in 1 .. Len(y.text) /\ At(y, k - r) = At(x, k)
         /\ \A k \in Int : k >= j => At(y, k - r) = End
         /\ \A k \in Int : k > r => At(y, k - r) \in {At(x, k), End}
BY Texts DEF Cut

\* A run of characters that ends before the part does, or with it.
LEMMA CutRun ==
  ASSUME NEW x, IsScanner(x), NEW y, IsScanner(y), NEW r, NEW j, Cut(x, y, r, j),
         NEW T, End \notin T, NEW a \in r + 1 .. j, NEW b \in a .. j,
         \A k \in a .. b - 1 : At(x, k) \in T, b < j => At(x, b) \notin T
  PROVE  Run(y, T, a - r) = b - r /\ Stops(y, T, a - r, b - r)
<1>1. r \in Int /\ j \in Int /\ a \in Int /\ b \in Int /\ a - r \in Int /\ b - r \in Int
      /\ b \in r + 1 .. j /\ a - r \in 1 .. Len(y.text) + 1 /\ b - r \in 1 .. Len(y.text) + 1
  BY CutChars
<1>2. ASSUME NEW m \in a - r .. b - r - 1 PROVE At(y, m) \in T
  <2>1. m + r \in a .. b - 1 /\ m + r \in r + 1 .. j - 1 /\ (m + r) - r = m
    BY <1>1
  <2>2. At(y, (m + r) - r) = At(x, m + r)
    BY <2>1, CutChars
  <2> QED
    BY <2>1, <2>2
<1>3. At(y, b - r) \notin T
  <2>1. CASE b < j
    <3>1. b \in r + 1 .. j - 1
      BY <1>1, <2>1
    <3> QED
      BY <2>1, <3>1, CutChars
  <2>2. CASE b >= j
    <3>1. \A k \in Int : k >= j => At(y, k - r) = End
      BY CutChars
    <3> QED
      BY <1>1, <2>2, <3>1
  <2> QED
    BY <1>1, <2>1, <2>2
<1>4. Stops(y, T, a - r, b - r)
  <2>1. b - r \in a - r .. Len(y.text) + 1
    BY <1>1, CutChars
  <2> QED
    BY <1>2, <1>3, <2>1 DEF Stops
<1>5. Stops(y, T, a - r, Run(y, T, a - r))
  BY <1>1, RunStops
<1> QED
  BY <1>1, <1>4, <1>5, OneStop

LEMMA WhileAlone ==
  ASSUME NEW x, IsScanner(x), NEW y, IsScanner(y), NEW r, NEW j, Cut(x, y, r, j),
         NEW S, End \notin S, NEW a \in r + 1 .. j, NEW b, b <= j, NEW id, NEW min \in Int,
         readWhile(x, id, S, a, min) = Token(id, b)
  PROVE  readWhile(y, id, S, a - r, min) = Token(id, b - r)
<1> DEFINE c == Run(x, S, a)
           d == Run(y, S, a - r)
<1>1. a \in 1 .. Len(x.text) + 1 /\ r \in Int /\ a \in Int /\ j \in Int
  BY CutChars
<1>2. readWhile(x, id, S, a, min) = IF At(x, c) = Invalid \/ c = a \/ c - a < min THEN Error ELSE Token(id, c)
  BY DEF readWhile
<1>3. readWhile(y, id, S, a - r, min) = IF At(y, d) = Invalid \/ d = a - r \/ d - (a - r) < min
                                        THEN Error ELSE Token(id, d)
  BY DEF readWhile
<1>4. Stops(x, S, a, c)
  BY <1>1, RunStops
<1> HIDE DEF c, d
<1>5. c = b /\ At(x, c) # Invalid /\ c # a /\ ~(c - a < min)
  <2>1. \A e : Token(id, e) # Error /\ (Token(id, e) = Token(id, b) => e = b)
    BY OutcomesDiffer
  <2> QED
    BY <1>2, <2>1
<1>6. b \in a .. j /\ b \in Int /\ (\A k \in a .. b - 1 : At(x, k) \in S) /\ At(x, b) \notin S
  BY <1>1, <1>4, <1>5, CutChars DEF Stops
<1>7. d = b - r
  BY <1>6, CutRun DEF d
<1>8. At(y, d) # Invalid
  <2>1. At(y, b - r) \in {At(x, b), End}
    <3>1. \A k \in Int : k > r => At(y, k - r) \in {At(x, k), End}
      BY CutChars
    <3> QED
      BY <1>1, <1>6, <3>1
  <2> QED
    BY <1>5, <1>7, <2>1 DEF End, Invalid
<1> QED
  BY <1>1, <1>3, <1>5, <1>6, <1>7, <1>8

\* What stands at a and behind it.
LEMMA CutAhead ==
  ASSUME NEW x, IsScanner(x), NEW y, IsScanner(y), NEW r, NEW j, Cut(x, y, r, j), NEW a \in r + 1 .. j
  PROVE  /\ At(y, a - r) = IF a < j THEN At(x, a) ELSE End
         /\ At(y, a - r + 1) = IF a + 1 < j THEN At(x, a + 1) ELSE End
         /\ At(y, a - r + 2) = IF a + 2 < j THEN At(x, a + 2) ELSE End
         /\ At(y, a - r + 3) = IF a + 3 < j THEN At(x, a + 3) ELSE End
<1>1. r \in Int /\ j \in Int /\ a \in Int /\ a > r
  BY CutChars
<1>2. \A k \in Int : k > r => At(y, k - r) = IF k < j THEN At(x, k) ELSE End
  BY DEF Cut
<1>3. /\ (a + 1) - r = a - r + 1 /\ (a + 2) - r = a - r + 2 /\ (a + 3) - r = a - r + 3
      /\ a + 1 \in Int /\ a + 2 \in Int /\ a + 3 \in Int /\ a + 1 > r /\ a + 2 > r /\ a + 3 > r
  BY <1>1
<1>4. /\ At(y, (a + 1) - r) = IF a + 1 < j THEN At(x, a + 1) ELSE End
      /\ At(y, (a + 2) - r) = IF a + 2 < j THEN At(x, a + 2) ELSE End
      /\ At(y, (a + 3) - r) = IF a + 3 < j THEN At(x, a + 3) ELSE End
  BY <1>2, <1>3
<1> QED
  BY <1>1, <1>2, <1>3, <1>4

LEMMA LineCommentAlone ==
  ASSUME NEW x, IsScanner(x), NEW y, IsScanner(y), NEW r, NEW j, Cut(x, y, r, j),
         NEW a \in r + 1 .. j, At(x, a) \in {"/", "#"},
         readSingleLineComment(x, a) = Token("SingleLineComment", j)
  PROVE  readSingleLineComment(y, a - r) = Token("SingleLineComment", j - r)
<1> DEFINE S == NewlineChars \cup {Invalid, End}
           b == RunTo(x, S, a)
           c == RunTo(y, S, a - r)
<1>1. /\ a \in Int /\ r \in Int /\ j \in Int /\ a \in 1 .. Len(x.text) /\ Len(y.text) = j - r - 1
      /\ a - r \in 1 .. Len(y.text) + 1
  BY CutChars, Texts DEF End
<1>2. /\ \/ readSingleLineComment(x, a) = Error
         \/ readSingleLineComment(x, a) = Token("SingleLineComment", b)
      /\ b \in a + 1 .. Len(x.text) + 1 /\ \A k \in a .. b - 1 : At(x, k) \notin S
  BY <1>1, LineCommentReads
<1> HIDE DEF b, S
<1>3. b = j /\ a < j
  <2>1. b = j
    BY <1>2, OutcomesDiffer
  <2> QED
    BY <1>1, <1>2, <2>1
<1>4. a - r \in 1 .. Len(y.text) /\ At(y, a - r) \in {"/", "#"}
  BY <1>1, <1>3, CutAhead
<1>5. /\ \/ readSingleLineComment(y, a - r) = Error /\ At(y, c) = Invalid
         \/ readSingleLineComment(y, a - r) = Token("SingleLineComment", c)
      /\ c \in a - r + 1 .. Len(y.text) + 1 /\ At(y, c) \in S
  BY <1>4, LineCommentReads DEF S
<1> HIDE DEF c
<1>6. c \in Int /\ ~(c < j - r)
  <2>1. SUFFICES ASSUME c < j - r PROVE FALSE
    BY <1>1, <1>5
  <2>2. c + r \in r + 1 .. j - 1 /\ c + r \in a .. j - 1 /\ (c + r) - r = c
    BY <1>1, <1>5, <2>1
  <2>3. At(y, (c + r) - r) = At(x, c + r)
    BY <2>2, CutChars
  <2> QED
    BY <1>2, <1>3, <1>5, <2>2, <2>3
<1>7. c = j - r /\ At(y, c) = End
  <2>1. c = j - r /\ j >= j /\ j > r
    BY <1>1, <1>5, <1>6
  <2>2. \A k \in Int : k >= j => At(y, k - r) = End
    BY CutChars
  <2> QED
    BY <1>1, <2>1, <2>2
<1> QED
  BY <1>5, <1>7 DEF End, Invalid

\* Hashes within the part, and where it ends.
LEMMA HashesAlone ==
  ASSUME NEW x, IsScanner(x), NEW y, IsScanner(y), NEW r, NEW j, Cut(x, y, r, j),
         NEW k \in Int, k > r, NEW n \in Nat
  PROVE  /\ Hashes(y, k - r, n) => Hashes(x, k, n)
         /\ Hashes(x, k, n) /\ k + n <= j => Hashes(y, k - r, n)
<1>1. r \in Int /\ j \in Int
  BY CutChars
<1>2. \A l \in Int : l > r => At(y, l - r) = IF l < j THEN At(x, l) ELSE End
  BY DEF Cut
<1>3. ASSUME Hashes(y, k - r, n), NEW l \in k .. k + n - 1 PROVE At(x, l) = "#"
  <2>1. l - r \in k - r .. k - r + n - 1 /\ l \in Int /\ l > r
    BY <1>1
  <2>2. At(y, l - r) = "#"
    BY <1>3, <2>1 DEF Hashes
  <2> QED
    BY <1>2, <2>1, <2>2 DEF End
<1>4. ASSUME Hashes(x, k, n), k + n <= j, NEW m \in k - r .. k - r + n - 1 PROVE At(y, m) = "#"
  <2>1. m + r \in k .. k + n - 1 /\ (m + r) - r = m /\ m + r \in Int /\ m + r > r /\ m + r < j
    BY <1>1, <1>4
  <2>2. At(y, (m + r) - r) = At(x, m + r)
    BY <1>2, <2>1
  <2> QED
    BY <1>4, <2>1, <2>2 DEF Hashes
<1> QED
  BY <1>3, <1>4 DEF Hashes

LEMMA RawAlone ==
  ASSUME NEW x, IsScanner(x), NEW y, IsScanner(y), NEW r, NEW j, Cut(x, y, r, j),
         NEW a \in r + 1 .. j, NEW n \in Nat, NEW id, rawContent(x, id, a, n) = Token(id, j)
  PROVE  rawContent(y, id, a - r, n) = Token(id, j - r)
<1>1. /\ a \in Int /\ r \in Int /\ j \in Int /\ a > r /\ a \in 1 .. Len(x.text) + 1
      /\ Len(y.text) = j - r - 1 /\ a - r \in 1 .. Len(y.text) + 1
  BY CutChars
<1>2. PICK k : RawEnds(x, a, n, k)
  <2>1. (\A k : ~RawEnds(x, a, n, k)) => rawContent(x, id, a, n) = Error
    BY <1>1, RawReads
  <2> QED
    BY <2>1, OutcomesDiffer
<1>3. k \in Int /\ k >= a /\ j = k + 1 + n
  <2>1. rawContent(x, id, a, n) = Token(id, k + 1 + n)
    BY <1>1, <1>2, RawReads
  <2>2. j = k + 1 + n
    <3>1. Token(id, j) = Token(id, k + 1 + n)
      BY <2>1
    <3> QED
      BY <3>1 DEF Token
  <2>3. k \in a .. Len(x.text)
    BY <1>2 DEF RawEnds
  <2> QED
    BY <1>1, <2>2, <2>3
<1>4. \A l \in Int : l > r => At(y, l - r) = IF l < j THEN At(x, l) ELSE End
  BY DEF Cut
<1>5. At(y, k - r) = "QUOTE" /\ Hashes(y, k - r + 1, n)
  <2>1. Hashes(x, k + 1, n) /\ At(x, k) = "QUOTE"
    BY <1>2 DEF RawEnds
  <2>2. k + 1 \in Int /\ k + 1 > r /\ k + 1 + n <= j /\ k > r /\ k < j /\ (k + 1) - r = k - r + 1
    BY <1>1, <1>3
  <2>3. Hashes(y, (k + 1) - r, n)
    BY <2>1, <2>2, HashesAlone
  <2> QED
    BY <1>3, <1>4, <2>1, <2>2, <2>3
<1>6. ASSUME NEW m \in a - r .. k - r - 1 PROVE RawGoesOn(y, n, m)
  <2> DEFINE l == m + r
  <2>1. l \in a .. k - 1 /\ l - r = m /\ l \in Int /\ l > r /\ l < j /\ l + 1 \in Int /\ l + 1 > r
        /\ (l + 1) - r = m + 1
    BY <1>1, <1>3
  <2> HIDE DEF l
  <2>2. RawGoesOn(x, n, l)
    BY <1>2, <2>1 DEF RawEnds
  <2>3. At(y, m) = At(x, l)
    BY <1>4, <2>1
  <2>4. Hashes(y, (l + 1) - r, n) => Hashes(x, l + 1, n)
    BY <2>1, HashesAlone
  <2>5. y.version = x.version
    BY DEF Cut
  <2> QED
    BY <2>1, <2>2, <2>3, <2>4, <2>5 DEF RawGoesOn
<1>7. RawEnds(y, a - r, n, k - r)
  <2>1. k - r \in a - r .. Len(y.text)
    BY <1>1, <1>3
  <2> QED
    BY <1>5, <1>6, <2>1 DEF RawEnds
<1>8. k - r + 1 + n = j - r
  BY <1>1, <1>3
<1>9. rawContent(y, id, a - r, n) = Token(id, k - r + 1 + n)
  BY <1>1, <1>7, RawReads
<1> QED
  BY <1>8, <1>9

LEMMA CommentAlone ==
  ASSUME NEW x, IsScanner(x), NEW y, IsScanner(y), NEW r, NEW j, Cut(x, y, r, j),
         NEW a \in r + 1 .. j, readMultiLineComment(x, a) = Token("MultiLineComment", j)
  PROVE  readMultiLineComment(y, a - r) = Token("MultiLineComment", j - r)
<1>1. /\ a \in Int /\ r \in Int /\ j \in Int /\ a > r /\ a <= j /\ a \in 1 .. Len(x.text) + 1
      /\ j <= Len(x.text) + 1 /\ Len(x.text) \in Nat
      /\ Len(y.text) = j - r - 1 /\ a - r \in 1 .. Len(y.text) + 1
  BY CutChars DEF Cut
<1>2. \A l \in Int : l > r => At(y, l - r) = IF l < j THEN At(x, l) ELSE End
  BY DEF Cut
<1>3. PICK g \in CommentTables(x, a) : readMultiLineComment(x, a) = g[a][0]
  <2>1. CommentTables(x, a) # {}
    BY <1>1, CommentReads
  <2> QED
    BY <2>1 DEF CommentTables
<1>4. PICK h \in CommentTables(y, a - r) : readMultiLineComment(y, a - r) = h[a - r][0]
  <2>1. CommentTables(y, a - r) # {}
    BY <1>1, CommentReads
  <2> QED
    BY <2>1 DEF CommentTables
<1> DEFINE A == {k \in a .. j : \A d \in Int : g[k][d] = Token("MultiLineComment", j) =>
                                               h[k - r][d] = Token("MultiLineComment", j - r)}
<1>5. ASSUME NEW k \in a .. j, k + 1 .. j \subseteq A PROVE k \in A
  <2>1. SUFFICES ASSUME NEW d \in Int, g[k][d] = Token("MultiLineComment", j)
                 PROVE  h[k - r][d] = Token("MultiLineComment", j - r)
    OBVIOUS
  <2>2. k \in Int /\ k > r /\ k <= j /\ k \in a .. Len(x.text) + 1 /\ k - r \in a - r .. Len(y.text) + 1
        /\ k + 1 \in Int /\ k + 1 > r /\ (k + 1) - r = k - r + 1 /\ (k + 2) - r = k - r + 2
    BY <1>1
  <2>3. g[k][d] = CommentStep(x, k, d, g) /\ h[k - r][d] = CommentStep(y, k - r, d, h)
    BY <1>3, <1>4, <2>2 DEF CommentTables
  <2>4. j \in k + 2 .. Len(x.text) + 1
    <3>1. \E e \in k + 2 .. Len(x.text) + 1 : g[k][d] = Token("MultiLineComment", e)
      BY <1>1, <2>1, <2>2, CommentEnds, OutcomesDiffer
    <3> QED
      BY <2>1, <3>1, OutcomesDiffer
  <2>5. k < j /\ k + 1 < j /\ k + 1 \in k + 1 .. j /\ k + 2 \in k + 1 .. j
    BY <1>1, <2>2, <2>4
  <2>6. At(y, k - r) = At(x, k) /\ At(y, k - r + 1) = At(x, k + 1)
    <3>1. At(y, k - r) = At(x, k) /\ At(y, (k + 1) - r) = At(x, k + 1)
      BY <1>2, <2>2, <2>5
    <3> QED
      BY <2>2, <3>1
  <2>7. /\ Opens(y, k - r) <=> Opens(x, k)
        /\ Closes(y, k - r) <=> Closes(x, k)
    BY <2>6 DEF Opens, Closes
  <2>8. \A e \in Int : /\ g[k + 1][e] = Token("MultiLineComment", j) =>
                              h[k - r + 1][e] = Token("MultiLineComment", j - r)
                       /\ g[k + 2][e] = Token("MultiLineComment", j) =>
                              h[k - r + 2][e] = Token("MultiLineComment", j - r)
    <3>1. k + 1 \in A /\ k + 2 \in A
      BY <1>5, <2>5
    <3> QED
      BY <2>2, <3>1
  <2>9. At(x, k) \notin {End, Invalid} /\ At(y, k - r) \notin {End, Invalid}
    BY <2>1, <2>3, <2>6, CommentSteps, OutcomesDiffer
  <2>10. CASE Closes(x, k) /\ d = 1
    <3>1. Token("MultiLineComment", k + 2) = Token("MultiLineComment", j)
      BY <2>1, <2>3, <2>9, <2>10, CommentSteps
    <3>2. k - r + 2 = j - r
      BY <1>1, <2>2, <3>1, OutcomesDiffer
    <3> QED
      BY <2>3, <2>7, <2>9, <2>10, <3>2, CommentSteps
  <2>11. CASE Closes(x, k) /\ d # 1
    <3>1. g[k][d] = g[k + 2][d - 1] /\ h[k - r][d] = h[k - r + 2][d - 1] /\ d - 1 \in Int
      BY <2>3, <2>7, <2>9, <2>11, CommentSteps
    <3> QED
      BY <2>1, <2>8, <3>1
  <2>12. CASE ~Closes(x, k) /\ Opens(x, k)
    <3>1. g[k][d] = g[k + 2][d + 1] /\ h[k - r][d] = h[k - r + 2][d + 1] /\ d + 1 \in Int
      BY <2>3, <2>7, <2>9, <2>12, CommentSteps
    <3> QED
      BY <2>1, <2>8, <3>1
  <2>13. CASE ~Closes(x, k) /\ ~Opens(x, k)
    <3>1. g[k][d] = g[k + 1][d] /\ h[k - r][d] = h[k - r + 1][d]
      BY <2>3, <2>7, <2>9, <2>13, CommentSteps
    <3> QED
      BY <2>1, <2>8, <3>1
  <2> QED
    BY <2>10, <2>11, <2>12, <2>13
<1>6. a .. j \subseteq A
  <2> HIDE DEF A
  <2> QED
    BY <1>1, <1>5, DownwardInduction
<1>7. a \in A
  <2> HIDE DEF A
  <2> QED
    BY <1>1, <1>6
<1> QED
  BY <1>3, <1>4, <1>7

LEMMA TripleAlone ==
  ASSUME NEW x, IsScanner(x), NEW y, IsScanner(y), NEW r, NEW j, Cut(x, y, r, j),
         NEW a \in r + 1 .. j, NEW q \in Quotes, NEW n \in Nat, NEW escapes \in BOOLEAN, NEW id,
         tripleContent(x, id, q, a, n, escapes) = Token(id, j)
  PROVE  tripleContent(y, id, q, a - r, n, escapes) = Token(id, j - r)
<1>1. /\ a \in Int /\ r \in Int /\ j \in Int /\ a > r /\ a <= j /\ a \in 1 .. Len(x.text) + 1
      /\ j <= Len(x.text) + 1 /\ Len(x.text) \in Nat
      /\ Len(y.text) = j - r - 1 /\ a - r \in 1 .. Len(y.text) + 1
  BY CutChars DEF Cut
<1>2. \A l \in Int : l > r => At(y, l - r) = IF l < j THEN At(x, l) ELSE End
  BY DEF Cut
<1>3. PICK g \in TripleTables(x, id, q, a, n, escapes) : tripleContent(x, id, q, a, n, escapes) = g[a]
  <2>1. TripleTables(x, id, q, a, n, escapes) # {}
    BY <1>1, TripleReads
  <2> QED
    BY <2>1 DEF TripleTables
<1>4. PICK h \in TripleTables(y, id, q, a - r, n, escapes) :
          tripleContent(y, id, q, a - r, n, escapes) = h[a - r]
  <2>1. TripleTables(y, id, q, a - r, n, escapes) # {}
    BY <1>1, TripleReads
  <2> QED
    BY <2>1 DEF TripleTables
<1> DEFINE hi == Len(x.text) + 1
           Right(k) == g[k] = Token(id, j) => k < j /\ h[k - r] = Token(id, j - r)
           A == {k \in a .. hi : Right(k)}
<1>5. ASSUME NEW k \in a .. hi, k + 1 .. hi \subseteq A PROVE k \in A
  <2>1. SUFFICES ASSUME g[k] = Token(id, j) PROVE k < j /\ h[k - r] = Token(id, j - r)
    OBVIOUS
  <2>2. k \in Int /\ k > r /\ hi \in Int /\ k \in a .. Len(x.text) + 1
        /\ k + 1 \in Int /\ k + 1 > r /\ (k + 1) - r = k - r + 1 /\ (k + 2) - r = k - r + 2
        /\ k + 2 \in Int /\ k + 2 > r /\ (k + 3) - r = k - r + 3 /\ k + 3 \in Int
    BY <1>1
  <2> DEFINE M(z, m) == Matched(z, m + 3, n)
             Read(z, m, f) ==
                 IF At(z, m) \in {End, Invalid} THEN Error
                 ELSE IF At(z, m) = "\\" /\ escapes
                 THEN IF At(z, m + 1) \in {End, Invalid} THEN Error ELSE f[m + 2]
                 ELSE IF Tripled(z, q, m)
                 THEN IF M(z, m) = n THEN Token(id, m + 3 + n) ELSE f[m + 3 + M(z, m)]
                 ELSE f[m + 1]
  <2>3. g[k] = Read(x, k, g)
    <3>1. g[k] = TripleStep(x, id, q, n, escapes, k, g)
      BY <1>3, <2>2 DEF TripleTables
    <3> QED
      BY <2>2, <3>1, TripleSteps
  <2>4. At(x, k) \notin {End, Invalid} /\ Token(id, j) # Error
    <3>1. Token(id, j) # Error
      BY DEF Token, Error
    <3> QED
      BY <2>1, <2>3, <3>1
  <2>5. k \in a .. Len(x.text) /\ k + 1 \in a .. hi
        /\ (At(x, k + 1) # End => k + 2 \in a .. hi)
    BY <1>1, <2>4, PairsAreInside
  <2>6. ASSUME NEW l \in k + 1 .. hi, g[l] = Token(id, j) PROVE l < j /\ k < j /\ h[l - r] = Token(id, j - r)
    <3>1. Right(l)
      BY <1>5, <2>6
    <3> HIDE DEF hi
    <3>2. l < j => k < j
      BY <1>1, <2>2
    <3> QED
      BY <2>6, <3>1, <3>2
  <2>7. k < j => h[k - r] = Read(y, k - r, h) /\ At(y, k - r) = At(x, k)
    <3>1. k < j => k - r \in a - r .. Len(y.text) + 1
      BY <1>1, <2>2
    <3>2. k < j => h[k - r] = TripleStep(y, id, q, n, escapes, k - r, h) /\ k - r \in Int
      BY <1>1, <1>4, <2>2, <3>1 DEF TripleTables
    <3> QED
      BY <1>2, <2>2, <3>2, TripleSteps
  <2> HIDE DEF hi
  <2>8. CASE At(x, k) = "\\" /\ escapes
    <3>1. At(x, k + 1) \notin {End, Invalid} /\ g[k] = g[k + 2]
      BY <2>1, <2>3, <2>4, <2>8
    <3>2. k + 2 \in k + 1 .. hi
      BY <2>2, <2>5, <3>1
    <3>3. k + 2 < j /\ k < j /\ h[(k + 2) - r] = Token(id, j - r)
      BY <2>1, <2>6, <3>1, <3>2
    <3>4. At(y, k - r + 1) = At(x, k + 1)
      <4>1. k + 1 < j
        BY <1>1, <2>2, <3>3
      <4>2. At(y, (k + 1) - r) = At(x, k + 1)
        BY <1>2, <2>2, <4>1
      <4> QED
        BY <2>2, <4>2
    <3>5. h[k - r] = h[k - r + 2]
      BY <2>4, <2>7, <2>8, <3>1, <3>3, <3>4
    <3> QED
      BY <2>2, <3>3, <3>5
  <2>9. CASE ~(At(x, k) = "\\" /\ escapes) /\ Tripled(x, q, k)
    <3> DEFINE l == Matched(x, k + 3, n)
    <3>1. l \in 0 .. n /\ Hashes(x, k + 3, l) /\ (l = n \/ At(x, k + 3 + l) # "#")
      BY <2>2, Matches
    <3> HIDE DEF l
    <3>2. g[k] = IF l = n THEN Token(id, k + 3 + n) ELSE g[k + 3 + l]
      BY <2>3, <2>4, <2>9 DEF l
    <3>3. l \in Int /\ l >= 0 /\ k + 3 + l \in Int /\ k + 3 + l > k /\ (k + 3 + l) - r = k - r + 3 + l
      BY <1>1, <2>2, <3>1
    <3>4. k + 3 + l \in k + 1 .. hi
      <4>1. k + 2 + l \in 1 .. Len(x.text)
        BY <2>2, <2>9, <3>1, QuotesAreInside
      <4> QED
        BY <1>1, <2>2, <3>3, <4>1 DEF hi
    <3>5. IF l = n THEN k + 3 + l = j ELSE k + 3 + l < j /\ h[(k + 3 + l) - r] = Token(id, j - r)
      <4>1. CASE l = n
        <5>1. Token(id, k + 3 + n) = Token(id, j)
          BY <2>1, <3>2, <4>1
        <5> QED
          BY <4>1, <5>1 DEF Token
      <4>2. CASE l # n
        <5>1. g[k + 3 + l] = Token(id, j)
          BY <2>1, <3>2, <4>2
        <5> QED
          BY <2>6, <3>4, <4>2, <5>1
      <4> QED
        BY <4>1, <4>2
    <3>6. k < j /\ k + 3 + l <= j
      BY <1>1, <2>2, <3>3, <3>5
    <3>7. Tripled(y, q, k - r)
      <4>1. ASSUME NEW m \in k - r .. k - r + 2 PROVE At(y, m) = q
        <5>1. m + r \in k .. k + 2 /\ m + r \in Int /\ m + r > r /\ m + r < j /\ (m + r) - r = m
          BY <1>1, <2>2, <3>3, <3>6
        <5>2. At(x, m + r) = q
          BY <2>9, <5>1 DEF Tripled
        <5> QED
          BY <1>2, <5>1, <5>2
      <4> QED
        BY <4>1 DEF Tripled
    <3>8. Matched(y, k - r + 3, n) = l
      <4>1. Hashes(y, (k + 3) - r, l)
        <5>1. k + 3 \in Int /\ k + 3 > r /\ l \in Nat /\ k + 3 + l <= j
          BY <1>1, <2>2, <3>3, <3>6
        <5> QED
          BY <3>1, <5>1, HashesAlone
      <4>2. l = n \/ At(y, k - r + 3 + l) # "#"
        <5>1. At(y, (k + 3 + l) - r) \in {At(x, k + 3 + l), End}
          BY <1>1, <1>2, <2>2, <3>3
        <5> QED
          BY <3>1, <3>3, <5>1 DEF End
      <4>3. k - r + 3 \in Int
        BY <1>1, <2>2
      <4> QED
        BY <2>2, <3>1, <4>1, <4>2, <4>3, OneMatch
    <3>9. h[k - r] = IF l = n THEN Token(id, k - r + 3 + n) ELSE h[k - r + 3 + l]
      BY <2>4, <2>7, <2>9, <3>6, <3>7, <3>8
    <3>10. CASE l = n
      <4>1. k - r + 3 + n = j - r
        BY <1>1, <2>2, <3>5, <3>10
      <4> QED
        BY <3>6, <3>9, <3>10, <4>1
    <3>11. CASE l # n
      BY <3>3, <3>5, <3>6, <3>9, <3>11
    <3> QED
      BY <3>10, <3>11
  <2>10. CASE ~(At(x, k) = "\\" /\ escapes) /\ ~Tripled(x, q, k)
    <3>1. g[k] = g[k + 1] /\ k + 1 \in k + 1 .. hi
      <4>1. g[k] = g[k + 1]
        BY <2>3, <2>4, <2>10
      <4> QED
        BY <2>2, <2>5, <4>1
    <3>2. k < j /\ h[(k + 1) - r] = Token(id, j - r)
      BY <2>1, <2>6, <3>1
    <3>3. ~Tripled(y, q, k - r)
      <4>1. SUFFICES ASSUME Tripled(y, q, k - r), NEW m \in k .. k + 2 PROVE At(x, m) = q
        BY <2>10 DEF Tripled
      <4>2. m - r \in k - r .. k - r + 2 /\ m \in Int /\ m > r
        BY <1>1, <2>2
      <4>3. At(y, m - r) = q /\ q # End
        BY <4>1, <4>2 DEF Tripled, Quotes, End
      <4> QED
        BY <1>2, <4>2, <4>3
    <3>4. h[k - r] = h[k - r + 1]
      BY <2>4, <2>7, <2>10, <3>2, <3>3
    <3> QED
      BY <2>2, <3>2, <3>4
  <2> QED
    BY <2>8, <2>9, <2>10
<1>6. a \in A
  <2> HIDE DEF Right
  <2>1. hi \in Int /\ a \in a .. hi
    BY <1>1
  <2> HIDE DEF A, hi
  <2>2. a .. hi \subseteq A
    BY <1>1, <1>5, <2>1, DownwardInduction
  <2> QED
    BY <2>1, <2>2
<1> QED
  BY <1>3, <1>4, <1>6

Modes == {"first", "plain", "escaped", "folding", "done", "stopped"}

LEMMA ModesStep ==
  ASSUME NEW x, NEW y, x.version = y.version, NEW q \in Quotes, NEW m \in Modes, NEW c, NEW next
  PROVE  /\ quoteMode(x, q, m, c, next) \in Modes
         /\ quoteMode(x, q, m, c, next) = quoteMode(y, q, m, c, next)
         /\ quoteMode(x, q, m, c, next) # "stopped" =>
                quoteMode(y, q, m, c, End) = quoteMode(x, q, m, c, next)
<1> DEFINE back == c = "\\"
           v2(z) == z.version = "V2"
           content(z, n) ==
               IF back THEN IF v2(z) /\ n = "/" THEN "stopped"
                            ELSE IF m = "escaped" THEN "plain" ELSE "escaped"
               ELSE IF c = q THEN IF m = "escaped" THEN "plain" ELSE "done"
               ELSE IF c \in WhiteSpace THEN IF m = "escaped" /\ v2(z) THEN "folding" ELSE m
               ELSE IF c \in NewlineChars
               THEN IF ~v2(z) THEN m ELSE IF m = "escaped" THEN "folding" ELSE "stopped"
               ELSE "plain"
           mode(z, n) ==
               IF m = "first" THEN "plain"
               ELSE IF m \in {"done", "stopped"} THEN "stopped"
               ELSE IF m = "folding" /\ c \in WhiteSpace \cup NewlineChars THEN "folding"
               ELSE content(z, n)
<1>1. \A z, n : quoteMode(z, q, m, c, n) = mode(z, n)
  <2>1. SUFFICES ASSUME NEW z, NEW n PROVE quoteMode(z, q, m, c, n) = mode(z, n)
    OBVIOUS
  <2>2. /\ back => c # q /\ c \notin WhiteSpace /\ c \notin NewlineChars
        /\ c = q => c \notin WhiteSpace /\ c \notin NewlineChars
        /\ c \in WhiteSpace => c \notin NewlineChars
    BY DEF Quotes, WhiteSpace, NewlineChars
  <2> HIDE DEF back
  <2> QED
    BY <2>2 DEF quoteMode, back
<1>2. v2(x) <=> v2(y)
  OBVIOUS
<1>3. mode(x, next) \in Modes
  <2> HIDE DEF back, v2
  <2> QED
    BY DEF Modes
<1>4. mode(x, next) = mode(y, next)
  <2> HIDE DEF back, v2
  <2> QED
    BY <1>2
<1>5. mode(x, next) # "stopped" => mode(y, End) = mode(x, next)
  <2> HIDE DEF back, v2
  <2> QED
    BY <1>2 DEF End
<1> HIDE DEF mode
<1> QED
  BY <1>1, <1>3, <1>4, <1>5

\* Where the reader of quoted strings goes on, and the modes it reads by.
QuoteGoesOn(x, f, k) == k <= Len(x.text) /\ At(x, k) # Invalid /\ f[k + 1] # "stopped"

QuoteModes(x, id, q, i) ==
    {f \in [i .. Len(x.text) + 1 -> Modes] :
        /\ f[i] = "first"
        /\ \A k \in i + 1 .. Len(x.text) + 1 : f[k] = quoteMode(x, q, f[k - 1], At(x, k - 1), At(x, k))
        /\ \E e \in i .. Len(x.text) + 1 :
               /\ ~QuoteGoesOn(x, f, e) /\ \A l \in i .. e - 1 : QuoteGoesOn(x, f, l)
               /\ readQuotedStringQ(x, id, q, i) =
                      IF At(x, e) = Invalid \/ e - i < 2 THEN Error ELSE Token(id, e)}

LEMMA QuoteReads ==
  ASSUME NEW x, IsScanner(x), NEW id, NEW q \in Quotes, NEW i \in 1 .. Len(x.text) + 1
  PROVE  QuoteModes(x, id, q, i) # {}
<1> DEFINE hi == Len(x.text) + 1
           mode[k \in i .. Len(x.text) + 1] ==
               IF k = i THEN "first"
               ELSE quoteMode(x, q, mode[k - 1], At(x, k - 1), At(x, k))
           goesOn(k) == k <= Len(x.text) /\ At(x, k) # Invalid /\ mode[k + 1] # "stopped"
           j == CHOOSE k \in i .. Len(x.text) + 1 :
                    ~goesOn(k) /\ \A l \in i .. k - 1 : goesOn(l)
           n == hi - i
           next(m, k) == quoteMode(x, q, m, At(x, i + k - 1), At(x, i + k))
           step == [k \in 1 .. n |-> [m \in Modes |-> next(m, k)]]
           e(k, h) == IF k = i THEN "first" ELSE quoteMode(x, q, h[k - 1], At(x, k - 1), At(x, k))
<1>1. readQuotedStringQ(x, id, q, i) =
          IF At(x, j) = Invalid \/ j - i < 2 THEN Error ELSE Token(id, j)
  BY DEF readQuotedStringQ
<1>2. Len(x.text) \in Nat /\ i \in Int /\ hi \in Int /\ i <= hi /\ n \in Nat
  BY Texts
<1> HIDE DEF mode
<1>3. \A m \in Modes : \A k : next(m, k) \in Modes
  <2> SUFFICES ASSUME NEW m \in Modes, NEW k PROVE next(m, k) \in Modes
    OBVIOUS
  <2> QED
    BY ModesStep
<1>4. PICK g \in [0 .. n -> Modes] : g[0] = "first" /\ \A k \in 1 .. n : g[k] = next(g[k - 1], k)
  <2> HIDE DEF next, n
  <2>1. step \in Steps(n, Modes) /\ \A k \in 1 .. n, m \in Modes : step[k][m] = next(m, k)
    BY <1>3 DEF Steps
  <2>2. "first" \in Modes
    BY DEF Modes
  <2> HIDE DEF step
  <2>3. PICK g \in Results(n, Modes, "first", step) : TRUE
    BY <1>2, <2>1, <2>2, Recursion
  <2>4. g \in [0 .. n -> Modes] /\ g[0] = "first" /\ \A k \in 1 .. n : g[k] = step[k][g[k - 1]]
    BY <2>3 DEF Results
  <2>5. ASSUME NEW k \in 1 .. n PROVE g[k] = next(g[k - 1], k)
    <3>1. k - 1 \in 0 .. n
      BY <1>2
    <3> QED
      BY <2>1, <2>4, <3>1
  <2> QED
    BY <2>4, <2>5
<1> DEFINE f == [k \in i .. hi |-> g[k - i]]
<1>5. f \in [i .. hi -> Modes] /\ \A k \in i .. hi : f[k] = e(k, f)
  <2>1. \A k \in i .. hi : k - i \in 0 .. n /\ (k # i => k - i \in 1 .. n /\ k - 1 \in i .. hi)
                           /\ k \in Int
    BY <1>2
  <2>2. f \in [i .. hi -> Modes] /\ \A k \in i .. hi : f[k] = g[k - i]
    BY <1>4, <2>1
  <2> HIDE DEF f, hi, n
  <2>3. ASSUME NEW k \in i .. hi PROVE f[k] = e(k, f)
    <3>1. CASE k = i
      <4>1. k - i = 0
        BY <1>2, <3>1
      <4> QED
        BY <1>4, <2>2, <3>1, <4>1
    <3>2. CASE k # i
      <4>1. f[k] = next(g[k - i - 1], k - i)
        BY <1>4, <2>1, <2>2, <3>2
      <4>2. i + (k - i) - 1 = k - 1 /\ i + (k - i) = k /\ (k - 1) - i = k - i - 1
        BY <1>2, <2>1
      <4>3. f[k - 1] = g[k - i - 1]
        BY <2>1, <2>2, <3>2, <4>2
      <4> QED
        BY <3>2, <4>1, <4>2, <4>3
    <3> QED
      BY <3>1, <3>2
  <2> QED
    BY <2>2, <2>3
<1>6. mode = [k \in i .. hi |-> e(k, mode)]
  <2>1. f = [k \in i .. hi |-> e(k, f)]
    <3> HIDE DEF e
    <3> QED
      BY <1>5
  <2>2. mode = CHOOSE h : h = [k \in i .. hi |-> e(k, h)]
    BY DEF mode, e
  <2> HIDE DEF f, e, hi
  <2> QED
    BY <2>1, <2>2
<1> HIDE DEF f
<1>7. mode \in [i .. hi -> Modes]
  <2> DEFINE B == {k \in Nat : k <= n => mode[i + k] \in Modes}
  <2>1. 0 \in B
    <3>1. i + 0 = i /\ i \in i .. hi
      BY <1>2
    <3>2. mode[i] = e(i, mode)
      BY <1>6, <3>1
    <3> QED
      BY <3>1, <3>2 DEF Modes
  <2>2. ASSUME NEW k \in Nat, k \in B PROVE k + 1 \in B
    <3>1. SUFFICES ASSUME k + 1 <= n PROVE mode[i + (k + 1)] \in Modes
      OBVIOUS
    <3>2. i + (k + 1) \in i .. hi /\ i + (k + 1) # i /\ i + (k + 1) - 1 = i + k /\ k <= n
      BY <1>2, <3>1
    <3>3. mode[i + (k + 1)] = quoteMode(x, q, mode[i + k], At(x, i + k), At(x, i + (k + 1)))
      <4>1. \A l \in i .. hi : mode[l] = e(l, mode)
        BY <1>6
      <4> QED
        BY <3>2, <4>1
    <3>4. mode[i + k] \in Modes
      BY <2>2, <3>2
    <3> QED
      BY <3>3, <3>4, ModesStep
  <2>3. Nat \subseteq B
    <3> HIDE DEF B
    <3> QED
      BY <2>1, <2>2, Induction
  <2>4. ASSUME NEW k \in i .. hi PROVE mode[k] \in Modes
    <3>1. k - i \in Nat /\ k - i <= n /\ i + (k - i) = k
      BY <1>2
    <3>2. k - i \in B
      BY <2>3, <3>1
    <3> QED
      BY <3>1, <3>2
  <2>5. mode = [k \in i .. hi |-> mode[k]]
    <3> HIDE DEF e
    <3> QED
      BY <1>6
  <2> HIDE DEF hi, B
  <2> QED
    BY <2>4, <2>5
<1>8. mode[i] = "first" /\ \A k \in i + 1 .. hi : mode[k] = quoteMode(x, q, mode[k - 1], At(x, k - 1), At(x, k))
  <2>1. \A l \in i .. hi : mode[l] = e(l, mode)
    BY <1>6
  <2>2. i \in i .. hi /\ \A k \in i + 1 .. hi : k \in i .. hi /\ k # i
    BY <1>2
  <2> QED
    BY <2>1, <2>2
<1>9. j \in i .. hi /\ ~goesOn(j) /\ \A l \in i .. j - 1 : goesOn(l)
  <2> DEFINE B == {k \in Nat : k \in i .. hi /\ ~goesOn(k)}
  <2>1. B \in SUBSET Nat /\ hi \in B
    BY <1>2
  <2>2. PICK k \in B : \A m \in B : k <= m
    <3> HIDE DEF B
    <3> QED
      BY <2>1, LeastNumber
  <2> HIDE DEF goesOn
  <2>3. \A l \in i .. k - 1 : goesOn(l)
    BY <1>2, <2>2
  <2> QED
    BY <2>2, <2>3
<1>10. \A k : goesOn(k) <=> QuoteGoesOn(x, mode, k)
  BY DEF QuoteGoesOn
<1> HIDE DEF goesOn, j
<1>11. mode \in QuoteModes(x, id, q, i)
  BY <1>1, <1>7, <1>8, <1>9, <1>10 DEF QuoteModes
<1> QED
  BY <1>11

LEMMA QuotedAlone ==
  ASSUME NEW x, IsScanner(x), NEW y, IsScanner(y), NEW r, NEW j, Cut(x, y, r, j),
         NEW a \in r + 1 .. j, NEW q \in Quotes, NEW id, readQuotedStringQ(x, id, q, a) = Token(id, j)
  PROVE  readQuotedStringQ(y, id, q, a - r) = Token(id, j - r)
<1>1. /\ a \in Int /\ r \in Int /\ j \in Int /\ a > r /\ a <= j /\ a \in 1 .. Len(x.text) + 1
      /\ j <= Len(x.text) + 1 /\ Len(x.text) \in Nat
      /\ Len(y.text) = j - r - 1 /\ a - r \in 1 .. Len(y.text) + 1
  BY CutChars DEF Cut
<1>2. (\A l \in Int : l > r => At(y, l - r) = IF l < j THEN At(x, l) ELSE End) /\ y.version = x.version
  BY DEF Cut
<1>3. PICK f \in QuoteModes(x, id, q, a) : TRUE
  BY <1>1, QuoteReads
<1>4. PICK e \in a .. Len(x.text) + 1 :
          /\ ~QuoteGoesOn(x, f, e) /\ \A l \in a .. e - 1 : QuoteGoesOn(x, f, l)
          /\ readQuotedStringQ(x, id, q, a) = IF At(x, e) = Invalid \/ e - a < 2 THEN Error ELSE Token(id, e)
  BY <1>3 DEF QuoteModes
<1>5. /\ f \in [a .. Len(x.text) + 1 -> Modes] /\ f[a] = "first"
      /\ \A k \in a + 1 .. Len(x.text) + 1 : f[k] = quoteMode(x, q, f[k - 1], At(x, k - 1), At(x, k))
  BY <1>3 DEF QuoteModes
<1>6. e = j /\ j - a >= 2
  <2>1. Token(id, j) # Error
    BY DEF Token, Error
  <2>2. readQuotedStringQ(x, id, q, a) = Token(id, e) /\ ~(e - a < 2)
    BY <1>4, <2>1
  <2>3. Token(id, e) = Token(id, j)
    BY <2>2
  <2>4. e = j
    BY <2>3 DEF Token
  <2> QED
    BY <1>1, <2>2, <2>4
<1>7. PICK g \in QuoteModes(y, id, q, a - r) : TRUE
  BY <1>1, QuoteReads
<1>8. PICK d \in a - r .. Len(y.text) + 1 :
          /\ ~QuoteGoesOn(y, g, d)
          /\ readQuotedStringQ(y, id, q, a - r) =
                 IF At(y, d) = Invalid \/ d - (a - r) < 2 THEN Error ELSE Token(id, d)
  BY <1>7 DEF QuoteModes
<1>9. /\ g[a - r] = "first"
      /\ \A k \in a - r + 1 .. Len(y.text) + 1 : g[k] = quoteMode(y, q, g[k - 1], At(y, k - 1), At(y, k))
  BY <1>7 DEF QuoteModes
<1> DEFINE A == {n \in Nat : a + n <= j => g[a + n - r] = f[a + n]}
<1>10. 0 \in A
  BY <1>1, <1>5, <1>9
<1>11. ASSUME NEW n \in Nat, n \in A PROVE n + 1 \in A
  <2> DEFINE k == a + n
  <2>1. SUFFICES ASSUME k + 1 <= j PROVE g[k - r + 1] = f[k + 1]
    BY <1>1
  <2>2. k \in Int /\ k > r /\ k < j /\ k \in a .. e - 1 /\ (k + 1) - r = k - r + 1 /\ k + 1 \in Int
        /\ k + 1 > r /\ k + 1 \in a + 1 .. Len(x.text) + 1 /\ (k + 1) - 1 = k
        /\ k - r + 1 \in a - r + 1 .. Len(y.text) + 1 /\ (k - r + 1) - 1 = k - r
        /\ k \in a .. Len(x.text) + 1
    BY <1>1, <1>6, <2>1
  <2>3. g[k - r] = f[k]
    BY <1>1, <1>11, <2>1
  <2> HIDE DEF k
  <2>4. f[k + 1] = quoteMode(x, q, f[k], At(x, k), At(x, k + 1)) /\ f[k + 1] # "stopped" /\ f[k] \in Modes
    <3>1. f[k + 1] # "stopped"
      BY <1>4, <2>2 DEF QuoteGoesOn
    <3>2. f[k + 1] = quoteMode(x, q, f[(k + 1) - 1], At(x, (k + 1) - 1), At(x, k + 1))
      BY <1>5, <2>2
    <3> QED
      BY <1>5, <2>2, <3>1, <3>2
  <2>5. g[k - r + 1] = quoteMode(y, q, g[k - r], At(y, k - r), At(y, k - r + 1))
    <3>1. g[k - r + 1] = quoteMode(y, q, g[(k - r + 1) - 1], At(y, (k - r + 1) - 1), At(y, k - r + 1))
      BY <1>9, <2>2
    <3> QED
      BY <2>2, <3>1
  <2>6. At(y, k - r) = At(x, k) /\ At(y, k - r + 1) \in {At(x, k + 1), End}
    <3>1. At(y, k - r) = At(x, k) /\ At(y, (k + 1) - r) \in {At(x, k + 1), End}
      BY <1>2, <2>2
    <3> QED
      BY <2>2, <3>1
  <2>7. quoteMode(y, q, f[k], At(x, k), At(y, k - r + 1)) = f[k + 1]
    <3>1. quoteMode(x, q, f[k], At(x, k), At(x, k + 1)) = quoteMode(y, q, f[k], At(x, k), At(x, k + 1))
      BY <1>2, <2>4, ModesStep
    <3>2. quoteMode(x, q, f[k], At(x, k), At(x, k + 1)) # "stopped" =>
              quoteMode(y, q, f[k], At(x, k), End) = quoteMode(x, q, f[k], At(x, k), At(x, k + 1))
      BY <1>2, <2>4, ModesStep
    <3> QED
      BY <2>4, <2>6, <3>1, <3>2
  <2> QED
    BY <2>3, <2>5, <2>6, <2>7
<1>12. \A k \in a .. j : g[k - r] = f[k]
  <2>1. Nat \subseteq A
    <3> HIDE DEF A
    <3> QED
      BY <1>10, <1>11, Induction
  <2>2. ASSUME NEW k \in a .. j PROVE g[k - r] = f[k]
    <3>1. PICK n \in Nat : n = k - a
      BY <1>1
    <3>2. a + n = k /\ a + n - r = k - r /\ k <= j
      BY <1>1, <3>1
    <3>3. n \in A
      BY <2>1, <3>1
    <3>4. g[a + n - r] = f[a + n]
      BY <3>2, <3>3
    <3> QED
      BY <3>2, <3>4
  <2> QED
    BY <2>2
<1> HIDE DEF A
<1>13. d = j - r
  <2>1. SUFFICES ASSUME d < j - r PROVE FALSE
    BY <1>1, <1>8
  <2> DEFINE k == d + r
  <2>2. k \in a .. j - 1 /\ k \in Int /\ k > r /\ k < j /\ k - r = d /\ k + 1 \in a .. j /\ (k + 1) - r = d + 1
        /\ d <= Len(y.text) /\ k \in a .. e - 1
    BY <1>1, <1>6, <1>8, <2>1
  <2> HIDE DEF k
  <2>3. QuoteGoesOn(x, f, k)
    BY <1>4, <2>2
  <2>4. g[d + 1] = f[k + 1] /\ At(y, d) = At(x, k)
    BY <1>2, <1>12, <2>2
  <2> QED
    BY <1>8, <2>2, <2>3, <2>4 DEF QuoteGoesOn
<1>14. At(y, d) = End /\ ~(d - (a - r) < 2)
  BY <1>1, <1>2, <1>6, <1>13
<1> QED
  BY <1>8, <1>13, <1>14 DEF End, Invalid

LEMMA SliceAlone ==
  ASSUME NEW x, IsScanner(x), NEW y, IsScanner(y), NEW r, NEW j, Cut(x, y, r, j), NEW a \in r + 1 .. j - 1
  PROVE  Slice(y, a - r, j - r) = Slice(x, a, j)
<1> DEFINE v == Slice(x, a, j)
           w == Slice(y, a - r, j - r)
<1>1. /\ a \in Int /\ r \in Int /\ j \in Int /\ a \in 1 .. Len(x.text) /\ j \in a + 1 .. Len(x.text) + 1
      /\ a - r \in 1 .. Len(y.text) /\ j - r \in a - r + 1 .. Len(y.text) + 1
      /\ (j - r) - (a - r) = j - a
  BY CutChars DEF Cut
<1>2. IsPart(x, a, j, v)
  BY <1>1, Sliced
<1>3. IsPart(y, a - r, j - r, w)
  BY <1>1, Sliced
<1>4. v \in Seq(Characters) /\ w \in Seq(Characters)
  <2>1. x.text \in Seq(Characters) /\ y.text \in Seq(Characters)
    BY DEF IsScanner
  <2>2. j - 1 \in a .. Len(x.text) /\ (j - r) - 1 \in a - r .. Len(y.text)
    BY <1>1
  <2>3. SubSeq(x.text, a, j - 1) \in Seq(Characters)
    BY <1>1, <2>1, <2>2
  <2>4. SubSeq(y.text, a - r, (j - r) - 1) \in Seq(Characters)
    BY <1>1, <2>1, <2>2
  <2> QED
    BY <2>3, <2>4 DEF Slice
<1> HIDE DEF v, w
<1>5. Len(v) = j - a /\ Len(w) = j - a /\ DOMAIN v = 1 .. j - a /\ DOMAIN w = 1 .. j - a
  BY <1>1, <1>2, <1>3 DEF IsPart
<1>6. ASSUME NEW k \in 1 .. j - a PROVE w[k] = v[k]
  <2>1. v[k] = At(x, a + k - 1)
    BY <1>2 DEF IsPart
  <2>2. w[k] = At(y, a - r + k - 1)
    BY <1>1, <1>3 DEF IsPart
  <2>3. a - r + k - 1 = (a + k - 1) - r /\ a + k - 1 \in r + 1 .. j - 1
    BY <1>1
  <2>4. At(y, (a + k - 1) - r) = At(x, a + k - 1)
    BY <2>3, CutChars
  <2> QED
    BY <2>1, <2>2, <2>3, <2>4
<1> QED
  BY <1>4, <1>5, <1>6 DEF v, w

\* A word of characters that are not in N, which the text itself has to offer.
LEMMA WordAlone ==
  ASSUME NEW x, IsScanner(x), NEW y, IsScanner(y), NEW r, NEW j, Cut(x, y, r, j),
         NEW N, End \in N, NEW a \in r + 1 .. j, NEW id,
         readWhile(x, id, {At(x, k) : k \in a .. Len(x.text)} \ N, a, 1) = Token(id, j)
  PROVE  readWhile(y, id, {At(y, k) : k \in a - r .. Len(y.text)} \ N, a - r, 1) = Token(id, j - r)
<1> DEFINE S == {At(x, k) : k \in a .. Len(x.text)} \ N
           T == {At(y, k) : k \in a - r .. Len(y.text)} \ N
           b == Run(x, S, a)
           c == Run(y, T, a - r)
<1>1. /\ a \in Int /\ r \in Int /\ j \in Int /\ a > r /\ a \in 1 .. Len(x.text) + 1 /\ Len(y.text) = j - r - 1
      /\ End \notin S /\ End \notin T
  BY CutChars
<1>2. Stops(x, S, a, b)
  <2> HIDE DEF S
  <2> QED
    BY <1>1, RunStops
<1>3. b = j /\ ~(j = a) /\ ~(j - a < 1)
  <2>1. readWhile(x, id, S, a, 1) = IF At(x, b) = Invalid \/ b = a \/ b - a < 1 THEN Error ELSE Token(id, b)
    BY DEF readWhile
  <2>2. Token(id, j) # Error
    BY DEF Token, Error
  <2> HIDE DEF b
  <2>3. Token(id, b) = Token(id, j) /\ ~(b = a) /\ ~(b - a < 1)
    BY <2>1, <2>2
  <2>4. b = j
    BY <2>3 DEF Token
  <2> QED
    BY <2>3, <2>4
<1>4. \A k \in a .. j - 1 : At(x, k) \in S
  BY <1>2, <1>3 DEF Stops
<1>5. ASSUME NEW k \in a .. j - 1 PROVE At(x, k) \in T
  <2>1. k - r \in a - r .. Len(y.text) /\ k \in r + 1 .. j - 1
    BY <1>1
  <2>2. At(y, k - r) = At(x, k)
    BY <2>1, CutChars
  <2>3. At(x, k) \notin N
    BY <1>4
  <2> QED
    BY <2>1, <2>2, <2>3
<1> HIDE DEF b, S, T
<1>6. c = j - r
  <2>1. j \in a .. j /\ ~(j < j)
    BY <1>1
  <2> QED
    BY <1>1, <1>5, <2>1, CutRun
<1>7. At(y, c) = End
  <2>1. \A k \in Int : k >= j => At(y, k - r) = End
    BY CutChars
  <2> QED
    BY <1>1, <1>6, <2>1
<1>8. readWhile(y, id, T, a - r, 1) = IF At(y, c) = Invalid \/ c = a - r \/ c - (a - r) < 1
                                      THEN Error ELSE Token(id, c)
  BY DEF readWhile
<1> HIDE DEF c
<1>9. readWhile(y, id, T, a - r, 1) = Token(id, j - r)
  BY <1>1, <1>3, <1>6, <1>7, <1>8 DEF End, Invalid
<1> QED
  BY <1>9 DEF T

LEMMA TripledAlone ==
  ASSUME NEW x, IsScanner(x), NEW y, IsScanner(y), NEW r, NEW j, Cut(x, y, r, j),
         NEW a \in r + 1 .. j, NEW q \in Quotes, Tripled(x, q, a), NEW n \in Nat, NEW escapes \in BOOLEAN,
         NEW id, readTripled(x, id, q, a, n, escapes) = Token(id, j)
  PROVE  Tripled(y, q, a - r) /\ readTripled(y, id, q, a - r, n, escapes) = Token(id, j - r)
<1> DEFINE b == Run(x, WhiteSpace, a + 3)
           d == Run(y, WhiteSpace, a - r + 3)
<1>1. a \in Nat \ {0} /\ r \in Int /\ j \in Int /\ a > r /\ a - r \in Nat \ {0} /\ r \in Nat
      /\ Len(x.text) \in Nat /\ j <= Len(x.text) + 1
  BY CutChars DEF Cut
<1>2. Token(id, j) # Error
  BY OutcomesDiffer
<1>3. /\ Stops(x, WhiteSpace, a + 3, b)
      /\ tripleContent(x, id, q, b, n, escapes) = Token(id, j)
      /\ At(x, b) \in NewlineChars /\ b \in a + 3 .. Len(x.text)
  <2> DEFINE c == tripleContent(x, id, q, b, n, escapes)
             o == readTripled(x, id, q, a, n, escapes)
  <2>1. /\ Stops(x, WhiteSpace, a + 3, b)
        /\ \/ o = Error /\ At(x, b) \notin NewlineChars
           \/ o = c /\ At(x, b) \in NewlineChars /\ b \in a + 3 .. Len(x.text)
    <3>1. a \in Nat \ {0}
      BY <1>1
    <3>3. Stops(x, WhiteSpace, a + 3, b)
      <4>1. TRUE \in BOOLEAN
        OBVIOUS
      <4> QED
        BY <3>1, <4>1, TripledReads
    <3>2. CASE escapes = TRUE
      <4>1. \/ readTripled(x, id, q, a, n, TRUE) = Error /\ At(x, b) \notin NewlineChars
            \/ /\ readTripled(x, id, q, a, n, TRUE) = tripleContent(x, id, q, b, n, TRUE)
               /\ At(x, b) \in NewlineChars /\ b \in a + 3 .. Len(x.text)
        BY <3>1, TripledReads
      <4> QED
        BY <3>2, <3>3, <4>1
    <3>4. CASE escapes = FALSE
      <4>1. \/ readTripled(x, id, q, a, n, FALSE) = Error /\ At(x, b) \notin NewlineChars
            \/ /\ readTripled(x, id, q, a, n, FALSE) = tripleContent(x, id, q, b, n, FALSE)
               /\ At(x, b) \in NewlineChars /\ b \in a + 3 .. Len(x.text)
        BY <3>1, TripledReads
      <4> QED
        BY <3>3, <3>4, <4>1
    <3> QED
      BY <3>2, <3>4
  <2>2. o = Token(id, j)
    OBVIOUS
  <2> HIDE DEF b, c, o
  <2> QED
    BY <1>2, <2>1, <2>2 DEF c
<1> HIDE DEF b
<1>4. b < j
  <2>1. b \in 1 .. Len(x.text) + 1 /\ b \in b .. Len(x.text) + 1
    BY <1>1, <1>3
  <2>2. \E l \in b + 1 .. Len(x.text) + 1 : tripleContent(x, id, q, b, n, escapes) = Token(id, l)
    BY <1>2, <1>3, <2>1, TripleIsRead
  <2>3. PICK l \in b + 1 .. Len(x.text) + 1 : Token(id, j) = Token(id, l)
    BY <1>3, <2>2
  <2>4. j = l
    BY <2>3, OutcomesDiffer
  <2> QED
    BY <1>1, <1>3, <2>3, <2>4
<1>5. Tripled(y, q, a - r)
  <2>1. ASSUME NEW m \in a - r .. a - r + 2 PROVE At(y, m) = q
    <3>1. m + r \in a .. a + 2 /\ m + r \in r + 1 .. j - 1 /\ (m + r) - r = m
      BY <1>1, <1>3, <1>4
    <3>2. At(x, m + r) = q /\ At(y, (m + r) - r) = At(x, m + r)
      BY <3>1, CutChars DEF Tripled
    <3> QED
      BY <3>1, <3>2
  <2> QED
    BY <2>1 DEF Tripled
<1>6. d = b - r
  <2>1. a + 3 \in r + 1 .. j /\ b \in a + 3 .. j /\ (a + 3) - r = a - r + 3
    BY <1>1, <1>3, <1>4
  <2>2. (\A k \in a + 3 .. b - 1 : At(x, k) \in WhiteSpace) /\ At(x, b) \notin WhiteSpace
    BY <1>3 DEF Stops
  <2>3. End \notin WhiteSpace
    BY DEF End, WhiteSpace
  <2>4. Run(y, WhiteSpace, (a + 3) - r) = b - r
    BY <2>1, <2>2, <2>3, CutRun
  <2> QED
    BY <2>1, <2>4 DEF d
<1>7. b \in r + 1 .. j /\ b \in r + 1 .. j - 1
  BY <1>1, <1>3, <1>4
<1>8. At(y, b - r) = At(x, b)
  BY <1>7, CutChars
<1>9. tripleContent(y, id, q, b - r, n, escapes) = Token(id, j - r)
  BY <1>3, <1>7, TripleAlone
<1>10. readTripled(y, id, q, a - r, n, escapes) =
           IF At(y, d) \notin NewlineChars THEN Error ELSE tripleContent(y, id, q, d, n, escapes)
  BY DEF readTripled
<1> QED
  BY <1>3, <1>5, <1>6, <1>8, <1>9, <1>10

LEMMA RawStringAlone ==
  ASSUME NEW x, IsScanner(x), NEW y, IsScanner(y), NEW r, NEW j, Cut(x, y, r, j),
         NEW a \in r + 1 .. j, a \in 1 .. Len(x.text), NEW id, readRawString(x, a) = Token(id, j)
  PROVE  a + 2 < j /\ readRawString(y, a - r) = Token(id, j - r)
<1> DEFINE b == Run(x, {"#"}, a + 1)
           d == Run(y, {"#"}, a - r + 1)
<1>1. a \in Int /\ r \in Int /\ j \in Int /\ a > r /\ r \in Nat /\ a - r \in Int
      /\ Len(x.text) \in Nat /\ j <= Len(x.text) + 1 /\ Len(y.text) = j - r - 1
  BY CutChars DEF Cut
<1>2. Token(id, j) # Error
  BY OutcomesDiffer
<1>3. /\ b \in a + 1 .. Len(x.text) /\ b - a - 1 \in Nat /\ At(x, b) = "QUOTE"
      /\ \A k \in a + 1 .. b - 1 : At(x, k) = "#"
      /\ rawContent(x, "RawString", b + 1, b - a - 1) = Token(id, j)
  BY <1>2, RawStringReads
<1> HIDE DEF b
<1>4. id = "RawString" /\ b + 1 < j
  <2>1. b + 1 \in 1 .. Len(x.text) + 1
    BY <1>1, <1>3
  <2>2. Reads(x, b + 1, {"RawString"}, Token(id, j))
    BY <1>3, <2>1, RawIsRead
  <2>3. PICK l \in b + 1 + 1 .. Len(x.text) + 1 : Token(id, j) = Token("RawString", l)
    BY <2>2, OutcomesDiffer DEF Reads
  <2>4. id = "RawString" /\ j = l
    BY <2>3, OutcomesDiffer
  <2> QED
    BY <1>1, <1>3, <2>3, <2>4
<1>5. d = b - r
  <2>1. a + 1 \in r + 1 .. j /\ b \in a + 1 .. j /\ (a + 1) - r = a - r + 1
    BY <1>1, <1>3, <1>4
  <2> DEFINE T == {"#"}
  <2>2. (\A k \in a + 1 .. b - 1 : At(x, k) \in T) /\ At(x, b) \notin T /\ End \notin T
    BY <1>3 DEF End
  <2> HIDE DEF T
  <2>4. Run(y, T, (a + 1) - r) = b - r
    BY <2>1, <2>2, CutRun
  <2> QED
    BY <2>1, <2>4 DEF d, T
<1>6. b + 1 \in r + 1 .. j /\ b \in r + 1 .. j - 1 /\ (b + 1) - r = b - r + 1 /\ (b - r) - (a - r) - 1 = b - a - 1
  BY <1>1, <1>3, <1>4
<1>7. At(y, b - r) = "QUOTE"
  BY <1>3, <1>6, CutChars
<1>8. rawContent(y, "RawString", (b + 1) - r, b - a - 1) = Token(id, j - r)
  BY <1>3, <1>4, <1>6, RawAlone
<1>9. readRawString(y, a - r) = IF At(y, d) # "QUOTE" THEN Error
                                ELSE rawContent(y, "RawString", d + 1, d - (a - r) - 1)
  BY DEF readRawString
<1>10. a + 2 < j
  BY <1>1, <1>3, <1>4
<1> QED
  BY <1>5, <1>6, <1>7, <1>8, <1>9, <1>10

LEMMA SameBare ==
  ASSUME NEW x, NEW y, x.version = y.version, x.nginx = y.nginx, x.yaml = y.yaml
  PROVE  NotBare(x) = NotBare(y) /\ \A c : Starts(x, c) <=> Starts(y, c)
<1>1. NotBare(x) = NotBare(y)
  BY DEF NotBare
<1> QED
  BY <1>1 DEF Starts

LEMMA BareAlone ==
  ASSUME NEW x, IsScanner(x), NEW y, IsScanner(y), NEW r, NEW j, Cut(x, y, r, j),
         NEW a \in r + 1 .. j, NEW id, readBareIdentifier(x, a) = Token(id, j)
  PROVE  readBareIdentifier(y, a - r) = Token(id, j - r)
<1> DEFINE N == NotBare(x)
           S == {At(x, k) : k \in a .. Len(x.text)} \ N
           T == {At(y, k) : k \in a - r .. Len(y.text)} \ N
           o == readWhile(x, "BareIdentifier", S, a, 1)
           p == readWhile(y, "BareIdentifier", T, a - r, 1)
           w == Slice(x, a, o.to)
           v == Slice(y, a - r, p.to)
           c == At(x, a)
           c2 == At(x, a + 1)
           d == At(y, a - r)
           d2 == At(y, a - r + 1)
           reserved(u) == x.version = "V2" /\ u \in Reserved
           starts(e, e2) == IF e \in Signs THEN e2 \notin Digits \cup {Invalid} ELSE Starts(x, e)
           bare(e, e2, i, q, u) ==
               IF ~starts(e, e2) THEN Error
               ELSE IF e \in Signs /\ e2 = End THEN Token("BareIdentifier", i + 1)
               ELSE IF Failed(q) \/ reserved(u) THEN Error
               ELSE Token(wordId(u), q.to)
<1>1. a \in Int /\ r \in Int /\ j \in Int /\ a > r /\ r \in Nat /\ a - r \in Int
      /\ Len(x.text) \in Nat /\ j <= Len(x.text) + 1 /\ Len(y.text) = j - r - 1
      /\ a \in 1 .. Len(x.text) + 1
  BY CutChars DEF Cut
<1>2. readBareIdentifier(x, a) = bare(c, c2, a, o, w)
  BY DEF readBareIdentifier
<1>3. readBareIdentifier(y, a - r) = bare(d, d2, a - r, p, v)
  <2>1. y.version = x.version /\ y.nginx = x.nginx /\ y.yaml = x.yaml
    BY DEF Cut
  <2>2. NotBare(y) = N /\ \A e : Starts(y, e) <=> Starts(x, e)
    BY <2>1, SameBare
  <2> HIDE DEF N
  <2> QED
    BY <2>1, <2>2 DEF readBareIdentifier
<1>4. d = (IF a < j THEN c ELSE End) /\ d2 = IF a + 1 < j THEN c2 ELSE End
  BY CutAhead
<1>5. {End, Invalid} \subseteq N /\ End \notin Signs /\ End \notin Digits \cup {Invalid}
  BY EndsBare DEF End, Signs, Digits, Invalid
<1>6. ~Starts(x, End)
  BY <1>5 DEF Starts
<1>7. o = Error \/ \E l \in a + 1 .. Len(x.text) + 1 : o = Token("BareIdentifier", l)
  <2>1. End \notin S
    BY <1>5
  <2> HIDE DEF S
  <2> QED
    BY <1>1, <2>1, WhileReads
<1>8. o = Token("BareIdentifier", j) => p = Token("BareIdentifier", j - r)
  <2>1. End \in N
    BY <1>5
  <2> HIDE DEF N
  <2> QED
    BY <2>1, WordAlone
<1>9. a \in r + 1 .. j - 1 => Slice(y, a - r, j - r) = Slice(x, a, j)
  BY SliceAlone
<1>10. a \in 1 .. Len(x.text) => Slice(x, a, a + 1)[1] = c
  <2>1. SUFFICES ASSUME a \in 1 .. Len(x.text) PROVE Slice(x, a, a + 1)[1] = c
    OBVIOUS
  <2>2. a + 1 \in a + 1 .. Len(x.text) + 1
    BY <1>1, <2>1
  <2>3. IsPart(x, a, a + 1, Slice(x, a, a + 1))
    BY <2>1, <2>2, Sliced
  <2>4. 1 \in 1 .. (a + 1) - a /\ a + 1 - 1 = a
    BY <1>1
  <2> QED
    BY <2>3, <2>4 DEF IsPart
<1>11. ASSUME NEW u, u[1] \in Signs PROVE wordId(u) = "BareIdentifier"
  <2>1. u \notin {<<"true">>, <<"false">>} /\ u # <<"null">>
    BY <1>11 DEF Signs
  <2> QED
    BY <2>1 DEF wordId
<1> HIDE DEF o, p, c, c2, d, d2, reserved, S, T, N
<1>12. CASE c \in Signs /\ c2 = End
  <2>1. Token(id, j) = Token("BareIdentifier", a + 1)
    BY <1>2, <1>12, OutcomesDiffer
  <2>2. id = "BareIdentifier" /\ j = a + 1
    BY <2>1, OutcomesDiffer
  <2>3. d = c /\ d2 = End
    BY <1>1, <1>4, <2>2
  <2>4. a - r + 1 = j - r
    BY <1>1, <2>2
  <2> QED
    BY <1>3, <1>5, <1>12, <2>2, <2>3, <2>4
<1>13. CASE ~(c \in Signs /\ c2 = End)
  <2>1. starts(c, c2) /\ ~Failed(o) /\ ~reserved(w) /\ Token(id, j) = Token(wordId(w), o.to)
    BY <1>2, <1>13, OutcomesDiffer
  <2>2. PICK l \in a + 1 .. Len(x.text) + 1 : o = Token("BareIdentifier", l)
    BY <1>7, <2>1, OutcomesDiffer
  <2>3. o.to = j /\ id = wordId(w) /\ l = j
    BY <2>1, <2>2, OutcomesDiffer
  <2>4. p = Token("BareIdentifier", j - r) /\ p.to = j - r /\ ~Failed(p)
    BY <1>8, <2>2, <2>3, OutcomesDiffer
  <2>5. a < j /\ a \in r + 1 .. j - 1 /\ a \in 1 .. Len(x.text)
    BY <1>1, <2>2, <2>3
  <2>6. v = w
    BY <1>9, <2>3, <2>4, <2>5
  <2>7. d = c
    BY <1>4, <2>5
  <2>8. CASE c \in Signs /\ j = a + 1
    <3>1. d2 = End /\ starts(d, d2)
      BY <1>1, <1>4, <1>5, <2>7, <2>8
    <3>2. w[1] \in Signs
      BY <1>10, <2>3, <2>5, <2>8
    <3>3. id = "BareIdentifier"
      BY <1>11, <2>3, <3>2
    <3>4. a - r + 1 = j - r
      BY <1>1, <2>8
    <3> HIDE DEF starts
    <3> QED
      BY <1>3, <2>7, <2>8, <3>1, <3>3, <3>4
  <2>9. CASE ~(c \in Signs /\ j = a + 1)
    <3>1. c \in Signs => d2 = c2
      BY <1>1, <1>4, <2>5, <2>9
    <3>2. starts(d, d2) /\ ~(d \in Signs /\ d2 = End)
      BY <1>13, <2>1, <2>7, <3>1
    <3> HIDE DEF starts, v, w
    <3> QED
      BY <1>3, <2>1, <2>3, <2>4, <2>6, <3>2
  <2> QED
    BY <2>8, <2>9
<1> QED
  BY <1>12, <1>13

\* readIdentifier, with alternatives that exclude each other.
LEMMA IdentifierArms ==
  ASSUME NEW x, IsScanner(x), NEW i, At(x, i) # End
  PROVE  LET c == At(x, i)
             c2 == At(x, i + 1)
         IN  readIdentifier(x, i) =
                 IF c \in {Invalid, "NUL"} \cup WhiteSpace \cup NewlineChars THEN Error
                 ELSE IF c = "r" /\ x.version # "V2" /\ c2 \in {"#", "QUOTE"} THEN readRawString(x, i)
                 ELSE IF c = "QUOTE"
                 THEN IF x.version = "V2" /\ Tripled(x, "QUOTE", i)
                      THEN readTripled(x, "QuotedString", "QUOTE", i, 0, TRUE)
                      ELSE readQuotedStringQ(x, "QuotedString", "QUOTE", i)
                 ELSE IF c = "BACKTICK"
                 THEN IF Tripled(x, "BACKTICK", i)
                      THEN readTripled(x, "ExpressionString", "BACKTICK", i, 0, TRUE)
                      ELSE readQuotedStringQ(x, "ExpressionString", "BACKTICK", i)
                 ELSE IF c = "APOSTROPHE" /\ x.version # "V2" /\ x.nginx
                 THEN readQuotedStringQ(x, "QuotedString", "APOSTROPHE", i)
                 ELSE IF c2 \notin {End, Invalid} /\ ~Starts(x, c) /\ ~(c = "-" /\ c2 \notin Digits)
                 THEN Error ELSE readBareIdentifier(x, i)
<1> DEFINE c == At(x, i)
           c2 == At(x, i + 1)
           z == readIdentifier(x, i)
           raw == readRawString(x, i)
           tripled == readTripled(x, "QuotedString", "QUOTE", i, 0, TRUE)
           quoted == readQuotedStringQ(x, "QuotedString", "QUOTE", i)
           tripledX == readTripled(x, "ExpressionString", "BACKTICK", i, 0, TRUE)
           quotedX == readQuotedStringQ(x, "ExpressionString", "BACKTICK", i)
           single == readQuotedStringQ(x, "QuotedString", "APOSTROPHE", i)
           bare == readBareIdentifier(x, i)
           t1 == Tripled(x, "QUOTE", i)
           t2 == Tripled(x, "BACKTICK", i)
           ended == c = End
           blank == c \in {Invalid, "NUL"} \cup WhiteSpace \cup NewlineChars
           isRaw == c = "r" /\ x.version # "V2" /\ c2 \in {"#", "QUOTE"}
           isQuoted == c = "QUOTE"
           isTicked == c = "BACKTICK"
           isSingle == c = "APOSTROPHE" /\ x.version # "V2" /\ x.nginx
           v2 == x.version = "V2"
           begins == c2 \notin {End, Invalid} /\ ~Starts(x, c) /\ ~(c = "-" /\ c2 \notin Digits)
<1>1. z = CASE ended -> Ended
            [] blank -> Error
            [] isRaw -> raw
            [] isQuoted -> IF v2 /\ t1 THEN tripled ELSE quoted
            [] isTicked -> IF t2 THEN tripledX ELSE quotedX
            [] isSingle -> single
            [] OTHER -> IF begins THEN Error ELSE bare
  BY DEF readIdentifier
<1>2. /\ ~ended /\ t1 \in BOOLEAN /\ t2 \in BOOLEAN /\ begins \in BOOLEAN
      /\ blank \in BOOLEAN /\ isRaw \in BOOLEAN /\ isSingle \in BOOLEAN /\ v2 \in BOOLEAN
      /\ isQuoted \in BOOLEAN /\ isTicked \in BOOLEAN
  <2>1. x.nginx \in BOOLEAN
    BY DEF IsScanner
  <2> QED
    BY <2>1 DEF Tripled
<1>3. /\ blank => ~isRaw /\ ~isQuoted /\ ~isTicked /\ ~isSingle
      /\ isRaw => ~isQuoted /\ ~isTicked /\ ~isSingle
      /\ isQuoted => ~isTicked /\ ~isSingle
      /\ isTicked => ~isSingle
  BY DEF Invalid, WhiteSpace, NewlineChars
<1>4. z = IF blank THEN Error
          ELSE IF isRaw THEN raw
          ELSE IF isQuoted THEN IF v2 /\ t1 THEN tripled ELSE quoted
          ELSE IF isTicked THEN IF t2 THEN tripledX ELSE quotedX
          ELSE IF isSingle THEN single
          ELSE IF begins THEN Error ELSE bare
  <2> HIDE DEF c, c2, z, raw, tripled, quoted, tripledX, quotedX, single, bare, t1, t2, begins,
           ended, blank, isRaw, isSingle, isQuoted, isTicked, v2
  <2> QED
    BY <1>1, <1>2, <1>3
<1> QED
  BY <1>4

LEMMA TripledBack ==
  ASSUME NEW x, IsScanner(x), NEW y, IsScanner(y), NEW r, NEW j, Cut(x, y, r, j),
         NEW a \in Int, a > r, NEW q \in Quotes, Tripled(y, q, a - r)
  PROVE  Tripled(x, q, a)
<1>1. r \in Int /\ \A k \in Int : k > r => At(y, k - r) = IF k < j THEN At(x, k) ELSE End
  BY DEF Cut
<1>2. ASSUME NEW m \in a .. a + 2 PROVE At(x, m) = q
  <2>1. m - r \in a - r .. a - r + 2 /\ m \in Int /\ m > r
    BY <1>1
  <2>2. At(y, m - r) = q /\ q # End
    BY <2>1 DEF Tripled, Quotes, End
  <2> QED
    BY <1>1, <2>1, <2>2
<1> QED
  BY <1>2 DEF Tripled

\* A reader names its tokens itself.
LEMMA OneName ==
  ASSUME NEW x, NEW i, NEW name, NEW id, NEW j, Reads(x, i, {name}, Token(id, j))
  PROVE  id = name
BY OutcomesDiffer DEF Reads

LEMMA QuotedAs ==
  ASSUME NEW x, IsScanner(x), NEW y, IsScanner(y), NEW r, NEW j, Cut(x, y, r, j),
         NEW a \in r + 1 .. j, NEW q \in Quotes, NEW name, NEW id,
         readQuotedStringQ(x, name, q, a) = Token(id, j)
  PROVE  readQuotedStringQ(y, name, q, a - r) = Token(id, j - r)
<1>1. a \in 1 .. Len(x.text) + 1
  BY CutChars
<1>2. Reads(x, a, {name}, Token(id, j))
  BY <1>1, QuotedReads
<1>3. id = name
  BY <1>2, OneName
<1>4. readQuotedStringQ(x, name, q, a) = Token(name, j)
  BY <1>3
<1> QED
  BY <1>3, <1>4, QuotedAlone

LEMMA TripledAs ==
  ASSUME NEW x, IsScanner(x), NEW y, IsScanner(y), NEW r, NEW j, Cut(x, y, r, j),
         NEW a \in r + 1 .. j, NEW q \in Quotes, Tripled(x, q, a), NEW n \in Nat, NEW name, NEW id,
         NEW escapes \in BOOLEAN, readTripled(x, name, q, a, n, escapes) = Token(id, j)
  PROVE  Tripled(y, q, a - r) /\ readTripled(y, name, q, a - r, n, escapes) = Token(id, j - r)
<1>1. a \in Nat \ {0}
  BY CutChars DEF Cut
<1>2. Reads(x, a, {name}, Token(id, j))
  <2>1. Reads(x, a, {name}, readTripled(x, name, q, a, n, TRUE))
    BY <1>1, TripledReads
  <2>2. Reads(x, a, {name}, readTripled(x, name, q, a, n, FALSE))
    BY <1>1, TripledReads
  <2>3. CASE escapes = TRUE
    BY <2>1, <2>3
  <2>4. CASE escapes = FALSE
    BY <2>2, <2>4
  <2> QED
    BY <2>3, <2>4
<1>3. id = name
  BY <1>2, OneName
<1>4. readTripled(x, name, q, a, n, escapes) = Token(name, j)
  BY <1>3
<1>5. Tripled(y, q, a - r) /\ readTripled(y, name, q, a - r, n, escapes) = Token(name, j - r)
  BY <1>4, TripledAlone
<1> QED
  BY <1>3, <1>5

LEMMA IdentifierAlone ==
  ASSUME NEW x, IsScanner(x), NEW y, IsScanner(y), NEW r, NEW j, Cut(x, y, r, j),
         NEW a \in r + 1 .. j - 1, NEW id, readIdentifier(x, a) = Token(id, j)
  PROVE  readIdentifier(y, a - r) = Token(id, j - r)
<1> DEFINE c == At(x, a)
           c2 == At(x, a + 1)
           d2 == At(y, a - r + 1)
           blank == c \in {Invalid, "NUL"} \cup WhiteSpace \cup NewlineChars
           isRaw(e) == c = "r" /\ x.version # "V2" /\ e \in {"#", "QUOTE"}
           isSingle == c = "APOSTROPHE" /\ x.version # "V2" /\ x.nginx
           begins(e) == e \notin {End, Invalid} /\ ~Starts(x, c) /\ ~(c = "-" /\ e \notin Digits)
           v2 == x.version = "V2"
           arm(z, i, e) ==
               IF blank THEN Error
               ELSE IF isRaw(e) THEN readRawString(z, i)
               ELSE IF c = "QUOTE"
               THEN IF v2 /\ Tripled(z, "QUOTE", i)
                    THEN readTripled(z, "QuotedString", "QUOTE", i, 0, TRUE)
                    ELSE readQuotedStringQ(z, "QuotedString", "QUOTE", i)
               ELSE IF c = "BACKTICK"
               THEN IF Tripled(z, "BACKTICK", i)
                    THEN readTripled(z, "ExpressionString", "BACKTICK", i, 0, TRUE)
                    ELSE readQuotedStringQ(z, "ExpressionString", "BACKTICK", i)
               ELSE IF isSingle THEN readQuotedStringQ(z, "QuotedString", "APOSTROPHE", i)
               ELSE IF begins(e) THEN Error ELSE readBareIdentifier(z, i)
<1>1. /\ a \in Int /\ r \in Int /\ j \in Int /\ a > r /\ a < j /\ a \in r + 1 .. j /\ a \in 1 .. Len(x.text)
      /\ 0 \in Nat
  BY CutChars
<1>2. At(y, a - r) = c /\ d2 = (IF a + 1 < j THEN c2 ELSE End) /\ c # End
  <2>1. c # End
    BY <1>1, Texts
  <2> QED
    BY <1>1, <2>1, CutAhead
<1>3. readIdentifier(x, a) = arm(x, a, c2)
  <2>1. c # End
    BY <1>2
  <2> QED
    BY <2>1, IdentifierArms
<1>4. readIdentifier(y, a - r) = arm(y, a - r, d2)
  <2>1. y.version = x.version /\ y.nginx = x.nginx /\ y.yaml = x.yaml
    BY DEF Cut
  <2>2. \A e : Starts(y, e) <=> Starts(x, e)
    BY <2>1, SameBare
  <2>3. At(y, a - r) # End
    BY <1>2
  <2> HIDE DEF c
  <2> QED
    BY <1>2, <2>1, <2>2, <2>3, IdentifierArms
<1>5. "QUOTE" \in Quotes /\ "BACKTICK" \in Quotes /\ "APOSTROPHE" \in Quotes
  BY DEF Quotes
<1>6. Token(id, j) # Error
  BY OutcomesDiffer
<1>7. ~blank
  BY <1>3, <1>6
<1>8. CASE isRaw(c2)
  <2>1. readRawString(x, a) = Token(id, j)
    BY <1>3, <1>7, <1>8
  <2>2. a + 2 < j /\ readRawString(y, a - r) = Token(id, j - r)
    BY <1>1, <2>1, RawStringAlone
  <2>3. d2 = c2
    BY <1>1, <1>2, <2>2
  <2> QED
    BY <1>4, <1>7, <1>8, <2>2, <2>3
<1>9. ~isRaw(c2) => ~isRaw(d2)
  BY <1>2 DEF End
<1>10. CASE ~isRaw(c2) /\ c = "QUOTE" /\ v2 /\ Tripled(x, "QUOTE", a)
  <2>1. readTripled(x, "QuotedString", "QUOTE", a, 0, TRUE) = Token(id, j)
    BY <1>3, <1>7, <1>10
  <2>2. /\ Tripled(y, "QUOTE", a - r)
        /\ readTripled(y, "QuotedString", "QUOTE", a - r, 0, TRUE) = Token(id, j - r)
    <3>1. PICK e \in BOOLEAN : e = TRUE
      OBVIOUS
    <3>2. Tripled(x, "QUOTE", a) /\ readTripled(x, "QuotedString", "QUOTE", a, 0, e) = Token(id, j)
      BY <1>10, <2>1, <3>1
    <3>3. Tripled(y, "QUOTE", a - r) /\ readTripled(y, "QuotedString", "QUOTE", a - r, 0, e) = Token(id, j - r)
      BY <1>1, <1>5, <3>2, TripledAs
    <3> QED
      BY <3>1, <3>3
  <2> QED
    BY <1>4, <1>7, <1>9, <1>10, <2>2
<1>11. CASE ~isRaw(c2) /\ c = "QUOTE" /\ ~(v2 /\ Tripled(x, "QUOTE", a))
  <2>1. readQuotedStringQ(x, "QuotedString", "QUOTE", a) = Token(id, j)
    BY <1>3, <1>7, <1>11
  <2>2. readQuotedStringQ(y, "QuotedString", "QUOTE", a - r) = Token(id, j - r)
    BY <1>1, <1>5, <2>1, QuotedAs
  <2>3. ~(v2 /\ Tripled(y, "QUOTE", a - r))
    BY <1>1, <1>5, <1>11, TripledBack
  <2> QED
    BY <1>4, <1>7, <1>9, <1>11, <2>2, <2>3
<1>12. CASE ~isRaw(c2) /\ c = "BACKTICK" /\ Tripled(x, "BACKTICK", a)
  <2>1. readTripled(x, "ExpressionString", "BACKTICK", a, 0, TRUE) = Token(id, j)
    BY <1>3, <1>7, <1>12
  <2>2. /\ Tripled(y, "BACKTICK", a - r)
        /\ readTripled(y, "ExpressionString", "BACKTICK", a - r, 0, TRUE) = Token(id, j - r)
    <3>1. PICK e \in BOOLEAN : e = TRUE
      OBVIOUS
    <3>2. Tripled(x, "BACKTICK", a) /\ readTripled(x, "ExpressionString", "BACKTICK", a, 0, e) = Token(id, j)
      BY <1>12, <2>1, <3>1
    <3>3. Tripled(y, "BACKTICK", a - r) /\ readTripled(y, "ExpressionString", "BACKTICK", a - r, 0, e) = Token(id, j - r)
      BY <1>1, <1>5, <3>2, TripledAs
    <3> QED
      BY <3>1, <3>3
  <2> QED
    BY <1>4, <1>7, <1>9, <1>12, <2>2
<1>13. CASE ~isRaw(c2) /\ c = "BACKTICK" /\ ~Tripled(x, "BACKTICK", a)
  <2>1. readQuotedStringQ(x, "ExpressionString", "BACKTICK", a) = Token(id, j)
    BY <1>3, <1>7, <1>13
  <2>2. readQuotedStringQ(y, "ExpressionString", "BACKTICK", a - r) = Token(id, j - r)
    BY <1>1, <1>5, <2>1, QuotedAs
  <2>3. ~Tripled(y, "BACKTICK", a - r)
    BY <1>1, <1>5, <1>13, TripledBack
  <2> QED
    BY <1>4, <1>7, <1>9, <1>13, <2>2, <2>3
<1>14. CASE ~isRaw(c2) /\ c \notin {"QUOTE", "BACKTICK"} /\ isSingle
  <2>1. readQuotedStringQ(x, "QuotedString", "APOSTROPHE", a) = Token(id, j)
    BY <1>3, <1>7, <1>14
  <2>2. readQuotedStringQ(y, "QuotedString", "APOSTROPHE", a - r) = Token(id, j - r)
    BY <1>1, <1>5, <2>1, QuotedAs
  <2> QED
    BY <1>4, <1>7, <1>9, <1>14, <2>2
<1>15. CASE ~isRaw(c2) /\ c \notin {"QUOTE", "BACKTICK"} /\ ~isSingle
  <2>1. ~begins(c2) /\ readBareIdentifier(x, a) = Token(id, j)
    BY <1>3, <1>6, <1>7, <1>15
  <2>2. readBareIdentifier(y, a - r) = Token(id, j - r)
    BY <1>1, <2>1, BareAlone
  <2>3. ~begins(d2)
    BY <1>2, <2>1
  <2> HIDE DEF blank, isRaw, isSingle, begins
  <2> QED
    BY <1>4, <1>7, <1>9, <1>15, <2>2, <2>3
<1> QED
  BY <1>8, <1>10, <1>11, <1>12, <1>13, <1>14, <1>15

LEMMA KeywordAlone ==
  ASSUME NEW x, IsScanner(x), NEW y, IsScanner(y), NEW r, NEW j, Cut(x, y, r, j),
         NEW k \in Int, k > r, NEW w \in Keywords, NEW name, NEW id, keyword(x, name, w, k) = Token(id, j)
  PROVE  j = k + 1 /\ keyword(y, name, w, k - r) = Token(id, j - r)
<1>1. w # Initial[w] /\ w # End
  BY DEF Initial, Keywords, End
<1>2. Token(id, j) # Error /\ Token(id, j) # Ended
  BY OutcomesDiffer
<1>3. At(x, k) = w /\ Token(id, j) = Token(name, k + 1)
  BY <1>2 DEF keyword
<1>4. id = name /\ j = k + 1
  BY <1>3, OutcomesDiffer
<1>5. r \in Int /\ At(y, k - r) = IF k < j THEN At(x, k) ELSE End
  BY DEF Cut
<1>6. At(y, k - r) = w
  BY <1>3, <1>4, <1>5
<1>7. keyword(y, name, w, k - r) = Token(name, k - r + 1)
  BY <1>1, <1>6 DEF keyword
<1>8. k - r + 1 = j - r
  BY <1>4, <1>5
<1> QED
  BY <1>4, <1>7, <1>8

\* readHashToken by the character behind the hash.
LEMMA HashArms ==
  ASSUME NEW x, NEW i
  PROVE  LET c == At(x, i + 1)
             b == Run(x, {"#"}, i + 1)
             z == readHashToken(x, i)
         IN  /\ c \in {"QUOTE", "#"} =>
                    z = IF At(x, b) # "QUOTE" THEN Error
                        ELSE IF Tripled(x, "QUOTE", b)
                        THEN readTripled(x, "QuotedString", "QUOTE", b, b - i, FALSE)
                        ELSE rawContent(x, "RawString", b + 1, b - i)
             /\ c \in {"t", "true"} => z = keyword(x, "Boolean", "true", i + 1)
             /\ c \in {"f", "false"} => z = keyword(x, "Boolean", "false", i + 1)
             /\ c = "n" => z = LookError(At(x, i + 2))
             /\ c = "null" => z = Token("Null", i + 2)
             /\ c = "nan" => z = Token("Keyword", i + 2)
             /\ c \in {"i", "inf"} => z = keyword(x, "Keyword", "inf", i + 1)
             /\ c = "-" => z = IF At(x, i + 2) = End THEN Ended
                               ELSE keyword(x, "Keyword", "inf", i + 2)
             /\ c \notin {"QUOTE", "#", "t", "true", "f", "false", "n", "null", "nan", "i", "inf", "-"} =>
                    z = Error
BY DEF readHashToken

LEMMA HashAlone ==
  ASSUME NEW x, IsScanner(x), NEW y, IsScanner(y), NEW r, NEW j, Cut(x, y, r, j),
         NEW a \in r + 1 .. j - 1, NEW id, readHashToken(x, a) = Token(id, j)
  PROVE  readHashToken(y, a - r) = Token(id, j - r)
<1> DEFINE c == At(x, a + 1)
           d == At(y, a - r + 1)
           H == {"#"}
           b == Run(x, H, a + 1)
           e == Run(y, H, a - r + 1)
           z == readHashToken(x, a)
           u == readHashToken(y, a - r)
<1>1. /\ a \in Int /\ r \in Int /\ j \in Int /\ a > r /\ a < j /\ a \in r + 1 .. j /\ a \in 1 .. Len(x.text)
      /\ r \in Nat /\ Len(x.text) \in Nat /\ j <= Len(x.text) + 1
      /\ (a + 1) - r = a - r + 1 /\ (a + 2) - r = a - r + 2
      /\ a + 1 \in Int /\ a + 1 > r /\ a + 2 \in Int /\ a + 2 > r
  BY CutChars DEF Cut
<1>2. /\ d = IF a + 1 < j THEN c ELSE End
      /\ At(y, a - r + 2) = IF a + 2 < j THEN At(x, a + 2) ELSE End
  BY <1>1, CutAhead
<1>3. z = Token(id, j) /\ Token(id, j) # Error /\ Token(id, j) # Ended
  BY OutcomesDiffer
<1>4. CASE c \in {"QUOTE", "#"}
  <2>1. /\ At(x, b) = "QUOTE"
        /\ IF Tripled(x, "QUOTE", b)
           THEN readTripled(x, "QuotedString", "QUOTE", b, b - a, FALSE) = Token(id, j)
           ELSE rawContent(x, "RawString", b + 1, b - a) = Token(id, j)
    <3>1. z = IF At(x, b) # "QUOTE" THEN Error
              ELSE IF Tripled(x, "QUOTE", b)
              THEN readTripled(x, "QuotedString", "QUOTE", b, b - a, FALSE)
              ELSE rawContent(x, "RawString", b + 1, b - a)
      BY <1>4, HashArms
    <3> HIDE DEF z, b
    <3> QED
      BY <1>3, <3>1
  <2>2. Stops(x, H, a + 1, b)
    <3>1. End \notin H /\ a + 1 \in 1 .. Len(x.text) + 1
      BY <1>1 DEF End
    <3> HIDE DEF H
    <3> QED
      BY <3>1, RunStops
  <2> HIDE DEF b, H
  <2>3. b \in a + 1 .. Len(x.text) + 1 /\ b \in Int /\ b - a \in Nat /\ b \in Nat \ {0}
    BY <1>1, <2>2 DEF Stops
  <2>4. b \in 1 .. Len(x.text) /\ b + 1 \in 1 .. Len(x.text) + 1
    BY <2>1, <2>3, Within DEF End
  <2>5. "QUOTE" \in Quotes
    BY DEF Quotes
  <2>6. b < j /\ (~Tripled(x, "QUOTE", b) => id = "RawString" /\ b + 1 < j)
    <3>1. CASE Tripled(x, "QUOTE", b)
      <4>1. Reads(x, b, {"QuotedString"}, readTripled(x, "QuotedString", "QUOTE", b, b - a, FALSE))
        BY <2>3, <2>5, <3>1, TripledReads
      <4>2. Reads(x, b, {"QuotedString"}, Token(id, j))
        BY <2>1, <3>1, <4>1
      <4>3. PICK l \in b + 1 .. Len(x.text) + 1 : Token(id, j) = Token("QuotedString", l)
        BY <4>2, OutcomesDiffer DEF Reads
      <4>4. j = l
        BY <4>3, OutcomesDiffer
      <4> QED
        BY <1>1, <2>3, <3>1, <4>3, <4>4
    <3>2. CASE ~Tripled(x, "QUOTE", b)
      <4>1. Reads(x, b + 1, {"RawString"}, Token(id, j))
        BY <2>1, <2>3, <2>4, <3>2, RawIsRead
      <4>2. PICK l \in b + 1 + 1 .. Len(x.text) + 1 : Token(id, j) = Token("RawString", l)
        BY <4>1, OutcomesDiffer DEF Reads
      <4>3. j = l /\ id = "RawString"
        BY <4>2, OutcomesDiffer
      <4> QED
        BY <1>1, <2>3, <4>2, <4>3
    <3> QED
      BY <3>1, <3>2
  <2>7. a + 1 \in r + 1 .. j /\ b \in a + 1 .. j /\ b \in r + 1 .. j /\ b \in r + 1 .. j - 1 /\ b > r
        /\ (b - r) - (a - r) = b - a
    BY <1>1, <2>3, <2>6
  <2>8. e = b - r
    <3>1. (\A k \in a + 1 .. b - 1 : At(x, k) \in H) /\ At(x, b) \notin H
      BY <2>2 DEF Stops
    <3>2. End \notin H
      BY DEF H, End
    <3>3. Run(y, H, (a + 1) - r) = b - r
      BY <2>7, <3>1, <3>2, CutRun
    <3> QED
      BY <1>1, <3>3
  <2>9. At(y, b - r) = "QUOTE" /\ d = c
    <3>1. At(y, b - r) = At(x, b)
      BY <2>7, CutChars
    <3> QED
      BY <1>1, <1>2, <2>1, <2>6, <2>7, <3>1
  <2>10. u = IF At(y, e) # "QUOTE" THEN Error
             ELSE IF Tripled(y, "QUOTE", e)
             THEN readTripled(y, "QuotedString", "QUOTE", e, e - (a - r), FALSE)
             ELSE rawContent(y, "RawString", e + 1, e - (a - r))
    BY <1>4, <2>9, HashArms DEF H
  <2> HIDE DEF u, e
  <2>11. CASE Tripled(x, "QUOTE", b)
    <3>1. PICK f \in BOOLEAN : f = FALSE
      OBVIOUS
    <3>2. readTripled(x, "QuotedString", "QUOTE", b, b - a, f) = Token(id, j)
      BY <2>1, <2>11, <3>1
    <3>3. Tripled(y, "QUOTE", b - r) /\ readTripled(y, "QuotedString", "QUOTE", b - r, b - a, f) = Token(id, j - r)
      BY <2>3, <2>5, <2>7, <2>11, <3>2, TripledAs
    <3> QED
      BY <2>7, <2>8, <2>9, <2>10, <3>1, <3>3 DEF u
  <2>12. CASE ~Tripled(x, "QUOTE", b)
    <3>1. ~Tripled(y, "QUOTE", b - r)
      BY <2>3, <2>5, <2>7, <2>12, TripledBack
    <3>2. b + 1 \in r + 1 .. j /\ (b + 1) - r = b - r + 1
      BY <1>1, <2>3, <2>6, <2>7, <2>12
    <3>3. rawContent(y, "RawString", (b + 1) - r, b - a) = Token(id, j - r)
      BY <2>1, <2>3, <2>6, <2>12, <3>2, RawAlone
    <3> QED
      BY <2>7, <2>8, <2>9, <2>10, <3>1, <3>2, <3>3 DEF u
  <2> QED
    BY <2>11, <2>12
<1>5. ASSUME NEW k \in {a + 1, a + 2}, NEW w \in Keywords, NEW name, keyword(x, name, w, k) = Token(id, j)
      PROVE  j = k + 1 /\ keyword(y, name, w, k - r) = Token(id, j - r)
  BY <1>1, <1>5, KeywordAlone
<1>6. "true" \in Keywords /\ "false" \in Keywords /\ "inf" \in Keywords
  BY DEF Keywords
<1>7. CASE c \in {"t", "true"}
  <2>1. keyword(x, "Boolean", "true", a + 1) = Token(id, j)
    BY <1>7, HashArms
  <2>2. j = a + 1 + 1 /\ keyword(y, "Boolean", "true", a - r + 1) = Token(id, j - r)
    BY <1>1, <1>5, <1>6, <2>1
  <2>3. d = c
    BY <1>1, <1>2, <2>2
  <2> QED
    BY <1>7, <2>2, <2>3, HashArms
<1>8. CASE c \in {"f", "false"}
  <2>1. keyword(x, "Boolean", "false", a + 1) = Token(id, j)
    BY <1>8, HashArms
  <2>2. j = a + 1 + 1 /\ keyword(y, "Boolean", "false", a - r + 1) = Token(id, j - r)
    BY <1>1, <1>5, <1>6, <2>1
  <2>3. d = c
    BY <1>1, <1>2, <2>2
  <2> QED
    BY <1>8, <2>2, <2>3, HashArms
<1>9. CASE c \in {"i", "inf"}
  <2>1. keyword(x, "Keyword", "inf", a + 1) = Token(id, j)
    BY <1>9, HashArms
  <2>2. j = a + 1 + 1 /\ keyword(y, "Keyword", "inf", a - r + 1) = Token(id, j - r)
    BY <1>1, <1>5, <1>6, <2>1
  <2>3. d = c
    BY <1>1, <1>2, <2>2
  <2> QED
    BY <1>9, <2>2, <2>3, HashArms
<1>10. CASE c = "-"
  <2>1. keyword(x, "Keyword", "inf", a + 2) = Token(id, j)
    <3>1. z = IF At(x, a + 2) = End THEN Ended ELSE keyword(x, "Keyword", "inf", a + 2)
      BY <1>10, HashArms
    <3> HIDE DEF z
    <3> QED
      BY <1>3, <3>1
  <2>2. j = a + 2 + 1 /\ keyword(y, "Keyword", "inf", a - r + 2) = Token(id, j - r)
    BY <1>1, <1>5, <1>6, <2>1
  <2>3. d = c /\ At(y, a - r + 2) = At(x, a + 2)
    BY <1>1, <1>2, <2>2
  <2>4. At(x, a + 2) # End
    <3>1. a + 2 \in 1 .. Len(x.text)
      BY <1>1, <2>2
    <3> QED
      BY <3>1, Texts
  <2> QED
    BY <1>10, <2>2, <2>3, <2>4, HashArms
<1>11. CASE c \in {"null", "nan"}
  <2> DEFINE name == IF c = "null" THEN "Null" ELSE "Keyword"
  <2>1. z = Token(name, a + 2)
    BY <1>11, HashArms
  <2>2. id = name /\ j = a + 2
    <3>1. Token(id, j) = Token(name, a + 2)
      BY <1>3, <2>1
    <3> HIDE DEF name
    <3> QED
      BY <3>1, OutcomesDiffer
  <2>3. d = c /\ a - r + 2 = j - r
    BY <1>1, <1>2, <2>2
  <2>4. u = Token(name, a - r + 2)
    BY <1>11, <2>3, HashArms
  <2> QED
    BY <2>2, <2>3, <2>4
<1>12. CASE c = "n"
  <2>1. z = LookError(At(x, a + 2))
    BY <1>12, HashArms
  <2> QED
    BY <1>3, <2>1 DEF LookError
<1>13. CASE c \notin {"QUOTE", "#", "t", "true", "f", "false", "n", "null", "nan", "i", "inf", "-"}
  BY <1>3, <1>13, HashArms
<1> QED
  BY <1>4, <1>7, <1>8, <1>9, <1>10, <1>11, <1>12, <1>13

LEMMA IntegerAlone ==
  ASSUME NEW x, IsScanner(x), NEW y, IsScanner(y), NEW r, NEW j, Cut(x, y, r, j),
         NEW a \in r + 1 .. j, NEW b, b <= j, NEW id, readInteger(x, a) = Token(id, b)
  PROVE  b \in a + 1 .. j /\ readInteger(y, a - r) = Token(id, b - r)
<1> DEFINE c == At(x, a)
           D == Digits \cup {"_"}
           allowed == D \cup (IF c \in Signs THEN {} ELSE SuffixLetters)
           f == IF c \in Signs THEN a + 1 ELSE a
           l == Run(x, allowed, f)
           g == IF c \in Signs THEN a - r + 1 ELSE a - r
           m == Run(y, allowed, g)
           z == readInteger(x, a)
           u == readInteger(y, a - r)
           name(w, i, k) == IF \E n \in i .. k - 1 : At(w, n) \in SuffixLetters
                            THEN "SuffixedDecimal" ELSE "Decimal"
<1>1. /\ a \in Int /\ r \in Int /\ j \in Int /\ a > r /\ r \in Nat /\ a \in 1 .. Len(x.text) + 1
      /\ Len(x.text) \in Nat /\ j <= Len(x.text) + 1 /\ (a + 1) - r = a - r + 1
  BY CutChars DEF Cut
<1>2. y.suffixes = x.suffixes /\ x.suffixes \in BOOLEAN
  BY DEF Cut, IsScanner
<1>3. z = Token(id, b) /\ z # Error
  BY OutcomesDiffer
<1>4. b \in a + 1 .. Len(x.text) + 1
  <2>1. IsNumber(x, a, z)
    BY <1>1, <1>3, IntegerReads
  <2>2. PICK id2 \in NumberIds, k \in a + 1 .. Len(x.text) + 1 : z = Token(id2, k)
    BY <2>1 DEF IsNumber
  <2>3. b = k
    <3>1. Token(id, b) = Token(id2, k)
      BY <2>2
    <3> QED
      BY <3>1, OutcomesDiffer
  <2> QED
    BY <2>2, <2>3
<1>5. b \in a + 1 .. j /\ a < j /\ b \in Int /\ b > r
  BY <1>1, <1>4
<1>6. At(y, a - r) = c
  BY <1>1, <1>5, CutAhead
<1>7. CASE ~x.suffixes
  <2>1. z = IF c \notin Digits THEN Error ELSE readWhile(x, "Decimal", D, a, 1)
    BY <1>7 DEF readInteger
  <2>2. c \in Digits /\ readWhile(x, "Decimal", D, a, 1) = Token(id, b)
    BY <1>3, <2>1
  <2>3. End \notin D
    BY DEF End, Digits
  <2> HIDE DEF D
  <2>4. Reads(x, a, {"Decimal"}, readWhile(x, "Decimal", D, a, 1))
    BY <1>1, <2>3, WhileIsRead
  <2>5. id = "Decimal"
    <3>1. Reads(x, a, {"Decimal"}, Token(id, b))
      BY <2>2, <2>4
    <3> QED
      BY <3>1, OneName
  <2>6. readWhile(x, "Decimal", D, a, 1) = Token("Decimal", b)
    BY <2>2, <2>5
  <2>7. readWhile(y, "Decimal", D, a - r, 1) = Token("Decimal", b - r)
    BY <2>3, <2>6, WhileAlone
  <2>8. u = IF At(y, a - r) \notin Digits THEN Error ELSE readWhile(y, "Decimal", D, a - r, 1)
    BY <1>2, <1>7 DEF readInteger, D
  <2> QED
    BY <1>5, <1>6, <2>2, <2>5, <2>7, <2>8
<1>8. CASE x.suffixes
  <2>1. z = IF l = a \/ At(x, l) = Invalid THEN Error ELSE Token(name(x, a, l), l)
    BY <1>8 DEF readInteger
  <2>2. u = IF m = a - r \/ At(y, m) = Invalid THEN Error ELSE Token(name(y, a - r, m), m)
    BY <1>2, <1>6, <1>8 DEF readInteger
  <2>3. f \in r + 1 .. j /\ f \in 1 .. Len(x.text) + 1 /\ f - r = g /\ f \in Int /\ f <= a + 1
    BY <1>1, <1>5
  <2>4. End \notin allowed
    BY DEF End, Digits, SuffixLetters
  <2> HIDE DEF allowed, f, g, name
  <2>5. Stops(x, allowed, f, l)
    BY <2>3, <2>4, RunStops
  <2> HIDE DEF l, m, z, u
  <2>6. l = b /\ id = name(x, a, b) /\ At(x, b) # Invalid
    <3>1. Token(id, b) = Token(name(x, a, l), l) /\ At(x, l) # Invalid
      BY <1>3, <2>1
    <3> QED
      BY <3>1, OutcomesDiffer
  <2>7. m = b - r
    <3>1. b \in f .. j /\ (\A k \in f .. b - 1 : At(x, k) \in allowed) /\ At(x, b) \notin allowed
      BY <1>5, <2>3, <2>5, <2>6 DEF Stops
    <3>2. Run(y, allowed, f - r) = b - r
      BY <2>3, <2>4, <3>1, CutRun
    <3> QED
      BY <2>3, <3>2 DEF m
  <2>8. At(y, m) # Invalid /\ m # a - r
    <3>1. At(y, b - r) \in {At(x, b), End}
      BY <1>5 DEF Cut
    <3>2. b - r # a - r
      BY <1>1, <1>5
    <3> QED
      BY <2>6, <2>7, <3>1, <3>2 DEF End, Invalid
  <2>9. name(y, a - r, b - r) = name(x, a, b)
    <3>1. ASSUME NEW n \in a .. b - 1, At(x, n) \in SuffixLetters
          PROVE  \E k \in a - r .. b - r - 1 : At(y, k) \in SuffixLetters
      <4>1. n - r \in a - r .. b - r - 1 /\ n \in r + 1 .. j - 1
        BY <1>1, <1>5
      <4>2. At(y, n - r) = At(x, n)
        BY <4>1, CutChars
      <4> QED
        BY <3>1, <4>1, <4>2
    <3>2. ASSUME NEW k \in a - r .. b - r - 1, At(y, k) \in SuffixLetters
          PROVE  \E n \in a .. b - 1 : At(x, n) \in SuffixLetters
      <4>1. k + r \in a .. b - 1 /\ k + r \in r + 1 .. j - 1 /\ (k + r) - r = k
        BY <1>1, <1>5
      <4>2. At(y, (k + r) - r) = At(x, k + r)
        BY <4>1, CutChars
      <4> QED
        BY <3>2, <4>1, <4>2
    <3>3. (\E n \in a .. b - 1 : At(x, n) \in SuffixLetters) <=>
              \E k \in a - r .. b - r - 1 : At(y, k) \in SuffixLetters
      BY <3>1, <3>2
    <3> QED
      BY <3>3 DEF name
  <2> QED
    BY <1>5, <2>2, <2>6, <2>7, <2>8, <2>9 DEF u
<1> QED
  BY <1>2, <1>7, <1>8

LEMMA SignedAlone ==
  ASSUME NEW x, IsScanner(x), NEW y, IsScanner(y), NEW r, NEW j, Cut(x, y, r, j),
         NEW a \in r + 1 .. j, NEW b, b <= j, NEW id, readSignedInteger(x, a) = Token(id, b)
  PROVE  /\ b \in a + 1 .. j /\ readSignedInteger(y, a - r) = Token(id, b - r)
         /\ At(x, a) \in Signs => b \in a + 2 .. j
<1> DEFINE c == At(x, a)
<1>1. a \in Int /\ r \in Int /\ j \in Int /\ a > r /\ (a + 1) - r = a - r + 1
  BY CutChars DEF Cut
<1>2. Token(id, b) # Error /\ Token(id, b) # Ended
  BY OutcomesDiffer
<1>3. c \notin {End, Invalid} /\ Signs \cap {End, Invalid} = {}
  <2>1. c \in {End, Invalid} => readSignedInteger(x, a) = LookError(c)
    BY DEF readSignedInteger, Signs, End, Invalid
  <2> QED
    BY <1>2, <2>1 DEF LookError, Signs, End, Invalid
<1>4. a < j => At(y, a - r) = c
  BY <1>1, CutAhead
<1>5. CASE c \in Signs
  <2>1. readInteger(x, a + 1) = Token(id, b)
    BY <1>3, <1>5 DEF readSignedInteger
  <2>2. a + 1 \in r + 1 .. j
    <3>1. a \in 1 .. Len(x.text) + 1
      BY CutChars
    <3>2. a \in 1 .. Len(x.text) /\ a + 1 \in 1 .. Len(x.text) + 1
      BY <1>1, <1>3, Within
    <3>3. IsNumber(x, a + 1, readInteger(x, a + 1))
      BY <1>2, <2>1, <3>2, IntegerReads
    <3>4. PICK id2 \in NumberIds, k \in a + 1 + 1 .. Len(x.text) + 1 : Token(id, b) = Token(id2, k)
      BY <2>1, <3>3 DEF IsNumber
    <3>5. b = k
      BY <3>4, OutcomesDiffer
    <3> QED
      BY <1>1, <3>4, <3>5
  <2>3. b \in a + 1 + 1 .. j /\ readInteger(y, (a + 1) - r) = Token(id, b - r)
    BY <2>1, <2>2, IntegerAlone
  <2>4. b \in a + 1 .. j /\ b \in a + 2 .. j /\ At(y, a - r) = c
    BY <1>1, <1>4, <2>2, <2>3
  <2>5. readSignedInteger(y, a - r) = readInteger(y, a - r + 1)
    BY <1>3, <1>5, <2>4 DEF readSignedInteger
  <2> QED
    BY <1>1, <2>3, <2>4, <2>5
<1>6. CASE c \notin Signs
  <2>1. readInteger(x, a) = Token(id, b)
    BY <1>3, <1>6 DEF readSignedInteger
  <2>2. b \in a + 1 .. j /\ readInteger(y, a - r) = Token(id, b - r)
    BY <2>1, IntegerAlone
  <2>3. At(y, a - r) = c
    BY <1>1, <1>4, <2>2
  <2>4. readSignedInteger(y, a - r) = readInteger(y, a - r)
    BY <1>3, <1>6, <2>3 DEF readSignedInteger
  <2> QED
    BY <1>6, <2>2, <2>4
<1> QED
  BY <1>5, <1>6

\* afterNumber, with alternatives that exclude each other.
LEMMA AfterArms ==
  ASSUME NEW x \in Scanners, NEW e, NEW name
  PROVE  LET v1 == [x EXCEPT !.version = "V1"]
         IN  /\ afterNumber(x, Token(name, e)) =
                    IF At(x, e) \in Separators \cup {End, Invalid} THEN Token(name, e)
                    ELSE IF x.nginx /\ At(x, e) \notin NotBare(v1)
                    THEN readWhile(x, "BareIdentifier",
                                   {At(x, k) : k \in e .. Len(x.text)} \ NotBare(v1), e, 1)
                    ELSE Error
             /\ v1.version = "V1" /\ v1.nginx = x.nginx /\ v1.yaml = x.yaml
<1> DEFINE v1 == [x EXCEPT !.version = "V1"]
           o == readWhile(x, "BareIdentifier", {At(x, k) : k \in e .. Len(x.text)} \ NotBare(v1), e, 1)
           r == afterNumber(x, Token(name, e))
           c == At(x, e)
           N == NotBare(v1)
           S == Separators \cup {End, Invalid}
<1>1. v1.version = "V1" /\ v1.nginx = x.nginx /\ v1.yaml = x.yaml /\ x.nginx \in BOOLEAN
  BY DEF Scanners
<1>2. S \subseteq N
  BY <1>1 DEF NotBare, Separators
<1>3. r = CASE c \in S -> Token(name, e)
            [] x.nginx /\ c \notin N -> o
            [] OTHER -> Error
  <2>1. Token(name, e).to = e
    BY OutcomesDiffer
  <2>2. r = LET d == At(x, Token(name, e).to)
            IN  CASE d \in Separators \cup {End, Invalid} -> Token(name, e)
                  [] x.nginx /\ d \notin NotBare(v1) ->
                         readWhile(x, "BareIdentifier",
                                   {At(x, k) : k \in Token(name, e).to .. Len(x.text)} \ NotBare(v1),
                                   Token(name, e).to, 1)
                  [] OTHER -> Error
    BY DEF afterNumber
  <2> QED
    BY <2>1, <2>2
<1> HIDE DEF o, r, S, N
<1>4. r = IF c \in S THEN Token(name, e) ELSE IF x.nginx /\ c \notin N THEN o ELSE Error
  <2> HIDE DEF c, v1
  <2> QED
    BY <1>1, <1>2, <1>3
<1> QED
  BY <1>1, <1>4 DEF r, o, S, N

LEMMA AfterGoesOn ==
  ASSUME NEW x \in Scanners, NEW e \in 1 .. Len(x.text) + 1, NEW name, NEW id, NEW j,
         afterNumber(x, Token(name, e)) = Token(id, j)
  PROVE  j \in e .. Len(x.text) + 1
<1> DEFINE N == NotBare([x EXCEPT !.version = "V1"])
           S == {At(x, k) : k \in e .. Len(x.text)} \ N
           o == readWhile(x, "BareIdentifier", S, e, 1)
<1>1. IsScanner(x) /\ Len(x.text) \in Nat
  BY ScannersScan, Texts
<1>2. Token(id, j) # Error
  BY OutcomesDiffer
<1>3. Token(id, j) = Token(name, e) \/ Token(id, j) = o
  BY <1>2, AfterArms
<1>4. End \notin S
  BY EndsBare
<1>5. o = Error \/ \E l \in e + 1 .. Len(x.text) + 1 : o = Token("BareIdentifier", l)
  <2> HIDE DEF S
  <2> QED
    BY <1>1, <1>4, WhileReads
<1> HIDE DEF o
<1>6. j = e \/ j \in e + 1 .. Len(x.text) + 1
  BY <1>2, <1>3, <1>5, OutcomesDiffer
<1> QED
  BY <1>1, <1>6

LEMMA AfterAlone ==
  ASSUME NEW x \in Scanners, NEW y \in Scanners, NEW r, NEW j, Cut(x, y, r, j),
         NEW e \in r + 1 .. j, NEW name, NEW id, afterNumber(x, Token(name, e)) = Token(id, j)
  PROVE  afterNumber(y, Token(name, e - r)) = Token(id, j - r)
<1> DEFINE N == NotBare([x EXCEPT !.version = "V1"])
           M == NotBare([y EXCEPT !.version = "V1"])
           S == {At(x, k) : k \in e .. Len(x.text)} \ N
           T == {At(y, k) : k \in e - r .. Len(y.text)} \ M
           o == readWhile(x, "BareIdentifier", S, e, 1)
           p == readWhile(y, "BareIdentifier", T, e - r, 1)
           ends == Separators \cup {End, Invalid}
<1>1. IsScanner(x) /\ IsScanner(y)
  BY ScannersScan
<1>2. e \in Int /\ r \in Int /\ j \in Int /\ e > r /\ e \in 1 .. Len(x.text) + 1 /\ Len(x.text) \in Nat
  BY <1>1, CutChars
<1>3. Token(id, j) # Error
  BY OutcomesDiffer
<1>4. /\ Token(id, j) = IF At(x, e) \in ends THEN Token(name, e)
                        ELSE IF x.nginx /\ At(x, e) \notin N THEN o ELSE Error
      /\ afterNumber(y, Token(name, e - r)) =
             IF At(y, e - r) \in ends THEN Token(name, e - r)
             ELSE IF y.nginx /\ At(y, e - r) \notin M THEN p ELSE Error
  <2>1. afterNumber(x, Token(name, e)) = IF At(x, e) \in ends THEN Token(name, e)
                                         ELSE IF x.nginx /\ At(x, e) \notin N THEN o ELSE Error
    BY AfterArms
  <2>2. afterNumber(y, Token(name, e - r)) =
            IF At(y, e - r) \in ends THEN Token(name, e - r)
            ELSE IF y.nginx /\ At(y, e - r) \notin M THEN p ELSE Error
    BY AfterArms
  <2> HIDE DEF o, p, ends, N, M
  <2> QED
    BY <2>1, <2>2
<1>5. M = N /\ y.nginx = x.nginx
  <2>1. y.nginx = x.nginx /\ y.yaml = x.yaml
    BY DEF Cut
  <2> DEFINE v == [x EXCEPT !.version = "V1"]
             w == [y EXCEPT !.version = "V1"]
  <2>2. v.version = w.version /\ v.nginx = w.nginx /\ v.yaml = w.yaml
    BY <2>1, AfterArms
  <2> HIDE DEF v, w
  <2>3. NotBare(v) = NotBare(w)
    BY <2>2, SameBare
  <2> QED
    BY <2>1, <2>3 DEF v, w
<1>6. At(y, e - r) = IF e < j THEN At(x, e) ELSE End
  BY <1>1, CutAhead
<1>7. End \in N /\ End \notin S
  BY EndsBare
<1> HIDE DEF N, M
<1>8. CASE At(x, e) \in ends
  <2>1. Token(id, j) = Token(name, e)
    BY <1>4, <1>8
  <2>2. id = name /\ j = e
    BY <2>1, OutcomesDiffer
  <2>3. At(y, e - r) = End
    BY <1>2, <1>6, <2>2
  <2> QED
    BY <1>4, <2>2, <2>3
<1>9. CASE At(x, e) \notin ends
  <2>1. x.nginx /\ At(x, e) \notin N /\ Token(id, j) = o
    BY <1>3, <1>4, <1>9
  <2>2. PICK l \in e + 1 .. Len(x.text) + 1 : o = Token("BareIdentifier", l)
    <3>1. o = Error \/ \E l \in e + 1 .. Len(x.text) + 1 : o = Token("BareIdentifier", l)
      <4> HIDE DEF S
      <4> QED
        BY <1>1, <1>2, <1>7, WhileReads
    <3> QED
      BY <1>3, <2>1, <3>1
  <2>3. id = "BareIdentifier" /\ j = l
    <3>1. Token(id, j) = Token("BareIdentifier", l)
      BY <2>1, <2>2
    <3> QED
      BY <3>1, OutcomesDiffer
  <2>4. e < j /\ At(y, e - r) = At(x, e)
    BY <1>2, <1>6, <2>2, <2>3
  <2>5. p = Token("BareIdentifier", j - r)
    <3>1. readWhile(x, "BareIdentifier", {At(x, k) : k \in e .. Len(x.text)} \ N, e, 1) = Token("BareIdentifier", j)
      BY <2>1, <2>3
    <3>2. readWhile(y, "BareIdentifier", {At(y, k) : k \in e - r .. Len(y.text)} \ N, e - r, 1) =
              Token("BareIdentifier", j - r)
      BY <1>1, <1>7, <3>1, WordAlone
    <3> QED
      BY <1>5, <3>2
  <2> HIDE DEF p
  <2> QED
    BY <1>4, <1>5, <1>9, <2>1, <2>3, <2>4, <2>5
<1> QED
  BY <1>8, <1>9

\* Behind a point, or an e, a number goes on within the part or not at all.
LEMMA DecimalAlone ==
  ASSUME NEW x \in Scanners, NEW y \in Scanners, NEW r, NEW j, Cut(x, y, r, j),
         NEW a \in r + 1 .. j, NEW id, readDecimal(x, a) = Token(id, j)
  PROVE  /\ readDecimal(y, a - r) = Token(id, j - r)
         /\ At(x, a) \in Signs => a + 1 < j
<1> DEFINE int == readSignedInteger(x, a)
           mantissa == IF At(x, int.to) = "." THEN readInteger(x, int.to + 1) ELSE int
           exponent == IF At(x, mantissa.to) = "e" THEN readSignedInteger(x, mantissa.to + 1)
                       ELSE mantissa
           o == [exponent EXCEPT !.id = mantissa.id]
           int2 == readSignedInteger(y, a - r)
           mantissa2 == IF At(y, int2.to) = "." THEN readInteger(y, int2.to + 1) ELSE int2
           exponent2 == IF At(y, mantissa2.to) = "e" THEN readSignedInteger(y, mantissa2.to + 1)
                        ELSE mantissa2
           o2 == [exponent2 EXCEPT !.id = mantissa2.id]
<1>1. /\ IsScanner(x) /\ IsScanner(y) /\ a \in Int /\ r \in Int /\ j \in Int /\ a > r
      /\ a \in 1 .. Len(x.text) + 1 /\ Len(x.text) \in Nat
  BY ScannersScan, CutChars
<1>2. ~Failed(Token(id, j)) /\ Token(id, j) # Error
  BY OutcomesDiffer
<1>3. ~Failed(int) /\ ~Failed(mantissa) /\ ~Failed(exponent) /\ afterNumber(x, o) = Token(id, j)
  <2> DEFINE f1 == Failed(int)
             f2 == Failed(mantissa)
             f3 == Failed(exponent)
             after == afterNumber(x, o)
  <2>1. Token(id, j) = CASE f1 -> int [] f2 -> mantissa [] f3 -> exponent [] OTHER -> after
    BY DEF readDecimal
  <2>2. f1 \in BOOLEAN /\ f2 \in BOOLEAN /\ f3 \in BOOLEAN
    BY DEF Failed
  <2>3. (Token(id, j) = int => ~f1) /\ (Token(id, j) = mantissa => ~f2) /\ (Token(id, j) = exponent => ~f3)
    <3> HIDE DEF int, mantissa, exponent
    <3> QED
      BY <1>2
  <2> HIDE DEF f1, f2, f3, int, mantissa, exponent, after
  <2>4. ~f1 /\ ~f2 /\ ~f3 /\ after = Token(id, j)
    BY <2>1, <2>2, <2>3
  <2> QED
    BY <2>4 DEF f1, f2, f3, after
<1>4. readDecimal(y, a - r) = CASE Failed(int2) -> int2
                                [] Failed(mantissa2) -> mantissa2
                                [] Failed(exponent2) -> exponent2
                                [] OTHER -> afterNumber(y, o2)
  BY DEF readDecimal
<1>5. PICK i0, b0 : int = Token(i0, b0) /\ b0 \in a + 1 .. Len(x.text) + 1
  <2>1. IsNumber(x, a, int)
    BY <1>1, <1>3, SignedReads, OutcomesDiffer
  <2> QED
    BY <2>1 DEF IsNumber
<1> HIDE DEF int
<1>6. int.to = b0
  BY <1>5, OutcomesDiffer
<1>7. PICK i1, b1 : mantissa = Token(i1, b1) /\ b1 \in b0 .. Len(x.text) + 1 /\ b1 \in Int /\ b0 \in Int
                    /\ (At(x, b0) = "." => b1 \in b0 + 2 .. Len(x.text) + 1)
  <2>1. CASE At(x, b0) = "."
    <3>1. b0 \in 1 .. Len(x.text) /\ b0 + 1 \in 1 .. Len(x.text) + 1 /\ b0 \in Int
      BY <1>1, <1>5, <2>1, Within DEF End
    <3>2. mantissa = readInteger(x, b0 + 1)
      BY <1>6, <2>1
    <3>3. IsNumber(x, b0 + 1, mantissa)
      BY <1>1, <1>3, <3>1, <3>2, IntegerReads, OutcomesDiffer
    <3>4. PICK i1, b1 : mantissa = Token(i1, b1) /\ b1 \in b0 + 1 + 1 .. Len(x.text) + 1
      BY <3>3 DEF IsNumber
    <3>5. b1 \in b0 .. Len(x.text) + 1 /\ b1 \in Int /\ b1 \in b0 + 2 .. Len(x.text) + 1
      BY <3>1, <3>4
    <3> HIDE DEF mantissa
    <3> QED
      BY <3>1, <3>4, <3>5
  <2>2. CASE At(x, b0) # "."
    <3>1. mantissa = int
      BY <1>6, <2>2
    <3>2. b0 \in b0 .. Len(x.text) + 1 /\ b0 \in Int
      BY <1>1, <1>5
    <3> HIDE DEF mantissa
    <3> QED
      BY <1>5, <2>2, <3>1, <3>2
  <2> QED
    BY <2>1, <2>2
<1>8. (At(x, b0) = "." => readInteger(x, b0 + 1) = Token(i1, b1)) /\ (At(x, b0) # "." => Token(i1, b1) = Token(i0, b0))
  BY <1>5, <1>6, <1>7
<1> HIDE DEF mantissa
<1>9. mantissa.to = b1 /\ mantissa.id = i1
  BY <1>7, OutcomesDiffer
<1>10. PICK i2, b2 : exponent = Token(i2, b2) /\ b2 \in b1 .. Len(x.text) + 1 /\ b2 \in Int
                     /\ (At(x, b1) = "e" => b2 \in b1 + 2 .. Len(x.text) + 1)
  <2>1. CASE At(x, b1) = "e"
    <3>1. b1 \in 1 .. Len(x.text) /\ b1 + 1 \in 1 .. Len(x.text) + 1
      BY <1>1, <1>7, <2>1, Within DEF End
    <3>2. exponent = readSignedInteger(x, b1 + 1)
      BY <1>9, <2>1
    <3>3. IsNumber(x, b1 + 1, exponent)
      BY <1>1, <1>3, <3>1, <3>2, SignedReads, OutcomesDiffer
    <3>4. PICK i2, b2 : exponent = Token(i2, b2) /\ b2 \in b1 + 1 + 1 .. Len(x.text) + 1
      BY <3>3 DEF IsNumber
    <3>5. b2 \in b1 .. Len(x.text) + 1 /\ b2 \in Int /\ b2 \in b1 + 2 .. Len(x.text) + 1
      BY <3>1, <3>4
    <3> HIDE DEF exponent
    <3> QED
      BY <3>1, <3>4, <3>5
  <2>2. CASE At(x, b1) # "e"
    <3>1. exponent = mantissa
      BY <1>9, <2>2
    <3>2. b1 \in b1 .. Len(x.text) + 1
      BY <1>1, <1>7
    <3> HIDE DEF exponent
    <3> QED
      BY <1>7, <2>2, <3>1, <3>2
  <2> QED
    BY <2>1, <2>2
<1>11. (At(x, b1) = "e" => readSignedInteger(x, b1 + 1) = Token(i2, b2)) /\ (At(x, b1) # "e" => Token(i2, b2) = Token(i1, b1))
  BY <1>7, <1>9, <1>10
<1> HIDE DEF exponent
<1>12. o = Token(i1, b2)
  BY <1>9, <1>10 DEF Token
<1> HIDE DEF o
<1>13. b2 <= j /\ b0 \in Int /\ b0 \in r + 1 .. j /\ b1 \in r + 1 .. j /\ b2 \in r + 1 .. j
       /\ b0 <= b1 /\ b1 <= b2 /\ a < b0
  <2>1. b2 \in 1 .. Len(x.text) + 1
    BY <1>1, <1>5, <1>7, <1>10
  <2>2. j \in b2 .. Len(x.text) + 1
    BY <1>3, <1>12, <2>1, AfterGoesOn
  <2> QED
    BY <1>1, <1>5, <1>7, <1>10, <2>2
<1>14. /\ int2 = Token(i0, b0 - r)
       /\ At(x, a) \in Signs => a + 1 < j
  <2>1. b0 <= j /\ readSignedInteger(x, a) = Token(i0, b0)
    BY <1>1, <1>5, <1>13 DEF int
  <2>2. int2 = Token(i0, b0 - r) /\ (At(x, a) \in Signs => b0 \in a + 2 .. j)
    BY <1>1, <2>1, SignedAlone
  <2> QED
    BY <1>1, <1>13, <2>2
<1> HIDE DEF int2
<1>15. int2.to = b0 - r /\ ~Failed(int2)
  BY <1>14, OutcomesDiffer
<1>16. ASSUME NEW b \in {b0, b1} PROVE At(y, b - r) = IF b < j THEN At(x, b) ELSE End
  <2>1. b \in Int /\ b > r
    BY <1>1, <1>13, <1>16
  <2>2. \A k \in Int : k > r => At(y, k - r) = IF k < j THEN At(x, k) ELSE End
    BY DEF Cut
  <2> QED
    BY <2>1, <2>2
<1>17. mantissa2 = Token(i1, b1 - r)
  <2>1. CASE At(x, b0) = "."
    <3>1. b0 + 1 \in r + 1 .. j /\ b0 < j /\ b1 <= j /\ (b0 + 1) - r = b0 - r + 1
      BY <1>1, <1>7, <1>13, <2>1
    <3>2. readInteger(y, (b0 + 1) - r) = Token(i1, b1 - r)
      BY <1>1, <1>8, <2>1, <3>1, IntegerAlone
    <3>3. At(y, b0 - r) = "."
      BY <1>16, <2>1, <3>1
    <3> QED
      BY <1>15, <3>1, <3>2, <3>3
  <2>2. CASE At(x, b0) # "."
    <3>1. At(y, b0 - r) # "."
      BY <1>16, <2>2 DEF End
    <3>2. i1 = i0 /\ b1 = b0
      BY <1>8, <2>2, OutcomesDiffer
    <3> QED
      BY <1>14, <1>15, <3>1, <3>2
  <2> QED
    BY <2>1, <2>2
<1> HIDE DEF mantissa2
<1>18. mantissa2.to = b1 - r /\ mantissa2.id = i1 /\ ~Failed(mantissa2)
  BY <1>17, OutcomesDiffer
<1>19. exponent2 = Token(i2, b2 - r)
  <2>1. CASE At(x, b1) = "e"
    <3>1. b1 + 1 \in r + 1 .. j /\ b1 < j /\ b2 <= j /\ (b1 + 1) - r = b1 - r + 1
      BY <1>1, <1>7, <1>10, <1>13, <2>1
    <3>2. readSignedInteger(y, (b1 + 1) - r) = Token(i2, b2 - r)
      BY <1>1, <1>11, <2>1, <3>1, SignedAlone
    <3>3. At(y, b1 - r) = "e"
      BY <1>16, <2>1, <3>1
    <3> QED
      BY <1>18, <3>1, <3>2, <3>3
  <2>2. CASE At(x, b1) # "e"
    <3>1. At(y, b1 - r) # "e"
      BY <1>16, <2>2 DEF End
    <3>2. i2 = i1 /\ b2 = b1
      BY <1>11, <2>2, OutcomesDiffer
    <3> QED
      BY <1>17, <1>18, <3>1, <3>2
  <2> QED
    BY <2>1, <2>2
<1> HIDE DEF exponent2
<1>20. o2 = Token(i1, b2 - r) /\ ~Failed(exponent2)
  BY <1>18, <1>19, OutcomesDiffer DEF Token
<1> HIDE DEF o2
<1>21. afterNumber(y, Token(i1, b2 - r)) = Token(id, j - r)
  <2>1. afterNumber(x, Token(i1, b2)) = Token(id, j)
    BY <1>3, <1>12
  <2> QED
    BY <1>13, <2>1, AfterAlone
<1>22. readDecimal(y, a - r) = Token(id, j - r)
  BY <1>4, <1>15, <1>18, <1>20, <1>21
<1> QED
  BY <1>14, <1>22

LEMMA NumericBaseAlone ==
  ASSUME NEW x, IsScanner(x), NEW y, IsScanner(y), NEW r, NEW j, Cut(x, y, r, j),
         NEW a \in r + 1 .. j - 1, At(x, a + 1) # End, NEW S, End \notin S, NEW name, NEW id,
         readNumericBase(x, name, S, a) = Token(id, j)
  PROVE  a + 2 < j /\ readNumericBase(y, name, S, a - r) = Token(id, j - r)
<1> DEFINE A == S \cup {"_"}
           b == Run(x, A, a + 2)
           c == Run(y, A, a - r + 2)
           blank == WhiteSpace \cup NewlineChars \cup {End}
<1>1. /\ a \in Int /\ r \in Int /\ j \in Int /\ a > r /\ a + 2 \in 1 .. Len(x.text) + 1 /\ Len(x.text) \in Nat
      /\ (a + 2) - r = a - r + 2 /\ a < j /\ a + 2 \in Int
  <2>1. /\ a \in Int /\ r \in Int /\ j \in Int /\ a > r /\ a + 1 \in Int /\ Len(x.text) \in Nat /\ a < j
        /\ a \in 1 .. Len(x.text)
    BY CutChars
  <2>2. a + 1 \in 1 .. Len(x.text)
    BY <2>1, Within
  <2> QED
    BY <2>1, <2>2
<1>2. Token(id, j) # Error
  BY OutcomesDiffer
<1>3. Token(id, j) = IF b = a + 2 \/ At(x, a + 2) = "_" \/ At(x, b) \notin blank THEN Error ELSE Token(name, b)
  BY DEF readNumericBase
<1>4. readNumericBase(y, name, S, a - r) =
          IF c = a - r + 2 \/ At(y, a - r + 2) = "_" \/ At(y, c) \notin blank THEN Error ELSE Token(name, c)
  BY DEF readNumericBase
<1>5. End \notin A
  BY DEF End
<1> HIDE DEF A
<1>6. Stops(x, A, a + 2, b)
  BY <1>1, <1>5, RunStops
<1> HIDE DEF b
<1>7. b # a + 2 /\ At(x, a + 2) # "_" /\ id = name /\ b = j
  <2>1. b # a + 2 /\ At(x, a + 2) # "_" /\ Token(id, j) = Token(name, b)
    BY <1>2, <1>3
  <2>2. id = name /\ b = j
    <3>1. Token(id, j) = Token(name, b)
      BY <2>1
    <3> QED
      BY <3>1, OutcomesDiffer
  <2> QED
    BY <2>1, <2>2
<1>8. a + 2 < j /\ a + 2 \in r + 1 .. j /\ j \in a + 2 .. j
  <2>1. j \in a + 2 .. Len(x.text) + 1 /\ j # a + 2
    BY <1>6, <1>7 DEF Stops
  <2> QED
    BY <1>1, <2>1
<1>9. c = j - r
  <2>1. (\A k \in a + 2 .. j - 1 : At(x, k) \in A) /\ At(x, j) \notin A
    BY <1>6, <1>7 DEF Stops
  <2>2. Run(y, A, (a + 2) - r) = j - r
    BY <1>5, <1>8, <2>1, CutRun
  <2> QED
    BY <1>1, <2>2
<1> HIDE DEF c
<1>10. At(y, c) = End /\ At(y, a - r + 2) = At(x, a + 2) /\ c # a - r + 2
  <2>1. \A k \in Int : k > r => At(y, k - r) = IF k < j THEN At(x, k) ELSE End
    BY DEF Cut
  <2>2. At(y, j - r) = End /\ At(y, (a + 2) - r) = At(x, a + 2)
    BY <1>1, <1>8, <2>1
  <2> QED
    BY <1>1, <1>8, <1>9, <2>2
<1> QED
  BY <1>4, <1>7, <1>8, <1>9, <1>10

LEMMA SlashAlone ==
  ASSUME NEW x, IsScanner(x), NEW y, IsScanner(y), NEW r, NEW j, Cut(x, y, r, j),
         NEW a \in r + 1 .. j - 1, At(x, a) = "/", a + 1 < j, NEW id, readSlash(x, a) = Token(id, j)
  PROVE  readSlash(y, a - r) = Token(id, j - r)
<1> DEFINE c == At(x, a + 1)
           arm(z, i) ==
               IF c \in {End, Invalid} THEN LookError(c)
               ELSE IF c = "*" THEN readMultiLineComment(z, i)
               ELSE IF c = "/" THEN readSingleLineComment(z, i)
               ELSE IF c = "-" THEN Token("TokenComment", i + 2)
               ELSE IF x.nginx THEN readIdentifier(z, i) ELSE Error
<1>1. /\ a \in Int /\ r \in Int /\ j \in Int /\ a \in r + 1 .. j /\ a \in 1 .. Len(x.text) /\ a > r
      /\ j \in Int
  BY CutChars
<1>2. At(y, a - r) = "/" /\ At(y, a - r + 1) = c
  BY <1>1, CutAhead
<1>3. Token(id, j) # Error /\ Token(id, j) # Ended
  BY OutcomesDiffer
<1>4. readSlash(x, a) = arm(x, a)
  BY DEF readSlash, End, Invalid
<1>5. readSlash(y, a - r) = arm(y, a - r)
  <2>1. y.nginx = x.nginx
    BY DEF Cut
  <2> HIDE DEF c
  <2> QED
    BY <1>2, <2>1 DEF readSlash, End, Invalid
<1> HIDE DEF c
<1>6. c \notin {End, Invalid}
  BY <1>3, <1>4 DEF LookError
<1>7. CASE c = "*"
  <2>1. readMultiLineComment(x, a) = Token(id, j)
    BY <1>4, <1>6, <1>7
  <2>2. Reads(x, a, {"MultiLineComment"}, Token(id, j))
    <3>1. Opens(x, a)
      BY <1>7 DEF Opens, c
    <3> QED
      BY <1>1, <2>1, <3>1, CommentIsRead
  <2>3. id = "MultiLineComment"
    BY <2>2, OneName
  <2>4. readMultiLineComment(y, a - r) = Token(id, j - r)
    BY <1>1, <2>1, <2>3, CommentAlone
  <2> QED
    BY <1>5, <1>6, <1>7, <2>4
<1>8. CASE c = "/"
  <2>1. readSingleLineComment(x, a) = Token(id, j)
    BY <1>4, <1>6, <1>8
  <2>2. PICK k : Token(id, j) = Token("SingleLineComment", k)
    BY <1>1, <1>3, <2>1, LineCommentReads
  <2>3. id = "SingleLineComment"
    BY <2>2, OutcomesDiffer
  <2>4. readSingleLineComment(y, a - r) = Token(id, j - r)
    BY <1>1, <2>1, <2>3, LineCommentAlone
  <2> QED
    BY <1>5, <1>6, <1>8, <2>4
<1>9. CASE c = "-"
  <2>1. Token(id, j) = Token("TokenComment", a + 2)
    BY <1>4, <1>6, <1>9
  <2>2. id = "TokenComment" /\ j = a + 2
    BY <2>1, OutcomesDiffer
  <2>3. a - r + 2 = j - r
    BY <1>1, <2>2
  <2> QED
    BY <1>5, <1>6, <1>9, <2>2, <2>3
<1>10. CASE c \notin {"*", "/", "-"}
  <2>1. x.nginx /\ readIdentifier(x, a) = Token(id, j)
    BY <1>3, <1>4, <1>6, <1>10
  <2>2. readIdentifier(y, a - r) = Token(id, j - r)
    BY <2>1, IdentifierAlone
  <2> QED
    BY <1>5, <1>6, <1>10, <2>1, <2>2
<1> QED
  BY <1>7, <1>8, <1>9, <1>10

\* readNext's part for signs and question marks.
LEMMA SignAlone ==
  ASSUME NEW x \in Scanners, NEW y \in Scanners, NEW r, NEW j, Cut(x, y, r, j),
         NEW a \in r + 1 .. j - 1, At(x, a) \in Signs \cup {"?"}, At(x, a) = "?" => a + 1 < j,
         NEW id, readSigned(x, a) = Token(id, j)
  PROVE  readSigned(y, a - r) = Token(id, j - r)
<1> DEFINE c == At(x, a)
           c2 == At(x, a + 1)
           d2 == At(y, a - r + 1)
           arm(z, i, e) ==
               IF e = End /\ c = "?" THEN Ended
               ELSE IF e = Invalid THEN Error
               ELSE IF e \in Digits /\ c # "?" THEN readDecimal(z, i)
               ELSE readIdentifier(z, i)
<1>1. /\ IsScanner(x) /\ IsScanner(y) /\ a \in Int /\ r \in Int /\ j \in Int /\ a \in r + 1 .. j /\ a < j
  BY ScannersScan, CutChars
<1>2. At(y, a - r) = c /\ d2 = IF a + 1 < j THEN c2 ELSE End
  BY <1>1, CutAhead
<1>3. Token(id, j) # Error /\ Token(id, j) # Ended
  BY OutcomesDiffer
<1>4. End \notin Digits /\ Invalid \notin Digits /\ End # Invalid
  BY DEF End, Invalid, Digits
<1>5. readSigned(x, a) = arm(x, a, c2)
  BY <1>4 DEF readSigned
<1>6. readSigned(y, a - r) = arm(y, a - r, d2)
  <2> HIDE DEF c, d2
  <2> QED
    BY <1>2, <1>4 DEF readSigned, d2
<1> HIDE DEF c, c2, d2
<1>7. CASE c2 \in Digits /\ c # "?"
  <2>1. readDecimal(x, a) = Token(id, j)
    BY <1>4, <1>5, <1>7
  <2>2. c \in Signs
    BY <1>7 DEF c
  <2>3. readDecimal(y, a - r) = Token(id, j - r) /\ a + 1 < j
    BY <1>1, <2>1, <2>2, DecimalAlone DEF c
  <2>4. d2 = c2
    BY <1>2, <2>3
  <2> QED
    BY <1>4, <1>6, <1>7, <2>3, <2>4
<1>8. CASE ~(c2 \in Digits /\ c # "?")
  <2>1. readIdentifier(x, a) = Token(id, j) /\ c2 # Invalid
    BY <1>3, <1>5, <1>8
  <2>2. readIdentifier(y, a - r) = Token(id, j - r)
    BY <1>1, <2>1, IdentifierAlone
  <2>3. d2 # Invalid /\ ~(d2 \in Digits /\ c # "?")
    BY <1>2, <1>4, <1>8, <2>1
  <2>4. ~(d2 = End /\ c = "?")
    <3>1. c = "?" => a + 1 < j /\ d2 = c2
      BY <1>2 DEF c
    <3>2. ~(c2 = End /\ c = "?")
      BY <1>3, <1>5
    <3> QED
      BY <3>1, <3>2
  <2> QED
    BY <1>6, <2>2, <2>3, <2>4
<1> QED
  BY <1>7, <1>8

LEMMA ZeroAlone ==
  ASSUME NEW x \in Scanners, NEW y \in Scanners, NEW r, NEW j, Cut(x, y, r, j),
         NEW a \in r + 1 .. j - 1, a + 1 < j, NEW id, readZero(x, a) = Token(id, j)
  PROVE  readZero(y, a - r) = Token(id, j - r)
<1> DEFINE c2 == At(x, a + 1)
           Hex == Digits \cup {"a", "b", "c", "d", "e", "f"}
           Oct == Digits \ {"8", "9"}
           Bin == {"0", "1"}
           arm(z, i) ==
               IF c2 \in {End, Invalid} THEN LookError(c2)
               ELSE IF c2 = "x" THEN readNumericBase(z, "Hexadecimal", Hex, i)
               ELSE IF c2 = "o" THEN readNumericBase(z, "Octal", Oct, i)
               ELSE IF c2 = "b" THEN readNumericBase(z, "Binary", Bin, i)
               ELSE readDecimal(z, i)
<1>1. /\ IsScanner(x) /\ IsScanner(y) /\ a \in Int /\ r \in Int /\ j \in Int /\ a \in r + 1 .. j /\ a < j
  BY ScannersScan, CutChars
<1>2. At(y, a - r + 1) = c2
  BY <1>1, CutAhead
<1>3. Token(id, j) # Error /\ Token(id, j) # Ended
  BY OutcomesDiffer
<1>4. End \notin Hex /\ End \notin Oct /\ End \notin Bin
  BY DEF End, Digits
<1>5. \A z, i : At(z, i + 1) = c2 => readZero(z, i) = arm(z, i)
  <2> SUFFICES ASSUME NEW z, NEW i, At(z, i + 1) = c2 PROVE readZero(z, i) = arm(z, i)
    OBVIOUS
  <2> HIDE DEF Hex, Oct, Bin, c2
  <2> QED
    BY DEF readZero, End, Invalid, Hex, Oct, Bin
<1> HIDE DEF Hex, Oct, Bin
<1>6. Token(id, j) = arm(x, a) /\ readZero(y, a - r) = arm(y, a - r)
  BY <1>2, <1>5
<1>7. c2 \notin {End, Invalid}
  BY <1>3, <1>6 DEF LookError
<1>8. ASSUME NEW name, NEW S, End \notin S, readNumericBase(x, name, S, a) = Token(id, j)
      PROVE  readNumericBase(y, name, S, a - r) = Token(id, j - r)
  BY <1>1, <1>7, <1>8, NumericBaseAlone
<1>9. readDecimal(x, a) = Token(id, j) => readDecimal(y, a - r) = Token(id, j - r)
  BY <1>1, DecimalAlone
<1> HIDE DEF c2
<1> QED
  BY <1>4, <1>6, <1>7, <1>8, <1>9

LEMMA OtherAlone ==
  ASSUME NEW x, IsScanner(x), NEW y, IsScanner(y), NEW r, NEW j, Cut(x, y, r, j),
         NEW a \in r + 1 .. j - 1, NEW id, readOther(x, a) = Token(id, j)
  PROVE  readOther(y, a - r) = Token(id, j - r)
<1> DEFINE c == At(x, a)
           c2 == At(x, a + 1)
           d2 == At(y, a - r + 1)
           hash == c = "#" /\ x.version = "V2"
           comment == c = "#" /\ x.version # "V2" /\ x.nginx
           colon == c = ":" /\ x.yaml
           number(e) == c = "." /\ e \in Digits /\ x.version = "V2"
           arm(z, i, e) ==
               IF number(e) THEN Error
               ELSE IF hash THEN readHashToken(z, i)
               ELSE IF comment THEN readSingleLineComment(z, i)
               ELSE IF colon THEN Token("Whitespace", i + 1)
               ELSE readIdentifier(z, i)
<1>1. /\ a \in Int /\ r \in Int /\ j \in Int /\ a \in r + 1 .. j /\ a < j /\ a \in 1 .. Len(x.text)
  BY CutChars
<1>2. At(y, a - r) = c /\ d2 = IF a + 1 < j THEN c2 ELSE End
  BY <1>1, CutAhead
<1>3. Token(id, j) # Error /\ Token(id, j) # Ended
  BY OutcomesDiffer
<1>4. End \notin Digits
  BY DEF End, Digits
<1>5. readOther(x, a) = arm(x, a, c2)
  <2> HIDE DEF c, c2
  <2> QED
    BY DEF readOther, c, c2
<1>6. readOther(y, a - r) = arm(y, a - r, d2)
  <2>1. y.version = x.version /\ y.nginx = x.nginx /\ y.yaml = x.yaml
    BY DEF Cut
  <2> HIDE DEF c, d2
  <2> QED
    BY <1>2, <2>1 DEF readOther, d2
<1>7. ~number(c2)
  BY <1>3, <1>5
<1>8. ~number(d2)
  <2> HIDE DEF c, c2, d2
  <2> QED
    BY <1>2, <1>4, <1>7
<1>9. (hash => c = "#") /\ (comment => c = "#")
  OBVIOUS
<1> HIDE DEF c2, d2, hash, comment, colon, number
<1>10. CASE hash
  <2>1. readHashToken(x, a) = Token(id, j)
    BY <1>5, <1>7, <1>10
  <2>2. readHashToken(y, a - r) = Token(id, j - r)
    BY <2>1, HashAlone
  <2> QED
    BY <1>6, <1>8, <1>10, <2>2
<1>11. CASE ~hash /\ comment
  <2>1. readSingleLineComment(x, a) = Token(id, j)
    BY <1>5, <1>7, <1>11
  <2>2. PICK k : Token(id, j) = Token("SingleLineComment", k)
    BY <1>1, <1>3, <1>9, <1>11, <2>1, LineCommentReads
  <2>3. id = "SingleLineComment"
    BY <2>2, OutcomesDiffer
  <2>4. readSingleLineComment(y, a - r) = Token(id, j - r)
    BY <1>1, <1>9, <1>11, <2>1, <2>3, LineCommentAlone
  <2> QED
    BY <1>6, <1>8, <1>11, <2>4
<1>12. CASE ~hash /\ ~comment /\ colon
  <2>1. Token(id, j) = Token("Whitespace", a + 1)
    BY <1>5, <1>7, <1>12
  <2>2. id = "Whitespace" /\ j = a + 1
    BY <2>1, OutcomesDiffer
  <2>3. a - r + 1 = j - r
    BY <1>1, <2>2
  <2> QED
    BY <1>6, <1>8, <1>12, <2>2, <2>3
<1>13. CASE ~hash /\ ~comment /\ ~colon
  <2>1. readIdentifier(x, a) = Token(id, j)
    BY <1>5, <1>7, <1>13
  <2>2. readIdentifier(y, a - r) = Token(id, j - r)
    BY <2>1, IdentifierAlone
  <2> QED
    BY <1>6, <1>8, <1>13, <2>2
<1> QED
  BY <1>10, <1>11, <1>12, <1>13

\* What readNext does with the first character.
LEMMA NextArms ==
  ASSUME NEW x, NEW i
  PROVE  LET c == At(x, i)
             z == readNext(x, i)
         IN  /\ c \in {End, Invalid} => z = LookError(c)
             /\ c \in WhiteSpace => z = readWhile(x, "Whitespace", WhiteSpace, i, 1)
             /\ c = Bom => z = IF i = 1 THEN Token("Whitespace", 2) ELSE Error
             /\ c \in NewlineChars =>
                    z = Token("Newline", IF c = "\r" /\ At(x, i + 1) = "\n" THEN i + 2 ELSE i + 1)
             /\ c = "/" => z = readSlash(x, i)
             /\ c \in DOMAIN Punctuation => z = Token(Punctuation[c], i + 1)
             /\ c \in DOMAIN StrictPunctuation /\ ~x.nginx => z = Token(StrictPunctuation[c], i + 1)
             /\ c \in Signs \cup {"?"} => z = readSigned(x, i)
             /\ c = "0" => z = readZero(x, i)
             /\ c \in Digits \ {"0"} => z = readDecimal(x, i)
             /\ c \notin {End, Invalid, Bom, "/", "?", ","} \cup WhiteSpace \cup NewlineChars
                         \cup DOMAIN Punctuation \cup DOMAIN StrictPunctuation \cup Signs \cup Digits
                    => z = readOther(x, i)
             /\ c \in DOMAIN StrictPunctuation /\ x.nginx => z = readOther(x, i)
             /\ c = "," => z = Error
<1> DEFINE c == At(x, i)
           c2 == At(x, i + 1)
           z == readNext(x, i)
           white == readWhile(x, "Whitespace", WhiteSpace, i, 1)
           newline == Token("Newline", IF c = "\r" /\ c2 = "\n" THEN i + 2 ELSE i + 1)
           punctuation == Token(Punctuation[c], i + 1)
           strict == Token(StrictPunctuation[c], i + 1)
           first == IF i = 1 THEN Token("Whitespace", 2) ELSE Error
           slash == readSlash(x, i)
           signed == readSigned(x, i)
           zero == readZero(x, i)
           decimal == readDecimal(x, i)
           other == readOther(x, i)
           marks == DOMAIN Punctuation
           strictMarks == DOMAIN StrictPunctuation
<1>1. z = CASE c \in {End, Invalid} -> LookError(c)
            [] c \in WhiteSpace -> white
            [] c = Bom -> first
            [] c \in NewlineChars -> newline
            [] c = "/" -> slash
            [] c \in marks -> punctuation
            [] c \in strictMarks /\ ~x.nginx -> strict
            [] c = "," -> Error
            [] c \in Signs \cup {"?"} -> signed
            [] c = "0" -> zero
            [] c \in Digits \ {"0"} -> decimal
            [] OTHER -> other
  BY DEF readNext
<1>2. marks = {"{", "}", "=", ";"} /\ strictMarks = {"(", ")", "\\"}
  BY DEF Punctuation, StrictPunctuation
<1> HIDE DEF c, z, white, newline, punctuation, strict, first, slash, signed, zero, decimal, other, marks, strictMarks
<1>3. c \in {End, Invalid} => z = LookError(c)
  BY <1>1, <1>2 DEF End, Invalid, WhiteSpace, Bom, NewlineChars, Signs, Digits
<1>4. c \in WhiteSpace => z = white
  BY <1>1, <1>2 DEF End, Invalid, WhiteSpace, Bom, NewlineChars, Signs, Digits
<1>5. c = Bom => z = first
  BY <1>1, <1>2 DEF End, Invalid, WhiteSpace, Bom, NewlineChars, Signs, Digits
<1>6. c \in NewlineChars => z = newline
  BY <1>1, <1>2 DEF End, Invalid, WhiteSpace, Bom, NewlineChars, Signs, Digits
<1>7. c = "/" => z = slash
  BY <1>1, <1>2 DEF End, Invalid, WhiteSpace, Bom, NewlineChars, Signs, Digits
<1>8. c \in marks => z = punctuation
  BY <1>1, <1>2 DEF End, Invalid, WhiteSpace, Bom, NewlineChars, Signs, Digits
<1>9. c \in strictMarks /\ ~x.nginx => z = strict
  BY <1>1, <1>2 DEF End, Invalid, WhiteSpace, Bom, NewlineChars, Signs, Digits
<1>10. c \in Signs \cup {"?"} => z = signed
  BY <1>1, <1>2 DEF End, Invalid, WhiteSpace, Bom, NewlineChars, Signs, Digits
<1>11. c = "0" => z = zero
  BY <1>1, <1>2 DEF End, Invalid, WhiteSpace, Bom, NewlineChars, Signs, Digits
<1>12. c \in Digits \ {"0"} => z = decimal
  BY <1>1, <1>2 DEF End, Invalid, WhiteSpace, Bom, NewlineChars, Signs, Digits
<1>13. c \notin {End, Invalid, Bom, "/", "?", ","} \cup WhiteSpace \cup NewlineChars
              \cup marks \cup strictMarks \cup Signs \cup Digits => z = other
  BY <1>1, <1>2 DEF End, Invalid, WhiteSpace, Bom, NewlineChars, Signs, Digits
<1>14. c \in strictMarks /\ x.nginx => z = other
  BY <1>1, <1>2 DEF End, Invalid, WhiteSpace, Bom, NewlineChars, Signs, Digits
<1>15. c = "," => z = Error
  BY <1>1, <1>2 DEF End, Invalid, WhiteSpace, Bom, NewlineChars, Signs, Digits
<1> QED
  BY <1>3, <1>4, <1>5, <1>6, <1>7, <1>8, <1>9, <1>10, <1>11, <1>12, <1>13, <1>14, <1>15
     DEF c, z, white, newline, punctuation, strict, first, slash, signed, zero, decimal, other, marks, strictMarks

\* A token that readNext finds behind r is found again in its own text.
LEMMA NextAlone ==
  ASSUME NEW x \in Scanners, NEW y \in Scanners, NEW r, NEW j, Cut(x, y, r, j), r + 1 < j,
         j = r + 2 => At(x, r + 1) \notin {"0", "?", "/"},
         NEW id, readNext(x, r + 1) = Token(id, j)
  PROVE  readNext(y, 1) = Token(id, j - r)
<1> DEFINE c == At(x, r + 1)
           c2 == At(x, r + 2)
           d2 == At(y, 2)
           a == r + 1
           p == a - r
           o == readNext(x, a)
           u == readNext(y, p)
<1>1. /\ IsScanner(x) /\ IsScanner(y) /\ a \in Int /\ r \in Int /\ r \in Nat /\ j \in Int /\ a \in r + 1 .. j
      /\ a < j /\ a \in r + 1 .. j - 1 /\ p = 1 /\ a + 1 <= j /\ a \in 1 .. Len(x.text)
      /\ a \in 1 .. Len(x.text) + 1
  <2>1. IsScanner(x) /\ IsScanner(y)
    BY ScannersScan
  <2>2. r \in Int /\ r \in Nat /\ j \in Int /\ j <= Len(x.text) + 1
    BY DEF Cut
  <2>3. Len(x.text) \in Nat
    BY <2>1, Texts
  <2> QED
    BY <2>1, <2>2, <2>3
<1>2. At(y, p) = c /\ At(y, p + 1) = IF a + 1 < j THEN At(x, a + 1) ELSE End
  BY <1>1, CutAhead
<1>3. o = Token(id, j) /\ Token(id, j) # Error /\ Token(id, j) # Ended
  BY OutcomesDiffer
<1>4. x.nginx = y.nginx /\ x.nginx \in BOOLEAN
  BY <1>1 DEF Cut, IsScanner
<1>5. (j = a + 1 => j - r = p + 1) /\ (j = a + 2 => j - r = p + 2)
  BY <1>1
<1>6. SUFFICES u = Token(id, j - r)
  BY <1>1
<1> HIDE DEF c, a, p, o, u
<1>7. CASE c \in {End, Invalid}
  <2>1. o = LookError(c)
    BY <1>7, NextArms DEF o, a, c
  <2> QED
    BY <1>3, <1>7, <2>1 DEF LookError
<1>8. CASE c \in WhiteSpace
  <2>1. o = readWhile(x, "Whitespace", WhiteSpace, a, 1)
    BY <1>8, NextArms DEF o, a, c
  <2>2. u = readWhile(y, "Whitespace", WhiteSpace, p, 1)
    BY <1>2, <1>8, NextArms DEF u
  <2>3. End \notin WhiteSpace
    BY DEF End, WhiteSpace
  <2>4. Reads(x, a, {"Whitespace"}, o)
    BY <1>1, <2>1, <2>3, WhileIsRead
  <2>5. id = "Whitespace"
    BY <1>3, <2>4, OneName
  <2>6. readWhile(y, "Whitespace", WhiteSpace, a - r, 1) = Token("Whitespace", j - r)
    <3>1. readWhile(x, "Whitespace", WhiteSpace, a, 1) = Token("Whitespace", j)
      BY <1>3, <2>1, <2>5
    <3>2. j <= j
      BY <1>1
    <3> QED
      BY <1>1, <2>3, <3>1, <3>2, WhileAlone
  <2> QED
    BY <2>2, <2>5, <2>6 DEF p
<1>9. CASE c = Bom
  <2>1. o = IF a = 1 THEN Token("Whitespace", 2) ELSE Error
    BY <1>9, NextArms DEF o, a, c
  <2>2. u = Token("Whitespace", 2)
    BY <1>1, <1>2, <1>9, NextArms DEF u
  <2>3. a = 1 /\ Token(id, j) = Token("Whitespace", 2)
    BY <1>3, <2>1
  <2>4. id = "Whitespace" /\ j = 2 /\ r = 0
    BY <1>1, <2>3, OutcomesDiffer DEF a
  <2> QED
    BY <2>2, <2>4
<1>10. CASE c \in NewlineChars
  <2> DEFINE pair == c = "\r" /\ At(x, a + 1) = "\n"
             twice == c = "\r" /\ At(y, p + 1) = "\n"
  <2>1. o = Token("Newline", IF pair THEN a + 2 ELSE a + 1)
    BY <1>10, NextArms DEF o, a, c
  <2>2. u = Token("Newline", IF twice THEN p + 2 ELSE p + 1)
    BY <1>2, <1>10, NextArms DEF u
  <2>3. "\n" # End
    BY DEF End
  <2> HIDE DEF pair
  <2>4. id = "Newline" /\ j = IF pair THEN a + 2 ELSE a + 1
    <3>1. Token(id, j) = Token("Newline", IF pair THEN a + 2 ELSE a + 1)
      BY <1>3, <2>1
    <3> QED
      BY <3>1, OutcomesDiffer
  <2>5. CASE pair
    <3>1. j = a + 2 /\ a + 1 < j
      BY <1>1, <2>4, <2>5
    <3>2. twice
      BY <1>2, <2>5, <3>1 DEF pair
    <3>3. j - r = p + 2
      BY <1>5, <3>1
    <3> QED
      BY <2>2, <2>4, <3>2, <3>3
  <2>6. CASE ~pair
    <3>1. j = a + 1 /\ ~(a + 1 < j)
      BY <1>1, <2>4, <2>6
    <3>2. ~twice
      BY <1>2, <2>3, <3>1
    <3>3. j - r = p + 1
      BY <1>5, <3>1
    <3> QED
      BY <2>2, <2>4, <3>2, <3>3
  <2> QED
    BY <2>5, <2>6
<1>11. CASE c = "/"
  <2>1. a + 1 < j
    <3>1. j # r + 2
      BY <1>11 DEF c
    <3> QED
      BY <1>1, <3>1 DEF a
  <2>2. readSlash(x, a) = Token(id, j)
    BY <1>3, <1>11, NextArms DEF o, a, c
  <2>3. At(x, a) = "/"
    BY <1>11 DEF a, c
  <2>4. readSlash(y, a - r) = Token(id, j - r)
    BY <1>1, <2>1, <2>2, <2>3, SlashAlone
  <2>5. u = readSlash(y, p)
    BY <1>2, <1>11, NextArms DEF u
  <2> QED
    BY <2>4, <2>5 DEF p
<1>12. CASE c \in DOMAIN Punctuation
  <2>1. o = Token(Punctuation[c], a + 1)
    BY <1>12, NextArms DEF o, a, c
  <2>2. u = Token(Punctuation[c], p + 1)
    BY <1>2, <1>12, NextArms DEF u
  <2>3. id = Punctuation[c] /\ j = a + 1
    <3>1. Token(id, j) = Token(Punctuation[c], a + 1)
      BY <1>3, <2>1
    <3> QED
      BY <3>1, OutcomesDiffer
  <2> QED
    BY <1>5, <2>2, <2>3
<1>13. CASE c \in DOMAIN StrictPunctuation /\ ~x.nginx
  <2>1. o = Token(StrictPunctuation[c], a + 1)
    BY <1>13, NextArms DEF o, a, c
  <2>2. u = Token(StrictPunctuation[c], p + 1)
    BY <1>2, <1>4, <1>13, NextArms DEF u
  <2>3. id = StrictPunctuation[c] /\ j = a + 1
    <3>1. Token(id, j) = Token(StrictPunctuation[c], a + 1)
      BY <1>3, <2>1
    <3> QED
      BY <3>1, OutcomesDiffer
  <2> QED
    BY <1>5, <2>2, <2>3
<1>14. CASE c = ","
  <2>1. o = Error
    BY <1>14, NextArms DEF o, a, c
  <2> QED
    BY <1>3, <2>1
<1>15. CASE c \in Signs \cup {"?"}
  <2>1. At(x, a) \in Signs \cup {"?"}
    BY <1>15 DEF a, c
  <2>2. readSigned(x, a) = Token(id, j)
    BY <1>3, <1>15, NextArms DEF o, a, c
  <2>3. At(x, a) = "?" => a + 1 < j
    <3>1. c = "?" => j # r + 2
      BY DEF c
    <3>2. j # r + 2 => a + 1 < j
      BY <1>1 DEF a
    <3> QED
      BY <3>1, <3>2 DEF c, a
  <2>4. readSigned(y, a - r) = Token(id, j - r)
    BY <1>1, <2>1, <2>2, <2>3, SignAlone
  <2>5. u = readSigned(y, p)
    BY <1>2, <1>15, NextArms DEF u
  <2> QED
    BY <2>4, <2>5 DEF p
<1>16. CASE c = "0"
  <2>1. a + 1 < j
    <3>1. j # r + 2
      BY <1>16 DEF c
    <3> QED
      BY <1>1, <3>1 DEF a
  <2>2. readZero(x, a) = Token(id, j)
    BY <1>3, <1>16, NextArms DEF o, a, c
  <2>3. readZero(y, a - r) = Token(id, j - r)
    BY <1>1, <2>1, <2>2, ZeroAlone
  <2>4. u = readZero(y, p)
    BY <1>2, <1>16, NextArms DEF u
  <2> QED
    BY <2>3, <2>4 DEF p
<1>17. CASE c \in Digits \ {"0"}
  <2>1. readDecimal(x, a) = Token(id, j)
    BY <1>3, <1>17, NextArms DEF o, a, c
  <2>2. readDecimal(y, a - r) = Token(id, j - r)
    BY <1>1, <2>1, DecimalAlone
  <2>3. u = readDecimal(y, p)
    BY <1>2, <1>17, NextArms DEF u
  <2> QED
    BY <2>2, <2>3 DEF p
<1> DEFINE plain == c \notin {End, Invalid, Bom, "/", "?", ","} \cup WhiteSpace \cup NewlineChars
                        \cup DOMAIN Punctuation \cup DOMAIN StrictPunctuation \cup Signs \cup Digits
           relaxed == c \in DOMAIN StrictPunctuation /\ x.nginx
<1>18. CASE plain \/ relaxed
  <2>1. readOther(x, a) = Token(id, j)
    <3>1. o = readOther(x, a)
      BY <1>18, NextArms DEF o, a, c
    <3> QED
      BY <1>3, <3>1
  <2>2. readOther(y, a - r) = Token(id, j - r)
    BY <1>1, <2>1, OtherAlone
  <2>3. u = readOther(y, p)
    BY <1>2, <1>4, <1>18, NextArms DEF u
  <2> QED
    BY <2>2, <2>3 DEF p
<1> QED
  BY <1>7, <1>8, <1>9, <1>10, <1>11, <1>12, <1>13, <1>14, <1>15, <1>16, <1>17, <1>18

\* y reads, alone, what x reads from i to j.
LEMMA TextIsCut ==
  ASSUME NEW x \in Scanners, NEW y \in Scanners, NEW i \in 1 .. Len(x.text),
         NEW j \in i + 1 .. Len(x.text) + 1, y.text = Slice(x, i, j), y.version = x.version,
         y.nginx = x.nginx, y.yaml = x.yaml, y.suffixes = x.suffixes
  PROVE  /\ Cut(x, y, i - 1, j)
         /\ Len(y.text) = j - i
         /\ j = i + 1 => y.text = <<At(x, i)>>
<1>1. IsScanner(x) /\ IsScanner(y)
  BY ScannersScan
<1>2. Len(x.text) \in Nat /\ i - 1 \in Nat /\ j \in Int /\ i \in Int /\ i - 1 < j /\ j <= Len(x.text) + 1
  BY <1>1, Texts
<1>3. IsPart(x, i, j, y.text)
  BY <1>1, Sliced
<1>4. Len(y.text) = j - i /\ j - i = j - (i - 1) - 1
  BY <1>2, <1>3 DEF IsPart
<1>5. ASSUME NEW k \in Int, k > i - 1
      PROVE  At(y, k - (i - 1)) = IF k < j THEN At(x, k) ELSE End
  <2>1. CASE k < j
    <3>1. k \in i .. j - 1 /\ k - (i - 1) = k - i + 1 /\ k - i + 1 \in 1 .. Len(y.text)
      BY <1>2, <1>4, <1>5, <2>1
    <3>2. y.text[k - i + 1] = At(x, k)
      BY <1>3, <3>1 DEF IsPart
    <3>3. At(y, k - i + 1) = y.text[k - i + 1]
      BY <1>1, <3>1, Texts
    <3> QED
      BY <2>1, <3>1, <3>2, <3>3
  <2>2. CASE ~(k < j)
    <3>1. k - (i - 1) \notin 1 .. Len(y.text)
      BY <1>2, <1>4, <1>5, <2>2
    <3> QED
      BY <1>1, <2>2, <3>1, Texts
  <2> QED
    BY <2>1, <2>2
<1>6. Cut(x, y, i - 1, j)
  BY <1>2, <1>4, <1>5 DEF Cut
<1>7. ASSUME j = i + 1 PROVE y.text = <<At(x, i)>>
  <2>1. Len(y.text) = 1 /\ 1 \in 1 .. j - i /\ i + 1 - 1 = i
    BY <1>2, <1>4, <1>7
  <2>2. y.text[1] = At(x, i)
    BY <1>3, <2>1 DEF IsPart
  <2>3. y.text \in Seq(Characters)
    BY DEF Scanners
  <2> QED
    BY <2>1, <2>2, <2>3
<1> QED
  BY <1>4, <1>6, <1>7

LEMMA TokenAlone ==
  ASSUME NEW x \in Scanners, NEW y \in Scanners, NEW i \in 1 .. Len(x.text),
         NEW j \in i + 1 .. Len(x.text) + 1, y.text = Slice(x, i, j), y.version = x.version,
         y.nginx = x.nginx, y.yaml = x.yaml, y.suffixes = x.suffixes,
         y.text \notin LooksBeyond, NEW id, readNext(x, i) = Token(id, j)
  PROVE  readNext(y, 1) = Token(id, Len(y.text) + 1)
<1> DEFINE r == i - 1
<1>1. Len(x.text) \in Nat /\ i \in Int /\ j \in Int
  BY ScannersScan, Texts
<1>2. r + 1 = i /\ r + 1 < j /\ (j = r + 2 => j = i + 1) /\ j - r = j - i + 1
  BY <1>1
<1>3. Cut(x, y, r, j)
  <2>1. Cut(x, y, i - 1, j)
    BY TextIsCut
  <2> QED
    BY <2>1
<1>8. Len(y.text) = j - i
  <2>1. Len(y.text) = j - r - 1
    BY <1>3 DEF Cut
  <2> QED
    BY <1>1, <2>1
<1>4. j = i + 1 => y.text = <<At(x, i)>>
  BY TextIsCut
<1> HIDE DEF r
<1>5. j = r + 2 => At(x, r + 1) \notin {"0", "?", "/"}
  BY <1>2, <1>4 DEF LooksBeyond
<1>6. readNext(x, r + 1) = Token(id, j)
  BY <1>2
<1>7. readNext(y, 1) = Token(id, j - r)
  BY <1>2, <1>3, <1>5, <1>6, NextAlone
<1> QED
  BY <1>2, <1>7, <1>8

LEMMA InitAlone ==
  ASSUME Init
  PROVE  RescansAlone
BY NoTokenExists DEF Init, RescansAlone

LEMMA AcceptedAlone ==
  ASSUME IInv, NEW x, NEW o, Accepts(x, o)
  PROVE  RescansAlone'
<1> DEFINE w == Slice(s', token'.from, token'.to)
           y == [s' EXCEPT !.text = w, !.version = token'.version]
<1>1. TypeOK /\ x = versioned(s) /\ o = readNext(x, x.at) /\ ~Failed(o)
  BY DEF IInv, Accepts
<1>2. /\ x \in Scanners /\ x.at = s.at /\ x.text = s.text /\ Len(s.text) \in Nat
      /\ o.to \in s.at + 1 .. Len(s.text) + 1 /\ o = Token(o.id, o.to)
  BY <1>1, TokenScanned
<1>3. s.at \in 1 .. Len(s.text) + 1
  BY <1>1 DEF TypeOK
<1>4. s.at \in 1 .. Len(x.text) /\ o.to \in s.at + 1 .. Len(x.text) + 1
  BY <1>2, <1>3
<1>5. /\ s' \in Scanners /\ s'.text = x.text
      /\ token'.id = o.id /\ token'.from = s.at /\ token'.to = o.to /\ token'.version = x.version
      /\ x.version \in Versions
  BY <1>2, AcceptedPlace
<1>6. s'.nginx = x.nginx /\ s'.yaml = x.yaml /\ s'.suffixes = x.suffixes
  BY <1>2 DEF Accepts, advance, Scanners
<1>7. w = Slice(x, s.at, o.to)
  BY <1>5 DEF Slice
<1>8. w \in Seq(Characters)
  <2>1. x.text \in Seq(Characters) /\ o.to - 1 \in Int /\ s.at \in Int /\ o.to - 1 <= Len(x.text)
    BY <1>2, <1>4 DEF Scanners
  <2>2. SubSeq(x.text, s.at, o.to - 1) \in Seq(Characters)
    BY <1>4, <2>1
  <2> QED
    BY <1>7, <2>2 DEF Slice
<1> HIDE DEF w
<1>9. /\ y \in Scanners /\ y.text = w /\ y.version = x.version
      /\ y.nginx = x.nginx /\ y.yaml = x.yaml /\ y.suffixes = x.suffixes
  BY <1>5, <1>6, <1>8 DEF Scanners
<1> HIDE DEF y
<1>10. ASSUME w \notin LooksBeyond
       PROVE  readNext(y, 1).id = token'.id /\ readNext(y, 1).to = Len(w) + 1
  <2>1. readNext(x, s.at) = Token(o.id, o.to)
    BY <1>1, <1>2
  <2>2. readNext(y, 1) = Token(o.id, Len(y.text) + 1)
    BY <1>2, <1>4, <1>7, <1>9, <1>10, <2>1, TokenAlone
  <2> QED
    BY <1>5, <1>9, <2>2, OutcomesDiffer
<1> QED
  BY <1>10 DEF RescansAlone, Data, w, y

\* Only the marker and the version of the scanner may change.
LEMMA StoppedAlone ==
  ASSUME IInv, RescansAlone, s' = versioned(s), UNCHANGED token
  PROVE  RescansAlone'
<1> DEFINE w == Slice(s, token.from, token.to)
           x == [s EXCEPT !.text = w, !.version = token.version]
           y == [s' EXCEPT !.text = w, !.version = token.version]
           o == readNext(x, 1)
<1>1. TypeOK /\ s \in Scanners /\ s.at \in 1 .. Len(s.text) + 1 /\ token \in Tokens
  BY DEF IInv, TypeOK
<1>2. s' \in Scanners /\ s'.text = s.text
  BY <1>1, Versioned
<1>3. s'.nginx = s.nginx /\ s'.yaml = s.yaml /\ s'.suffixes = s.suffixes
  BY <1>1 DEF versioned, Scanners
<1>4. SUFFICES ASSUME Exists(token), w \notin LooksBeyond
               PROVE  readNext(y, 1).id = token.id /\ readNext(y, 1).to = Len(w) + 1
  BY <1>2 DEF RescansAlone, Data, Slice
<1>5. o.id = token.id /\ o.to = Len(w) + 1
  BY <1>4 DEF RescansAlone, Data
<1>6. /\ token.from \in 1 .. Len(s.text) /\ token.to \in token.from + 1 .. Len(s.text) + 1
      /\ token.version \in Versions /\ Len(s.text) \in Nat
  BY <1>1, <1>4, ScannersScan, Texts DEF IInv, TypeOK, Order, Tokens
<1>7. w \in Seq(Characters) /\ Len(w) \in Nat /\ Len(w) > 0
  <2>1. s.text \in Seq(Characters) /\ IsScanner(s)
    BY <1>1, ScannersScan DEF Scanners
  <2>2. SubSeq(s.text, token.from, token.to - 1) \in Seq(Characters)
    BY <1>6, <2>1
  <2>3. IsPart(s, token.from, token.to, w)
    BY <1>6, <2>1, Sliced
  <2>4. Len(w) = token.to - token.from
    BY <2>3 DEF IsPart
  <2> QED
    BY <1>6, <2>2, <2>4 DEF Slice
<1> HIDE DEF w
<1>8. x \in Scanners /\ x.text = w
  BY <1>1, <1>6, <1>7 DEF Scanners
<1>9. /\ y \in Scanners /\ y.text = w /\ y.version = x.version
      /\ y.nginx = x.nginx /\ y.yaml = x.yaml /\ y.suffixes = x.suffixes
  BY <1>1, <1>2, <1>3, <1>6, <1>7 DEF Scanners
<1> HIDE DEF x, y, o
<1>10. Slice(x, 1, Len(w) + 1) = w
  <2>1. Len(w) + 1 - 1 = Len(w)
    BY <1>7
  <2>2. SubSeq(w, 1, Len(w)) = w
    BY <1>7
  <2> QED
    BY <1>8, <2>1, <2>2 DEF Slice
<1>11. o = Token(token.id, Len(w) + 1)
  <2>1. Reads(x, 1, AllIds, o)
    <3>1. IsScanner(x) /\ 1 \in 1 .. Len(x.text) + 1
      BY <1>7, <1>8, ScannersScan
    <3> QED
      BY <3>1, NextReads DEF AllIds, o
  <2>2. o.id # "Unknown"
    BY <1>4, <1>5 DEF Exists
  <2>3. PICK id \in AllIds, j \in 1 + 1 .. Len(x.text) + 1 : o = Token(id, j)
    BY <2>1, <2>2 DEF Reads, Error, Ended
  <2>4. id = token.id /\ j = Len(w) + 1
    BY <1>5, <2>3, OutcomesDiffer
  <2> QED
    BY <2>3, <2>4
<1>12. readNext(y, 1) = Token(token.id, Len(y.text) + 1)
  <2>1. 1 \in 1 .. Len(x.text) /\ Len(w) + 1 \in 1 + 1 .. Len(x.text) + 1
    BY <1>7, <1>8
  <2>2. readNext(x, 1) = Token(token.id, Len(w) + 1)
    BY <1>11 DEF o
  <2> QED
    BY <1>4, <1>8, <1>9, <1>10, <2>1, <2>2, TokenAlone
<1> QED
  BY <1>9, <1>12, OutcomesDiffer

LEMMA NextRescans ==
  ASSUME IInv, RescansAlone, [Next]_vars
  PROVE  RescansAlone'
<1>1. CASE Scan
  <2> DEFINE x == versioned(s)
             o == readNext(x, x.at)
  <2>1. \/ Accepts(x, o)
        \/ s' = x /\ UNCHANGED token
    BY <1>1 DEF Scan, Accepts
  <2> HIDE DEF o
  <2> QED
    BY <2>1, AcceptedAlone, StoppedAlone DEF o
<1>2. CASE ScanFalse
  BY <1>2 DEF ScanFalse, RescansAlone, Data, Slice
<1>3. CASE UNCHANGED vars
  BY <1>3 DEF vars, RescansAlone, Data, Slice
<1> QED
  BY <1>1, <1>2, <1>3 DEF Next, Returned

----------------------------------------------------------------------------
(* The theorems.                                                           *)

\* Every text Scan is given is read in tokens that are not empty and follow each
\* other without a gap, from the first character to the place of the scanner.
THEOREM TokensFollowEachOther == Spec => [](TypeOK /\ Order)
<1>1. IInv => TypeOK /\ Order
  BY DEF IInv
<1> QED
  BY <1>1, Invariance, PTL

\* A version that was asked for is kept; in automatic mode only a marker line at
\* the beginning of a token changes it (detectVersion).
THEOREM VersionsAreExplained == Spec => []VersionIsExplained
<1>1. IInv => VersionIsExplained
  BY DEF IInv
<1> QED
  BY <1>1, Invariance, PTL

\* A marker line at the beginning of a text, behind a byte-order mark or not, is
\* obeyed by every token in automatic mode (detectVersion).
THEOREM MarkersDecide == Spec => []MarkerDecides
<1>1. IInv => MarkerDecides
  BY DEF IInv
<1> QED
  BY <1>1, Invariance, PTL

\* Where Scan takes an error for the end of the input, no separator is left: what
\* is lost is a part of one token (Scan, readNext).
THEOREM OneTokenIsLostAtMost == Spec => []LosesOneTokenAtMost
<1>1. IInv => LosesOneTokenAtMost
  BY DEF IInv
<1> QED
  BY <1>1, Invariance, PTL

LEMMA AdjacentWidth == IInv => AdjacencyIsWidth
<1> DEFINE breaks == \E k \in prev.from .. prev.to - 1 : s.text[k] \in NewlineChars
           long == \E k \in prev.from .. prev.to - 1 : s.text[k] \in MultiByte
<1>1. SUFFICES ASSUME IInv, Exists(prev)
               PROVE  (prev.line = token.line /\ token.column = prev.column + prev.bytes)
                      <=> ~Wide(prev)
  BY DEF AdjacencyIsWidth
<1>2. prev.line \in Int /\ prev.column \in Int /\ prev.from \in Int /\ prev.to \in Int
      /\ token.line \in Int /\ token.column \in Int /\ prev.bytes \in Int
  BY <1>1 DEF IInv, TypeOK, Tokens
<1>3. IF breaks THEN token.line > prev.line
      ELSE token.line = prev.line /\ token.column = prev.column + (prev.to - prev.from)
  BY <1>1 DEF IInv, Places, Follows, Reach
<1>4. prev.bytes = prev.to - prev.from <=> ~long
  <2>1. prev.bytes = Bytes(s, prev.from, prev.to)
    BY <1>1 DEF IInv, Sizes
  <2> QED
    BY <1>2, <2>1, Sized
<1>5. Wide(prev) <=> breaks \/ long
  BY DEF Wide
<1> HIDE DEF breaks, long
<1>6. CASE breaks
  BY <1>2, <1>3, <1>5, <1>6
<1>7. CASE ~breaks
  <2>1. token.line = prev.line /\ token.column = prev.column + (prev.to - prev.from)
    BY <1>3, <1>7
  <2>2. token.column = prev.column + prev.bytes <=> prev.bytes = prev.to - prev.from
    BY <1>2, <2>1
  <2> QED
    BY <1>4, <1>5, <1>7, <2>1, <2>2
<1> QED
  BY <1>6, <1>7

\* A token's column and length in bytes say that the next one begins behind it
\* exactly when it has neither a newline nor a character of several bytes
\* (tokensAdjacent, from the columns that get keeps).
THEOREM AdjacencyIsDecided == Spec => []AdjacencyIsWidth
<1> QED
  BY AdjacentWidth, Invariance, PTL

LEMMA RawShortest == IInv => RawStringsAreShortest
<1>1. SUFFICES ASSUME IInv, token.id = "RawString"
               PROVE  LET w == Data(token)
                          y == [text |-> w]
                          q == RunTo(y, {"QUOTE"}, 1)
                          n == IF w[1] = "r" THEN q - 2 ELSE q - 1
                      IN  {i \in q + 1 .. Len(w) : w[i] = "QUOTE" /\ Hashes(y, i + 1, n)} = {Len(w) - n}
  BY DEF RawStringsAreShortest
<1> DEFINE x == [s EXCEPT !.version = token.version]
           o == [id |-> token.id, to |-> token.to, err |-> "none"]
           i == token.from
           j == token.to
           w == Data(token)
           y == [text |-> w]
<1>2. s \in Scanners /\ token.version \in Versions /\ i \in Int /\ j \in Int /\ Exists(token)
  BY <1>1 DEF IInv, TypeOK, Tokens, Exists
<1>3. x \in Scanners /\ x.text = s.text
  BY <1>2 DEF Scanners
<1>4. IsScanner(x) /\ Len(x.text) \in Nat
  BY <1>3, ScannersScan, Texts
<1>5. i \in 1 .. Len(x.text) /\ j \in i + 1 .. Len(x.text) + 1
  <2>1. i \in 1 .. j - 1 /\ j \in 1 .. Len(x.text) + 1
    BY <1>1, <1>2, <1>3 DEF IInv, Order, TypeOK
  <2> QED
    BY <1>2, <1>4, <2>1
<1>6. RawFrom(x, i, o) /\ o = Token("RawString", j)
  BY <1>1 DEF IInv, IsRead, Token
<1>7. y.text = Slice(x, i, j) /\ y.text = w
  BY <1>3 DEF Data, Slice
<1> HIDE DEF x, o, i, j, w, y
<1>8. PICK quote \in i + 1 .. Len(x.text), n \in Nat :
        /\ At(x, quote) = "QUOTE" /\ \A k \in i + 1 .. quote - 1 : At(x, k) = "#"
        /\ \/ At(x, i) = "r" /\ n = quote - i - 1
           \/ At(x, i) = "#" /\ n = quote - i
        /\ o = rawContent(x, "RawString", quote + 1, n)
  BY <1>6 DEF RawFrom
<1>9. quote + 1 \in 1 .. Len(x.text) + 1
  BY <1>4, <1>5
<1>10. PICK k : RawEnds(x, quote + 1, n, k)
  <2>1. (\A k : ~RawEnds(x, quote + 1, n, k)) => rawContent(x, "RawString", quote + 1, n) = Error
    BY <1>4, <1>9, RawReads
  <2>2. rawContent(x, "RawString", quote + 1, n) # Error
    BY <1>6, <1>8, OutcomesDiffer
  <2> QED
    BY <2>1, <2>2
<1>11. /\ k \in quote + 1 .. Len(x.text) /\ At(x, k) = "QUOTE" /\ Hashes(x, k + 1, n)
       /\ \A l \in quote + 1 .. k - 1 : RawGoesOn(x, n, l)
  BY <1>10 DEF RawEnds
<1>12. j = k + 1 + n
  <2>1. o = Token("RawString", k + 1 + n)
    BY <1>4, <1>8, <1>9, <1>10, RawReads
  <2> QED
    BY <1>6, <2>1, OutcomesDiffer
<1>13. /\ Len(w) = j - i /\ j - i \in Nat /\ DOMAIN w = 1 .. j - i
       /\ \A m \in i .. j - 1 : w[m - i + 1] = At(x, m) /\ At(y, m - i + 1) = At(x, m)
       /\ \A m \in 1 .. j - i : w[m] = At(x, i + m - 1) /\ At(y, m) = At(x, i + m - 1)
       /\ \A m : m \notin 1 .. j - i => At(y, m) = End
  <2>1. /\ Len(w) = j - i /\ j - i \in Nat /\ DOMAIN w = 1 .. j - i
        /\ \A m \in i .. j - 1 : w[m - i + 1] = At(x, m)
        /\ \A m \in 1 .. j - i : w[m] = At(x, i + m - 1)
    <3>1. w = Slice(x, i, j)
      BY <1>7 DEF y
    <3>2. IsPart(x, i, j, w)
      BY <1>4, <1>5, <3>1, Sliced
    <3> QED
      BY <3>2 DEF IsPart
  <2>2. \A m : At(y, m) = IF m \in 1 .. j - i THEN w[m] ELSE End
    BY <1>7, <2>1 DEF At
  <2>3. \A m \in i .. j - 1 : m - i + 1 \in 1 .. j - i
    BY <1>5
  <2> QED
    BY <2>1, <2>2, <2>3
<1> DEFINE q == quote - i + 1
<1>14. q \in 2 .. j - i /\ quote \in i .. j - 1 /\ q \in Int /\ i + q - 1 = quote
       /\ 1 \in 1 .. j - i /\ i + 1 - 1 = i /\ i \in Int /\ j \in Int /\ k \in Int /\ quote \in Int
  BY <1>4, <1>5, <1>11, <1>12
<1>15. RunTo(y, {"QUOTE"}, 1) = q
  <2>1. ASSUME NEW m \in 1 .. q - 1 PROVE w[m] # "QUOTE"
    <3>1. m \in 1 .. j - i /\ (i + m - 1 = i \/ i + m - 1 \in i + 1 .. quote - 1)
      BY <1>14
    <3>2. w[m] = At(x, i + m - 1)
      BY <1>13, <3>1
    <3> QED
      BY <1>8, <3>1, <3>2
  <2>2. w[q] = "QUOTE"
    BY <1>8, <1>13, <1>14
  <2>3. 1 .. q \subseteq DOMAIN w /\ q \in 1 .. Len(w) + 1 /\ Len(w) \in Nat
    BY <1>13, <1>14
  <2> DEFINE quotes == {"QUOTE"}
  <2> HIDE DEF q
  <2>4. \A m \in 1 .. q - 1 : w[m] \notin quotes
    BY <2>1
  <2>5. w[q] \in quotes
    BY <2>2
  <2> HIDE DEF quotes
  <2>6. /\ 1 .. q \subseteq DOMAIN y.text /\ q \in 1 .. Len(y.text) + 1 /\ Len(y.text) \in Nat
        /\ (\A m \in 1 .. q - 1 : y.text[m] \notin quotes) /\ y.text[q] \in quotes /\ 1 \in Int
    BY <1>7, <2>3, <2>4, <2>5
  <2>7. RunTo(y, quotes, 1) = q
    BY <2>6, RunToIs
  <2> QED
    BY <2>7 DEF quotes
<1>16. n = IF w[1] = "r" THEN q - 2 ELSE q - 1
  <2>1. w[1] = At(x, i)
    BY <1>13, <1>14
  <2> QED
    BY <1>8, <1>14, <2>1
<1>17. ASSUME NEW m \in q + 1 .. Len(w), w[m] = "QUOTE", Hashes(y, m + 1, n)
       PROVE  m = Len(w) - n
  <2> DEFINE p == i + m - 1
  <2>1. m \in Int /\ m \in 1 .. j - i /\ p \in Int /\ p \in quote + 1 .. j - 1
    BY <1>13, <1>14
  <2>2. At(x, p) = "QUOTE"
    BY <1>13, <1>17, <2>1
  <2>3. ASSUME NEW l \in p + 1 .. p + 1 + n - 1 PROVE At(x, l) = "#" /\ l \in p + 1 .. j - 1
    <3>1. l - i + 1 \in m + 1 .. m + 1 + n - 1 /\ l \in Int
      BY <1>14, <2>1
    <3>2. At(y, l - i + 1) = "#"
      BY <1>17, <3>1 DEF Hashes
    <3>3. l - i + 1 \in 1 .. j - i
      BY <1>13, <3>2 DEF End
    <3>4. l \in i .. j - 1 /\ l \in p + 1 .. j - 1
      BY <1>14, <2>1, <3>1, <3>3
    <3> QED
      BY <1>13, <3>2, <3>4
  <2> HIDE DEF p
  <2>4. Hashes(x, p + 1, n)
    BY <2>3 DEF Hashes
  <2>5. p <= k
    <3>1. n > 0 => p + n \in p + 1 .. p + 1 + n - 1
      BY <2>1
    <3>2. n > 0 => p + n \in p + 1 .. j - 1
      BY <2>3, <3>1
    <3> QED
      BY <1>12, <1>14, <2>1, <3>2
  <2>6. ~(p < k)
    <3>1. p < k => p \in quote + 1 .. k - 1
      BY <1>14, <2>1
    <3> QED
      BY <1>11, <2>2, <2>4, <3>1 DEF RawGoesOn
  <2>7. p = k
    BY <1>14, <2>1, <2>5, <2>6
  <2> QED
    BY <1>12, <1>13, <1>14, <2>1, <2>7 DEF p
<1>18. ASSUME NEW m, m = Len(w) - n
       PROVE  m \in q + 1 .. Len(w) /\ w[m] = "QUOTE" /\ Hashes(y, m + 1, n)
  <2>1. m = k - i + 1 /\ m \in Int /\ m \in q + 1 .. Len(w) /\ k \in i .. j - 1
    BY <1>11, <1>12, <1>13, <1>14, <1>18
  <2>2. w[m] = "QUOTE"
    BY <1>11, <1>13, <2>1
  <2>3. ASSUME NEW l \in m + 1 .. m + 1 + n - 1 PROVE At(y, l) = "#"
    <3>1. l + i - 1 \in k + 1 .. k + 1 + n - 1 /\ l + i - 1 \in i .. j - 1 /\ (l + i - 1) - i + 1 = l
      BY <1>12, <1>14, <2>1
    <3>2. At(x, l + i - 1) = "#"
      BY <1>11, <3>1 DEF Hashes
    <3> QED
      BY <1>13, <3>1, <3>2
  <2> QED
    BY <2>1, <2>2, <2>3 DEF Hashes
<1> HIDE DEF q
<1>19. {m \in q + 1 .. Len(w) : w[m] = "QUOTE" /\ Hashes(y, m + 1, n)} = {Len(w) - n}
  <2> DEFINE S == {m \in q + 1 .. Len(w) : w[m] = "QUOTE" /\ Hashes(y, m + 1, n)}
             e == Len(w) - n
  <2>1. \A m \in S : m = e
    BY <1>17
  <2>2. e \in S
    <3>1. e \in q + 1 .. Len(w) /\ w[e] = "QUOTE" /\ Hashes(y, e + 1, n)
      BY <1>18
    <3> HIDE DEF e
    <3> QED
      BY <3>1
  <2> HIDE DEF S, e
  <2>3. S = {e}
    BY <2>1, <2>2
  <2> QED
    BY <2>3 DEF S, e
<1>20. Data(token) = w /\ [text |-> Data(token)] = y
  BY DEF w, y
<1> QED
  BY <1>15, <1>16, <1>19, <1>20

\* A raw string ends at the first quote with as many hashes behind it as it begins
\* with, and such a quote stands nowhere else in it (readRawStringContent).
THEOREM RawStringsEndAtOnce == Spec => []RawStringsAreShortest
<1> QED
  BY RawShortest, Invariance, PTL

LEMMA CommentsLeave == IInv => CommentsNest
<1> DEFINE w == Data(token)
           Pairs(a, b, n) == {p \in 1 .. n - 1 : w[p] = a /\ w[p + 1] = b}
           closed(n) == Cardinality(Pairs("/", "*", n)) = Cardinality(Pairs("*", "/", n))
           overlap == \E p \in 2 .. Len(w) - 1 :
                          w[p - 1] = w[p + 1] /\ {w[p - 1], w[p]} = {"*", "/"}
<1>1. SUFFICES ASSUME IInv, token.id = "MultiLineComment", ~overlap
               PROVE  closed(Len(w)) /\ \A n \in 2 .. Len(w) - 1 : ~closed(n)
  BY DEF CommentsNest
<1> DEFINE x == [s EXCEPT !.version = token.version]
           o == [id |-> token.id, to |-> token.to, err |-> "none"]
           i == token.from
           j == token.to
           S == OpensFrom(x, i)
           T == ClosesFrom(x, i)
<1>2. s \in Scanners /\ token.version \in Versions /\ i \in Int /\ j \in Int /\ Exists(token)
  BY <1>1 DEF IInv, TypeOK, Tokens, Exists
<1>3. x \in Scanners /\ x.text = s.text
  BY <1>2 DEF Scanners
<1>4. IsScanner(x) /\ Len(x.text) \in Nat
  BY <1>3, ScannersScan, Texts
<1>5. i \in 1 .. Len(x.text) /\ j \in i + 1 .. Len(x.text) + 1
  <2>1. i \in 1 .. j - 1 /\ j \in 1 .. Len(x.text) + 1
    BY <1>1, <1>2, <1>3 DEF IInv, Order, TypeOK
  <2> QED
    BY <1>2, <1>4, <2>1
<1>6. CommentFrom(x, i, o) /\ o = Token("MultiLineComment", j)
  BY <1>1 DEF IInv, IsRead, Token
<1>7. w = Slice(x, i, j)
  BY <1>3 DEF Data, Slice
<1> HIDE DEF x, o, i, j, w
<1>8. IsPart(x, i, j, w)
  BY <1>4, <1>5, <1>7, Sliced
<1> DEFINE N == j - i
<1>9. Len(w) = N /\ N \in Nat /\ N >= 1 /\ \A p \in 1 .. N : w[p] = At(x, i + p - 1)
  BY <1>5, <1>8 DEF IsPart
<1>10. ASSUME NEW p \in 1 .. N - 1
       PROVE  /\ p \in S <=> w[p] = "/" /\ w[p + 1] = "*"
              /\ p \in T <=> w[p] = "*" /\ w[p + 1] = "/"
  <2>1. p \in Int /\ p \in 1 .. N /\ p + 1 \in 1 .. N /\ i + (p + 1) - 1 = (i + p - 1) + 1
    BY <1>5, <1>9
  <2>2. w[p] = At(x, i + p - 1) /\ w[p + 1] = At(x, (i + p - 1) + 1)
    BY <1>9, <2>1
  <2> QED
    BY <2>1, <2>2 DEF OpensFrom, ClosesFrom, Opens, Closes
<1>11. ASSUME NEW n \in 0 .. N PROVE closed(n) <=> Depth(S, T, 1, n) = 0
  <2>1. Pairs("/", "*", n) = S \cap (1 .. n - 1) /\ Pairs("*", "/", n) = T \cap (1 .. n - 1)
    <3>1. \A p \in 1 .. n - 1 : p \in 1 .. N - 1
      BY <1>9
    <3> HIDE DEF S, T, N
    <3> QED
      BY <1>10, <3>1
  <2>2. \A U : IsFiniteSet(U \cap (1 .. n - 1)) /\ Cardinality(U \cap (1 .. n - 1)) \in Nat
    <3>1. IsFiniteSet(1 .. n - 1)
      BY FS_Interval
    <3>2. \A U : U \cap (1 .. n - 1) \in SUBSET (1 .. n - 1)
      OBVIOUS
    <3> QED
      BY <3>1, <3>2, FS_Subset, FS_CardinalityType
  <2>3. /\ closed(n) <=> Cardinality(S \cap (1 .. n - 1)) = Cardinality(T \cap (1 .. n - 1))
        /\ Cardinality(S \cap (1 .. n - 1)) \in Nat /\ Cardinality(T \cap (1 .. n - 1)) \in Nat
    BY <2>1, <2>2
  <2> HIDE DEF closed, S, T
  <2> QED
    BY <2>3 DEF Depth
<1>12. Apart(x, i, 1, N)
  <2>1. SUFFICES ASSUME NEW p \in 1 .. N - 2, p \in S \cup T, p + 1 \in S \cup T PROVE FALSE
    BY DEF Apart
  <2>2. p \in 1 .. N - 1 /\ p + 1 \in 1 .. N - 1 /\ p + 1 + 1 = p + 2 /\ (p + 1) - 1 = p
        /\ p + 1 \in 2 .. Len(w) - 1
    BY <1>9
  <2>3. w[p] = w[p + 2] /\ {w[p], w[p + 1]} = {"*", "/"}
    <3> HIDE DEF S, T, N
    <3>1. /\ p \in S <=> w[p] = "/" /\ w[p + 1] = "*"
          /\ p \in T <=> w[p] = "*" /\ w[p + 1] = "/"
          /\ p + 1 \in S <=> w[p + 1] = "/" /\ w[p + 2] = "*"
          /\ p + 1 \in T <=> w[p + 1] = "*" /\ w[p + 2] = "/"
      BY <1>10, <2>2
    <3> QED
      BY <2>1, <3>1
  <2> QED
    BY <1>1, <2>2, <2>3
<1>13. PICK h \in CommentTables(x, i) : readMultiLineComment(x, i) = h[i][0]
  <2>1. i \in 1 .. Len(x.text) + 1
    BY <1>4, <1>5
  <2> QED
    BY <1>4, <2>1, CommentReads DEF CommentTables
<1>14. h[i][0] = Token("MultiLineComment", j) /\ Opens(x, i)
  BY <1>6, <1>13 DEF CommentFrom
<1>15. h[i][0] = h[i + 2][1]
  <2>1. h[i][0] = CommentStep(x, i, 0, h)
    BY <1>4, <1>5, <1>13 DEF CommentTables
  <2>2. At(x, i) \notin {End, Invalid} /\ ~Closes(x, i)
    BY <1>14 DEF Opens, Closes, End, Invalid
  <2> QED
    BY <1>14, <2>1, <2>2, CommentSteps
<1>16. N >= 2 /\ i + 2 \in i .. Len(x.text) + 1 /\ j \in i + 2 .. Len(x.text) + 1
  <2>1. i \in 1 .. Len(x.text) + 1 /\ i \in i .. Len(x.text) + 1 /\ 0 \in Int
    BY <1>4, <1>5
  <2>2. \E l \in i + 2 .. Len(x.text) + 1 : h[i][0] = Token("MultiLineComment", l)
    BY <1>4, <1>13, <1>14, <2>1, CommentEnds, OutcomesDiffer
  <2>3. j \in i + 2 .. Len(x.text) + 1
    BY <1>14, <2>2, OutcomesDiffer
  <2> QED
    BY <1>4, <1>5, <2>3
<1>17. Leaves(x, i, 3, N, 1)
  <2>1. (i + 2) - i + 1 = 3 /\ i \in 1 .. Len(x.text) + 1 /\ 1 \in Nat \ {0}
    BY <1>4, <1>5
  <2>2. Apart(x, i, 3, N)
    BY <1>9, <1>12 DEF Apart
  <2> QED
    BY <1>4, <1>13, <1>14, <1>15, <1>16, <2>1, <2>2, CommentLeaves
<1>18. ASSUME NEW n \in 2 .. N PROVE Depth(S, T, 1, n) = Depth(S, T, 3, n) + 1 /\ Depth(S, T, 3, n) \in Int
  <2>1. S \cap T = {}
    BY DEF OpensFrom, ClosesFrom, Opens, Closes
  <2>2. 1 \in S
    BY <1>5, <1>14 DEF OpensFrom
  <2>3. 1 + 1 < n => 1 + 1 \notin S \cup T
    <3>1. 1 + 1 < n => 1 \in 1 .. N - 2
      BY <1>9
    <3> QED
      BY <1>12, <2>2, <3>1 DEF Apart
  <2>4. n \in Int /\ 1 < n /\ 1 + 2 = 3
    BY <1>9
  <2> HIDE DEF S, T
  <2>5. Depth(S, T, 1, n) = Depth(S, T, 1 + 2, n) + 1
    BY <2>1, <2>2, <2>3, <2>4, DepthSteps
  <2>6. Depth(S, T, 3, n) \in Int
    BY <2>1, <2>4, DepthSteps
  <2> QED
    BY <2>4, <2>5, <2>6
<1>19. Depth(S, T, 3, N) = -1 /\ \A n \in 2 .. N - 1 : Depth(S, T, 3, n) > -1
  BY <1>17 DEF Leaves
<1> HIDE DEF S, T, closed, N
<1>20. closed(N)
  BY <1>9, <1>11, <1>16, <1>18, <1>19
<1>21. ASSUME NEW n \in 2 .. N - 1 PROVE ~closed(n)
  <2>1. n \in 0 .. N /\ n \in 2 .. N
    BY <1>9
  <2> QED
    BY <1>11, <1>18, <1>19, <2>1
<1> QED
  BY <1>9, <1>20, <1>21

\* A multi-line comment whose marks do not overlap closes every comment it opens, and
\* ends where it has done so for the first time (readMultiLineComment).
THEOREM CommentsEndOutside == Spec => []CommentsNest
<1> QED
  BY CommentsLeave, Invariance, PTL

\* A token is the same when it is read alone, without the text behind it: ScanOne
\* (scanner.go:404) may read the text of a token again and finds that token, but for
\* the three that readNext cannot tell without a second character.
THEOREM TokensReadAlone == Spec => []RescansAlone
<1>1. Init => RescansAlone
  BY InitAlone
<1>2. IInv /\ RescansAlone /\ [Next]_vars => RescansAlone'
  BY NextRescans
<1> QED
  BY <1>1, <1>2, Invariance, PTL DEF Spec

=============================================================================
