------------------------- MODULE ScannerInputProofs ------------------------
(***************************************************************************)
(* Proofs about ScannerInput: the buffer is a window of the stream, marks  *)
(* and token data keep denoting the bytes they were taken for, look-ahead  *)
(* answers with the characters of the stream, and the end of the input is  *)
(* reported at its end, for every stream, every length of the buffer and   *)
(* of the characters, and wherever a read fails.                           *)
(***************************************************************************)
EXTENDS ScannerInput, SequenceTheorems, TLAPS

----------------------------------------------------------------------------
(* The invariant.  x is a scanner, p the position of the caller, m the     *)
(* positions of the marks.                                                 *)

\* What holds of a scanner even after a read has failed.
Fits(x, p) ==
    /\ x \in Scanner
    /\ x.off <= x.raw /\ x.raw <= cap(x) /\ x.len = x.raw - x.off
    /\ p \in Nat /\ p + x.len <= x.read /\ x.read <= Total
    /\ Len(x.peeked) <= 3 /\ PeekedSize(x) <= x.len
    /\ \A k \in DOMAIN x.marks : x.marks[1] <= x.marks[k] /\ x.marks[k] <= x.off
    /\ x.r => ~x.failed /\ BufferSize <= cap(x)

\* The bytes of the buffer, where it ends, and what the caller is at.
Window(x, p) ==
    /\ \A i \in 0 .. x.raw - 1 : Byte(x, i) = x.read - x.raw + 1 + i
    /\ p = x.read - x.len
    /\ ~x.r => x.read = Total

MarksDenote(x, m) ==
    /\ Len(x.marks) = Len(m)
    /\ \A k \in DOMAIN m : x.read - x.raw + x.marks[k] = m[k]

\* The i-th character begins k bytes after the position p.
Begins(i, p, k) == i \in 1 .. Len(stream) + 1 /\ First(i) = p + k + 1

\* The caller is at the beginning of a character, or at the end.
AtCharacter(p) == \E i : Begins(i, p, 0)

CacheHolds(x, p) ==
    \A i : Begins(i, p, 0) =>
        \A k \in DOMAIN x.peeked :
            /\ i + k - 1 \in DOMAIN stream
            /\ x.peeked[k] = [rune |-> i + k - 1, size |-> Size(i + k - 1)]

Sound(x, p, m) ==
    /\ stream \in Streams
    /\ Fits(x, p)
    /\ m \in Seq(Nat)
    /\ ~x.failed => Window(x, p) /\ MarksDenote(x, m) /\ CacheHolds(x, p)

\* As long as there is more to read, a character is in the buffer.
Deep(x) == x.r => x.len > UTFMax

\* What RightAnswers says of one answer.
Right(a) ==
    a.ahead > 0 =>
        LET i == RuneAfter(a.at) + a.ahead - 1 IN
        CASE a.rune = Eof -> i > Len(stream)
          [] a.rune = Invalid -> \/ a.ahead = 2 /\ Size(i - 1) > 1
                                 \/ a.ahead = 3
          [] OTHER -> a.rune = i

\* The bytes of the token d, and whether a refill can still reach them.
Kept(x, d) ==
    /\ (IF d.copied THEN d.bytes ELSE Bytes(x, d.lo, d.hi))
           = [i \in 1 .. d.to - d.from |-> d.from + i]
    /\ d.copied \/ ~x.r

Slice == [from : Nat, to : Nat, copied : BOOLEAN, lo : Nat, hi : Nat, bytes : Seq(Nat)]

Typed ==
    /\ stream \in Streams
    /\ pc \in {"new", "idle", "token", "stopped", "drain", "drained", "broken"}
    /\ start \in Nat /\ data \in Slice /\ held \in Seq(Slice) /\ Len(held) <= MaxHeld

Fresh ==
    pc = "new" =>
        /\ s = newScanner /\ pos = 0 /\ marked = <<>>
        /\ data = NoData /\ held = <<>>

Placed == pc # "new" => Sound(s, pos, marked)

\* Between two calls of the scanner.
Scanning ==
    pc \in {"idle", "token", "stopped"} => Deep(s) /\ (~s.failed => AtCharacter(pos))

Draining == pc \in {"drain", "drained", "broken"} => s.marks = <<>> /\ s.peeked = <<>>

Answered == ~s.failed => Right(answer)

TokensKept ==
    ~s.failed => /\ data # NoData => Kept(s, data)
                 /\ \A k \in DOMAIN held : Kept(s, held[k])

\* Where the end of the input is known.
AtEnd ==
    /\ \/ pc = "idle" /\ s.err = "eof"
       \/ pc = "stopped" /\ s.err = "none"
       => s.failed \/ RuneAfter(pos) >= Len(stream)
    /\ pc = "drained" => s.failed \/ pos = Total

IInv == Typed /\ Fresh /\ Placed /\ Scanning /\ Draining /\ Answered /\ TokensKept /\ AtEnd

----------------------------------------------------------------------------
(* Lemmas about the stream.                                                *)

\* Characters follow each other and are at most UTFMax bytes long.
LEMMA StreamFacts ==
  ASSUME stream \in Streams
  PROVE  /\ Len(stream) \in Nat /\ DOMAIN stream = 1 .. Len(stream)
         /\ Total \in Nat /\ First(Len(stream) + 1) = Total + 1
         /\ \A i \in 1 .. Len(stream) + 1 : First(i) \in Nat \ {0} /\ First(i) <= Total + 1
         /\ \A i, j \in 1 .. Len(stream) + 1 : i < j => First(i) < First(j)
         /\ \A i \in DOMAIN stream : /\ Size(i) \in 1 .. UTFMax /\ Size(i) \in Nat
                                     /\ First(i + 1) = First(i) + Size(i)
<1>1. /\ stream \in Seq(Nat \ {0})
      /\ \A i, j \in DOMAIN stream : i < j => stream[i] < stream[j]
      /\ \A i \in DOMAIN stream : stream[i] <= UTFMax + (IF i = 1 THEN 0 ELSE stream[i - 1])
  BY StreamsAssumption
<1>2. /\ Len(stream) \in Nat /\ DOMAIN stream = 1 .. Len(stream)
      /\ \A i \in 1 .. Len(stream) : stream[i] \in Nat /\ stream[i] > 0
  BY <1>1
<1>3. \A i \in 1 .. Len(stream) + 1 : First(i) \in Nat \ {0}
  <2>1. \A i \in 1 .. Len(stream) + 1 : i = 1 \/ i - 1 \in 1 .. Len(stream)
    BY <1>2
  <2>2. QED
    BY <1>2, <2>1 DEF First
<1>4. \A i, j \in 1 .. Len(stream) + 1 : i < j => First(i) < First(j)
  <2>. SUFFICES ASSUME NEW i \in 1 .. Len(stream) + 1, NEW j \in 1 .. Len(stream) + 1, i < j
                PROVE  First(i) < First(j)
    OBVIOUS
  <2>1. j # 1 /\ j - 1 \in 1 .. Len(stream) /\ First(j) = stream[j - 1] + 1
    BY <1>2 DEF First
  <2>2. CASE i = 1
    BY <1>2, <2>1, <2>2 DEF First
  <2>3. CASE i # 1
    <3>1. i - 1 \in 1 .. Len(stream) /\ i - 1 < j - 1 /\ First(i) = stream[i - 1] + 1
      BY <1>2, <2>3 DEF First
    <3>2. stream[i - 1] < stream[j - 1]
      BY <1>1, <1>2, <2>1, <3>1
    <3>3. QED
      BY <1>2, <2>1, <3>1, <3>2
  <2>4. QED
    BY <2>2, <2>3
<1>5. Total \in Nat /\ First(Len(stream) + 1) = Total + 1
  BY <1>2, <1>3 DEF Total
<1>6. \A i \in 1 .. Len(stream) + 1 : First(i) <= Total + 1
  BY <1>2, <1>3, <1>4, <1>5
<1>7. \A i \in DOMAIN stream : Size(i) \in 1 .. UTFMax /\ First(i + 1) = First(i) + Size(i)
  <2>. SUFFICES ASSUME NEW i \in 1 .. Len(stream)
                PROVE  Size(i) \in 1 .. UTFMax /\ First(i + 1) = First(i) + Size(i)
    BY <1>2
  <2>1. First(i + 1) = stream[i] + 1 /\ i + 1 \in 1 .. Len(stream) + 1
    BY <1>2 DEF First
  <2>2. First(i) < First(i + 1) /\ First(i) \in Nat
    BY <1>2, <1>3, <1>4, <2>1
  <2>3. CASE i = 1
    BY <1>1, <1>2, <2>1, <2>2, <2>3, SizesAssumption DEF First, Size
  <2>4. CASE i # 1
    <3>1. i - 1 \in 1 .. Len(stream) /\ First(i) = stream[i - 1] + 1
      BY <1>2, <2>4 DEF First
    <3>2. stream[i] <= UTFMax + stream[i - 1]
      BY <1>1, <1>2, <2>4
    <3>3. stream[i] \in Nat /\ stream[i - 1] \in Nat /\ UTFMax \in Nat
      BY <1>2, <3>1, SizesAssumption
    <3>4. /\ First(i) < stream[i] + 1 /\ First(i) \in Nat
          /\ First(i) = stream[i - 1] + 1
      BY <2>1, <2>2, <3>1
    <3>5. stream[i] + 1 - First(i) \in 1 .. UTFMax
      <4>1. PICK here \in Nat, before \in Nat, most \in Nat, first \in Nat :
                 here = stream[i] /\ before = stream[i - 1] /\ most = UTFMax /\ first = First(i)
        BY <3>3, <3>4
      <4>2. here <= most + before /\ first < here + 1 /\ first = before + 1
        BY <3>2, <3>4, <4>1
      <4>3. here + 1 - first \in 1 .. most
        BY <4>2
      <4>4. QED
        BY <4>1, <4>3
    <3>6. First(i + 1) = First(i) + (stream[i] + 1 - First(i))
      BY <2>1, <2>2, <3>3
    <3>7. QED
      BY <3>5, <3>6 DEF Size
  <2>5. QED
    BY <2>3, <2>4
<1>8. \A i \in DOMAIN stream : Size(i) \in Nat
  BY <1>7, SizesAssumption
<1>9. QED
  BY <1>2, <1>3, <1>4, <1>5, <1>6, <1>7, <1>8

\* Where characters begin says in which order they are.
LEMMA FirstOrders ==
  ASSUME stream \in Streams,
         NEW i \in 1 .. Len(stream) + 1, NEW j \in 1 .. Len(stream) + 1
  PROVE  /\ i \in Nat /\ j \in Nat
         /\ First(i) < First(j) => i < j
         /\ First(i) = First(j) => i = j
<1>1. First(i) \in Nat /\ First(j) \in Nat /\ i \in Nat /\ j \in Nat
  BY StreamFacts
<1>2. (i < j => First(i) < First(j)) /\ (j < i => First(j) < First(i))
  BY StreamFacts
<1>3. QED
  BY <1>1, <1>2

\* No two characters begin with the same byte.
LEMMA RuneAfterIs ==
  ASSUME stream \in Streams, NEW i \in 1 .. Len(stream) + 1, NEW p, First(i) = p + 1
  PROVE  RuneAfter(p) = i
<1>1. ASSUME NEW j \in 1 .. Len(stream) + 1, First(j) = p + 1
      PROVE  j = i
  BY <1>1, FirstOrders
<1>2. QED
  BY <1>1 DEF RuneAfter

----------------------------------------------------------------------------
(* Lemmas about the cache.                                                 *)

\* The sizes of the characters in the cache.
LEMMA CachedSizes ==
  ASSUME NEW x \in Scanner
  PROVE  /\ Len(x.peeked) \in Nat /\ DOMAIN x.peeked = 1 .. Len(x.peeked)
         /\ \A k \in DOMAIN x.peeked : /\ x.peeked[k] \in Peeked
                                       /\ x.peeked[k].size \in Nat
                                       /\ x.peeked[k].size \in 1 .. UTFMax
<1>1. x.peeked \in Seq(Peeked)
  BY DEF Scanner
<1>2. /\ Len(x.peeked) \in Nat /\ DOMAIN x.peeked = 1 .. Len(x.peeked)
      /\ \A k \in DOMAIN x.peeked : x.peeked[k] \in Peeked
  BY <1>1
<1>3. \A k \in DOMAIN x.peeked : x.peeked[k].size \in 1 .. UTFMax
  BY <1>2 DEF Peeked
<1>4. QED
  BY <1>2, <1>3, SizesAssumption

\* The bytes of the cached characters.
LEMMA PeekedSizeFacts ==
  ASSUME NEW x \in Scanner
  PROVE  /\ PeekedSize(x) \in Nat
         /\ Len(x.peeked) = 0 => PeekedSize(x) = 0
         /\ Len(x.peeked) = 1 => PeekedSize(x) = x.peeked[1].size
         /\ Len(x.peeked) = 2 => PeekedSize(x) = x.peeked[1].size + x.peeked[2].size
         /\ Len(x.peeked) = 3 =>
                PeekedSize(x) = x.peeked[1].size + x.peeked[2].size + x.peeked[3].size
<1>. DEFINE n == Len(x.peeked)
<1>. DEFINE size(i) == IF i \in DOMAIN x.peeked THEN x.peeked[i].size ELSE 0
<1>1. \A i : size(i) \in Nat
  BY CachedSizes
<1>2. PeekedSize(x) = size(1) + size(2) + size(3)
  BY DEF PeekedSize
<1>3. n \in Nat /\ DOMAIN x.peeked = 1 .. n
  BY CachedSizes
<1>4. /\ n < 3 => size(3) = 0
      /\ n < 2 => size(2) = 0
      /\ n < 1 => size(1) = 0
      /\ n > 0 => size(1) = x.peeked[1].size
      /\ n > 1 => size(2) = x.peeked[2].size
      /\ n > 2 => size(3) = x.peeked[3].size
  BY <1>3
<1>. HIDE DEF size, n
<1>5. size(1) \in Nat /\ size(2) \in Nat /\ size(3) \in Nat
  BY <1>1
<1>6. /\ PeekedSize(x) \in Nat
      /\ n = 0 => PeekedSize(x) = 0
      /\ n = 1 => PeekedSize(x) = x.peeked[1].size
      /\ n = 2 => PeekedSize(x) = x.peeked[1].size + x.peeked[2].size
      /\ n = 3 => PeekedSize(x) = x.peeked[1].size + x.peeked[2].size + x.peeked[3].size
  BY <1>2, <1>3, <1>4, <1>5
<1>7. QED
  BY <1>6 DEF n

\* Another character in the cache, and one less.
LEMMA AppendSize ==
  ASSUME NEW x \in Scanner, NEW y \in Scanner, NEW n \in 0 .. 2,
         Len(x.peeked) = n, Len(y.peeked) = n + 1,
         \A k \in 1 .. n : y.peeked[k] = x.peeked[k]
  PROVE  PeekedSize(y) = PeekedSize(x) + y.peeked[n + 1].size
<1>1. \A k \in 1 .. n + 1 : y.peeked[k].size \in Nat
  BY CachedSizes
<1>2. CASE n = 0
  <2>. Len(x.peeked) = 0 /\ Len(y.peeked) = 1
    BY <1>2
  <2>1. PeekedSize(x) = 0 /\ PeekedSize(y) = y.peeked[1].size
    BY <1>2, PeekedSizeFacts
  <2>2. y.peeked[1].size \in Nat
    BY <1>1, <1>2
  <2>3. QED
    BY <1>2, <2>1, <2>2
<1>3. CASE n = 1
  <2>. Len(x.peeked) = 1 /\ Len(y.peeked) = 2
    BY <1>3
  <2>1. PeekedSize(x) = x.peeked[1].size /\ PeekedSize(y) = y.peeked[1].size + y.peeked[2].size
    BY <1>3, PeekedSizeFacts
  <2>2. y.peeked[1] = x.peeked[1]
    BY <1>3
  <2>3. QED
    BY <1>3, <2>1, <2>2
<1>4. CASE n = 2
  <2>. Len(x.peeked) = 2 /\ Len(y.peeked) = 3
    BY <1>4
  <2>1. /\ PeekedSize(x) = x.peeked[1].size + x.peeked[2].size
        /\ PeekedSize(y) = y.peeked[1].size + y.peeked[2].size + y.peeked[3].size
    BY <1>4, PeekedSizeFacts
  <2>2. y.peeked[1] = x.peeked[1] /\ y.peeked[2] = x.peeked[2]
    BY <1>4
  <2>3. QED
    BY <1>4, <2>1, <2>2
<1>5. QED
  BY <1>2, <1>3, <1>4

LEMMA TailSize ==
  ASSUME NEW x \in Scanner, NEW y \in Scanner, NEW n \in 1 .. 3,
         Len(x.peeked) = n, Len(y.peeked) = n - 1,
         \A k \in 1 .. n - 1 : y.peeked[k] = x.peeked[k + 1]
  PROVE  PeekedSize(y) = PeekedSize(x) - x.peeked[1].size
<1>1. \A k \in 1 .. n : x.peeked[k].size \in Nat
  BY CachedSizes
<1>2. CASE n = 1
  <2>. Len(x.peeked) = 1 /\ Len(y.peeked) = 0
    BY <1>2
  <2>1. PeekedSize(x) = x.peeked[1].size /\ PeekedSize(y) = 0
    BY <1>2, PeekedSizeFacts
  <2>2. x.peeked[1].size \in Nat
    BY <1>1, <1>2
  <2>3. QED
    BY <2>1, <2>2
<1>3. CASE n = 2
  <2>. Len(x.peeked) = 2 /\ Len(y.peeked) = 1
    BY <1>3
  <2>1. PeekedSize(x) = x.peeked[1].size + x.peeked[2].size /\ PeekedSize(y) = y.peeked[1].size
    BY <1>3, PeekedSizeFacts
  <2>2. y.peeked[1] = x.peeked[2]
    BY <1>3
  <2>3. x.peeked[1].size \in Nat /\ x.peeked[2].size \in Nat
    BY <1>1, <1>3
  <2>4. QED
    BY <2>1, <2>2, <2>3
<1>4. CASE n = 3
  <2>. Len(x.peeked) = 3 /\ Len(y.peeked) = 2
    BY <1>4
  <2>1. /\ PeekedSize(x) = x.peeked[1].size + x.peeked[2].size + x.peeked[3].size
        /\ PeekedSize(y) = y.peeked[1].size + y.peeked[2].size
    BY <1>4, PeekedSizeFacts
  <2>2. y.peeked[1] = x.peeked[2] /\ y.peeked[2] = x.peeked[3]
    BY <1>4
  <2>3. x.peeked[1].size \in Nat /\ x.peeked[2].size \in Nat /\ x.peeked[3].size \in Nat
    BY <1>1, <1>4
  <2>4. QED
    BY <2>1, <2>2, <2>3
<1>5. QED
  BY <1>2, <1>3, <1>4

----------------------------------------------------------------------------
(* Lemmas about refill.                                                    *)

\* What is kept fits in the new array.  Behind a marked sequence there is room for
\* a character, and a refill ends with more than two characters to look at.
LEMMA RefillSizes ==
  ASSUME NEW x, NEW p, Fits(x, p), x.r
  PROVE  /\ keepFrom(x) \in Nat /\ keepFrom(x) <= x.off
         /\ newCap(x) \in Nat /\ newCap(x) >= cap(x)
         /\ room(x) \in Nat /\ room(x) = newCap(x) - (x.raw - keepFrom(x))
         /\ x.marks = <<>> => x.len + room(x) = cap(x)
         /\ x.marks # <<>> => room(x) >= UTFMax
         /\ x.marks = <<>> \/ x.len > UTFMax => x.len + room(x) > 2 * UTFMax
<1>1. /\ x \in Scanner /\ x.mem \in Seq(Nat) /\ x.marks \in Seq(Nat)
      /\ x.raw \in Nat /\ x.off \in Nat /\ x.len \in Nat
  BY DEF Fits, Scanner
<1>2. /\ UTFMax \in Nat /\ UTFMax > 0 /\ BufferSize \in Nat /\ BufferSize > 2 * UTFMax
      /\ BufferSize > 4 * (UTFMax - 1)
  BY SizesAssumption
<1>3. cap(x) \in Nat /\ cap(x) >= BufferSize /\ x.raw <= cap(x)
  BY <1>1, <1>2 DEF cap, Fits
<1>4. keepFrom(x) \in Nat /\ keepFrom(x) <= x.off
  BY <1>1 DEF keepFrom, Fits
<1>5. newCap(x) = cap(x) \/ newCap(x) = 2 * cap(x)
  BY DEF newCap
<1>6. x.off <= x.raw /\ x.len = x.raw - x.off
  BY DEF Fits
<1>7. room(x) = newCap(x) - (x.raw - keepFrom(x))
  BY DEF room
<1>8. newCap(x) \in Nat /\ newCap(x) >= cap(x) /\ room(x) \in Nat
  BY <1>1, <1>3, <1>4, <1>5, <1>6, <1>7
<1>9. x.marks = <<>> => x.len + room(x) = cap(x)
  <2>1. x.marks = <<>> => newCap(x) = cap(x) /\ keepFrom(x) = x.off
    BY DEF newCap, grows, keepFrom
  <2>2. QED
    BY <1>1, <1>3, <1>6, <1>7, <2>1
<1>10. x.marks # <<>> => room(x) >= UTFMax
  <2>1. CASE grows(x)
    <3>1. room(x) >= cap(x)
      BY <1>1, <1>3, <1>4, <1>6, <1>7, <2>1 DEF newCap
    <3>2. QED
      BY <1>2, <1>3, <1>8, <3>1
  <2>2. CASE x.marks # <<>> /\ ~grows(x)
    <3>1. x.raw - keepFrom(x) <= (cap(x) * 3) \div 4
      BY <1>1, <1>3, <1>4, <1>6, <2>2 DEF grows
    <3>2. 4 * (x.raw - keepFrom(x)) <= 3 * cap(x)
      BY <1>1, <1>3, <1>4, <1>6, <3>1
    <3>3. room(x) = cap(x) - (x.raw - keepFrom(x))
      BY <1>7, <2>2 DEF newCap
    <3>4. QED
      BY <1>1, <1>2, <1>3, <1>4, <1>6, <3>2, <3>3
  <2>3. QED
    BY <2>1, <2>2
<1>11. x.marks = <<>> \/ x.len > UTFMax => x.len + room(x) > 2 * UTFMax
  BY <1>1, <1>2, <1>3, <1>8, <1>9, <1>10
<1>12. QED
  BY <1>4, <1>7, <1>8, <1>9, <1>10, <1>11

\* The new array: first what is kept, then what was read.
LEMMA FilledArray ==
  ASSUME NEW x, NEW p, Fits(x, p), x.r, NEW n \in Nat, n <= room(x)
  PROVE  /\ filled(x, n) \in Seq(Nat) /\ Len(filled(x, n)) = newCap(x)
         /\ \A i \in 1 .. x.raw - keepFrom(x) : filled(x, n)[i] = x.mem[keepFrom(x) + i]
         /\ \A i \in 1 .. n :
                filled(x, n)[x.raw - keepFrom(x) + i] = x.read + i
<1>. DEFINE keep == keepFrom(x)
            retain == x.raw - keep
            c == cap(x)
            d == newCap(x)
<1>1. /\ x.mem \in Seq(Nat) /\ x.raw \in Nat /\ x.off \in Nat /\ x.read \in Nat
      /\ x.off <= x.raw /\ x.raw <= c
  BY DEF Fits, Scanner
<1>2. c \in Nat /\ DOMAIN x.mem = 1 .. c /\ \A i \in 1 .. c : x.mem[i] \in Nat
  BY <1>1 DEF cap
<1>3. /\ keep \in Nat /\ keep <= x.off /\ d \in Nat /\ d >= c
      /\ retain + n <= d
  BY <1>1, RefillSizes
<1>. HIDE DEF c, d, keep
<1>4. retain \in Nat /\ keep + retain <= c /\ retain <= c
  BY <1>1, <1>2, <1>3
<1>5. /\ DOMAIN moved(x) = 1 .. c
      /\ \A i \in 1 .. c : moved(x)[i] = x.mem[IF i <= retain THEN keep + i ELSE i]
  BY <1>2 DEF moved, keep
<1>6. \A i \in 1 .. c : moved(x)[i] \in Nat
  <2>. SUFFICES ASSUME NEW i \in 1 .. c  PROVE moved(x)[i] \in Nat
    OBVIOUS
  <2>1. CASE i <= retain
    <3>1. keep + i \in 1 .. c
      BY <1>2, <1>3, <1>4, <2>1
    <3>2. QED
      BY <1>2, <1>5, <2>1, <3>1
  <2>2. CASE ~(i <= retain)
    BY <1>2, <1>5, <2>2
  <2>3. QED
    BY <2>1, <2>2
<1>7. filled(x, n) = [i \in 1 .. d |->
                        IF i \in retain + 1 .. retain + n THEN x.read + i - retain
                        ELSE IF i <= c THEN moved(x)[i] ELSE 0]
  BY DEF filled, c, d, keep
<1>8. \A i \in 1 .. d : filled(x, n)[i] \in Nat
  <2>. SUFFICES ASSUME NEW i \in 1 .. d  PROVE filled(x, n)[i] \in Nat
    OBVIOUS
  <2>1. CASE i \in retain + 1 .. retain + n
    <3>1. filled(x, n)[i] = x.read + i - retain
      BY <1>7, <2>1
    <3>2. QED
      BY <1>1, <1>4, <2>1, <3>1
  <2>2. CASE i \notin retain + 1 .. retain + n /\ i <= c
    BY <1>3, <1>6, <1>7, <2>2
  <2>3. CASE i \notin retain + 1 .. retain + n /\ ~(i <= c)
    BY <1>7, <2>3
  <2>4. QED
    BY <2>1, <2>2, <2>3
<1>9. filled(x, n) \in Seq(Nat) /\ Len(filled(x, n)) = d
  BY <1>3, <1>7, <1>8
<1>10. \A i \in 1 .. retain : filled(x, n)[i] = x.mem[keep + i]
  <2>. SUFFICES ASSUME NEW i \in 1 .. retain  PROVE filled(x, n)[i] = x.mem[keep + i]
    OBVIOUS
  <2>1. i \in 1 .. d /\ i \in 1 .. c /\ i <= retain /\ i \notin retain + 1 .. retain + n
    BY <1>2, <1>3, <1>4
  <2>2. QED
    BY <1>5, <1>7, <2>1
<1>11. \A i \in 1 .. n : filled(x, n)[retain + i] = x.read + i
  <2>. SUFFICES ASSUME NEW i \in 1 .. n  PROVE filled(x, n)[retain + i] = x.read + i
    OBVIOUS
  <2>1. retain + i \in 1 .. d /\ retain + i \in retain + 1 .. retain + n
    BY <1>3, <1>4
  <2>2. filled(x, n)[retain + i] = x.read + (retain + i) - retain
    BY <1>7, <2>1
  <2>3. QED
    BY <1>1, <1>4, <2>2
<1>12. QED
  BY <1>9, <1>10, <1>11 DEF d, keep

\* The marks after a refill.
LEMMA RebasedMarks ==
  ASSUME NEW x, NEW p, Fits(x, p), x.r
  PROVE  /\ rebased(x) \in Seq(Nat) /\ Len(rebased(x)) = Len(x.marks)
         /\ DOMAIN rebased(x) = DOMAIN x.marks
         /\ \A k \in DOMAIN x.marks :
                /\ rebased(x)[k] = x.marks[k] - keepFrom(x)
                /\ rebased(x)[1] <= rebased(x)[k] /\ rebased(x)[k] <= x.off - keepFrom(x)
         /\ x.marks = <<>> => rebased(x) = <<>>
<1>1. /\ x.marks \in Seq(Nat) /\ x.off \in Nat
      /\ \A k \in DOMAIN x.marks : x.marks[1] <= x.marks[k] /\ x.marks[k] <= x.off
  BY DEF Fits, Scanner
<1>. DEFINE n == Len(x.marks)
<1>2. n \in Nat /\ DOMAIN x.marks = 1 .. n /\ \A k \in 1 .. n : x.marks[k] \in Nat
  BY <1>1
<1>3. /\ keepFrom(x) \in Nat
      /\ x.marks # <<>> => keepFrom(x) = x.marks[1]
  BY RefillSizes DEF keepFrom
<1>4. n > 0 => x.marks # <<>>
  BY <1>1
<1>. HIDE DEF n
<1>5. /\ rebased(x) = [k \in 1 .. n |-> x.marks[k] - keepFrom(x)]
      /\ DOMAIN rebased(x) = 1 .. n
      /\ \A k \in 1 .. n : rebased(x)[k] = x.marks[k] - keepFrom(x)
  BY <1>2 DEF rebased
<1>6. \A k \in 1 .. n : rebased(x)[k] \in Nat
  <2>. SUFFICES ASSUME NEW k \in 1 .. n  PROVE rebased(x)[k] \in Nat
    OBVIOUS
  <2>1. keepFrom(x) = x.marks[1] /\ x.marks[1] <= x.marks[k]
    BY <1>1, <1>2, <1>3, <1>4
  <2>2. QED
    BY <1>2, <1>3, <1>5, <2>1
<1>7. rebased(x) \in Seq(Nat) /\ Len(rebased(x)) = n
  BY <1>2, <1>5, <1>6
<1>8. ASSUME NEW k \in 1 .. n
      PROVE  rebased(x)[1] <= rebased(x)[k] /\ rebased(x)[k] <= x.off - keepFrom(x)
  <2>1. 1 \in 1 .. n /\ x.marks[1] <= x.marks[k] /\ x.marks[k] <= x.off
    BY <1>1, <1>2
  <2>2. /\ rebased(x)[1] = x.marks[1] - keepFrom(x)
        /\ rebased(x)[k] = x.marks[k] - keepFrom(x)
        /\ x.marks[1] \in Nat /\ x.marks[k] \in Nat
    BY <1>2, <1>5, <2>1
  <2>3. PICK first \in Nat, mark \in Nat, from \in Nat, off \in Nat :
             first = x.marks[1] /\ mark = x.marks[k] /\ from = keepFrom(x) /\ off = x.off
    BY <1>1, <1>3, <2>2
  <2>4. first <= mark /\ mark <= off
    BY <2>1, <2>3
  <2>5. first - from <= mark - from /\ mark - from <= off - from
    BY <2>4
  <2>6. QED
    BY <2>2, <2>3, <2>5
<1>9. x.marks = <<>> => rebased(x) = <<>>
  BY DEF rebased
<1>10. QED
  BY <1>2, <1>5, <1>7, <1>8, <1>9 DEF n

\* What a read that goes well delivers.
Delivers(x, n) == n = Smaller(room(x), Total - x.read)

\* A read that goes well.
LEMMA RefilledSound ==
  ASSUME NEW x, NEW p \in Nat, NEW m, Sound(x, p, m), x.r, NEW n \in Nat, Delivers(x, n)
  PROVE  /\ Sound(refilled(x, n), p, m)
         /\ refilled(x, n).peeked = x.peeked
         /\ refilled(x, n).err = x.err /\ ~refilled(x, n).failed
         /\ refilled(x, n).len >= x.len
         /\ x.marks = <<>> => refilled(x, n).marks = <<>>
         /\ (x.marks = <<>> \/ x.len > UTFMax) /\ refilled(x, n).r =>
                refilled(x, n).len > 2 * UTFMax
<1>. DEFINE y == refilled(x, n)
<1>1. x \in Scanner /\ Fits(x, p) /\ ~x.failed /\ Total \in Nat /\ stream \in Streams
  BY StreamFacts DEF Sound, Fits
<1>2. PICK raw \in Nat, off \in Nat, len \in Nat, read \in Nat, total \in Nat :
           /\ raw = x.raw /\ off = x.off /\ len = x.len /\ read = x.read /\ total = Total
           /\ off <= raw /\ len = raw - off
           /\ p + len <= read /\ read <= total
  BY <1>1 DEF Fits, Scanner
<1>3. PICK keep \in Nat, kept \in Nat :
           keep = keepFrom(x) /\ keep <= off /\ kept = raw - keep
  <2>1. PICK keep \in Nat : keep = keepFrom(x) /\ keep <= off
    BY <1>1, <1>2, RefillSizes
  <2>2. raw - keep \in Nat
    BY <1>2, <2>1
  <2>3. QED
    BY <2>1, <2>2
<1>3a. PICK larger \in Nat, space \in Nat :
           larger = newCap(x) /\ space = room(x) /\ space = larger - kept
  <2>1. PICK larger \in Nat, space \in Nat : larger = newCap(x) /\ space = room(x)
    BY <1>1, RefillSizes
  <2>2. room(x) = newCap(x) - (x.raw - keepFrom(x))
    BY DEF room
  <2>3. QED
    BY <1>2, <1>3, <2>1, <2>2
<1>4. n <= space /\ read + n <= total /\ (n # space => read + n = total)
  <2>1. n = Smaller(space, total - read)
    BY <1>2, <1>3a DEF Delivers
  <2>2. QED
    BY <1>2, <2>1 DEF Smaller
<1>5. /\ y.mem = filled(x, n) /\ y.raw = kept + n /\ y.off = off - keep
      /\ y.len = len + n /\ y.peeked = x.peeked /\ y.marks = rebased(x)
      /\ y.r = (n = space) /\ y.err = x.err /\ y.lastErr = x.lastErr
      /\ y.read = read + n /\ y.failed = x.failed
  BY <1>1, <1>2, <1>3, <1>3a DEF refilled, Scanner
<1>6. /\ filled(x, n) \in Seq(Nat) /\ Len(filled(x, n)) = larger
      /\ \A i \in 1 .. kept : filled(x, n)[i] = x.mem[keep + i]
      /\ \A i \in 1 .. n : filled(x, n)[kept + i] = read + i
  <2>1. n <= room(x) /\ kept = x.raw - keepFrom(x)
    BY <1>2, <1>3, <1>4, <1>3a
  <2>2. /\ filled(x, n) \in Seq(Nat) /\ Len(filled(x, n)) = newCap(x)
        /\ \A i \in 1 .. x.raw - keepFrom(x) : filled(x, n)[i] = x.mem[keepFrom(x) + i]
        /\ \A i \in 1 .. n : filled(x, n)[x.raw - keepFrom(x) + i] = x.read + i
    BY <1>1, <2>1, FilledArray
  <2>3. QED
    BY <1>2, <1>3, <1>3a, <2>1, <2>2
<1>7. /\ rebased(x) \in Seq(Nat) /\ Len(rebased(x)) = Len(x.marks)
      /\ DOMAIN rebased(x) = DOMAIN x.marks
      /\ \A k \in DOMAIN x.marks :
             /\ rebased(x)[k] = x.marks[k] - keep
             /\ rebased(x)[1] <= rebased(x)[k] /\ rebased(x)[k] <= off - keep
      /\ x.marks = <<>> => rebased(x) = <<>>
  BY <1>1, <1>2, <1>3, RebasedMarks
<1>8. y \in Scanner
  <2>1. kept + n \in Nat /\ off - keep \in Nat /\ len + n \in Nat /\ read + n \in Nat
    BY <1>3, <1>4
  <2>2. (n = space) \in BOOLEAN
    OBVIOUS
  <2>3. y = [x EXCEPT !.mem = filled(x, n), !.raw = kept + n, !.off = off - keep,
                      !.len = len + n, !.marks = rebased(x), !.r = (n = space),
                      !.read = read + n]
    BY <1>1, <1>2, <1>3, <1>3a DEF refilled, Scanner
  <2>4. QED
    BY <1>1, <1>6, <1>7, <2>1, <2>2, <2>3 DEF Scanner
<1>9. PeekedSize(y) = PeekedSize(x)
  BY <1>5 DEF PeekedSize
<1>. HIDE DEF y
<1>10. Fits(y, p)
  <2>1. cap(y) = larger /\ larger >= cap(x) /\ y.raw <= cap(y)
    <3>1. cap(y) = larger /\ larger >= cap(x)
      BY <1>1, <1>3a, <1>5, <1>6, RefillSizes DEF cap
    <3>2. kept + n <= larger
      BY <1>4, <1>3a
    <3>3. QED
      BY <1>5, <3>1, <3>2
  <2>2. y.off <= y.raw /\ y.len = y.raw - y.off
    <3>1. off <= raw /\ len = raw - off
      BY <1>2
    <3>2. off - keep <= kept + n /\ len + n = kept + n - (off - keep)
      BY <1>3, <3>1
    <3>3. QED
      BY <1>5, <3>2
  <2>3. p + y.len <= y.read /\ y.read <= Total
    <3>1. p + (len + n) <= read + n
      BY <1>2, <1>4
    <3>2. QED
      BY <1>2, <1>4, <1>5, <3>1
  <2>4. Len(y.peeked) <= 3
    BY <1>1, <1>5 DEF Fits
  <2>5. PeekedSize(y) <= y.len
    <3>1. PeekedSize(x) \in Nat /\ PeekedSize(x) <= len
      BY <1>1, <1>2, PeekedSizeFacts DEF Fits
    <3>2. QED
      BY <1>2, <1>4, <1>5, <1>9, <3>1
  <2>6. \A k \in DOMAIN y.marks : y.marks[1] <= y.marks[k] /\ y.marks[k] <= y.off
    BY <1>5, <1>7
  <2>7. y.r => ~y.failed /\ BufferSize <= cap(y)
    <3>1. BufferSize <= cap(x) /\ BufferSize \in Nat /\ cap(x) \in Nat
      BY <1>1, SizesAssumption DEF Fits, cap, Scanner
    <3>2. QED
      BY <1>1, <1>5, <2>1, <3>1
  <2>8. QED
    BY <1>2, <1>8, <2>1, <2>2, <2>3, <2>4, <2>5, <2>6, <2>7 DEF Fits
<1>11. Window(x, p) /\ MarksDenote(x, m) /\ CacheHolds(x, p)
  BY <1>1 DEF Sound
<1>12. Window(y, p)
  <2>1. ASSUME NEW i \in 0 .. kept + n - 1
        PROVE  Byte(y, i) = read + n - (kept + n) + 1 + i
    <3>1. CASE i < kept
      <4>1. i + 1 \in 1 .. kept /\ keep + i \in 0 .. raw - 1 /\ keep + (i + 1) = keep + i + 1
        BY <1>2, <1>3, <3>1
      <4>2. Byte(y, i) = x.mem[keep + (i + 1)]
        BY <1>5, <1>6, <4>1 DEF Byte
      <4>3. Byte(x, keep + i) = read - raw + 1 + (keep + i)
        BY <1>2, <1>11, <4>1 DEF Window
      <4>4. Byte(y, i) = read - raw + 1 + (keep + i)
        BY <4>1, <4>2, <4>3 DEF Byte
      <4>5. read - raw + 1 + (keep + i) = read + n - (kept + n) + 1 + i
        BY <1>3
      <4>6. QED
        BY <4>4, <4>5
    <3>2. CASE ~(i < kept)
      <4>. DEFINE j == i + 1 - kept
      <4>1. /\ j \in 1 .. n /\ kept + j = i + 1
            /\ read + j = read + n - (kept + n) + 1 + i
        BY <3>2
      <4>2. Byte(y, i) = read + j
        BY <1>5, <1>6, <4>1 DEF Byte
      <4>3. QED
        BY <4>1, <4>2
    <3>3. QED
      BY <3>1, <3>2
  <2>2. p = y.read - y.len
    <3>1. p = read - len
      BY <1>2, <1>11 DEF Window
    <3>2. p = read + n - (len + n)
      BY <1>2, <1>4, <3>1
    <3>3. QED
      BY <1>5, <3>2
  <2>3. ~y.r => y.read = Total
    BY <1>2, <1>4, <1>5
  <2>4. QED
    BY <1>5, <2>1, <2>2, <2>3 DEF Window
<1>13. MarksDenote(y, m)
  <2>1. Len(x.marks) = Len(m) /\ DOMAIN m = DOMAIN x.marks
    BY <1>1, <1>11 DEF MarksDenote, Sound, Scanner
  <2>2. ASSUME NEW k \in DOMAIN m
        PROVE  y.read - y.raw + y.marks[k] = m[k]
    <3>1. PICK mark \in Nat : mark = x.marks[k]
      BY <1>1, <2>1, <2>2 DEF Scanner
    <3>2. y.marks[k] = mark - keep
      BY <1>5, <1>7, <2>1, <2>2, <3>1
    <3>3. m[k] = read - raw + mark
      BY <1>2, <1>11, <2>2, <3>1 DEF MarksDenote
    <3>4. read + n - (kept + n) + (mark - keep) = read - raw + mark
      BY <1>3
    <3>5. QED
      BY <1>5, <3>2, <3>3, <3>4
  <2>3. QED
    BY <1>5, <1>7, <2>1, <2>2 DEF MarksDenote
<1>14. CacheHolds(y, p)
  BY <1>5, <1>11 DEF CacheHolds
<1>15. y.len >= x.len
  BY <1>2, <1>4, <1>5
<1>16. (x.marks = <<>> \/ x.len > UTFMax) /\ y.r => y.len > 2 * UTFMax
  <2>1. x.marks = <<>> \/ x.len > UTFMax => x.len + room(x) > 2 * UTFMax
    BY <1>1, RefillSizes
  <2>2. y.r => y.len = x.len + room(x)
    BY <1>2, <1>3a, <1>5
  <2>3. QED
    BY <2>1, <2>2
<1>17. Sound(y, p, m)
  BY <1>1, <1>10, <1>12, <1>13, <1>14 DEF Sound
<1>18. QED
  BY <1>1, <1>5, <1>7, <1>15, <1>16, <1>17 DEF y

\* A read that fails leaves s.raw and s.input where they were: nothing is claimed of
\* the bytes any more, but every index is still inside its array.
LEMMA RefillFailedSound ==
  ASSUME NEW x, NEW p, NEW m, Sound(x, p, m), x.r, NEW n \in Nat,
         n < room(x), n <= Total - x.read
  PROVE  /\ Sound(refillFailed(x, n), p, m)
         /\ refillFailed(x, n).peeked = x.peeked
         /\ refillFailed(x, n).failed /\ ~refillFailed(x, n).r
         /\ refillFailed(x, n).len = x.len
         /\ x.marks = <<>> => refillFailed(x, n).marks = <<>>
<1>. DEFINE y == refillFailed(x, n)
            mem == IF grows(x) THEN moved(x) ELSE filled(x, n)
<1>1. x \in Scanner /\ Fits(x, p) /\ Total \in Nat /\ x.read \in Nat
  BY StreamFacts DEF Sound, Fits, Scanner
<1>2. /\ y.mem = mem /\ y.raw = x.raw /\ y.off = x.off /\ y.len = x.len
      /\ y.peeked = x.peeked /\ y.marks = rebased(x) /\ ~y.r /\ y.failed
      /\ y.read = x.read + n
  BY <1>1 DEF refillFailed, Scanner
<1>3. /\ rebased(x) \in Seq(Nat) /\ Len(rebased(x)) = Len(x.marks)
      /\ DOMAIN rebased(x) = DOMAIN x.marks
      /\ \A k \in DOMAIN x.marks :
             /\ rebased(x)[k] \in Nat
             /\ rebased(x)[1] <= rebased(x)[k] /\ rebased(x)[k] <= x.off - keepFrom(x)
      /\ x.marks = <<>> => rebased(x) = <<>>
  BY <1>1, RebasedMarks
<1>4. mem \in Seq(Nat) /\ Len(mem) >= x.raw
  <2>1. CASE grows(x)
    <3>1. PICK raw \in Nat, keep \in Nat, c \in Nat :
               /\ raw = x.raw /\ keep = keepFrom(x) /\ c = Len(x.mem)
               /\ keep <= raw /\ raw <= c
      <4>1. /\ x.mem \in Seq(Nat) /\ x.raw \in Nat /\ x.off \in Nat
            /\ x.off <= x.raw /\ x.raw <= Len(x.mem)
        BY <1>1 DEF Fits, Scanner, cap
      <4>2. keepFrom(x) \in Nat /\ keepFrom(x) <= x.off
        BY <1>1, RefillSizes
      <4>3. QED
        BY <4>1, <4>2
    <3>2. DOMAIN x.mem = 1 .. c /\ \A i \in 1 .. c : x.mem[i] \in Nat
      BY <1>1, <3>1 DEF Scanner
    <3>3. moved(x) = [i \in 1 .. c |-> x.mem[IF i <= raw - keep THEN keep + i ELSE i]]
      BY <3>1, <3>2 DEF moved
    <3>4. ASSUME NEW i \in 1 .. c
          PROVE  moved(x)[i] \in Nat
      <4>1. i <= raw - keep => keep + i \in 1 .. c
        BY <3>1
      <4>2. QED
        BY <3>2, <3>3, <4>1
    <3>5. moved(x) \in Seq(Nat) /\ Len(moved(x)) = c
      BY <3>3, <3>4
    <3>6. QED
      BY <2>1, <3>1, <3>5
  <2>2. CASE ~grows(x)
    <3>1. room(x) \in Nat /\ newCap(x) \in Nat /\ newCap(x) >= cap(x)
      BY <1>1, RefillSizes
    <3>2. n <= room(x)
      BY <3>1
    <3>3. filled(x, n) \in Seq(Nat) /\ Len(filled(x, n)) = newCap(x)
      BY <1>1, <3>2, FilledArray
    <3>4. x.raw <= cap(x) /\ x.raw \in Nat /\ cap(x) \in Nat
      BY <1>1 DEF Fits, Scanner, cap
    <3>5. QED
      BY <2>2, <3>1, <3>3, <3>4
  <2>3. QED
    BY <2>1, <2>2
<1>. HIDE DEF mem
<1>5. y \in Scanner
  <2>1. y = [x EXCEPT !.mem = mem, !.marks = rebased(x), !.r = FALSE, !.err = "error",
                      !.lastErr = TRUE, !.read = x.read + n, !.failed = TRUE]
    BY <1>1 DEF refillFailed, Scanner, mem
  <2>2. x.read + n \in Nat
    BY <1>1
  <2>3. QED
    BY <1>1, <1>3, <1>4, <2>1, <2>2 DEF Scanner
<1>6. PeekedSize(y) = PeekedSize(x)
  BY <1>2 DEF PeekedSize
<1>. HIDE DEF y
<1>7. p + y.len <= y.read /\ y.read <= Total
  <2>1. p \in Nat /\ x.len \in Nat /\ p + x.len <= x.read
    BY <1>1 DEF Fits, Scanner
  <2>2. QED
    BY <1>1, <1>2, <2>1
<1>8. \A k \in DOMAIN y.marks : y.marks[1] <= y.marks[k] /\ y.marks[k] <= y.off
  <2>1. keepFrom(x) \in Nat /\ x.off \in Nat
    BY <1>1, RefillSizes DEF Scanner
  <2>2. ASSUME NEW k \in DOMAIN x.marks
        PROVE  rebased(x)[k] <= x.off
    BY <1>3, <2>1
  <2>3. QED
    BY <1>2, <1>3, <2>2
<1>9. Fits(y, p)
  <2>1. /\ x.off <= x.raw /\ x.len = x.raw - x.off /\ Len(x.peeked) <= 3
        /\ PeekedSize(x) <= x.len /\ p \in Nat
    BY <1>1 DEF Fits
  <2>2. y.raw <= cap(y)
    BY <1>2, <1>4 DEF cap
  <2>3. QED
    BY <1>2, <1>5, <1>6, <1>7, <1>8, <2>1, <2>2 DEF Fits
<1>10. Sound(y, p, m)
  BY <1>2, <1>9 DEF Sound
<1>11. QED
  BY <1>2, <1>3, <1>10 DEF y

\* Whatever a refill does.
LEMMA RefillSound ==
  ASSUME NEW x, NEW p, NEW m, Sound(x, p, m), NEW y \in refill(x)
  PROVE  /\ Sound(y, p, m)
         /\ y.peeked = x.peeked /\ y.len >= x.len
         /\ x.failed => y.failed
         /\ ~y.failed => y.err = x.err
         /\ x.marks = <<>> => y.marks = <<>>
         /\ (x.marks = <<>> \/ x.len > UTFMax) /\ y.r => y.len > 2 * UTFMax
         /\ ~x.r => y = x
<1>1. /\ x \in Scanner /\ p \in Nat /\ x.read \in Nat /\ x.read <= Total /\ Total \in Nat
      /\ x.r => ~x.failed
  BY StreamFacts DEF Sound, Fits, Scanner
<1>2. CASE ~x.r
  BY <1>1, <1>2 DEF refill, Scanner
<1>3. CASE x.r
  <2>1. room(x) \in Nat
    BY <1>3, RefillSizes DEF Sound
  <2>2. PICK n \in Nat : n = Smaller(room(x), Total - x.read)
    BY <1>1, <2>1 DEF Smaller
  <2>3. CASE y = refilled(x, n)
    <3>1. Delivers(x, n)
      BY <2>2 DEF Delivers
    <3>2. QED
      BY <1>1, <1>3, <2>3, <3>1, RefilledSound
  <2>4. CASE \E k \in Faults \cap (0 .. Smaller(room(x) - 1, Total - x.read)) :
                 y = refillFailed(x, k)
    <3>1. PICK k \in 0 .. Smaller(room(x) - 1, Total - x.read) : y = refillFailed(x, k)
      BY <2>4
    <3>2. k \in Nat /\ k < room(x) /\ k <= Total - x.read
      BY <1>1, <2>1, <3>1 DEF Smaller
    <3>3. /\ Sound(y, p, m) /\ y.peeked = x.peeked /\ y.failed /\ ~y.r /\ y.len = x.len
          /\ x.marks = <<>> => y.marks = <<>>
      BY <1>3, <3>1, <3>2, RefillFailedSound
    <3>4. QED
      BY <1>1, <1>3, <3>3 DEF Scanner
  <2>5. QED
    BY <1>3, <2>2, <2>3, <2>4 DEF refill
<1>4. QED
  BY <1>2, <1>3

----------------------------------------------------------------------------
(* Lemmas about looking ahead and consuming.                               *)

\* Whatever the bytes are, a character that is found lies in the buffer.
LEMMA DecodesInBuffer ==
  ASSUME NEW x, NEW p, Fits(x, p), stream \in Streams, NEW k \in Nat,
         DecodeRune(x, k).rune \notin {Eof, Invalid}
  PROVE  DecodeRune(x, k) \in Peeked /\ k + DecodeRune(x, k).size <= x.len
<1>1. PICK raw \in Nat, off \in Nat, len \in Nat :
           raw = x.raw /\ off = x.off /\ len = x.len /\ len = raw - off
  BY DEF Fits, Scanner
<1>. DEFINE i == off + k
            r == CHOOSE n \in DOMAIN stream : First(n) = Byte(x, i)
            tail == i + 1 .. i + Size(r) - 1
            whole == \A j \in tail : Byte(x, j) = Byte(x, i) + (j - i)
<1>2. /\ i < raw /\ Byte(x, i) \in Leads /\ ~(i + Size(r) > raw)
      /\ DecodeRune(x, k) = [rune |-> IF whole THEN r ELSE Other, size |-> Size(r)]
  BY <1>1 DEF DecodeRune, Eof, Invalid
<1>3. r \in DOMAIN stream
  BY <1>2 DEF Leads
<1>4. Size(r) \in 1 .. UTFMax /\ Size(r) \in Nat /\ r \in Int
  BY <1>3, StreamFacts
<1>5. DecodeRune(x, k) \in Peeked
  BY <1>2, <1>4 DEF Peeked, Other
<1>6. k + Size(r) <= len
  <2>1. PICK size \in Nat : size = Size(r)
    BY <1>4
  <2>2. ~(i + size > raw)
    BY <1>2, <2>1
  <2>3. QED
    BY <1>1, <2>1, <2>2
<1>7. QED
  BY <1>1, <1>2, <1>5, <1>6

\* While the buffer is a window, the character found is the one that is there; there
\* is none exactly when the bytes end before it does.
Decoded(x, k, i) ==
    \/ DecodeRune(x, k).rune = Eof /\ k = x.len
    \/ DecodeRune(x, k).rune = Invalid /\ i \in DOMAIN stream /\ k + Size(i) > x.len
    \/ /\ DecodeRune(x, k) = [rune |-> i, size |-> Size(i)]
       /\ i \in DOMAIN stream /\ k + Size(i) <= x.len

LEMMA DecodesWindow ==
  ASSUME NEW x, NEW p \in Nat, NEW m, Sound(x, p, m), ~x.failed,
         NEW k \in 0 .. x.len, NEW i, Begins(i, p, k)
  PROVE  Decoded(x, k, i)
<1>1. PICK raw \in Nat, off \in Nat, len \in Nat, read \in Nat, first \in Nat, total \in Nat :
           /\ raw = x.raw /\ off = x.off /\ len = x.len /\ read = x.read
           /\ first = First(i) /\ total = Total
  BY StreamFacts DEF Sound, Fits, Scanner, Begins
<1>2. /\ len = raw - off /\ p = read - len /\ read <= total
      /\ k \in Nat /\ first = p + k + 1 /\ k <= len
  BY <1>1 DEF Sound, Fits, Window, Begins
<1>3. \A j \in 0 .. raw - 1 : Byte(x, j) = read - raw + 1 + j
  BY <1>1 DEF Sound, Window
<1>4. stream \in Streams /\ i \in 1 .. Len(stream) + 1
  BY DEF Sound, Begins
<1>5. CASE ~(k < len)
  <2>1. k = len /\ off + k >= raw
    BY <1>2, <1>5
  <2>2. QED
    BY <1>1, <2>1 DEF DecodeRune, Decoded
<1>6. CASE k < len
  <2>1. PICK b \in Nat : b = off + k
    BY <1>2
  <2>2. b \in 0 .. raw - 1 /\ read - raw + 1 + b = first
    BY <1>2, <1>6, <2>1
  <2>3. Byte(x, b) = first
    BY <1>3, <2>2
  <2>4. i \in DOMAIN stream
    <3>1. first # total + 1
      BY <1>2, <1>6
    <3>2. i # Len(stream) + 1
      BY <1>1, <1>4, <3>1, StreamFacts
    <3>3. QED
      BY <1>4, <3>2, StreamFacts
  <2>5. ASSUME NEW n \in DOMAIN stream, First(n) = first
        PROVE  n = i
    <3>1. n \in 1 .. Len(stream) + 1
      BY <1>4, <2>5, StreamFacts
    <3>2. QED
      BY <1>1, <1>4, <2>5, <3>1, FirstOrders
  <2>6. (CHOOSE n \in DOMAIN stream : First(n) = Byte(x, b)) = i
    BY <1>1, <2>3, <2>4, <2>5
  <2>7. PICK size \in Nat : size = Size(i) /\ First(i + 1) = first + size
    BY <1>1, <1>4, <2>4, StreamFacts
  <2>8. Byte(x, b) \in Leads
    BY <1>1, <2>3, <2>4 DEF Leads
  <2>9. CASE b + size > raw
    <3>1. DecodeRune(x, k).rune = Invalid
      <4>1. ~(b >= raw)
        BY <2>2
      <4>2. QED
        BY <1>1, <2>1, <2>6, <2>7, <2>9, <4>1 DEF DecodeRune
    <3>2. k + size > len
      BY <1>2, <2>1, <2>9
    <3>3. QED
      BY <1>1, <2>4, <2>7, <3>1, <3>2 DEF Decoded
  <2>10. CASE ~(b + size > raw)
    <3>1. k + size <= len
      BY <1>2, <2>1, <2>10
    <3>2. ASSUME NEW j \in b + 1 .. b + size - 1
          PROVE  Byte(x, j) = Byte(x, b) + (j - b) /\ Byte(x, j) \notin Leads
      <4>1. j \in 0 .. raw - 1 /\ read - raw + 1 + j = first + (j - b)
        BY <2>2, <2>10
      <4>2. Byte(x, j) = first + (j - b)
        BY <1>3, <4>1
      <4>3. PICK y \in Nat : y = Byte(x, j) /\ y > first /\ y < first + size
        BY <4>2
      <4>4. ASSUME NEW n \in DOMAIN stream, First(n) = y
            PROVE  FALSE
        <5>. DEFINE last == Len(stream)
        <5>a. last \in Nat /\ DOMAIN stream = 1 .. last
          BY <1>4, StreamFacts
        <5>b. n \in 1 .. last /\ i \in 1 .. last
          BY <2>4, <4>4, <5>a
        <5>. HIDE DEF last
        <5>c. n \in 1 .. last + 1 /\ i + 1 \in 1 .. last + 1
          BY <5>a, <5>b
        <5>1. n \in 1 .. Len(stream) + 1 /\ i + 1 \in 1 .. Len(stream) + 1
          BY <5>c DEF last
        <5>2. First(i) < First(n) /\ First(n) < First(i + 1)
          BY <1>1, <2>7, <4>3, <4>4
        <5>3. i \in Nat /\ n \in Nat /\ i < n /\ n < i + 1
          BY <1>4, <5>1, <5>2, FirstOrders
        <5>4. QED
          BY <5>3
      <4>5. QED
        BY <2>3, <4>2, <4>3, <4>4 DEF Leads
    <3>3. DecodeRune(x, k) = [rune |-> i, size |-> size]
      <4>1. ~(b >= raw)
        BY <2>2
      <4>2. /\ ~ \E j \in b + 1 .. b + size - 1 : Byte(x, j) \in Leads
            /\ \A j \in b + 1 .. b + size - 1 : Byte(x, j) = Byte(x, b) + (j - b)
        BY <3>2
      <4>3. QED
        BY <1>1, <2>1, <2>6, <2>7, <2>8, <2>10, <4>1, <4>2 DEF DecodeRune
    <3>4. QED
      BY <1>1, <2>4, <2>7, <3>1, <3>3 DEF Decoded
  <2>11. QED
    BY <2>9, <2>10
<1>7. QED
  BY <1>2, <1>5, <1>6

\* The character behind a character.
LEMMA NextBegins ==
  ASSUME stream \in Streams, NEW p \in Nat, NEW k \in Nat, NEW i, Begins(i, p, k),
         i \in DOMAIN stream, NEW l \in Nat, l = Size(i)
  PROVE  Begins(i + 1, p, k + l)
<1>1. PICK f \in Nat : f = First(i)
  BY StreamFacts DEF Begins
<1>2. f = p + k + 1
  BY <1>1 DEF Begins
<1>3. First(i + 1) = f + l /\ i + 1 \in 1 .. Len(stream) + 1
  BY <1>1, StreamFacts
<1>4. QED
  BY <1>2, <1>3 DEF Begins

\* Behind the cache is the character that comes after those in it.
LEMMA BehindCache ==
  ASSUME NEW x, NEW p \in Nat, Fits(x, p), stream \in Streams, CacheHolds(x, p),
         NEW i, Begins(i, p, 0)
  PROVE  Begins(i + Len(x.peeked), p, PeekedSize(x))
<1>1. x \in Scanner
  BY DEF Fits
<1>2. PICK n \in 0 .. 3 : n = Len(x.peeked) /\ DOMAIN x.peeked = 1 .. n
  <2>1. PICK n \in Nat : n = Len(x.peeked) /\ DOMAIN x.peeked = 1 .. n
    BY <1>1, CachedSizes
  <2>2. n <= 3
    BY <2>1 DEF Fits
  <2>3. n \in 0 .. 3
    BY <2>2
  <2>4. QED
    BY <2>1, <2>3
<1>3. i \in Nat
  BY StreamFacts DEF Begins
<1>4. \A k \in 1 .. n : /\ i + k - 1 \in DOMAIN stream
                        /\ x.peeked[k].size = Size(i + k - 1) /\ Size(i + k - 1) \in Nat
  <2>1. ASSUME NEW k \in 1 .. n
        PROVE  i + k - 1 \in DOMAIN stream /\ x.peeked[k].size = Size(i + k - 1)
    <3>1. \A j \in DOMAIN x.peeked :
              /\ i + j - 1 \in DOMAIN stream
              /\ x.peeked[j] = [rune |-> i + j - 1, size |-> Size(i + j - 1)]
      BY DEF CacheHolds
    <3>2. k \in DOMAIN x.peeked
      BY <1>2
    <3>3. x.peeked[k] = [rune |-> i + k - 1, size |-> Size(i + k - 1)]
      BY <3>1, <3>2
    <3>4. x.peeked[k].size = Size(i + k - 1)
      BY <3>3
    <3>5. QED
      BY <3>1, <3>2, <3>4
  <2>2. QED
    BY <2>1, StreamFacts
<1>5. CASE n = 0
  <2>1. PeekedSize(x) = 0
    BY <1>1, <1>2, <1>5, PeekedSizeFacts
  <2>2. QED
    BY <1>2, <1>3, <1>5, <2>1
<1>6. CASE n \in {1, 2, 3}
  <2>1. PICK a \in Nat : a = Size(i) /\ a = x.peeked[1].size /\ i \in DOMAIN stream
    BY <1>3, <1>4, <1>6
  <2>2. Begins(i + 1, p, 0 + a)
    BY <2>1, NextBegins
  <2>3. CASE n = 1
    <3>1. PeekedSize(x) = a
      BY <1>1, <1>2, <2>1, <2>3, PeekedSizeFacts
    <3>2. QED
      BY <1>2, <2>2, <2>3, <3>1
  <2>4. CASE n \in {2, 3}
    <3>1. /\ 2 \in 1 .. n /\ i + 2 - 1 = i + 1
      BY <1>3, <2>4
    <3>2. PICK b \in Nat : b = Size(i + 1) /\ b = x.peeked[2].size /\ i + 1 \in DOMAIN stream
      BY <1>4, <3>1
    <3>3. Begins(i + 1 + 1, p, 0 + a + b)
      BY <2>2, <3>2, NextBegins
    <3>4. CASE n = 2
      <4>1. PeekedSize(x) = a + b
        BY <1>1, <1>2, <2>1, <3>2, <3>4, PeekedSizeFacts
      <4>2. i + 1 + 1 = i + n /\ 0 + a + b = a + b
        BY <1>3, <3>4
      <4>3. QED
        BY <1>2, <3>3, <4>1, <4>2
    <3>5. CASE n = 3
      <4>1. 3 \in 1 .. n /\ i + 3 - 1 = i + 1 + 1
        BY <1>3, <3>5
      <4>2. PICK c \in Nat : /\ c = Size(i + 1 + 1) /\ c = x.peeked[3].size
                             /\ i + 1 + 1 \in DOMAIN stream
        BY <1>4, <4>1
      <4>3. Begins(i + 1 + 1 + 1, p, 0 + a + b + c)
        BY <3>3, <4>2, NextBegins
      <4>4. PeekedSize(x) = a + b + c
        BY <1>1, <1>2, <2>1, <3>2, <3>5, <4>2, PeekedSizeFacts
      <4>5. i + 1 + 1 + 1 = i + n /\ 0 + a + b + c = a + b + c
        BY <1>3, <3>5
      <4>6. QED
        BY <1>2, <4>3, <4>4, <4>5
    <3>6. QED
      BY <2>4, <3>4, <3>5
  <2>5. QED
    BY <1>6, <2>3, <2>4
<1>7. QED
  BY <1>5, <1>6

Caches(x, n) == Len(x.peeked) = n

\* One more character in the cache is the one that comes after those in it.
LEMMA CachedSound ==
  ASSUME NEW x, NEW p \in Nat, NEW m, Sound(x, p, m), NEW n \in 0 .. 2, Caches(x, n)
  PROVE  /\ Sound(cached(x), p, m)
         /\ cached(x) = [x EXCEPT !.peeked = cached(x).peeked]
         /\ cached(x) = x \/ Caches(cached(x), n + 1)
         /\ DecodeRune(x, PeekedSize(x)).rune \notin {Eof, Invalid} =>
                /\ Caches(cached(x), n + 1)
                /\ cached(x).peeked[n + 1] = DecodeRune(x, PeekedSize(x))
         /\ DecodeRune(x, PeekedSize(x)).rune \in {Eof, Invalid} => cached(x) = x
<1>. DEFINE y == cached(x)
            d == DecodeRune(x, PeekedSize(x))
<1>1. x \in Scanner /\ Fits(x, p) /\ stream \in Streams
  BY DEF Sound, Fits
<1>2. PICK size \in Nat : size = PeekedSize(x)
  BY <1>1, PeekedSizeFacts
<1>3. CASE d.rune \in {Eof, Invalid}
  <2>1. y = x
    BY <1>3 DEF cached
  <2>2. x = [x EXCEPT !.peeked = x.peeked]
    BY <1>1 DEF Scanner
  <2>3. QED
    BY <1>3, <2>1, <2>2
<1>4. CASE d.rune \notin {Eof, Invalid}
  <2>1. y = [x EXCEPT !.peeked = Append(x.peeked, d)]
    BY <1>4 DEF cached
  <2>2. d \in Peeked /\ PeekedSize(x) + d.size <= x.len
    BY <1>1, <1>2, <1>4, DecodesInBuffer
  <2>. HIDE DEF d
  <2>3. x.peeked \in Seq(Peeked) /\ Append(x.peeked, d) \in Seq(Peeked)
    BY <1>1, <2>2 DEF Scanner
  <2>4. y \in Scanner /\ y.peeked = Append(x.peeked, d)
    BY <1>1, <2>1, <2>3 DEF Scanner
  <2>5. Len(x.peeked) = n /\ Len(y.peeked) = n + 1
    BY <2>3, <2>4 DEF Caches
  <2>6. /\ \A k \in 1 .. n : y.peeked[k] = x.peeked[k]
        /\ y.peeked[n + 1] = d
        /\ DOMAIN y.peeked = 1 .. n + 1
    BY <2>3, <2>4, <2>5
  <2>7. PeekedSize(y) = PeekedSize(x) + d.size
    BY <1>1, <2>4, <2>5, <2>6, AppendSize
  <2>8. /\ y.mem = x.mem /\ y.raw = x.raw /\ y.off = x.off /\ y.len = x.len
        /\ y.marks = x.marks /\ y.r = x.r /\ y.read = x.read /\ y.failed = x.failed
    BY <1>1, <2>1 DEF Scanner
  <2>. HIDE DEF y
  <2>9. Fits(y, p)
    <3>1. n + 1 <= 3
      OBVIOUS
    <3>2. Len(y.peeked) <= 3
      BY <2>5, <3>1
    <3>3. QED
      BY <1>1, <2>2, <2>4, <2>7, <2>8, <3>2 DEF Fits, cap
  <2>10. ASSUME ~x.failed
         PROVE  Window(y, p) /\ MarksDenote(y, m) /\ CacheHolds(y, p)
    <3>1. Window(x, p) /\ MarksDenote(x, m) /\ CacheHolds(x, p)
      BY <2>10 DEF Sound
    <3>2. Window(y, p) /\ MarksDenote(y, m)
      BY <2>8, <3>1 DEF Window, MarksDenote, Byte
    <3>3. ASSUME NEW i, Begins(i, p, 0), NEW k \in 1 .. n + 1
          PROVE  /\ i + k - 1 \in DOMAIN stream
                 /\ y.peeked[k] = [rune |-> i + k - 1, size |-> Size(i + k - 1)]
      <4>1. CASE k \in 1 .. n
        <5>1. k \in DOMAIN x.peeked
          BY <1>1, <2>5, <4>1, CachedSizes
        <5>2. QED
          BY <2>6, <3>1, <3>3, <4>1, <5>1 DEF CacheHolds
      <4>2. CASE k = n + 1
        <5>1. Begins(i + n, p, PeekedSize(x))
          BY <1>1, <2>5, <3>1, <3>3, BehindCache
        <5>2. PeekedSize(x) \in 0 .. x.len
          BY <1>1, <1>2 DEF Fits, Scanner
        <5>3. Decoded(x, PeekedSize(x), i + n)
          BY <2>10, <5>1, <5>2, DecodesWindow
        <5>4. i + n \in DOMAIN stream /\ d = [rune |-> i + n, size |-> Size(i + n)]
          BY <1>4, <5>3 DEF Decoded, d
        <5>5. i + k - 1 = i + n
          BY <3>3, <4>2 DEF Begins
        <5>6. QED
          BY <2>6, <4>2, <5>4, <5>5
      <4>3. QED
        BY <4>1, <4>2
    <3>4. CacheHolds(y, p)
      BY <2>6, <3>3 DEF CacheHolds
    <3>5. QED
      BY <3>2, <3>4
  <2>11. Sound(y, p, m)
    BY <2>8, <2>9, <2>10 DEF Sound
  <2>12. y = [x EXCEPT !.peeked = y.peeked]
    BY <2>1, <2>4
  <2>13. QED
    BY <1>4, <2>5, <2>6, <2>11, <2>12 DEF y, d, Caches
<1>5. QED
  BY <1>3, <1>4

\* Cutting a character off the front of s.input.
LEMMA ConsumeSound ==
  ASSUME NEW x, NEW p \in Nat, NEW m, Sound(x, p, m), ~x.failed => AtCharacter(p)
  PROVE  LET y == consume(x)  q == p + (y.off - x.off)
         IN  /\ q \in Nat /\ Sound(y, q, m)
             /\ ~x.failed => AtCharacter(q)
             /\ x.len <= y.len + UTFMax
             /\ y.r = x.r /\ y.failed = x.failed /\ y.err = x.err /\ y.mem = x.mem
<1>. DEFINE y == consume(x)
            q == p + (y.off - x.off)
            d == IF x.peeked # <<>> THEN x.peeked[1] ELSE DecodeRune(x, 0)
<1>1. x \in Scanner /\ Fits(x, p) /\ stream \in Streams
  BY DEF Sound, Fits
<1>2. PICK raw \in Nat, off \in Nat, len \in Nat :
           raw = x.raw /\ off = x.off /\ len = x.len /\ off <= raw /\ len = raw - off
  BY <1>1 DEF Fits, Scanner
<1>3. UTFMax \in Nat
  BY SizesAssumption
<1>4. CASE d.rune \in {Eof, Invalid}
  <2>1. y = x
    BY <1>4 DEF consume
  <2>2. q = p
    BY <1>2, <2>1
  <2>3. x.len <= x.len + UTFMax
    BY <1>2, <1>3
  <2>4. QED
    BY <2>1, <2>2, <2>3
<1>5. CASE d.rune \notin {Eof, Invalid}
  <2>1. PICK n \in 0 .. 3 : n = Len(x.peeked)
    <3>1. PICK n \in Nat : n = Len(x.peeked)
      BY <1>1, CachedSizes
    <3>2. n <= 3
      BY <1>1, <3>1 DEF Fits
    <3>3. n \in 0 .. 3
      BY <3>2
    <3>4. QED
      BY <3>1, <3>3
  <2>2. x.peeked \in Seq(Peeked) /\ (x.peeked = <<>> <=> n = 0)
    BY <1>1, <2>1 DEF Scanner
  <2>3. PICK ps \in Nat : ps = PeekedSize(x) /\ ps <= len
    BY <1>1, <1>2, PeekedSizeFacts DEF Fits
  <2>4. PICK size \in Nat :
             /\ size = d.size /\ size <= UTFMax /\ size <= len
             /\ n > 0 => size <= ps
    <3>1. CASE n = 0
      <4>1. DecodeRune(x, 0) \in Peeked /\ 0 + DecodeRune(x, 0).size <= x.len
        BY <1>1, <1>5, <2>2, <3>1, DecodesInBuffer
      <4>2. DecodeRune(x, 0).size \in 1 .. UTFMax
        BY <4>1 DEF Peeked
      <4>3. PICK size \in Nat : size = DecodeRune(x, 0).size /\ size <= UTFMax
        BY <1>3, <4>2
      <4>4. 0 + size <= len
        BY <1>2, <4>1, <4>3
      <4>5. QED
        BY <2>2, <3>1, <4>3, <4>4
    <3>2. CASE n > 0
      <4>1. /\ 1 \in DOMAIN x.peeked
            /\ \A k \in DOMAIN x.peeked : x.peeked[k].size \in Nat
            /\ DOMAIN x.peeked = 1 .. n
        BY <1>1, <2>1, <3>2, CachedSizes
      <4>2. x.peeked[1].size \in 1 .. UTFMax
        BY <1>1, <4>1, CachedSizes
      <4>3. PICK a \in Nat : a = x.peeked[1].size /\ a <= UTFMax
        BY <1>3, <4>2
      <4>4. a <= ps
        <5>1. CASE n = 1
          <6>1. ps = a
            BY <1>1, <2>1, <2>3, <4>3, <5>1, PeekedSizeFacts
          <6>2. QED
            BY <6>1
        <5>2. CASE n = 2
          <6>1. PICK b \in Nat : b = x.peeked[2].size
            BY <4>1, <5>2
          <6>2. ps = a + b
            BY <1>1, <2>1, <2>3, <4>3, <5>2, <6>1, PeekedSizeFacts
          <6>3. QED
            BY <6>2
        <5>3. CASE n = 3
          <6>1. PICK b \in Nat, c \in Nat : b = x.peeked[2].size /\ c = x.peeked[3].size
            BY <4>1, <5>3
          <6>2. ps = a + b + c
            BY <1>1, <2>1, <2>3, <4>3, <5>3, <6>1, PeekedSizeFacts
          <6>3. QED
            BY <6>2
        <5>4. QED
          BY <3>2, <5>1, <5>2, <5>3
      <4>5. QED
        BY <2>2, <2>3, <3>2, <4>3, <4>4
    <3>3. QED
      BY <3>1, <3>2
  <2>5. y = [x EXCEPT !.off = off + size, !.len = len - size,
                      !.peeked = IF x.peeked = <<>> THEN <<>> ELSE Tail(x.peeked)]
    BY <1>1, <1>2, <1>5, <2>4 DEF consume, Scanner
  <2>6. y \in Scanner
    <3>1. off + size \in Nat /\ len - size \in Nat
      BY <2>4
    <3>2. (IF x.peeked = <<>> THEN <<>> ELSE Tail(x.peeked)) \in Seq(Peeked)
      BY <2>2
    <3>3. QED
      BY <1>1, <2>5, <3>1, <3>2 DEF Scanner
  <2>7. /\ y.mem = x.mem /\ y.raw = raw /\ y.off = off + size /\ y.len = len - size
        /\ y.peeked = (IF x.peeked = <<>> THEN <<>> ELSE Tail(x.peeked))
        /\ y.marks = x.marks /\ y.r = x.r /\ y.err = x.err /\ y.read = x.read
        /\ y.failed = x.failed
    BY <1>1, <1>2, <2>5 DEF Scanner
  <2>8. q = p + size
    BY <1>2, <2>4, <2>7
  <2>. HIDE DEF y, q
  <2>9. PICK t \in Nat :
             /\ t = PeekedSize(y) /\ t <= len - size
             /\ Len(y.peeked) <= 3
             /\ \A k \in DOMAIN y.peeked : /\ n > 0 /\ k \in Nat /\ k + 1 \in DOMAIN x.peeked
                                           /\ y.peeked[k] = x.peeked[k + 1]
    <3>1. CASE n = 0
      <4>1. y.peeked = <<>>
        BY <2>2, <2>7, <3>1
      <4>2. PeekedSize(y) = 0 /\ Len(y.peeked) <= 3 /\ DOMAIN y.peeked = {}
        BY <2>6, <4>1, PeekedSizeFacts
      <4>3. 0 <= len - size
        BY <2>4
      <4>4. QED
        BY <4>2, <4>3
    <3>2. CASE n > 0
      <4>1. y.peeked = Tail(x.peeked) /\ DOMAIN x.peeked = 1 .. n /\ n \in 1 .. 3
        BY <1>1, <2>1, <2>2, <2>7, <3>2, CachedSizes
      <4>2. /\ Len(y.peeked) = n - 1 /\ DOMAIN y.peeked = 1 .. n - 1
            /\ \A k \in 1 .. n - 1 : y.peeked[k] = x.peeked[k + 1]
        BY <2>1, <2>2, <3>2, <4>1
      <4>3. PeekedSize(y) = PeekedSize(x) - x.peeked[1].size
        BY <1>1, <2>1, <2>6, <4>1, <4>2, TailSize
      <4>4. x.peeked[1].size = size
        BY <2>2, <2>4, <3>2
      <4>5. ps - size \in Nat /\ ps - size <= len - size /\ PeekedSize(y) = ps - size
        BY <2>3, <2>4, <3>2, <4>3, <4>4
      <4>6. Len(y.peeked) <= 3
        <5>1. n - 1 <= 3
          OBVIOUS
        <5>2. QED
          BY <4>2, <5>1
      <4>7. \A k \in 1 .. n - 1 : k \in Nat /\ k + 1 \in 1 .. n
        OBVIOUS
      <4>8. QED
        BY <3>2, <4>1, <4>2, <4>5, <4>6, <4>7
    <3>3. QED
      BY <3>1, <3>2
  <2>10. Fits(y, q)
    <3>1. /\ off + size <= raw /\ len - size = raw - (off + size)
          /\ p + size + (len - size) = p + len
      BY <1>2, <2>4
    <3>2. y.off <= y.raw /\ y.len = y.raw - y.off /\ PeekedSize(y) <= y.len
      BY <2>7, <2>9, <3>1
    <3>3. p + len <= x.read /\ x.read <= Total
      BY <1>1, <1>2 DEF Fits
    <3>4. q \in Nat /\ q + y.len <= y.read /\ y.read <= Total
      BY <2>7, <2>8, <3>1, <3>3
    <3>5. \A k \in DOMAIN y.marks : y.marks[1] <= y.marks[k] /\ y.marks[k] <= y.off
      <4>1. ASSUME NEW k \in DOMAIN x.marks
            PROVE  x.marks[1] <= x.marks[k] /\ x.marks[k] <= off + size
        <5>1. x.marks[1] <= x.marks[k] /\ x.marks[k] <= x.off
          BY <1>1, <4>1 DEF Fits
        <5>2. x.marks[k] \in Nat
          BY <1>1, <4>1 DEF Scanner
        <5>3. PICK mark \in Nat : mark = x.marks[k] /\ x.marks[1] <= mark /\ mark <= off
          BY <1>2, <5>1, <5>2
        <5>4. mark <= off + size
          BY <5>3
        <5>5. QED
          BY <5>3, <5>4
      <4>2. QED
        BY <2>7, <4>1
    <3>6. y.raw <= cap(y) /\ (y.r => ~y.failed /\ BufferSize <= cap(y))
      BY <1>1, <1>2, <2>7 DEF Fits, cap
    <3>7. QED
      BY <2>6, <2>9, <3>2, <3>4, <3>5, <3>6 DEF Fits
  <2>11. ASSUME ~x.failed
         PROVE  Window(y, q) /\ MarksDenote(y, m) /\ CacheHolds(y, q) /\ AtCharacter(q)
    <3>1. Window(x, p) /\ MarksDenote(x, m) /\ CacheHolds(x, p)
      BY <2>11 DEF Sound
    <3>2. Window(y, q)
      <4>1. PICK read \in Nat : read = x.read /\ p = read - len
        BY <1>1, <1>2, <3>1 DEF Window, Scanner
      <4>2. p + size = read - (len - size)
        BY <4>1
      <4>3. QED
        BY <1>2, <2>7, <2>8, <3>1, <4>1, <4>2 DEF Window, Byte
    <3>3. MarksDenote(y, m)
      BY <1>2, <2>7, <3>1 DEF MarksDenote
    <3>4. PICK i : Begins(i, p, 0)
      BY <2>11 DEF AtCharacter
    <3>5. i \in DOMAIN stream /\ size = Size(i) /\ i \in Nat
      <4>1. i \in Nat
        BY StreamFacts, <1>1, <3>4 DEF Begins
      <4>2. CASE n = 0
        <5>1. Decoded(x, 0, i)
          <6>1. 0 \in 0 .. x.len
            BY <1>2
          <6>2. QED
            BY <2>11, <3>4, <6>1, DecodesWindow
        <5>2. d = DecodeRune(x, 0)
          BY <2>2, <4>2
        <5>3. QED
          BY <1>5, <2>4, <4>1, <5>1, <5>2 DEF Decoded
      <4>3. CASE n > 0
        <5>1. 1 \in DOMAIN x.peeked /\ d = x.peeked[1]
          BY <1>1, <2>1, <2>2, <4>3, CachedSizes
        <5>2. i + 1 - 1 \in DOMAIN stream /\ d = [rune |-> i + 1 - 1, size |-> Size(i + 1 - 1)]
          BY <3>1, <3>4, <5>1 DEF CacheHolds
        <5>3. i + 1 - 1 = i
          BY <4>1
        <5>4. QED
          BY <2>4, <4>1, <5>2, <5>3
      <4>4. QED
        BY <4>2, <4>3
    <3>6. Begins(i + 1, q, 0)
      <4>1. Begins(i + 1, p, 0 + size)
        BY <1>1, <3>4, <3>5, NextBegins
      <4>2. p + (0 + size) + 1 = q + 0 + 1
        BY <2>8
      <4>3. QED
        BY <4>1, <4>2 DEF Begins
    <3>7. CacheHolds(y, q)
      <4>1. ASSUME NEW j, Begins(j, q, 0), NEW k \in DOMAIN y.peeked
            PROVE  /\ j + k - 1 \in DOMAIN stream
                   /\ y.peeked[k] = [rune |-> j + k - 1, size |-> Size(j + k - 1)]
        <5>1. j = i + 1
          BY <1>1, <3>6, <4>1, FirstOrders DEF Begins
        <5>2. k \in Nat /\ k + 1 \in DOMAIN x.peeked /\ y.peeked[k] = x.peeked[k + 1]
          BY <2>9
        <5>3. /\ i + (k + 1) - 1 \in DOMAIN stream
              /\ x.peeked[k + 1] = [rune |-> i + (k + 1) - 1, size |-> Size(i + (k + 1) - 1)]
          BY <3>1, <3>4, <5>2 DEF CacheHolds
        <5>4. i + (k + 1) - 1 = j + k - 1
          BY <3>5, <5>1, <5>2
        <5>5. QED
          BY <5>2, <5>3, <5>4
      <4>2. QED
        BY <4>1 DEF CacheHolds
    <3>8. QED
      BY <3>2, <3>3, <3>6, <3>7 DEF AtCharacter
  <2>12. x.len <= y.len + UTFMax
    BY <1>2, <1>3, <2>4, <2>7
  <2>13. Sound(y, q, m)
    BY <2>7, <2>10, <2>11 DEF Sound
  <2>14. q \in Nat
    BY <2>8
  <2>15. QED
    BY <2>7, <2>11, <2>12, <2>13, <2>14 DEF y, q
<1>6. QED
  BY <1>4, <1>5

----------------------------------------------------------------------------
(* Lemmas about answers.                                                   *)

\* The character looked for is not there.
NoMore(x) == DecodeRune(x, PeekedSize(x)).rune \in {Eof, Invalid}

\* Nor would another round of peekAt find it.
Settled(x) == NoMore(x) /\ (x.r => x.len > PeekedSize(x))

\* The character after the cached ones, as the end of the cache sees it: the end of the
\* buffer is the end of the stream, and only behind a character of more than one
\* byte can the buffer end inside a character.
LEMMA BehindCacheAnswer ==
  ASSUME NEW x, NEW p \in Nat, NEW m, Sound(x, p, m), ~x.failed, Deep(x),
         NEW l \in 0 .. 2, Caches(x, l), l < 2 \/ Settled(x),
         NEW i, Begins(i, p, 0)
  PROVE  LET d == DecodeRune(x, PeekedSize(x)) IN
         \/ d.rune = Eof /\ i + l = Len(stream) + 1
         \/ /\ d.rune = Invalid
            /\ l = 2 \/ (l = 1 /\ Size(i) > 1)
         \/ d.rune = i + l /\ i + l \in DOMAIN stream
<1>1. x \in Scanner /\ Fits(x, p) /\ stream \in Streams /\ CacheHolds(x, p) /\ Window(x, p)
  BY DEF Sound, Fits
<1>2. PICK size \in Nat, len \in Nat : size = PeekedSize(x) /\ len = x.len /\ size <= len
  BY <1>1, PeekedSizeFacts DEF Fits, Scanner
<1>3. PICK j \in Nat : j = i + l
  BY StreamFacts, <1>1 DEF Begins
<1>4. Begins(j, p, size)
  BY <1>1, <1>2, <1>3, BehindCache DEF Caches
<1>5. Decoded(x, size, j)
  <2>1. size \in 0 .. x.len
    BY <1>2
  <2>2. QED
    BY <1>4, <2>1, DecodesWindow
<1>6. PICK um \in Nat : um = UTFMax /\ um > 0
  BY SizesAssumption
<1>7. PICK total \in Nat : total = Total
  BY <1>1, StreamFacts
<1>8. ~x.r => p + len = total
  <2>1. PICK read \in Nat : read = x.read
    BY <1>1 DEF Scanner
  <2>2. p = read - len
    BY <1>1, <1>2, <2>1 DEF Window
  <2>3. ~x.r => read = total
    BY <1>1, <1>7, <2>1 DEF Window
  <2>4. QED
    BY <2>2, <2>3
<1>9. x.r => len > um
  BY <1>2, <1>6 DEF Deep
<1>10. l = 0 => size = 0
  BY <1>1, <1>2, PeekedSizeFacts DEF Caches
<1>11. l = 1 => size = Size(i) /\ size <= um
  <2>. SUFFICES ASSUME l = 1
                PROVE  size = Size(i) /\ size <= um
    OBVIOUS
  <2>1. Len(x.peeked) = 1 /\ 1 \in DOMAIN x.peeked
    BY <1>1, CachedSizes DEF Caches
  <2>2. size = x.peeked[1].size
    BY <1>1, <1>2, <2>1, PeekedSizeFacts
  <2>3. i + 1 - 1 \in DOMAIN stream /\ x.peeked[1] = [rune |-> i + 1 - 1, size |-> Size(i + 1 - 1)]
    BY <1>1, <2>1 DEF CacheHolds
  <2>4. i + 1 - 1 = i
    BY <1>1, StreamFacts DEF Begins
  <2>5. x.peeked[1].size = Size(i) /\ Size(i) \in 1 .. UTFMax
    BY <1>1, <2>3, <2>4, StreamFacts
  <2>6. QED
    BY <1>6, <2>2, <2>5
<1>12. CASE DecodeRune(x, size).rune = Eof /\ size = len
  <2>1. ~x.r
    <3>1. l = 2 => Settled(x)
      BY <1>12
    <3>2. CASE l = 2
      BY <1>2, <1>12, <3>1, <3>2 DEF Settled
    <3>3. CASE l = 1
      BY <1>9, <1>11, <1>12, <3>3
    <3>4. CASE l = 0
      BY <1>6, <1>9, <1>10, <1>12, <3>4
    <3>5. QED
      BY <3>2, <3>3, <3>4
  <2>2. PICK first \in Nat : first = First(j) /\ j \in 1 .. Len(stream) + 1
    BY <1>1, <1>4, StreamFacts DEF Begins
  <2>3. first = total + 1
    BY <1>4, <1>8, <1>12, <2>1, <2>2 DEF Begins
  <2>4. Len(stream) + 1 \in 1 .. Len(stream) + 1 /\ First(Len(stream) + 1) = first
    BY <1>1, <1>7, <2>3, StreamFacts
  <2>5. j = Len(stream) + 1
    BY <1>1, <2>2, <2>4, FirstOrders
  <2>6. QED
    BY <1>2, <1>3, <1>12, <2>5
<1>13. CASE DecodeRune(x, size).rune = Invalid /\ j \in DOMAIN stream /\ size + Size(j) > x.len
  <2>1. PICK sz \in Nat, first \in Nat :
             sz = Size(j) /\ sz <= um /\ first = First(j) /\ first + sz <= total + 1
    <3>1. Size(j) \in 1 .. UTFMax /\ Size(j) \in Nat /\ First(j + 1) = First(j) + Size(j)
      BY <1>1, <1>13, StreamFacts
    <3>2. First(j) \in Nat /\ First(j + 1) <= Total + 1
      BY <1>1, <1>13, StreamFacts
    <3>3. QED
      BY <1>6, <1>7, <3>1, <3>2
  <2>2. size + sz > len /\ first = p + size + 1
    BY <1>2, <1>4, <1>13, <2>1 DEF Begins
  <2>3. x.r
    BY <1>8, <2>1, <2>2
  <2>4. size > 1
    BY <1>9, <2>1, <2>2, <2>3
  <2>5. l # 0
    BY <1>10, <2>4
  <2>6. l = 1 => Size(i) > 1
    BY <1>11, <2>4
  <2>7. QED
    BY <1>2, <1>13, <2>5, <2>6
<1>14. CASE DecodeRune(x, size) = [rune |-> j, size |-> Size(j)] /\ j \in DOMAIN stream
  BY <1>2, <1>3, <1>14
<1>15. QED
  BY <1>2, <1>5, <1>12, <1>13, <1>14 DEF Decoded

\* The three ways an answer may be right.
LEMMA RightIf ==
  ASSUME NEW a, NEW j \in Nat, RuneAfter(a.at) + a.ahead - 1 = j,
         \/ a.rune = Eof /\ j > Len(stream)
         \/ a.rune = Invalid /\ (a.ahead = 3 \/ (a.ahead = 2 /\ Size(j - 1) > 1))
         \/ a.rune = j
  PROVE  Right(a)
<1>1. Eof # Invalid /\ j # Eof /\ j # Invalid
  BY DEF Eof, Invalid
<1>2. CASE a.rune = Eof /\ j > Len(stream)
  BY <1>1, <1>2 DEF Right
<1>3. CASE a.rune = Invalid /\ (a.ahead = 3 \/ (a.ahead = 2 /\ Size(j - 1) > 1))
  BY <1>1, <1>3 DEF Right
<1>4. CASE a.rune = j
  BY <1>1, <1>4 DEF Right
<1>5. QED
  BY <1>2, <1>3, <1>4

\* The answer about the n-th character ahead, once x has looked that far.
LEMMA AheadRight ==
  ASSUME stream \in Streams, pos \in Nat, NEW x, NEW m, Sound(x, pos, m), ~x.failed, Deep(x),
         AtCharacter(pos), NEW l \in 0 .. 3, Caches(x, l), NEW n \in 1 .. 3,
         l < n => \/ l + 1 = n /\ n < 3
                  \/ NoMore(x) /\ n < 3
                  \/ Settled(x)
  PROVE  Right(Ahead(x, n))
<1>1. PICK i : Begins(i, pos, 0)
  BY DEF AtCharacter
<1>2. i \in Nat /\ i > 0 /\ i \in 1 .. Len(stream) + 1 /\ First(i) = pos + 0 + 1
  BY <1>1, StreamFacts DEF Begins
<1>3. RuneAfter(pos) = i
  <2>1. First(i) = pos + 1
    BY <1>2
  <2>2. QED
    BY <1>2, <2>1, RuneAfterIs
<1>4. Len(stream) \in Nat /\ DOMAIN stream = 1 .. Len(stream)
  BY StreamFacts
<1>. DEFINE a == Ahead(x, n)
<1>. SUFFICES Right(a)
  OBVIOUS
<1>5. a.at = pos /\ a.ahead = n
  BY DEF Ahead
<1>. HIDE DEF a
<1>6. PICK j \in Nat : j = i + n - 1
  BY <1>2
<1>7. RuneAfter(a.at) + a.ahead - 1 = j
  <2>1. RuneAfter(a.at) = i /\ a.ahead = n
    BY <1>3, <1>5
  <2>2. QED
    BY <1>6, <2>1
<1>8. PICK len \in Nat : len = Len(stream)
  BY <1>4
<1>9. DOMAIN x.peeked = 1 .. l /\ Len(x.peeked) = l
  BY CachedSizes DEF Sound, Fits, Caches
<1>10. CASE l >= n
  <2>1. n \in DOMAIN x.peeked
    BY <1>9, <1>10
  <2>2. a.rune = x.peeked[n].rune
    BY <1>9, <1>10 DEF Ahead, a
  <2>3. x.peeked[n] = [rune |-> i + n - 1, size |-> Size(i + n - 1)]
    BY <1>1, <2>1 DEF Sound, CacheHolds
  <2>4. a.rune = j
    BY <1>6, <2>2, <2>3
  <2>5. QED
    BY <1>7, <2>4, RightIf
<1>11. CASE l < n
  <2>1. a.rune = DecodeRune(x, PeekedSize(x)).rune
    <3>1. ~(l >= n)
      BY <1>11
    <3>2. QED
      BY <1>9, <3>1 DEF Ahead, a
  <2>2. l \in 0 .. 2 /\ (l < 2 \/ Settled(x))
    BY <1>11
  <2>3. \/ a.rune = Eof /\ i + l = Len(stream) + 1
        \/ a.rune = Invalid /\ (l = 2 \/ (l = 1 /\ Size(i) > 1))
        \/ a.rune = i + l /\ i + l \in DOMAIN stream
    BY <1>1, <2>1, <2>2, BehindCacheAnswer
  <2>4. l + 1 = n \/ a.rune \in {Eof, Invalid}
    BY <1>11, <2>1 DEF NoMore, Settled
  <2>5. CASE a.rune = Eof /\ i + l = Len(stream) + 1
    <3>1. j > len
      BY <1>2, <1>6, <1>8, <1>11, <2>5
    <3>2. QED
      BY <1>7, <1>8, <2>5, <3>1, RightIf
  <2>6. CASE a.rune = Invalid /\ (l = 2 \/ (l = 1 /\ Size(i) > 1))
    <3>1. CASE n = 3
      BY <1>5, <1>7, <2>6, <3>1, RightIf
    <3>2. CASE n = 2
      <4>1. Size(i) > 1 /\ j - 1 = i
        BY <1>2, <1>6, <1>11, <2>6, <3>2
      <4>2. Size(j - 1) > 1
        BY <4>1
      <4>3. QED
        BY <1>5, <1>7, <2>6, <3>2, <4>2, RightIf
    <3>3. QED
      BY <1>11, <2>6, <3>1, <3>2
  <2>7. CASE a.rune = i + l /\ i + l \in DOMAIN stream
    <3>1. a.rune \notin {Eof, Invalid}
      BY <1>2, <2>7 DEF Eof, Invalid
    <3>2. a.rune = j
      BY <1>2, <1>6, <2>4, <2>7, <3>1
    <3>3. QED
      BY <1>7, <3>2, RightIf
  <2>8. QED
    BY <2>3, <2>5, <2>6, <2>7
<1>12. QED
  BY <1>10, <1>11

\* The predicates about the stream are about the same stream after a step.
LEMMA StreamStays ==
  ASSUME stream' = stream
  PROVE  /\ Total' = Total
         /\ Sound(s, pos, marked)' <=> Sound(s', pos', marked')
         /\ AtCharacter(pos)' <=> AtCharacter(pos')
         /\ Right(answer)' <=> Right(answer')
         /\ (RuneAfter(pos) >= Len(stream))' <=> RuneAfter(pos') >= Len(stream)
<1>1. Total' = Total
  BY DEF Total, First
<1>2. Sound(s, pos, marked)' <=> Sound(s', pos', marked')
  BY <1>1 DEF Sound, Fits, Window, MarksDenote, CacheHolds, Begins, First, Size, Byte, cap, PeekedSize
<1>3. AtCharacter(pos)' <=> AtCharacter(pos')
  BY DEF AtCharacter, Begins, First
<1>4. Right(answer)' <=> Right(answer')
  BY DEF Right, RuneAfter, First, Size
<1>5. (RuneAfter(pos) >= Len(stream))' <=> RuneAfter(pos') >= Len(stream)
  BY DEF RuneAfter, First
<1>6. QED
  BY <1>1, <1>2, <1>3, <1>4, <1>5

----------------------------------------------------------------------------
(* Lemmas about steps.                                                     *)

\* What a step does to the tokens handed out: once there is no reader, the array
\* is not written any more.
Follows(x, y) ==
    /\ x.failed => y.failed
    /\ ~x.r => ~y.r /\ y.mem = x.mem

LEMMA TokensFollow ==
  ASSUME TokensKept, Follows(s, s'), data' = data, held' = held
  PROVE  TokensKept'
<1>1. ASSUME NEW d, Kept(s, d)
      PROVE  Kept(s', d)
  <2>1. d.copied \/ s'.mem = s.mem
    BY <1>1 DEF Kept, Follows
  <2>2. QED
    BY <1>1, <2>1 DEF Kept, Follows, Bytes
<1>2. ~s'.failed => ~s.failed
  BY DEF Follows
<1>3. Kept(s, data)' <=> Kept(s', data')
  BY DEF Kept, Bytes
<1>4. ASSUME NEW k, Kept(s', held'[k])
      PROVE  Kept(s, held[k])'
  BY <1>4 DEF Kept, Bytes
<1>5. QED
  BY <1>1, <1>2, <1>3, <1>4 DEF TokensKept, NoData

\* The parts of the invariant after a step, said of the values after it.
LEMMA StepKeeps ==
  ASSUME stream' = stream, Typed', pc' # "new", Sound(s', pos', marked'),
         pc' \in {"idle", "token", "stopped"} => Deep(s') /\ (~s'.failed => AtCharacter(pos')),
         Draining', ~s'.failed => Right(answer'), TokensKept', AtEnd'
  PROVE  IInv'
<1>1. Placed'
  BY StreamStays DEF Placed
<1>2. Scanning'
  BY StreamStays DEF Scanning, Deep
<1>3. Answered'
  BY StreamStays DEF Answered
<1>4. QED
  BY <1>1, <1>2, <1>3 DEF IInv, Fresh

\* What a step finds, and need not change, in the middle of a token.
LEMMA InToken ==
  ASSUME IInv, pc = "token"
  PROVE  /\ Sound(s, pos, marked) /\ Deep(s) /\ (~s.failed => AtCharacter(pos))
         /\ Fits(s, pos) /\ s \in Scanner /\ pos \in Nat /\ stream \in Streams
BY DEF IInv, Typed, Placed, Scanning, Sound, Fits

LEMMA ReadingKeeps ==
  ASSUME IInv, Reading, Sound(s', pos', marked'), Deep(s'),
         ~s'.failed => AtCharacter(pos') /\ Right(answer'),
         Follows(s, s'), data' = data
  PROVE  IInv'
<1>1. TokensKept'
  BY TokensFollow DEF IInv, Reading
<1>2. Typed' /\ Draining' /\ AtEnd'
  BY DEF IInv, Typed, Reading, Draining, AtEnd
<1>3. QED
  BY <1>1, <1>2, StepKeeps DEF Reading

----------------------------------------------------------------------------
(* Looking ahead.                                                          *)

LEMMA CachesSome ==
  ASSUME NEW x, NEW p, NEW m, Sound(x, p, m)
  PROVE  \E l \in 0 .. 3 : Caches(x, l)
<1>1. x \in Scanner /\ Len(x.peeked) <= 3
  BY DEF Sound, Fits
<1>2. PICK l \in Nat : l = Len(x.peeked)
  BY <1>1, CachedSizes
<1>3. l <= 3
  BY <1>1, <1>2
<1>4. l \in 0 .. 3
  BY <1>3
<1>5. QED
  BY <1>2, <1>4 DEF Caches

\* One more character in the cache.
LEMMA CachedKeeps ==
  ASSUME NEW x, NEW p \in Nat, NEW m, Sound(x, p, m), Deep(x), NEW l \in 0 .. 2, Caches(x, l)
  PROVE  /\ Sound(cached(x), p, m) /\ Deep(cached(x)) /\ Follows(x, cached(x))
         /\ cached(x).failed = x.failed
         /\ NoMore(x) => cached(x) = x
         /\ ~NoMore(x) => Caches(cached(x), l + 1)
<1>1. /\ Sound(cached(x), p, m)
      /\ cached(x) = [x EXCEPT !.peeked = cached(x).peeked]
      /\ ~NoMore(x) => Caches(cached(x), l + 1)
      /\ NoMore(x) => cached(x) = x
  BY CachedSound DEF NoMore
<1>2. x \in Scanner
  BY DEF Sound, Fits
<1>3. PICK c : c = cached(x).peeked
  OBVIOUS
<1>4. cached(x) = [x EXCEPT !.peeked = c]
  BY <1>1, <1>3
<1>5. /\ cached(x).r = x.r /\ cached(x).len = x.len /\ cached(x).mem = x.mem
      /\ cached(x).failed = x.failed
  BY <1>2, <1>4 DEF Scanner
<1>6. QED
  BY <1>1, <1>5 DEF Deep, Follows

LEMMA PeekKeeps ==
  ASSUME IInv, Peek
  PROVE  IInv'
<1>1. /\ Sound(s, pos, marked) /\ Deep(s) /\ (~s.failed => AtCharacter(pos))
      /\ s \in Scanner /\ pos \in Nat /\ stream \in Streams
  BY InToken DEF Peek, Reading
<1>2. PICK l \in 0 .. 3 : Caches(s, l)
  BY <1>1, CachesSome
<1>3. l = 0 <=> s.peeked = <<>>
  BY <1>1, <1>2 DEF Caches, Scanner
<1>4. /\ Sound(s', pos, marked) /\ Deep(s') /\ Follows(s, s') /\ s'.failed = s.failed
  <2>1. CASE l = 0
    BY <1>1, <1>2, <1>3, <2>1, CachedKeeps DEF Peek
  <2>2. CASE l # 0
    BY <1>1, <1>3, <2>2 DEF Peek, Follows
  <2>3. QED
    BY <2>1, <2>2
<1>5. ASSUME ~s'.failed
      PROVE  AtCharacter(pos) /\ Right(Ahead(s', 1))
  <2>1. PICK k \in 0 .. 3 : Caches(s', k)
    BY <1>4, CachesSome
  <2>2. k < 1 => k + 1 = 1 /\ 1 < 3
    OBVIOUS
  <2>3. QED
    BY <1>1, <1>4, <1>5, <2>1, <2>2, AheadRight
<1>6. QED
  BY <1>4, <1>5, ReadingKeeps DEF Peek

LEMMA PeekTwoKeeps ==
  ASSUME IInv, PeekTwo
  PROVE  IInv'
<1>1. /\ Sound(s, pos, marked) /\ Deep(s) /\ (~s.failed => AtCharacter(pos))
      /\ s \in Scanner /\ pos \in Nat /\ stream \in Streams
  BY InToken DEF PeekTwo, Reading
<1>2. PICK l \in 0 .. 3 : Caches(s, l)
  BY <1>1, CachesSome
<1>3. l = 0 <=> s.peeked = <<>>
  BY <1>1, <1>2 DEF Caches, Scanner
<1>4. PICK x : /\ x = IF s.peeked = <<>> THEN cached(s) ELSE s
               /\ s' = IF Len(x.peeked) = 1 THEN cached(x) ELSE x
  BY DEF PeekTwo
<1>5. PICK k \in 0 .. 3 :
           /\ Sound(x, pos, marked) /\ Deep(x) /\ Follows(s, x) /\ x.failed = s.failed
           /\ Caches(x, k)
           /\ k = 0 => NoMore(x)
  <2>1. CASE l = 0 /\ NoMore(s)
    BY <1>1, <1>2, <1>3, <1>4, <2>1, CachedKeeps
  <2>2. CASE l = 0 /\ ~NoMore(s)
    <3>1. /\ Sound(x, pos, marked) /\ Deep(x) /\ Follows(s, x) /\ x.failed = s.failed
          /\ Caches(x, l + 1)
      BY <1>1, <1>2, <1>3, <1>4, <2>2, CachedKeeps
    <3>2. l + 1 = 1 /\ 1 \in 0 .. 3
      BY <2>2
    <3>3. QED
      BY <3>1, <3>2
  <2>3. CASE l # 0
    BY <1>1, <1>2, <1>3, <1>4, <2>3 DEF Follows
  <2>4. QED
    BY <2>1, <2>2, <2>3
<1>6. PICK j \in 0 .. 3 :
           /\ Sound(s', pos, marked) /\ Deep(s') /\ Follows(s, s') /\ s'.failed = s.failed
           /\ Caches(s', j)
           /\ j = 0 => NoMore(s')
  <2>1. CASE k = 1
    <3>1. s' = cached(x)
      BY <1>4, <1>5, <2>1 DEF Caches
    <3>2. /\ Sound(s', pos, marked) /\ Deep(s') /\ Follows(x, s') /\ s'.failed = x.failed
          /\ NoMore(x) => s' = x
          /\ ~NoMore(x) => Caches(s', k + 1)
      BY <1>1, <1>5, <2>1, <3>1, CachedKeeps
    <3>3. Follows(s, s')
      BY <1>5, <3>2 DEF Follows
    <3>4. k + 1 = 2 /\ 2 \in 0 .. 3
      BY <2>1
    <3>5. CASE NoMore(x)
      BY <1>5, <2>1, <3>2, <3>3, <3>5
    <3>6. CASE ~NoMore(x)
      BY <1>5, <3>2, <3>3, <3>4, <3>6
    <3>7. QED
      BY <3>5, <3>6
  <2>2. CASE k # 1
    <3>1. s' = x
      BY <1>4, <1>5, <2>2 DEF Caches
    <3>2. QED
      BY <1>5, <3>1
  <2>3. QED
    BY <2>1, <2>2
<1>7. ASSUME ~s'.failed
      PROVE  AtCharacter(pos) /\ Right(Ahead(s', 2))
  <2>1. j < 2 => \/ j + 1 = 2 /\ 2 < 3
                 \/ NoMore(s') /\ 2 < 3
    BY <1>6
  <2>2. QED
    BY <1>1, <1>6, <1>7, <2>1, AheadRight
<1>8. QED
  BY <1>6, <1>7, ReadingKeeps DEF PeekTwo

\* k rounds of the loop of peekAtSize have been made, or as good as.
Looked(x, m, k) ==
    /\ Sound(x, pos, m) /\ Deep(x) /\ Follows(s, x)
    /\ \E l \in 0 .. 3 : Caches(x, l) /\ (l >= k \/ Settled(x))

\* Two characters in the cache are at most this long.
LEMMA TwoCached ==
  ASSUME NEW x \in Scanner, NEW l \in 0 .. 2, Caches(x, l)
  PROVE  PeekedSize(x) <= 2 * UTFMax
<1>1. PICK um \in Nat : um = UTFMax
  BY SizesAssumption
<1>2. \A k \in DOMAIN x.peeked : x.peeked[k].size \in Nat /\ x.peeked[k].size \in 1 .. UTFMax
  BY CachedSizes
<1>3. DOMAIN x.peeked = 1 .. l
  BY CachedSizes DEF Caches
<1>4. CASE l = 0
  BY <1>1, <1>4, PeekedSizeFacts DEF Caches
<1>5. CASE l = 1
  <2>1. PICK a \in Nat : a = x.peeked[1].size /\ a <= um
    BY <1>1, <1>2, <1>3, <1>5
  <2>2. PeekedSize(x) = a
    BY <1>5, <2>1, PeekedSizeFacts DEF Caches
  <2>3. QED
    BY <1>1, <2>1, <2>2
<1>6. CASE l = 2
  <2>1. PICK a \in Nat, b \in Nat :
             a = x.peeked[1].size /\ a <= um /\ b = x.peeked[2].size /\ b <= um
    BY <1>1, <1>2, <1>3, <1>6
  <2>2. PeekedSize(x) = a + b
    BY <1>6, <2>1, PeekedSizeFacts DEF Caches
  <2>3. QED
    BY <1>1, <2>1, <2>2
<1>7. QED
  BY <1>4, <1>5, <1>6

\* A refill leaves a scanner in the middle of a token as it should be.
LEMMA RefillKeeps ==
  ASSUME NEW x, NEW p, NEW m, Sound(x, p, m), Deep(x), NEW y \in refill(x)
  PROVE  /\ Sound(y, p, m) /\ Deep(y) /\ Follows(x, y)
         /\ y.peeked = x.peeked
         /\ y.r => y.len > 2 * UTFMax
         /\ ~x.r => y = x
<1>1. /\ Sound(y, p, m) /\ y.peeked = x.peeked
      /\ x.failed => y.failed
      /\ x.len > UTFMax /\ y.r => y.len > 2 * UTFMax
      /\ ~x.r => y = x
  BY RefillSound
<1>2. y.r => x.r
  BY <1>1
<1>3. y.r => y.len > 2 * UTFMax
  BY <1>1, <1>2 DEF Deep
<1>4. Deep(y)
  <2>1. PICK len \in Nat, um \in Nat : len = y.len /\ um = UTFMax
    BY <1>1, SizesAssumption DEF Sound, Fits, Scanner
  <2>2. y.r => len > 2 * um
    BY <1>3, <2>1
  <2>3. QED
    BY <2>1, <2>2 DEF Deep
<1>5. QED
  BY <1>1, <1>3, <1>4 DEF Follows

LEMMA RoundLooks ==
  ASSUME pos \in Nat, NEW x, NEW m, NEW n \in 1 .. 2, NEW k \in 0 .. n, Looked(x, m, k),
         NEW y \in peekRound({x}, n)
  PROVE  Looked(y, m, k + 1)
<1>1. Sound(x, pos, m) /\ Deep(x) /\ Follows(s, x) /\ x \in Scanner
  BY DEF Looked, Sound, Fits
<1>2. PICK l \in 0 .. 3 : Caches(x, l) /\ (l >= k \/ Settled(x))
  BY DEF Looked
<1>3. y \in IF l > n THEN {x} ELSE peekMore(x)
  BY <1>2 DEF peekRound, Caches
<1>4. CASE l > n
  <2>1. y = x /\ l >= k + 1
    BY <1>3, <1>4
  <2>2. QED
    BY <1>1, <1>2, <2>1 DEF Looked
<1>5. CASE ~(l > n)
  <2>. l \in 0 .. 2
    BY <1>5
  <2>1. PICK z \in (IF x.len <= PeekedSize(x) THEN refill(x) ELSE {x}) : y = cached(z)
    BY <1>3, <1>5 DEF peekMore
  <2>2. PICK size \in Nat, len \in Nat : size = PeekedSize(x) /\ len = x.len
    BY <1>1, PeekedSizeFacts DEF Scanner
  <2>3. /\ Sound(z, pos, m) /\ Deep(z) /\ Follows(x, z) /\ Caches(z, l)
        /\ z \in Scanner /\ PeekedSize(z) = size
        /\ z.r => z.len > size
        /\ ~x.r => z = x
        /\ len > size => z = x
    <3>1. CASE len <= size
      <4>1. /\ Sound(z, pos, m) /\ Deep(z) /\ Follows(x, z)
            /\ z.peeked = x.peeked
            /\ z.r => z.len > 2 * UTFMax
            /\ ~x.r => z = x
        BY <1>1, <2>1, <2>2, <3>1, RefillKeeps
      <4>2. z \in Scanner /\ PeekedSize(z) = size /\ Caches(z, l)
        BY <1>2, <2>2, <4>1 DEF Sound, Fits, PeekedSize, Caches
      <4>3. PICK zlen \in Nat, um \in Nat : zlen = z.len /\ um = UTFMax
        BY <4>2, SizesAssumption DEF Scanner
      <4>4. size <= 2 * um
        BY <1>1, <1>2, <2>2, <4>3, TwoCached
      <4>5. z.r => zlen > 2 * um
        BY <4>1, <4>3
      <4>6. z.r => z.len > size
        BY <4>3, <4>4, <4>5
      <4>7. QED
        BY <3>1, <4>1, <4>2, <4>6
    <3>2. CASE ~(len <= size)
      <4>1. z = x
        BY <2>1, <2>2, <3>2
      <4>2. len > size
        BY <3>2
      <4>3. Follows(x, x)
        BY DEF Follows
      <4>4. QED
        BY <1>1, <1>2, <2>2, <4>1, <4>2, <4>3
    <3>3. QED
      BY <3>1, <3>2
  <2>4. /\ Sound(y, pos, m) /\ Deep(y) /\ Follows(z, y)
        /\ NoMore(z) => y = z
        /\ ~NoMore(z) => Caches(y, l + 1)
    BY <2>1, <2>3, CachedKeeps
  <2>5. Follows(s, y)
    BY <1>1, <2>3, <2>4 DEF Follows
  <2>6. CASE NoMore(z)
    <3>1. Settled(y) /\ Caches(y, l)
      BY <2>3, <2>4, <2>6 DEF Settled
    <3>2. QED
      BY <2>4, <2>5, <3>1 DEF Looked
  <2>7. CASE ~NoMore(z)
    <3>1. l >= k
      <4>1. CASE Settled(x)
        <5>1. x.r => z = x
          BY <2>2, <2>3, <4>1 DEF Settled
        <5>2. z = x
          BY <2>3, <5>1
        <5>3. QED
          BY <2>7, <4>1, <5>2 DEF Settled
      <4>2. QED
        BY <1>2, <4>1
    <3>2. l + 1 \in 0 .. 3 /\ l + 1 >= k + 1
      BY <3>1
    <3>3. Caches(y, l + 1)
      BY <2>4, <2>7
    <3>4. QED
      BY <2>4, <2>5, <3>2, <3>3 DEF Looked
  <2>8. QED
    BY <2>6, <2>7
<1>6. QED
  BY <1>4, <1>5

LEMMA PeekAtKeeps ==
  ASSUME IInv, NEW n \in {1, 2}, PeekAt(n)
  PROVE  IInv'
<1>1. /\ Sound(s, pos, marked) /\ Deep(s) /\ (~s.failed => AtCharacter(pos))
      /\ s \in Scanner /\ pos \in Nat /\ stream \in Streams
  BY InToken DEF PeekAt, Reading
<1>2. Looked(s, marked, 0)
  <2>1. PICK l \in 0 .. 3 : Caches(s, l)
    BY <1>1, CachesSome
  <2>2. l >= 0
    OBVIOUS
  <2>3. Follows(s, s)
    BY DEF Follows
  <2>4. QED
    BY <1>1, <2>1, <2>2, <2>3 DEF Looked
<1>. DEFINE one == peekRound({s}, n)
            two == peekRound(one, n)
            three == peekRound(two, n)
<1>3. \A xs : \A y \in peekRound(xs, n) : \E x \in xs : y \in peekRound({x}, n)
  BY DEF peekRound
<1>4. \A x \in one : Looked(x, marked, 1)
  <2>1. 0 \in 0 .. n /\ 0 + 1 = 1 /\ n \in 1 .. 2
    OBVIOUS
  <2>2. QED
    BY <1>1, <1>2, <2>1, RoundLooks
<1>. HIDE DEF one
<1>5. \A x \in two : Looked(x, marked, 2)
  <2>1. 1 \in 0 .. n /\ 1 + 1 = 2 /\ n \in 1 .. 2
    OBVIOUS
  <2>2. ASSUME NEW y \in two
        PROVE  Looked(y, marked, 2)
    <3>1. PICK x \in one : y \in peekRound({x}, n)
      BY <1>3, <2>2
    <3>2. Looked(x, marked, 1)
      BY <1>4
    <3>3. Looked(y, marked, 1 + 1)
      BY <1>1, <2>1, <3>1, <3>2, RoundLooks
    <3>4. QED
      BY <2>1, <3>3
  <2>3. QED
    BY <2>2
<1>6. s' \in IF n = 1 THEN two ELSE three
  BY DEF PeekAt, peekAt, one
<1>. HIDE DEF two
<1>7. ASSUME n = 2
      PROVE  \A x \in three : Looked(x, marked, 3)
  <2>1. 2 \in 0 .. n /\ 2 + 1 = 3 /\ n \in 1 .. 2
    BY <1>7
  <2>2. ASSUME NEW y \in three
        PROVE  Looked(y, marked, 3)
    <3>1. PICK x \in two : y \in peekRound({x}, n)
      BY <1>3, <2>2
    <3>2. Looked(x, marked, 2)
      BY <1>5
    <3>3. Looked(y, marked, 2 + 1)
      BY <1>1, <2>1, <3>1, <3>2, RoundLooks
    <3>4. QED
      BY <2>1, <3>3
  <2>3. QED
    BY <2>2
<1>. HIDE DEF three
<1>8. Looked(s', marked, n + 1)
  <2>1. CASE n = 1
    <3>1. n + 1 = 2
      BY <2>1
    <3>2. QED
      BY <1>5, <1>6, <2>1, <3>1
  <2>2. CASE n = 2
    <3>1. n + 1 = 3
      BY <2>2
    <3>2. QED
      BY <1>6, <1>7, <2>2, <3>1
  <2>3. QED
    BY <2>1, <2>2
<1>9. ASSUME ~s'.failed
      PROVE  AtCharacter(pos) /\ Right(Ahead(s', n + 1))
  <2>1. PICK l \in 0 .. 3 : Caches(s', l) /\ (l >= n + 1 \/ Settled(s'))
    BY <1>8 DEF Looked
  <2>2. n + 1 \in 1 .. 3 /\ (l < n + 1 => Settled(s'))
    BY <2>1
  <2>3. Sound(s', pos, marked) /\ Deep(s') /\ ~s.failed
    BY <1>8, <1>9 DEF Looked, Follows
  <2>4. QED
    BY <1>1, <1>9, <2>1, <2>2, <2>3, AheadRight
<1>10. Sound(s', pos, marked) /\ Deep(s') /\ Follows(s, s')
  BY <1>8 DEF Looked
<1>11. QED
  BY <1>9, <1>10, ReadingKeeps DEF PeekAt

LEMMA GetKeeps ==
  ASSUME IInv, Get
  PROVE  IInv'
<1>1. /\ Sound(s, pos, marked) /\ Deep(s) /\ (~s.failed => AtCharacter(pos))
      /\ s \in Scanner /\ pos \in Nat /\ stream \in Streams
  BY InToken DEF Get, Reading
<1>2. PICK x \in (IF s.len <= LowWater THEN refill(s) ELSE {s}) :
           /\ s' = consume(x)
           /\ answer' = Ahead(x, 1)
           /\ pos' = pos + (s'.off - x.off)
  BY DEF Get
<1>3. PICK um \in Nat, slen \in Nat : um = UTFMax /\ slen = s.len
  BY <1>1, SizesAssumption DEF Scanner
<1>4. Sound(x, pos, marked) /\ Deep(x) /\ Follows(s, x) /\ (x.r => x.len > 2 * um)
  <2>1. CASE s.len <= LowWater
    BY <1>1, <1>2, <1>3, <2>1, RefillKeeps
  <2>2. CASE ~(s.len <= LowWater)
    <3>1. x = s
      BY <1>2, <2>2
    <3>2. slen > 2 * um
      BY <1>3, <2>2 DEF LowWater
    <3>3. QED
      BY <1>1, <1>3, <3>1, <3>2 DEF Follows
  <2>3. QED
    BY <2>1, <2>2
<1>5. ~x.failed => AtCharacter(pos)
  BY <1>1, <1>4 DEF Follows
<1>6. /\ pos' \in Nat /\ Sound(s', pos', marked)
      /\ ~x.failed => AtCharacter(pos')
      /\ x.len <= s'.len + UTFMax
      /\ s'.r = x.r /\ s'.failed = x.failed /\ s'.mem = x.mem
  BY <1>1, <1>2, <1>4, <1>5, ConsumeSound
<1>7. Deep(s')
  <2>1. PICK xlen \in Nat, ylen \in Nat : xlen = x.len /\ ylen = s'.len
    BY <1>4, <1>6 DEF Sound, Fits, Scanner
  <2>2. xlen <= ylen + um /\ (x.r => xlen > 2 * um)
    BY <1>3, <1>4, <1>6, <2>1
  <2>3. x.r => ylen > um
    BY <2>2
  <2>4. QED
    BY <1>3, <1>6, <2>1, <2>3 DEF Deep
<1>8. ASSUME ~s'.failed
      PROVE  Right(Ahead(x, 1))
  <2>1. PICK l \in 0 .. 3 : Caches(x, l)
    BY <1>4, CachesSome
  <2>2. l < 1 => l + 1 = 1 /\ 1 < 3
    OBVIOUS
  <2>3. QED
    BY <1>1, <1>4, <1>5, <1>6, <1>8, <2>1, <2>2, AheadRight
<1>9. Follows(s, s')
  BY <1>4, <1>6 DEF Follows
<1>10. QED
  BY <1>2, <1>6, <1>7, <1>8, <1>9, ReadingKeeps DEF Get

----------------------------------------------------------------------------
(* Marks and token data.                                                   *)

\* The marks lie in the buffer, the oldest before the others.
Ordered(x) == \A k \in DOMAIN x.marks : x.marks[1] <= x.marks[k] /\ x.marks[k] <= x.off

\* x but for its marks and its error.
SameButMarks(x, y) ==
    /\ y \in Scanner
    /\ y.mem = x.mem /\ y.raw = x.raw /\ y.off = x.off /\ y.len = x.len
    /\ y.peeked = x.peeked /\ y.r = x.r /\ y.read = x.read /\ y.failed = x.failed

LEMMA MarksSound ==
  ASSUME NEW x, NEW p, NEW m, Sound(x, p, m), NEW y, SameButMarks(x, y), Ordered(y),
         NEW m2 \in Seq(Nat), ~x.failed => MarksDenote(y, m2)
  PROVE  Sound(y, p, m2) /\ (Deep(x) => Deep(y)) /\ Follows(x, y)
<1>1. PeekedSize(y) = PeekedSize(x) /\ cap(y) = cap(x)
  BY DEF SameButMarks, PeekedSize, cap
<1>2. Fits(y, p)
  BY <1>1 DEF Sound, Fits, SameButMarks, Ordered
<1>3. ~x.failed => Window(y, p) /\ CacheHolds(y, p)
  BY DEF Sound, Window, Byte, CacheHolds, SameButMarks
<1>4. Sound(y, p, m2)
  BY <1>2, <1>3 DEF Sound, SameButMarks
<1>5. QED
  BY <1>4 DEF Deep, Follows, SameButMarks

LEMMA NoAnswerRight == Right(NoAnswer)
BY DEF Right, NoAnswer

LEMMA PushMarkKeeps ==
  ASSUME IInv, PushMark
  PROVE  IInv'
<1>1. /\ Sound(s, pos, marked) /\ Deep(s) /\ (~s.failed => AtCharacter(pos))
      /\ s \in Scanner /\ pos \in Nat
  BY InToken DEF PushMark, Reading
<1>2. PICK off \in Nat, n \in Nat : off = s.off /\ n = Len(s.marks)
  BY <1>1 DEF Scanner
<1>3. s.marks \in Seq(Nat) /\ marked \in Seq(Nat) /\ s.err \in {"none", "eof", "error"}
  BY <1>1 DEF Sound, Scanner
<1>. DEFINE marks == Append(s.marks, off)
<1>4. /\ marks \in Seq(Nat) /\ DOMAIN marks = 1 .. n + 1 /\ Len(marks) = n + 1
      /\ marks[n + 1] = off
      /\ \A k \in 1 .. n : marks[k] = s.marks[k]
  BY <1>2, <1>3
<1>5. \A k \in DOMAIN marks : marks[1] <= marks[k] /\ marks[k] <= s.off
  <2>1. \A k \in 1 .. n : s.marks[1] <= s.marks[k] /\ s.marks[k] <= off /\ s.marks[k] \in Nat
    BY <1>1, <1>2, <1>3 DEF Sound, Fits
  <2>2. marks[1] <= off
    BY <1>4, <2>1
  <2>3. QED
    BY <1>2, <1>4, <2>1, <2>2
<1>6. /\ Append(marked, pos) \in Seq(Nat)
      /\ ~s.failed => /\ Len(marks) = Len(Append(marked, pos))
                      /\ \A k \in DOMAIN Append(marked, pos) :
                             s.read - s.raw + marks[k] = Append(marked, pos)[k]
  <2>1. Append(marked, pos) \in Seq(Nat)
    BY <1>1, <1>3
  <2>2. ASSUME ~s.failed
        PROVE  /\ Len(marks) = Len(Append(marked, pos))
               /\ \A k \in DOMAIN Append(marked, pos) :
                      s.read - s.raw + marks[k] = Append(marked, pos)[k]
    <3>1. Window(s, pos) /\ MarksDenote(s, marked)
      BY <1>1, <2>2 DEF Sound
    <3>2. Len(marked) = n /\ \A k \in 1 .. n : s.read - s.raw + s.marks[k] = marked[k]
      BY <1>2, <1>3, <3>1 DEF MarksDenote
    <3>3. /\ Len(Append(marked, pos)) = n + 1 /\ DOMAIN Append(marked, pos) = 1 .. n + 1
          /\ Append(marked, pos)[n + 1] = pos
          /\ \A k \in 1 .. n : Append(marked, pos)[k] = marked[k]
      BY <1>1, <1>3, <3>2
    <3>4. s.read - s.raw + off = pos
      <4>1. PICK read \in Nat, raw \in Nat, len \in Nat :
                 read = s.read /\ raw = s.raw /\ len = s.len
        BY <1>1 DEF Scanner
      <4>2. pos = read - len /\ len = raw - off
        BY <1>1, <1>2, <3>1, <4>1 DEF Window, Sound, Fits
      <4>3. QED
        BY <1>1, <4>1, <4>2
    <3>. HIDE DEF marks
    <3>5. ASSUME NEW k \in 1 .. n + 1
          PROVE  s.read - s.raw + marks[k] = Append(marked, pos)[k]
      <4>1. CASE k = n + 1
        <5>1. marks[k] = off /\ Append(marked, pos)[k] = pos
          BY <1>4, <3>3, <4>1
        <5>2. QED
          BY <3>4, <5>1
      <4>2. CASE k \in 1 .. n
        BY <1>4, <3>2, <3>3, <4>2
      <4>3. k = n + 1 \/ k \in 1 .. n
        OBVIOUS
      <4>4. QED
        BY <4>1, <4>2, <4>3
    <3>6. QED
      BY <1>4, <3>3, <3>5
  <2>3. QED
    BY <2>1, <2>2
<1>7. s' = [s EXCEPT !.marks = marks] /\ marked' = Append(marked, pos)
  BY <1>2 DEF PushMark
<1>. HIDE DEF marks
<1>8. SameButMarks(s, s') /\ s'.marks = marks
  BY <1>1, <1>4, <1>7 DEF SameButMarks, Scanner
<1>9. Ordered(s')
  BY <1>5, <1>8 DEF Ordered, SameButMarks
<1>10. marked' \in Seq(Nat) /\ (~s.failed => MarksDenote(s', marked'))
  BY <1>6, <1>7, <1>8 DEF MarksDenote, SameButMarks
<1>11. Sound(s', pos, marked') /\ Deep(s') /\ Follows(s, s')
  BY <1>1, <1>8, <1>9, <1>10, MarksSound
<1>12. s'.failed = s.failed
  BY <1>8 DEF SameButMarks
<1>13. QED
  BY <1>1, <1>11, <1>12, NoAnswerRight, ReadingKeeps DEF PushMark

LEMMA FrontFacts ==
  ASSUME NEW q \in Seq(Nat), q # <<>>, NEW n \in Nat, n = Len(q)
  PROVE  /\ n > 0 /\ Front1(q) \in Seq(Nat) /\ Len(Front1(q)) = n - 1
         /\ DOMAIN Front1(q) = 1 .. n - 1
         /\ \A k \in 1 .. n - 1 : k \in 1 .. n /\ Front1(q)[k] = q[k]
<1>1. n > 0 /\ \A k \in 1 .. n : q[k] \in Nat
  OBVIOUS
<1>2. Front1(q) = SubSeq(q, 1, n - 1)
  BY DEF Front1
<1>3. \A k \in 1 .. n - 1 : q[k] \in Nat
  BY <1>1
<1>4. /\ SubSeq(q, 1, n - 1) \in Seq(Nat)
      /\ Len(SubSeq(q, 1, n - 1)) = IF 1 <= n - 1 THEN n - 1 - 1 + 1 ELSE 0
      /\ \A k \in 1 .. n - 1 - 1 + 1 : SubSeq(q, 1, n - 1)[k] = q[1 + k - 1]
  BY <1>1, <1>3, SubSeqProperties
<1>5. Len(SubSeq(q, 1, n - 1)) = n - 1
  BY <1>1, <1>4
<1>6. \A k \in 1 .. n - 1 : k \in 1 .. n /\ k \in 1 .. n - 1 - 1 + 1 /\ 1 + k - 1 = k
  OBVIOUS
<1>7. \A k \in 1 .. n - 1 : k \in 1 .. n /\ SubSeq(q, 1, n - 1)[k] = q[k]
  BY <1>4, <1>6
<1>8. QED
  BY <1>1, <1>2, <1>4, <1>5, <1>7

LEMMA PopMarkKeeps ==
  ASSUME IInv, PopMark
  PROVE  IInv'
<1>1. /\ Sound(s, pos, marked) /\ Deep(s) /\ (~s.failed => AtCharacter(pos))
      /\ s \in Scanner /\ pos \in Nat
  BY InToken DEF PopMark, Reading
<1>2. s.marks \in Seq(Nat) /\ marked \in Seq(Nat) /\ s.marks # <<>>
  BY <1>1 DEF Sound, Scanner, PopMark
<1>3. PICK n \in Nat : n = Len(s.marks)
  BY <1>2
<1>. DEFINE marks == Front1(s.marks)
<1>4. /\ n > 0 /\ marks \in Seq(Nat) /\ Len(marks) = n - 1 /\ DOMAIN marks = 1 .. n - 1
      /\ \A k \in 1 .. n - 1 : k \in 1 .. n /\ marks[k] = s.marks[k]
  BY <1>2, <1>3, FrontFacts
<1>5. s' = [s EXCEPT !.marks = marks] /\ marked' = Front1(marked)
  BY DEF PopMark
<1>. HIDE DEF marks
<1>6. SameButMarks(s, s') /\ s'.marks = marks
  BY <1>1, <1>4, <1>5 DEF SameButMarks, Scanner
<1>7. Ordered(s')
  <2>1. \A k \in 1 .. n : s.marks[1] <= s.marks[k] /\ s.marks[k] <= s.off
    BY <1>1, <1>2, <1>3 DEF Sound, Fits
  <2>2. ASSUME NEW k \in 1 .. n - 1
        PROVE  marks[1] <= marks[k] /\ marks[k] <= s.off
    <3>1. 1 \in 1 .. n - 1
      OBVIOUS
    <3>2. QED
      BY <1>4, <2>1, <3>1
  <2>3. QED
    BY <1>4, <1>6, <2>2 DEF Ordered, SameButMarks
<1>8. marked' \in Seq(Nat) /\ (~s.failed => MarksDenote(s', marked'))
  <2>1. marked' \in Seq(Nat)
    <3>1. \A k \in 1 .. Len(marked) - 1 : marked[k] \in Nat
      BY <1>2
    <3>2. 1 \in Int /\ Len(marked) - 1 \in Int
      BY <1>2
    <3>3. QED
      BY <1>5, <3>1, <3>2, SubSeqProperties DEF Front1
  <2>2. ASSUME ~s.failed
        PROVE  MarksDenote(s', marked')
    <3>1. Len(marked) = n /\ \A k \in DOMAIN marked : s.read - s.raw + s.marks[k] = marked[k]
      BY <1>1, <1>3, <2>2 DEF Sound, MarksDenote
    <3>2. /\ Len(marked') = n - 1 /\ DOMAIN marked' = 1 .. n - 1
          /\ \A k \in 1 .. n - 1 : k \in 1 .. n /\ marked'[k] = marked[k]
      <4>1. marked # <<>>
        BY <1>2, <1>4, <3>1
      <4>2. QED
        BY <1>2, <1>5, <3>1, <4>1, FrontFacts
    <3>3. \A k \in 1 .. n : k \in DOMAIN marked
      BY <1>2, <3>1
    <3>4. \A k \in DOMAIN marked' : s.read - s.raw + marks[k] = marked'[k]
      BY <1>4, <3>1, <3>2, <3>3
    <3>5. QED
      BY <1>4, <1>6, <3>2, <3>4 DEF MarksDenote, SameButMarks
  <2>3. QED
    BY <2>1, <2>2
<1>9. Sound(s', pos, marked') /\ Deep(s') /\ Follows(s, s')
  BY <1>1, <1>6, <1>7, <1>8, MarksSound
<1>10. s'.failed = s.failed
  BY <1>6 DEF SameButMarks
<1>11. QED
  BY <1>1, <1>9, <1>10, NoAnswerRight, ReadingKeeps DEF PopMark

\* The bytes [lo, hi) of the buffer are those of the stream from there on.
LEMMA SliceKept ==
  ASSUME NEW p, NEW m, Sound(s, p, m), NEW lo \in Nat, NEW hi \in Nat, lo <= hi, hi <= s.raw,
         NEW from \in Nat, NEW to \in Nat
  PROVE  /\ slice(s, lo, hi, from, to) \in Slice
         /\ ~s.failed /\ s.read - s.raw + lo = from /\ to - from = hi - lo
                => Kept(s, slice(s, lo, hi, from, to))
<1>. DEFINE d == slice(s, lo, hi, from, to)
            b == SubSeq(s.mem, lo + 1, hi)
<1>1. s \in Scanner /\ s.mem \in Seq(Nat) /\ s.r \in BOOLEAN
  BY DEF Sound, Fits, Scanner
<1>2. PICK raw \in Nat, c \in Nat, read \in Nat :
           raw = s.raw /\ c = Len(s.mem) /\ raw <= c /\ read = s.read /\ hi <= raw
  BY <1>1 DEF Sound, Fits, Scanner, cap
<1>3. \A i \in lo + 1 .. hi : s.mem[i] \in Nat
  <2>1. \A i \in lo + 1 .. hi : i \in 1 .. c
    BY <1>2
  <2>2. \A i \in 1 .. c : s.mem[i] \in Nat
    BY <1>1, <1>2
  <2>3. QED
    BY <2>1, <2>2
<1>4. /\ b \in Seq(Nat)
      /\ Len(b) = IF lo + 1 <= hi THEN hi - (lo + 1) + 1 ELSE 0
      /\ \A i \in 1 .. hi - (lo + 1) + 1 : b[i] = s.mem[lo + 1 + i - 1]
  <2>1. lo + 1 \in Int /\ hi \in Int
    OBVIOUS
  <2>2. QED
    BY <1>3, <2>1, SubSeqProperties
<1>. HIDE DEF b
<1>5. Len(b) = hi - lo
  BY <1>4
<1>6. d = [from |-> from, to |-> to, copied |-> s.r, lo |-> lo, hi |-> hi,
           bytes |-> IF s.r THEN b ELSE <<>>]
  BY DEF slice, Bytes, b
<1>. HIDE DEF d
<1>7. d \in Slice
  <2>1. (IF s.r THEN b ELSE <<>>) \in Seq(Nat)
    BY <1>4
  <2>2. QED
    BY <1>1, <1>6, <2>1 DEF Slice
<1>8. ASSUME ~s.failed, s.read - s.raw + lo = from, to - from = hi - lo
      PROVE  Kept(s, d)
  <2>1. read - raw + lo = from
    BY <1>2, <1>8
  <2>2. \A i \in 0 .. raw - 1 : Byte(s, i) = read - raw + 1 + i
    BY <1>2, <1>8 DEF Sound, Window
  <2>3. ASSUME NEW i \in 1 .. hi - lo
        PROVE  b[i] = from + i
    <3>1. i \in 1 .. hi - (lo + 1) + 1 /\ lo + 1 + i - 1 = lo + i
      OBVIOUS
    <3>2. b[i] = s.mem[lo + i]
      BY <1>4, <3>1
    <3>3. lo + i - 1 \in 0 .. raw - 1 /\ lo + i - 1 + 1 = lo + i
      BY <1>2
    <3>4. s.mem[lo + i] = read - raw + 1 + (lo + i - 1)
      BY <2>2, <3>3 DEF Byte
    <3>5. read - raw + 1 + (lo + i - 1) = from + i
      BY <2>1
    <3>6. QED
      BY <3>2, <3>4, <3>5
  <2>4. b = [i \in 1 .. hi - lo |-> from + i]
    <3>1. DOMAIN b = 1 .. hi - lo
      BY <1>4, <1>5
    <3>2. b = [i \in 1 .. hi - lo |-> b[i]]
      BY <1>4, <3>1
    <3>3. QED
      BY <2>3, <3>2
  <2>5. (IF d.copied THEN d.bytes ELSE Bytes(s, d.lo, d.hi)) = b
    BY <1>1, <1>6 DEF Bytes, b
  <2>6. d.from = from /\ d.to - d.from = hi - lo
    BY <1>6, <1>8
  <2>7. d.copied \/ ~s.r
    BY <1>6
  <2>8. QED
    BY <2>4, <2>5, <2>6, <2>7 DEF Kept
<1>9. QED
  BY <1>7, <1>8 DEF d

\* A step that takes a slice of the buffer.
LEMMA SliceKeeps ==
  ASSUME IInv, Reading, UNCHANGED <<s, pos, marked>>, data' \in Slice, answer' = NoAnswer,
         ~s.failed => Kept(s, data')
  PROVE  IInv'
<1>1. /\ Sound(s, pos, marked) /\ Deep(s) /\ (~s.failed => AtCharacter(pos))
  BY InToken DEF Reading
<1>2. TokensKept'
  <2>1. ~s.failed => \A k \in DOMAIN held : Kept(s, held[k])
    BY DEF IInv, TokensKept
  <2>2. \A k : Kept(s, held[k])' <=> Kept(s, held[k])
    BY DEF Kept, Bytes, Reading
  <2>3. Kept(s, data)' <=> Kept(s, data')
    BY DEF Kept, Bytes
  <2>4. QED
    BY <2>1, <2>2, <2>3 DEF TokensKept, Reading
<1>3. Typed' /\ Draining' /\ AtEnd'
  BY DEF IInv, Typed, Reading, Draining, AtEnd
<1>4. pc' = "token" /\ stream' = stream
  BY DEF Reading
<1>5. QED
  BY <1>1, <1>2, <1>3, <1>4, NoAnswerRight, StepKeeps

LEMMA CopyFromMarkKeeps ==
  ASSUME IInv, CopyFromMark
  PROVE  IInv'
<1>1. Sound(s, pos, marked) /\ s \in Scanner /\ pos \in Nat /\ start \in Nat
  BY InToken DEF CopyFromMark, Reading, IInv, Typed
<1>2. s.marks \in Seq(Nat) /\ s.marks # <<>> /\ marked \in Seq(Nat)
  BY <1>1 DEF Scanner, CopyFromMark, Sound
<1>3. PICK n \in Nat : n = Len(s.marks) /\ n > 0
  BY <1>2
<1>4. PICK raw \in Nat, off \in Nat, len \in Nat, read \in Nat, lo \in Nat :
           /\ raw = s.raw /\ off = s.off /\ len = s.len /\ read = s.read /\ lo = s.marks[n]
  BY <1>1, <1>2, <1>3 DEF Scanner
<1>5. lo <= off /\ off <= raw /\ len = raw - off
  <2>1. n \in DOMAIN s.marks
    BY <1>2, <1>3
  <2>2. s.marks[n] <= s.off
    BY <1>1, <2>1 DEF Sound, Fits
  <2>3. s.off <= s.raw /\ s.len = s.raw - s.off
    BY <1>1 DEF Sound, Fits
  <2>4. QED
    BY <1>4, <2>2, <2>3
<1>6. data' = slice(s, lo, off, start, pos)
  BY <1>3, <1>4 DEF CopyFromMark
<1>7. ASSUME ~s.failed
      PROVE  s.read - s.raw + lo = start /\ pos - start = off - lo
  <2>1. Len(marked) = n /\ \A k \in DOMAIN marked : s.read - s.raw + s.marks[k] = marked[k]
    BY <1>1, <1>3, <1>7 DEF Sound, MarksDenote
  <2>2. n \in DOMAIN marked /\ marked[n] = start
    BY <1>2, <1>3, <2>1 DEF CopyFromMark
  <2>3. read - raw + lo = start
    BY <1>4, <2>1, <2>2
  <2>4. pos = read - len
    BY <1>1, <1>4, <1>7 DEF Sound, Window
  <2>5. pos - start = off - lo
    BY <1>1, <1>5, <2>3, <2>4
  <2>6. QED
    BY <1>4, <2>3, <2>5
<1>8. data' \in Slice /\ (~s.failed => Kept(s, data'))
  <2>1. off <= s.raw
    BY <1>4, <1>5
  <2>2. QED
    BY <1>1, <1>5, <1>6, <1>7, <2>1, SliceKept
<1>9. QED
  BY <1>8, SliceKeeps DEF CopyFromMark

LEMMA CopyInputKeeps ==
  ASSUME IInv, CopyInput
  PROVE  IInv'
<1>1. Sound(s, pos, marked) /\ s \in Scanner /\ pos \in Nat
  BY InToken DEF CopyInput, Reading
<1>2. PICK raw \in Nat, off \in Nat, len \in Nat, read \in Nat, size \in Nat :
           /\ raw = s.raw /\ off = s.off /\ len = s.len /\ read = s.read /\ size = PeekedSize(s)
  BY <1>1, PeekedSizeFacts DEF Scanner
<1>3. off <= raw /\ len = raw - off /\ size <= len
  BY <1>1, <1>2 DEF Sound, Fits
<1>4. data' = slice(s, off, off + size, pos, pos + size)
  BY <1>2 DEF CopyInput
<1>5. ASSUME ~s.failed
      PROVE  s.read - s.raw + off = pos
  <2>1. pos = read - len
    BY <1>1, <1>2, <1>5 DEF Sound, Window
  <2>2. read - raw + off = pos
    BY <1>1, <1>3, <2>1
  <2>3. QED
    BY <1>2, <2>2
<1>6. /\ off <= off + size /\ off + size \in Nat /\ pos + size \in Nat
      /\ pos + size - pos = off + size - off
  BY <1>1
<1>7. off + size <= s.raw
  <2>1. off + size <= raw
    BY <1>3
  <2>2. QED
    BY <1>2, <2>1
<1>8. data' \in Slice /\ (~s.failed => Kept(s, data'))
  BY <1>1, <1>4, <1>5, <1>6, <1>7, SliceKept
<1>9. QED
  BY <1>8, SliceKeeps DEF CopyInput

----------------------------------------------------------------------------
(* Scan.                                                                   *)

\* A scanner with another error, or with no marks.
LEMMA SameMarksSound ==
  ASSUME NEW x, NEW p, NEW m, Sound(x, p, m), NEW y, SameButMarks(x, y), y.marks = x.marks
  PROVE  Sound(y, p, m) /\ (Deep(x) => Deep(y)) /\ Follows(x, y)
<1>1. Ordered(y)
  BY DEF Sound, Fits, Ordered, SameButMarks
<1>2. m \in Seq(Nat) /\ (~x.failed => MarksDenote(y, m))
  BY DEF Sound, MarksDenote, SameButMarks
<1>3. QED
  BY <1>1, <1>2, MarksSound

LEMMA NoMarksSound ==
  ASSUME NEW x, NEW p, NEW m, Sound(x, p, m), NEW y, SameButMarks(x, y), y.marks = <<>>
  PROVE  Sound(y, p, <<>>) /\ (Deep(x) => Deep(y)) /\ Follows(x, y)
<1>1. DOMAIN y.marks = {} /\ Len(y.marks) = 0 /\ <<>> \in Seq(Nat)
  OBVIOUS
<1>2. Ordered(y)
  BY <1>1 DEF Ordered
<1>3. MarksDenote(y, <<>>)
  BY <1>1 DEF MarksDenote
<1>4. QED
  BY <1>1, <1>2, <1>3, MarksSound

LEMMA SliceOfNoData == NoData \in Slice
BY DEF NoData, Slice

LEMMA ScanKeeps ==
  ASSUME IInv, Scan
  PROVE  IInv'
<1>1. /\ Sound(s, pos, marked) /\ Deep(s) /\ (~s.failed => AtCharacter(pos))
      /\ s \in Scanner /\ pos \in Nat
  BY DEF Scan, IInv, Placed, Scanning, Sound, Fits
<1>2. SameButMarks(s, s') /\ s'.marks = s.marks
  BY <1>1 DEF Scan, SameButMarks, Scanner
<1>3. Sound(s', pos, marked) /\ Deep(s') /\ Follows(s, s') /\ s'.failed = s.failed
  BY <1>1, <1>2, SameMarksSound DEF SameButMarks
<1>4. /\ stream' = stream /\ pc' \in {"token", "stopped"} /\ pos' = pos /\ marked' = marked
      /\ answer' = NoAnswer /\ data' = NoData /\ held' = held /\ start' = pos
  BY DEF Scan
<1>5. Typed'
  BY <1>1, <1>4, SliceOfNoData DEF IInv, Typed
<1>6. Draining'
  BY <1>4 DEF Draining
<1>7. AtEnd'
  <2>1. Total' = Total
    BY <1>4, StreamStays
  <2>2. CASE s.err = "none" /\ pc' = "token"
    BY <2>2 DEF AtEnd
  <2>3. CASE s.err = "eof" /\ pc' = "stopped"
    <3>1. s.failed \/ RuneAfter(pos) >= Len(stream)
      BY <2>3 DEF IInv, AtEnd, Scan
    <3>2. (RuneAfter(pos) >= Len(stream))' <=> RuneAfter(pos) >= Len(stream)
      BY <1>4, StreamStays
    <3>3. QED
      BY <1>3, <2>3, <3>1, <3>2 DEF AtEnd
  <2>4. CASE s.err = "error" /\ pc' = "stopped" /\ s' = s
    BY <2>4 DEF AtEnd
  <2>5. QED
    BY <2>2, <2>3, <2>4 DEF Scan
<1>8. TokensKept'
  <2>1. ASSUME NEW d, Kept(s, d)
        PROVE  Kept(s', d)
    BY <1>2, <2>1 DEF Kept, Bytes, SameButMarks
  <2>2. \A k : Kept(s, held[k])' <=> Kept(s', held[k])
    BY <1>4 DEF Kept, Bytes
  <2>3. QED
    BY <1>3, <1>4, <2>1, <2>2 DEF IInv, TokensKept, NoData
<1>9. QED
  BY <1>1, <1>3, <1>4, <1>5, <1>6, <1>7, <1>8, NoAnswerRight, StepKeeps

LEMMA ScanTokenKeeps ==
  ASSUME IInv, ScanToken
  PROVE  IInv'
<1>1. /\ Sound(s, pos, marked) /\ Deep(s) /\ (~s.failed => AtCharacter(pos))
      /\ s \in Scanner /\ pos \in Nat
  BY InToken DEF ScanToken
<1>2. SameButMarks(s, s') /\ s'.marks = s.marks /\ s'.err = "none"
  BY <1>1 DEF ScanToken, SameButMarks, Scanner
<1>3. Sound(s', pos, marked) /\ Deep(s') /\ Follows(s, s') /\ s'.failed = s.failed
  BY <1>1, <1>2, SameMarksSound DEF SameButMarks
<1>4. /\ stream' = stream /\ pc' = "idle" /\ pos' = pos /\ marked' = marked
      /\ answer' = NoAnswer /\ data' = NoData /\ start' = start /\ data # NoData
  BY DEF ScanToken
<1>5. /\ held \in Seq(Slice) /\ data \in Slice /\ Len(held) <= MaxHeld
      /\ MaxHeld \in Nat /\ MaxHeld > 0
  BY SizesAssumption DEF IInv, Typed
<1>6. PICK n \in Nat : n = Len(held)
  BY <1>5
<1>7. /\ held' \in Seq(Slice) /\ Len(held') <= MaxHeld
      /\ \A k \in DOMAIN held' :
             held'[k] = data \/ \E j \in DOMAIN held : held'[k] = held[j]
  <2>1. CASE n < MaxHeld
    <3>1. held' = Append(held, data)
      BY <1>6, <2>1 DEF ScanToken
    <3>2. n + 1 <= MaxHeld
      BY <1>5, <2>1
    <3>3. /\ held' \in Seq(Slice) /\ Len(held') = n + 1 /\ DOMAIN held' = 1 .. n + 1
          /\ DOMAIN held = 1 .. n
          /\ held'[n + 1] = data /\ \A k \in 1 .. n : held'[k] = held[k]
      BY <1>5, <1>6, <3>1
    <3>4. \A k \in 1 .. n + 1 : k = n + 1 \/ k \in 1 .. n
      OBVIOUS
    <3>5. QED
      BY <3>2, <3>3, <3>4
  <2>2. CASE ~(n < MaxHeld)
    <3>1. held' = Append(Tail(held), data)
      BY <1>6, <2>2 DEF ScanToken
    <3>2. n = MaxHeld /\ n > 0
      BY <1>5, <1>6, <2>2
    <3>3. held # <<>>
      <4>1. held = <<>> => Len(held) = 0
        OBVIOUS
      <4>2. n # 0
        BY <3>2
      <4>3. QED
        BY <1>6, <4>1, <4>2
    <3>4. /\ Tail(held) \in Seq(Slice) /\ Len(Tail(held)) = n - 1
          /\ DOMAIN Tail(held) = 1 .. n - 1
          /\ \A k \in 1 .. n - 1 : Tail(held)[k] = held[k + 1]
      <4>1. /\ Tail(held) \in Seq(Slice) /\ Len(Tail(held)) = n - 1
            /\ \A k \in 1 .. Len(Tail(held)) : Tail(held)[k] = held[k + 1]
        BY <1>5, <1>6, <3>3, HeadTailProperties
      <4>2. DOMAIN Tail(held) = 1 .. Len(Tail(held))
        BY <4>1
      <4>3. QED
        BY <4>1, <4>2
    <3>5. /\ held' \in Seq(Slice) /\ Len(held') = n - 1 + 1 /\ DOMAIN held' = 1 .. n - 1 + 1
          /\ held'[n - 1 + 1] = data /\ \A k \in 1 .. n - 1 : held'[k] = Tail(held)[k]
      <4>1. PICK l \in Nat : l = n - 1
        BY <3>2
      <4>2. PICK q \in Seq(Slice) : q = Tail(held)
        BY <3>4
      <4>3. l = Len(q)
        BY <3>4, <4>1, <4>2
      <4>4. held' = Append(q, data)
        BY <3>1, <4>2
      <4>5. /\ held' \in Seq(Slice) /\ Len(held') = Len(q) + 1
            /\ held'[Len(q) + 1] = data /\ \A k \in 1 .. Len(q) : held'[k] = q[k]
        BY <1>5, <4>4, AppendProperties
      <4>6. DOMAIN held' = 1 .. l + 1
        BY <4>3, <4>5
      <4>7. QED
        BY <4>1, <4>2, <4>3, <4>5, <4>6
    <3>6. n - 1 + 1 = n /\ DOMAIN held = 1 .. n
      BY <1>5, <1>6
    <3>7. \A k \in 1 .. n : k = n \/ (k \in 1 .. n - 1 /\ k + 1 \in 1 .. n)
      OBVIOUS
    <3>8. \A k \in DOMAIN held' :
              held'[k] = data \/ \E j \in DOMAIN held : held'[k] = held[j]
      BY <3>4, <3>5, <3>6, <3>7
    <3>9. Len(held') <= MaxHeld
      BY <3>2, <3>5, <3>6
    <3>10. QED
      BY <3>5, <3>8, <3>9
  <2>3. QED
    BY <2>1, <2>2
<1>8. Typed'
  BY <1>4, <1>7, SliceOfNoData DEF IInv, Typed
<1>9. Draining' /\ AtEnd'
  BY <1>2, <1>4 DEF Draining, AtEnd
<1>10. TokensKept'
  <2>1. ASSUME NEW d, Kept(s, d)
        PROVE  Kept(s', d)
    BY <1>2, <2>1 DEF Kept, Bytes, SameButMarks
  <2>2. \A k : Kept(s, held[k])' <=> Kept(s', held'[k])
    BY DEF Kept, Bytes
  <2>3. ASSUME ~s'.failed, NEW k \in DOMAIN held'
        PROVE  Kept(s', held'[k])
    <3>1. Kept(s, data) /\ \A j \in DOMAIN held : Kept(s, held[j])
      BY <1>3, <1>4, <2>3 DEF IInv, TokensKept
    <3>2. QED
      BY <1>7, <2>1, <2>3, <3>1
  <2>4. QED
    BY <1>4, <2>2, <2>3 DEF TokensKept, NoData
<1>11. QED
  BY <1>1, <1>3, <1>4, <1>8, <1>9, <1>10, NoAnswerRight, StepKeeps

\* The end of the input, met at the first or the second character ahead.
LEMMA EndIsNear ==
  ASSUME stream \in Streams, pos \in Nat, AtCharacter(pos), NEW a, Right(a),
         a.at = pos, a.ahead \in {1, 2}, a.rune = Eof
  PROVE  RuneAfter(pos) >= Len(stream)
<1>1. PICK i : Begins(i, pos, 0)
  BY DEF AtCharacter
<1>2. i \in 1 .. Len(stream) + 1 /\ First(i) = pos + 0 + 1 /\ i \in Nat /\ Len(stream) \in Nat
  BY <1>1, StreamFacts DEF Begins
<1>3. RuneAfter(pos) = i
  <2>1. First(i) = pos + 1
    BY <1>2
  <2>2. QED
    BY <1>2, <2>1, RuneAfterIs
<1>4. i + a.ahead - 1 > Len(stream)
  <2>1. a.ahead > 0 /\ RuneAfter(a.at) = i
    BY <1>3
  <2>2. QED
    BY <2>1 DEF Right, Eof, Invalid
<1>5. QED
  BY <1>2, <1>3, <1>4

\* The calls that end the reading of a token without one.
LEMMA EndKeeps ==
  ASSUME IInv, pc = "token", stream' = stream, pos' = pos, start' = start,
         data' = data, held' = held, pc' \in {"idle", "stopped"},
         Sound(s', pos', marked'), Deep(s'), Follows(s, s'), s'.failed = s.failed,
         answer' = answer, AtEnd'
  PROVE  IInv'
<1>1. ~s.failed => AtCharacter(pos) /\ Right(answer)
  BY InToken DEF IInv, Answered
<1>2. TokensKept'
  BY TokensFollow DEF IInv
<1>3. Typed' /\ Draining'
  BY DEF IInv, Typed, Draining
<1>4. QED
  BY <1>1, <1>2, <1>3, StepKeeps

LEMMA ScanEOFKeeps ==
  ASSUME IInv, ScanEOF
  PROVE  IInv'
<1>1. /\ Sound(s, pos, marked) /\ Deep(s) /\ (~s.failed => AtCharacter(pos))
      /\ s \in Scanner /\ pos \in Nat /\ stream \in Streams
  BY InToken DEF ScanEOF
<1>2. SameButMarks(s, s') /\ s'.marks = <<>>
  <2>1. PICK marks \in Seq(Nat) : marks = <<>>
    <3>1. <<>> \in Seq(Nat)
      OBVIOUS
    <3>2. QED
      BY <3>1
  <2>2. s' = [s EXCEPT !.err = "eof", !.marks = marks]
    BY <2>1 DEF ScanEOF
  <2>3. s' \in Scanner /\ s'.marks = marks
    BY <1>1, <2>2 DEF Scanner
  <2>4. /\ s'.mem = s.mem /\ s'.raw = s.raw /\ s'.off = s.off /\ s'.len = s.len
        /\ s'.peeked = s.peeked /\ s'.r = s.r /\ s'.read = s.read /\ s'.failed = s.failed
    BY <1>1, <2>2 DEF Scanner
  <2>5. QED
    BY <2>1, <2>3, <2>4 DEF SameButMarks
<1>3. Sound(s', pos, <<>>) /\ Deep(s') /\ Follows(s, s') /\ s'.failed = s.failed
  BY <1>1, <1>2, NoMarksSound DEF SameButMarks
<1>4. AtEnd'
  <2>1. answer.ahead \in {1, 2} /\ answer.rune = Eof
    BY DEF ScanEOF
  <2>2. ~s.failed => Right(answer) /\ answer.at = pos
    BY <2>1 DEF IInv, Answered, ScanEOF
  <2>3. s.failed \/ RuneAfter(pos) >= Len(stream)
    BY <1>1, <2>1, <2>2, EndIsNear
  <2>4. (RuneAfter(pos) >= Len(stream))' <=> RuneAfter(pos) >= Len(stream)
    BY DEF ScanEOF, RuneAfter, First
  <2>5. pc' = "idle"
    BY DEF ScanEOF
  <2>6. QED
    BY <1>3, <2>3, <2>4, <2>5 DEF AtEnd
<1>5. QED
  BY <1>3, <1>4, EndKeeps DEF ScanEOF

LEMMA ScanErrorKeeps ==
  ASSUME IInv, ScanError
  PROVE  IInv'
<1>1. /\ Sound(s, pos, marked) /\ Deep(s) /\ s \in Scanner
  BY InToken DEF ScanError
<1>2. SameButMarks(s, s') /\ s'.marks = <<>> /\ s'.err = "error"
  <2>1. PICK marks \in Seq(Nat) : marks = <<>>
    <3>1. <<>> \in Seq(Nat)
      OBVIOUS
    <3>2. QED
      BY <3>1
  <2>2. s' = [s EXCEPT !.err = "error", !.marks = marks]
    BY <2>1 DEF ScanError
  <2>3. s' \in Scanner /\ s'.marks = marks /\ s'.err = "error"
    BY <1>1, <2>2 DEF Scanner
  <2>4. /\ s'.mem = s.mem /\ s'.raw = s.raw /\ s'.off = s.off /\ s'.len = s.len
        /\ s'.peeked = s.peeked /\ s'.r = s.r /\ s'.read = s.read /\ s'.failed = s.failed
    BY <1>1, <2>2 DEF Scanner
  <2>5. QED
    BY <2>1, <2>3, <2>4 DEF SameButMarks
<1>3. Sound(s', pos, <<>>) /\ Deep(s') /\ Follows(s, s') /\ s'.failed = s.failed
  BY <1>1, <1>2, NoMarksSound DEF SameButMarks
<1>4. AtEnd'
  BY <1>2 DEF ScanError, AtEnd
<1>5. QED
  BY <1>3, <1>4, EndKeeps DEF ScanError

----------------------------------------------------------------------------
(* NewBuffer, NewSlice and Read.                                           *)

\* A scanner that holds the first n bytes.
LEMMA NewSound ==
  ASSUME stream \in Streams, NEW y \in Scanner, NEW n \in Nat,
         y.raw = n, y.off = 0, y.len = n, y.peeked = <<>>, y.marks = <<>>, y.read = n,
         n <= cap(y), n <= Total,
         \A i \in 0 .. n - 1 : Byte(y, i) = i + 1,
         y.r => BufferSize <= cap(y) /\ ~y.failed,
         ~y.r /\ ~y.failed => n = Total
  PROVE  Sound(y, 0, <<>>)
<1>1. DOMAIN y.peeked = {} /\ Len(y.peeked) = 0 /\ DOMAIN y.marks = {} /\ Len(y.marks) = 0
  OBVIOUS
<1>2. PeekedSize(y) = 0
  BY <1>1, PeekedSizeFacts
<1>3. Total \in Nat
  BY StreamFacts
<1>4. 0 <= n /\ n = n - 0 /\ 0 + n <= n /\ 0 \in Nat /\ 0 <= 3 /\ 0 = n - n
  OBVIOUS
<1>5. Fits(y, 0)
  BY <1>1, <1>2, <1>3, <1>4 DEF Fits
<1>6. \A i \in 0 .. n - 1 : Byte(y, i) = n - n + 1 + i
  <2>1. \A i \in 0 .. n - 1 : n - n + 1 + i = i + 1
    OBVIOUS
  <2>2. QED
    BY <2>1
<1>7. ~y.failed => Window(y, 0)
  BY <1>4, <1>6 DEF Window
<1>8. MarksDenote(y, <<>>)
  BY <1>1 DEF MarksDenote
<1>9. CacheHolds(y, 0)
  BY <1>1 DEF CacheHolds
<1>10. <<>> \in Seq(Nat)
  OBVIOUS
<1>11. QED
  BY <1>5, <1>7, <1>8, <1>9, <1>10 DEF Sound

\* The first character begins at the beginning.
LEMMA AtStart ==
  ASSUME stream \in Streams
  PROVE  AtCharacter(0)
<1>1. 1 \in 1 .. Len(stream) + 1 /\ First(1) = 0 + 0 + 1
  BY StreamFacts DEF First
<1>2. QED
  BY <1>1 DEF AtCharacter, Begins

\* The first read has been made; nothing has been asked yet.
LEMMA NewKeeps ==
  ASSUME IInv, pc = "new", stream' = stream, pc' \in {"idle", "drain"},
         UNCHANGED <<pos, start, data, held, marked, answer>>,
         Sound(s', 0, <<>>), Deep(s'), s'.marks = <<>>, s'.peeked = <<>>,
         s'.err = "eof" => Total = 0
  PROVE  IInv'
<1>1. pos = 0 /\ marked = <<>> /\ data = NoData /\ held = <<>> /\ s = newScanner
  BY DEF IInv, Fresh
<1>2. stream \in Streams
  BY DEF IInv, Typed
<1>3. Typed' /\ Draining'
  BY DEF IInv, Typed, Draining
<1>4. Right(answer)
  BY <1>1 DEF IInv, Answered, newScanner
<1>5. AtEnd'
  <2>1. (RuneAfter(pos) >= Len(stream))' <=> RuneAfter(pos) >= Len(stream)
    BY StreamStays
  <2>2. ASSUME Total = 0
        PROVE  RuneAfter(pos) >= Len(stream)
    <3>1. PICK n \in Nat, total \in Nat : n = Len(stream) /\ total = Total /\ First(n + 1) = total + 1
      BY <1>2, StreamFacts
    <3>2. n + 1 \in 1 .. Len(stream) + 1 /\ First(n + 1) = pos + 1
      BY <1>1, <2>2, <3>1
    <3>3. RuneAfter(pos) = n + 1
      BY <1>2, <3>2, RuneAfterIs
    <3>4. QED
      BY <3>1, <3>3
  <2>3. QED
    BY <2>1, <2>2 DEF AtEnd
<1>6. TokensKept'
  <2>1. DOMAIN held' = {} /\ data' = NoData
    BY <1>1
  <2>2. QED
    BY <2>1 DEF TokensKept, NoData
<1>7. QED
  BY <1>1, <1>2, <1>3, <1>4, <1>5, <1>6, AtStart, StepKeeps

LEMMA NewScannerTyped ==
  newScanner \in Scanner /\ newScanner.marks = <<>> /\ newScanner.peeked = <<>>
BY DEF newScanner, Scanner

LEMMA NewBufferKeeps ==
  ASSUME IInv, NewBuffer
  PROVE  IInv'
<1>1. s = newScanner /\ stream \in Streams
  BY DEF IInv, Fresh, Typed, NewBuffer
<1>2. PICK total \in Nat, size \in Nat, um \in Nat :
           /\ total = Total /\ size = BufferSize /\ um = UTFMax
           /\ size > 2 * um /\ um > 0
  BY <1>1, StreamFacts, SizesAssumption
<1>3. PICK n \in Nat : /\ n = Smaller(BufferSize, Total) /\ n <= total /\ n <= size
                       /\ n < size => n = total
  BY <1>2 DEF Smaller
<1>4. CASE n = 0 /\ s' = [s EXCEPT !.err = "eof"]
  <2>1. s' \in Scanner /\ s' = [newScanner EXCEPT !.err = "eof"]
    BY <1>1, <1>4, NewScannerTyped DEF Scanner
  <2>2. /\ s'.raw = 0 /\ s'.off = 0 /\ s'.len = 0 /\ s'.peeked = <<>> /\ s'.marks = <<>>
        /\ s'.read = 0 /\ ~s'.r /\ s'.err = "eof" /\ s'.mem = <<>>
    BY <2>1 DEF newScanner
  <2>3. total = 0
    BY <1>2, <1>3, <1>4
  <2>4. cap(s') = 0 /\ (0 \in Nat) /\ 0 <= 0 /\ \A i \in 0 .. 0 - 1 : Byte(s', i) = i + 1
    BY <2>2 DEF cap
  <2>5. Sound(s', 0, <<>>)
    BY <1>1, <1>2, <2>1, <2>2, <2>3, <2>4, NewSound
  <2>6. QED
    BY <1>2, <2>2, <2>3, <2>5, NewKeeps DEF NewBuffer, Deep
<1>5. CASE /\ n > 0
           /\ s' = [s EXCEPT !.mem = [i \in 1 .. BufferSize |-> IF i <= n THEN i ELSE 0],
                             !.raw = n, !.len = n, !.r = (n = BufferSize), !.read = n]
  <2>. DEFINE mem == [i \in 1 .. size |-> IF i <= n THEN i ELSE 0]
  <2>1. mem \in Seq(Nat) /\ Len(mem) = size /\ \A i \in 1 .. n : mem[i] = i
    <3>1. \A i \in 1 .. size : (IF i <= n THEN i ELSE 0) \in Nat
      OBVIOUS
    <3>2. \A i \in 1 .. n : i \in 1 .. size /\ i <= n
      BY <1>3
    <3>3. QED
      BY <3>1, <3>2
  <2>2. s' = [s EXCEPT !.mem = mem, !.raw = n, !.len = n, !.r = (n = size), !.read = n]
    BY <1>2, <1>5
  <2>. HIDE DEF mem
  <2>3. /\ s' \in Scanner /\ s'.mem = mem /\ s'.raw = n /\ s'.len = n /\ s'.read = n
        /\ s'.r = (n = size)
    BY <1>1, <2>1, <2>2, NewScannerTyped DEF Scanner
  <2>4. /\ s'.off = 0 /\ s'.peeked = <<>> /\ s'.marks = <<>> /\ ~s'.failed /\ s'.err = "none"
    <3>1. /\ s'.off = s.off /\ s'.peeked = s.peeked /\ s'.marks = s.marks
          /\ s'.failed = s.failed /\ s'.err = s.err
      BY <1>1, <2>2, NewScannerTyped DEF Scanner
    <3>2. QED
      BY <1>1, <3>1 DEF newScanner
  <2>5. \A i \in 0 .. n - 1 : Byte(s', i) = i + 1
    <3>1. \A i \in 0 .. n - 1 : i + 1 \in 1 .. n
      OBVIOUS
    <3>2. s'.mem = mem /\ \A i \in 1 .. n : mem[i] = i
      BY <2>1, <2>3
    <3>3. QED
      BY <3>1, <3>2 DEF Byte
  <2>6. cap(s') = size /\ n <= cap(s')
    BY <1>3, <2>1, <2>3 DEF cap
  <2>7. s'.r <=> n = size
    BY <2>3, Zenon
  <2>8. ~s'.r => n = total
    <3>1. n # size => n = total
      BY <1>3
    <3>2. QED
      BY <2>7, <3>1
  <2>9. Sound(s', 0, <<>>)
    BY <1>1, <1>2, <1>3, <2>3, <2>4, <2>5, <2>6, <2>8, NewSound
  <2>10. Deep(s')
    <3>1. n = size => n > um
      BY <1>2
    <3>2. s'.len = n
      BY <2>3
    <3>3. QED
      BY <1>2, <2>7, <3>1, <3>2 DEF Deep
  <2>11. QED
    BY <2>4, <2>9, <2>10, NewKeeps DEF NewBuffer
<1>6. CASE s' = [s EXCEPT !.err = "error", !.failed = TRUE]
  <2>1. s' \in Scanner /\ s' = [newScanner EXCEPT !.err = "error", !.failed = TRUE]
    BY <1>1, <1>6, NewScannerTyped DEF Scanner
  <2>2. /\ s'.raw = 0 /\ s'.off = 0 /\ s'.len = 0 /\ s'.peeked = <<>> /\ s'.marks = <<>>
        /\ s'.read = 0 /\ ~s'.r /\ s'.err = "error" /\ s'.mem = <<>> /\ s'.failed
    BY <2>1 DEF newScanner
  <2>3. cap(s') = 0 /\ (0 \in Nat) /\ 0 <= 0 /\ \A i \in 0 .. 0 - 1 : Byte(s', i) = i + 1
    BY <2>2 DEF cap
  <2>4. 0 <= Total
    BY <1>2
  <2>5. Sound(s', 0, <<>>)
    BY <1>1, <2>1, <2>2, <2>3, <2>4, NewSound
  <2>6. QED
    BY <2>2, <2>5, NewKeeps DEF NewBuffer, Deep
<1>7. QED
  BY <1>3, <1>4, <1>5, <1>6 DEF NewBuffer

LEMMA NewSliceKeeps ==
  ASSUME IInv, NewSlice
  PROVE  IInv'
<1>1. s = newScanner /\ stream \in Streams
  BY DEF IInv, Fresh, Typed, NewSlice
<1>2. PICK n \in Nat : n = Total
  BY <1>1, StreamFacts
<1>. DEFINE mem == [i \in 1 .. n |-> i]
<1>3. mem \in Seq(Nat) /\ Len(mem) = n /\ \A i \in 1 .. n : mem[i] = i
  OBVIOUS
<1>4. s' = [s EXCEPT !.mem = mem, !.raw = n, !.len = n, !.read = n]
  BY <1>2 DEF NewSlice
<1>. HIDE DEF mem
<1>5. s' \in Scanner /\ s'.mem = mem /\ s'.raw = n /\ s'.len = n /\ s'.read = n
  BY <1>1, <1>3, <1>4, NewScannerTyped DEF Scanner
<1>6. /\ s'.off = 0 /\ s'.peeked = <<>> /\ s'.marks = <<>> /\ ~s'.failed /\ s'.err = "none"
      /\ ~s'.r
  BY <1>1, <1>4 DEF newScanner
<1>7. \A i \in 0 .. n - 1 : Byte(s', i) = i + 1
  <2>1. \A i \in 0 .. n - 1 : i + 1 \in 1 .. n
    OBVIOUS
  <2>2. QED
    BY <1>3, <1>5, <2>1 DEF Byte
<1>8. cap(s') = n /\ n <= cap(s')
  BY <1>3, <1>5 DEF cap
<1>9. n <= Total
  BY <1>2
<1>10. Sound(s', 0, <<>>)
  BY <1>1, <1>2, <1>5, <1>6, <1>7, <1>8, <1>9, NewSound
<1>11. QED
  BY <1>6, <1>10, NewKeeps DEF NewSlice, Deep

\* n bytes are handed out by Read.
Skipped(x, y, n) == n <= x.len /\ y = [x EXCEPT !.off = @ + n, !.len = @ - n]

LEMMA SkipSound ==
  ASSUME NEW x, NEW p \in Nat, NEW m, Sound(x, p, m), x.peeked = <<>>, x.marks = <<>>,
         NEW n \in Nat, NEW y, Skipped(x, y, n)
  PROVE  /\ Sound(y, p + n, m) /\ Follows(x, y)
         /\ y.peeked = <<>> /\ y.marks = <<>> /\ y.failed = x.failed
<1>1. x \in Scanner /\ stream \in Streams
  BY DEF Sound, Fits
<1>2. PICK raw \in Nat, off \in Nat, len \in Nat, read \in Nat, total \in Nat :
           /\ raw = x.raw /\ off = x.off /\ len = x.len /\ read = x.read /\ total = Total
           /\ off <= raw /\ len = raw - off /\ n <= len /\ p + len <= read /\ read <= total
  BY <1>1, StreamFacts DEF Sound, Fits, Scanner, Skipped
<1>3. y = [x EXCEPT !.off = off + n, !.len = len - n] /\ len - n \in Nat /\ off + n \in Nat
  BY <1>2 DEF Skipped
<1>4. /\ y \in Scanner /\ y.mem = x.mem /\ y.raw = raw /\ y.off = off + n /\ y.len = len - n
      /\ y.peeked = <<>> /\ y.marks = <<>> /\ y.r = x.r /\ y.read = read /\ y.failed = x.failed
  BY <1>1, <1>2, <1>3 DEF Scanner
<1>5. DOMAIN y.peeked = {} /\ Len(y.peeked) = 0 /\ DOMAIN y.marks = {} /\ PeekedSize(y) = 0
  <2>1. DOMAIN y.peeked = {} /\ Len(y.peeked) = 0 /\ DOMAIN y.marks = {}
    BY <1>4
  <2>2. QED
    BY <1>4, <2>1, PeekedSizeFacts
<1>6. /\ off + n <= raw /\ len - n = raw - (off + n) /\ 0 <= len - n /\ 0 <= 3
      /\ p + n \in Nat /\ p + n + (len - n) <= read
  <2>1. off <= raw /\ len = raw - off /\ n <= len /\ p + len <= read
    BY <1>2
  <2>2. QED
    BY <2>1
<1>7. Fits(y, p + n)
  <2>1. y.raw <= cap(y) /\ (y.r => ~y.failed /\ BufferSize <= cap(y))
    BY <1>2, <1>4 DEF Sound, Fits, cap
  <2>2. y.off <= y.raw /\ y.len = y.raw - y.off /\ PeekedSize(y) <= y.len
    BY <1>4, <1>5, <1>6
  <2>3. p + n \in Nat /\ p + n + y.len <= y.read /\ y.read <= Total
    BY <1>2, <1>4, <1>6
  <2>4. QED
    BY <1>4, <1>5, <1>6, <2>1, <2>2, <2>3 DEF Fits
<1>8. ASSUME ~x.failed
      PROVE  Window(y, p + n) /\ MarksDenote(y, m) /\ CacheHolds(y, p + n)
  <2>1. Window(x, p) /\ MarksDenote(x, m)
    BY <1>8 DEF Sound
  <2>2. Window(y, p + n)
    <3>1. p = read - len
      BY <1>2, <2>1 DEF Window
    <3>2. p + n = read - (len - n)
      BY <3>1
    <3>3. QED
      BY <1>2, <1>4, <2>1, <3>2 DEF Window, Byte
  <2>3. MarksDenote(y, m)
    BY <1>2, <1>4, <2>1 DEF MarksDenote
  <2>4. CacheHolds(y, p + n)
    BY <1>5 DEF CacheHolds
  <2>5. QED
    BY <2>2, <2>3, <2>4
<1>9. Sound(y, p + n, m)
  BY <1>1, <1>4, <1>7, <1>8 DEF Sound
<1>10. QED
  BY <1>4, <1>9 DEF Follows

LEMMA ReadKeeps ==
  ASSUME IInv, NEW size \in 1 .. MaxRead, Read(size)
  PROVE  IInv'
<1>1. /\ Sound(s, pos, marked) /\ s.marks = <<>> /\ s.peeked = <<>>
      /\ stream \in Streams /\ pos \in Nat /\ s \in Scanner
  BY DEF IInv, Placed, Draining, Read, Sound, Fits
<1>2. /\ stream' = stream /\ start' = start /\ data' = data /\ held' = held
      /\ marked' = marked /\ answer' = answer /\ pc' \in {"drain", "drained", "broken"}
  BY DEF Read
<1>3. ASSUME Sound(s', pos', marked), s'.marks = <<>>, s'.peeked = <<>>, Follows(s, s'),
             pc' = "drained" => s'.failed \/ pos' = Total
      PROVE  IInv'
  <2>1. TokensKept'
    BY <1>2, <1>3, TokensFollow DEF IInv
  <2>2. Typed' /\ Draining'
    BY <1>2, <1>3 DEF IInv, Typed, Draining
  <2>3. AtEnd'
    BY <1>2, <1>3, StreamStays DEF AtEnd
  <2>4. ~s'.failed => Right(answer')
    BY <1>2, <1>3 DEF IInv, Answered, Follows
  <2>5. QED
    BY <1>2, <1>3, <2>1, <2>2, <2>3, <2>4, StepKeeps
<1>4. CASE pc' = "broken" /\ UNCHANGED <<s, pos>>
  BY <1>1, <1>3, <1>4 DEF Follows
<1>5. ASSUME NEW x \in (IF s.raw = s.off THEN refill(s) ELSE {s}), NEW n,
             n = Smaller(size, x.raw - x.off),
             pc' = (IF x.raw = x.off THEN "drained" ELSE "drain"),
             s' = [x EXCEPT !.off = @ + n, !.len = @ - n],
             pos' = pos + n
      PROVE  IInv'
  <2>1. /\ Sound(x, pos, marked) /\ x.peeked = <<>> /\ x.marks = <<>> /\ Follows(s, x)
        /\ x.raw = x.off => ~x.r \/ x.len > 2 * UTFMax
    <3>1. CASE s.raw = s.off
      <4>1. /\ Sound(x, pos, marked) /\ x.peeked = s.peeked /\ x.marks = <<>>
            /\ s.failed => x.failed
            /\ x.r => x.len > 2 * UTFMax
            /\ ~s.r => x = s
        BY <1>1, <1>5, <3>1, RefillSound
      <4>2. QED
        BY <1>1, <4>1 DEF Follows
    <3>2. CASE s.raw # s.off
      BY <1>1, <1>5, <3>2 DEF Follows
    <3>3. QED
      BY <3>1, <3>2
  <2>2. PICK raw \in Nat, off \in Nat, len \in Nat, read \in Nat, um \in Nat :
             /\ raw = x.raw /\ off = x.off /\ len = x.len /\ read = x.read /\ um = UTFMax
             /\ off <= raw /\ len = raw - off
    BY <2>1, SizesAssumption DEF Sound, Fits, Scanner
  <2>3. n \in Nat /\ n <= len
    BY <1>5, <2>2 DEF Smaller
  <2>4. n <= x.len
    BY <2>2, <2>3
  <2>5. /\ Sound(s', pos', marked) /\ Follows(x, s')
        /\ s'.peeked = <<>> /\ s'.marks = <<>> /\ s'.failed = x.failed
    <3>1. Skipped(x, s', n)
      BY <1>5, <2>4 DEF Skipped
    <3>2. /\ Sound(s', pos + n, marked) /\ Follows(x, s')
          /\ s'.peeked = <<>> /\ s'.marks = <<>> /\ s'.failed = x.failed
      BY <1>1, <2>1, <2>3, <3>1, SkipSound
    <3>3. QED
      BY <1>5, <3>2
  <2>6. Follows(s, s')
    BY <2>1, <2>5 DEF Follows
  <2>7. ASSUME pc' = "drained", ~s'.failed
        PROVE  pos' = Total
    <3>1. raw = off /\ len = 0 /\ n = 0 /\ x.raw = x.off
      BY <1>5, <2>2, <2>3, <2>7
    <3>2. ~x.r
      <4>1. ~(len > 2 * um)
        BY <3>1
      <4>2. ~(x.len > 2 * UTFMax)
        BY <2>2, <4>1
      <4>3. QED
        BY <2>1, <3>1, <4>2
    <3>3. pos = read - len /\ read = Total
      BY <2>1, <2>2, <2>5, <2>7, <3>2 DEF Sound, Window
    <3>4. pos = read
      BY <1>1, <3>1, <3>3
    <3>5. pos' = pos
      BY <1>1, <1>5, <3>1
    <3>6. QED
      BY <3>3, <3>4, <3>5
  <2>8. QED
    BY <1>3, <2>5, <2>6, <2>7
<1>6. CASE ~s.lastErr
  <2>1. PICK x \in (IF s.raw = s.off THEN refill(s) ELSE {s}) :
             LET n == Smaller(size, x.raw - x.off)
             IN  /\ pc' = IF x.raw = x.off THEN "drained" ELSE "drain"
                 /\ s' = [x EXCEPT !.off = @ + n, !.len = @ - n]
                 /\ pos' = pos + n
    BY <1>6 DEF Read
  <2>2. PICK n : n = Smaller(size, x.raw - x.off)
    OBVIOUS
  <2>3. /\ pc' = (IF x.raw = x.off THEN "drained" ELSE "drain")
        /\ s' = [x EXCEPT !.off = @ + n, !.len = @ - n]
        /\ pos' = pos + n
    BY <2>1, <2>2
  <2>4. QED
    BY <1>5, <2>2, <2>3
<1>7. QED
  BY <1>4, <1>6 DEF Read

----------------------------------------------------------------------------
(* The invariant holds.                                                    *)

LEMMA InitInvariant == Init => IInv
<1>. SUFFICES ASSUME Init
              PROVE  IInv
  OBVIOUS
<1>1. pc = "new" /\ s = newScanner /\ pos = 0 /\ marked = <<>> /\ data = NoData
      /\ held = <<>> /\ answer = NoAnswer /\ start = 0 /\ stream \in Streams
  BY DEF Init
<1>2. Typed
  <2>1. held \in Seq(Slice) /\ Len(held) = 0 /\ MaxHeld \in Nat
    BY <1>1, SizesAssumption
  <2>2. QED
    BY <1>1, <2>1, SliceOfNoData DEF Typed
<1>3. TokensKept
  <2>1. DOMAIN held = {}
    BY <1>1
  <2>2. QED
    BY <1>1, <2>1 DEF TokensKept
<1>4. Fresh /\ Placed /\ Scanning /\ Draining /\ Answered /\ AtEnd
  BY <1>1, NoAnswerRight DEF Fresh, Placed, Scanning, Draining, Answered, AtEnd
<1>5. QED
  BY <1>2, <1>3, <1>4 DEF IInv

LEMMA IdleInvariant == IInv /\ UNCHANGED vars => IInv'
<1>. SUFFICES ASSUME IInv, UNCHANGED vars
              PROVE  IInv'
  OBVIOUS
<1>1. /\ stream' = stream /\ s' = s /\ pos' = pos /\ pc' = pc /\ start' = start
      /\ data' = data /\ held' = held /\ marked' = marked /\ answer' = answer
  BY DEF vars
<1>2. Typed' /\ Fresh' /\ Draining'
  BY <1>1 DEF IInv, Typed, Fresh, Draining
<1>3. Placed' /\ Scanning' /\ Answered' /\ AtEnd'
  BY <1>1, StreamStays DEF IInv, Placed, Scanning, Deep, Answered, AtEnd, RuneAfter, First
<1>4. TokensKept'
  BY <1>1, TokensFollow DEF IInv, Follows
<1>5. QED
  BY <1>2, <1>3, <1>4 DEF IInv

LEMMA StepInvariant == IInv /\ [Next]_vars => IInv'
<1>. SUFFICES ASSUME IInv, [Next]_vars
              PROVE  IInv'
  OBVIOUS
<1>1. CASE NewBuffer
  BY <1>1, NewBufferKeeps
<1>2. CASE NewSlice
  BY <1>2, NewSliceKeeps
<1>3. CASE Scan
  BY <1>3, ScanKeeps
<1>4. CASE ScanToken
  BY <1>4, ScanTokenKeeps
<1>5. CASE ScanEOF
  BY <1>5, ScanEOFKeeps
<1>6. CASE ScanError
  BY <1>6, ScanErrorKeeps
<1>7. CASE Peek
  BY <1>7, PeekKeeps
<1>8. CASE PeekTwo
  BY <1>8, PeekTwoKeeps
<1>9. ASSUME NEW n \in {1, 2}, PeekAt(n)
      PROVE  IInv'
  BY <1>9, PeekAtKeeps
<1>10. CASE Get
  BY <1>10, GetKeeps
<1>11. CASE PushMark
  BY <1>11, PushMarkKeeps
<1>12. CASE PopMark
  BY <1>12, PopMarkKeeps
<1>13. CASE CopyFromMark
  BY <1>13, CopyFromMarkKeeps
<1>14. CASE CopyInput
  BY <1>14, CopyInputKeeps
<1>15. ASSUME NEW n \in 1 .. MaxRead, Read(n)
       PROVE  IInv'
  BY <1>15, ReadKeeps
<1>16. CASE Ended \/ UNCHANGED vars
  BY <1>16, IdleInvariant DEF Ended
<1>17. QED
  BY <1>1, <1>2, <1>3, <1>4, <1>5, <1>6, <1>7, <1>8, <1>9, <1>10, <1>11, <1>12, <1>13, <1>14,
     <1>15, <1>16 DEF Next

LEMMA Invariance == Spec => []IInv
<1>1. Init => IInv
  BY InitInvariant
<1>2. IInv /\ [Next]_vars => IInv'
  BY StepInvariant
<1>3. QED
  BY <1>1, <1>2, PTL DEF Spec

----------------------------------------------------------------------------
(* What follows.                                                           *)

\* The scanner has its type, the unread part lies within the buffer and the buffer
\* within its array, even after a read has failed (scanner.go:30-48).
THEOREM TypeCorrect == Spec => []TypeOK
<1>1. ASSUME IInv
      PROVE  TypeOK
  <2>1. stream \in Streams /\ Total \in Nat
        /\ pc \in {"new", "idle", "token", "stopped", "drain", "drained", "broken"}
    BY <1>1, StreamFacts DEF IInv, Typed
  <2>2. CASE pc = "new"
    <3>1. s = newScanner /\ pos = 0
      BY <1>1, <2>2 DEF IInv, Fresh
    <3>2. s.off = 0 /\ s.raw = 0 /\ cap(s) = 0 /\ s \in Scanner
      BY <3>1, NewScannerTyped DEF newScanner, cap
    <3>3. pos \in 0 .. Total
      BY <2>1, <3>1
    <3>4. QED
      BY <2>1, <3>2, <3>3 DEF TypeOK
  <2>3. CASE pc # "new"
    <3>1. Fits(s, pos)
      BY <1>1, <2>3 DEF IInv, Placed, Sound
    <3>2. PICK len \in Nat, read \in Nat, total \in Nat :
               len = s.len /\ read = s.read /\ total = Total /\ pos \in Nat
      BY <2>1, <3>1 DEF Fits, Scanner
    <3>3. pos + len <= read /\ read <= total
      BY <3>1, <3>2 DEF Fits
    <3>4. pos <= total
      BY <3>2, <3>3
    <3>5. pos \in 0 .. Total
      BY <3>2, <3>4
    <3>6. QED
      BY <2>1, <3>1, <3>5 DEF TypeOK, Fits
  <2>4. QED
    BY <2>2, <2>3
<1>2. IInv => TypeOK
  BY <1>1
<1>3. QED
  BY <1>2, Invariance, PTL

\* The buffer is the part of the stream read last, without a gap, and the caller is
\* where s.input begins in it, however often refill has moved, enlarged or dropped
\* what is in the buffer (scanner.go:236-288).
THEOREM BufferIsAWindow == Spec => []BufferIsWindow
<1>1. ASSUME IInv, pc # "new", ~s.failed
      PROVE  /\ \A i \in 0 .. s.raw - 1 : Byte(s, i) = s.read - s.raw + 1 + i
             /\ s.len = s.raw - s.off
             /\ pos = s.read - s.len
  BY <1>1 DEF IInv, Placed, Sound, Fits, Window
<1>2. IInv => BufferIsWindow
  BY <1>1 DEF BufferIsWindow
<1>3. QED
  BY <1>2, Invariance, PTL

\* A mark denotes the byte it was pushed at until it is popped (scanner.go:247-264, 296-307).
THEOREM MarksKeepTheirBytes == Spec => []MarksHold
<1>1. ASSUME IInv, ~s.failed
      PROVE  /\ Len(s.marks) = Len(marked)
             /\ \A k \in DOMAIN marked : s.read - s.raw + s.marks[k] = marked[k]
  <2>1. CASE pc = "new"
    <3>1. s.marks = <<>> /\ marked = <<>>
      BY <1>1, <2>1, NewScannerTyped DEF IInv, Fresh
    <3>2. QED
      BY <3>1
  <2>2. CASE pc # "new"
    BY <1>1, <2>2 DEF IInv, Placed, Sound, MarksDenote
  <2>3. QED
    BY <2>1, <2>2
<1>2. IInv => MarksHold
  BY <1>1 DEF MarksHold
<1>3. QED
  BY <1>2, Invariance, PTL

\* The cache of characters looked at is what comes next, whatever was consumed and
\* refilled since (scanner.go:81-219).
THEOREM CacheIsAhead == Spec => []CacheIsNext
<1>1. ASSUME IInv, ~s.failed, NEW k \in DOMAIN s.peeked
      PROVE  s.peeked[k] = [rune |-> RuneAfter(pos) + k - 1, size |-> Size(RuneAfter(pos) + k - 1)]
  <2>1. CASE pc \in {"idle", "token", "stopped"}
    <3>1. Sound(s, pos, marked) /\ CacheHolds(s, pos) /\ stream \in Streams /\ AtCharacter(pos)
      BY <1>1, <2>1 DEF IInv, Placed, Scanning, Sound
    <3>2. PICK i : Begins(i, pos, 0)
      BY <3>1 DEF AtCharacter
    <3>3. pos \in Nat /\ i \in 1 .. Len(stream) + 1 /\ First(i) = pos + 0 + 1
      BY <3>1, <3>2 DEF Begins, Sound, Fits
    <3>4. RuneAfter(pos) = i
      <4>1. First(i) = pos + 1
        BY <3>3
      <4>2. QED
        BY <3>1, <3>3, <4>1, RuneAfterIs
    <3>5. QED
      BY <3>1, <3>2, <3>4 DEF CacheHolds
  <2>2. CASE pc \in {"new", "drain", "drained", "broken"}
    <3>1. s.peeked = <<>>
      BY <1>1, <2>2, NewScannerTyped DEF IInv, Fresh, Draining
    <3>2. QED
      BY <3>1
  <2>3. QED
    BY <1>1, <2>1, <2>2 DEF IInv, Typed
<1>2. IInv => CacheIsNext
  BY <1>1 DEF CacheIsNext
<1>3. QED
  BY <1>2, Invariance, PTL

\* peek, get and the look-ahead answer with the characters of the stream, and with the
\* end of the input at its end only, although peek and peekTwo never refill: get has
\* left them a character, and with a mark in place refill finds room for one
\* (scanner.go:81-219, 256).
THEOREM AnswersAreRight == Spec => []RightAnswers
<1>1. IInv => RightAnswers
  BY DEF IInv, Answered, Right, RightAnswers
<1>2. QED
  BY <1>1, Invariance, PTL

\* Token data is not written after it was handed out: it is a copy as long as there is
\* a reader, and nothing refills once there is none (scanner.go:227-233, 316-324).
THEOREM TokensStayIntact == Spec => []TokensIntact
<1>1. IInv => TokensIntact
  BY DEF IInv, TokensKept, Kept, TokensIntact
<1>2. QED
  BY <1>1, Invariance, PTL

\* The end of the input, as Scan and Read report it: all of the stream was handed out,
\* but for the one character that peekTwo may have found to be the last
\* (scanner.go:50-64, 583-586, 674-685, 707-708, 999-1019).
THEOREM EndIsTheEnd == Spec => []NothingButTail
<1>1. IInv => NothingButTail
  BY DEF IInv, AtEnd, NothingButTail
<1>2. QED
  BY <1>1, Invariance, PTL
============================================================================
