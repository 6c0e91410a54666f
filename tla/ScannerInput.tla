---------------------------- MODULE ScannerInput ---------------------------
(***************************************************************************)
(* The input side of the scanner (internal/tokenizer/scanner.go): a buffer *)
(* that is a window of a byte stream, refilled from an io.Reader, with a   *)
(* cache of characters already looked at and a stack of marks that say     *)
(* where the tokens being read began.                                      *)
(*                                                                         *)
(* A byte is its position in the stream, so that a byte that is lost,      *)
(* repeated or moved shows.  The stream is a sequence of characters, each  *)
(* given by the position of its last byte.  The readers of readtype.go are *)
(* the environment: they call the operations below in any order that       *)
(* respects the stack discipline of the marks.                             *)
(***************************************************************************)
EXTENDS Integers, Sequences

CONSTANTS
    Streams,        \* the inputs: where each character ends
    UTFMax,         \* utf8.UTFMax, the length of the longest character
    BufferSize,     \* len(b) in NewBuffer
    Faults,         \* the bytes a read may have delivered when it fails
    MaxMarks,       \* bound on len(s.marks)
    MaxHeld,        \* bound on the tokens whose bytes are still in use
    MaxRead         \* bound on len(p) in Read

\* A quarter of the buffer is room for a character: what refill leaves free
\* behind a marked sequence must be enough for peek and peekTwo (RightAnswers).
ASSUME SizesAssumption ==
    /\ UTFMax \in Nat \ {0}
    /\ BufferSize \in Nat /\ BufferSize > 2 * UTFMax /\ BufferSize > 4 * (UTFMax - 1)
    /\ Faults \subseteq Nat
    /\ MaxMarks \in Nat /\ MaxRead \in Nat /\ MaxHeld \in Nat \ {0}

ASSUME StreamsAssumption ==
    \A ends \in Streams :
        /\ ends \in Seq(Nat \ {0})
        /\ \A i, j \in DOMAIN ends : i < j => ends[i] < ends[j]
        /\ \A i \in DOMAIN ends : ends[i] <= UTFMax + (IF i = 1 THEN 0 ELSE ends[i - 1])

VARIABLES
    stream,         \* the input
    s,              \* the Scanner
    pos,            \* the bytes handed out so far
    pc,             \* where the caller is
    start,          \* where the current token began
    data,           \* token.Data of the current token
    held,           \* token.Data of the tokens before it
    marked,         \* the stream positions at which the marks were pushed
    answer          \* the last answer of peek, peekTwo, peekAt or get

vars == <<stream, s, pos, pc, start, data, held, marked, answer>>

----------------------------------------------------------------------------
(* The stream.                                                             *)

\* The first byte of each character, and the byte after the last one.
First(i) == IF i = 1 THEN 1 ELSE stream[i - 1] + 1

Size(i) == stream[i] + 1 - First(i)

Total == First(Len(stream) + 1) - 1

\* The character that follows p bytes.
RuneAfter(p) == CHOOSE i \in 1 .. Len(stream) + 1 : First(i) = p + 1

Leads == {First(i) : i \in DOMAIN stream}

\* What DecodeRune answers when there is no character: io.EOF, ErrInvalidRune,
\* and a character the stream does not hold.
Eof == -1
Invalid == -2
Other == 0

Peeked == [rune : Int, size : 1 .. UTFMax]

Scanner ==
    [mem : Seq(Nat), raw : Nat, off : Nat, len : Nat, peeked : Seq(Peeked), marks : Seq(Nat),
     r : BOOLEAN, err : {"none", "eof", "error"}, lastErr : BOOLEAN,
     read : Nat, failed : BOOLEAN]

\* newScanner: the array behind s.raw, len(s.raw), where s.input begins in it,
\* s.len, the peeked characters, the marks, whether there is a reader, and the
\* two errors; then what the reader has delivered and whether it has failed.
newScanner ==
    [mem |-> <<>>, raw |-> 0, off |-> 0, len |-> 0, peeked |-> <<>>, marks |-> <<>>,
     r |-> FALSE, err |-> "none", lastErr |-> FALSE, read |-> 0, failed |-> FALSE]

cap(x) == Len(x.mem)

\* The byte at offset i of the array.
Byte(x, i) == x.mem[i + 1]

Smaller(a, b) == IF a < b THEN a ELSE b

\* utf8.DecodeRune(s.input[k:])
DecodeRune(x, k) ==
    LET i == x.off + k
        r == CHOOSE n \in DOMAIN stream : First(n) = Byte(x, i)
        tail == i + 1 .. i + Size(r) - 1
    IN  IF i >= x.raw THEN [rune |-> Eof, size |-> 0]
        ELSE IF \/ Byte(x, i) \notin Leads
                \/ i + Size(r) > x.raw
                \/ \E j \in tail : Byte(x, j) \in Leads
             THEN [rune |-> Invalid, size |-> 1]
        ELSE [rune |-> IF \A j \in tail : Byte(x, j) = Byte(x, i) + (j - i) THEN r ELSE Other,
              size |-> Size(r)]

----------------------------------------------------------------------------
(* The buffer.                                                             *)

\* Mutant: one character is thought to be enough.
LowWaterOne == UTFMax

\* The room below which get refills.
LowWater == 2 * UTFMax

\* The buffer is kept from the oldest mark on, else from the unread part on.
keepFrom(x) == IF x.marks = <<>> THEN x.off ELSE x.marks[1]

\* copy(raw, s.raw[oldestMark:])
moved(x) ==
    [i \in DOMAIN x.mem |-> x.mem[IF i <= x.raw - keepFrom(x) THEN keepFrom(x) + i ELSE i]]

\* A marked sequence that fills three quarters of the buffer doubles it.
grows(x) == x.marks # <<>> /\ x.raw - keepFrom(x) > (cap(x) * 3) \div 4

newCap(x) == IF grows(x) THEN 2 * cap(x) ELSE cap(x)

\* io.ReadFull puts n more bytes behind the retained ones.
filled(x, n) ==
    LET retain == x.raw - keepFrom(x) IN
    [i \in 1 .. newCap(x) |->
        IF i \in retain + 1 .. retain + n THEN x.read + i - retain
        ELSE IF i <= cap(x) THEN moved(x)[i] ELSE 0]

rebased(x) == [k \in DOMAIN x.marks |-> x.marks[k] - keepFrom(x)]

room(x) == newCap(x) - (x.raw - keepFrom(x))

\* Mutant: the marks are not rebased.
refilledKeepingMarks(x, n) ==
    [x EXCEPT !.mem = filled(x, n), !.raw = x.raw - keepFrom(x) + n,
              !.off = x.off - keepFrom(x), !.len = x.raw - x.off + n,
              !.r = (n = room(x)), !.read = @ + n]

\* Mutant: the unread part is taken to start at the oldest mark.
refilledAtMark(x, n) ==
    [x EXCEPT !.mem = filled(x, n), !.raw = x.raw - keepFrom(x) + n,
              !.off = 0, !.len = x.raw - x.off + n,
              !.marks = rebased(x), !.r = (n = room(x)), !.read = @ + n]

\* Mutant: the reader is dropped after one refill.
refilledOnce(x, n) ==
    [x EXCEPT !.mem = filled(x, n), !.raw = x.raw - keepFrom(x) + n,
              !.off = x.off - keepFrom(x), !.len = x.raw - x.off + n,
              !.marks = rebased(x), !.r = FALSE, !.read = @ + n]

\* The read went well, or hit the end of the stream, which drops the reader.
refilled(x, n) ==
    [x EXCEPT !.mem = filled(x, n), !.raw = x.raw - keepFrom(x) + n,
              !.off = x.off - keepFrom(x), !.len = x.raw - x.off + n,
              !.marks = rebased(x), !.r = (n = room(x)), !.read = @ + n]

\* The read failed after n bytes: the bytes kept have moved in their array, the
\* marks are rebased, s.raw and s.input are what they were.
refillFailed(x, n) ==
    [x EXCEPT !.mem = IF grows(x) THEN moved(x) ELSE filled(x, n),
              !.marks = rebased(x), !.r = FALSE, !.err = "error",
              !.lastErr = TRUE, !.read = @ + n, !.failed = TRUE]

\* The scanners refill may leave behind: one for every way the read may end.
refill(x) ==
    IF ~x.r THEN {x}
    ELSE LET rest == Total - x.read
         IN  {refilled(x, Smaller(room(x), rest))}
             \cup {refillFailed(x, n) : n \in Faults \cap (0 .. Smaller(room(x) - 1, rest))}

----------------------------------------------------------------------------
(* Looking ahead and consuming.                                            *)

\* The bytes of the characters in the cache, of which there are three at most.
PeekedSize(x) ==
    LET size(i) == IF i \in DOMAIN x.peeked THEN x.peeked[i].size ELSE 0
    IN  size(1) + size(2) + size(3)

\* One more character in the cache, unless there is none.
cached(x) ==
    LET d == DecodeRune(x, PeekedSize(x))
    IN  IF d.rune \in {Eof, Invalid} THEN x ELSE [x EXCEPT !.peeked = Append(@, d)]

\* The answer about the n-th character ahead, once x has looked that far.
Ahead(x, n) ==
    [at |-> pos, ahead |-> n,
     rune |-> IF Len(x.peeked) >= n THEN x.peeked[n].rune
              ELSE DecodeRune(x, PeekedSize(x)).rune]

NoAnswer == [at |-> 0, ahead |-> 0, rune |-> Other]

Reading == pc = "token" /\ UNCHANGED <<stream, pc, start, held>>

\* peekSize
Peek ==
    /\ Reading
    /\ s' = IF s.peeked = <<>> THEN cached(s) ELSE s
    /\ answer' = Ahead(s', 1)
    /\ UNCHANGED <<pos, data, marked>>

\* peekTwoSize
PeekTwo ==
    /\ Reading
    /\ LET x == IF s.peeked = <<>> THEN cached(s) ELSE s
       IN  s' = IF Len(x.peeked) = 1 THEN cached(x) ELSE x
    /\ answer' = Ahead(s', 2)
    /\ UNCHANGED <<pos, data, marked>>

\* One round of the loop of peekAtSize, which refills when nothing is left.
peekMore(x) == {cached(y) : y \in IF x.len <= PeekedSize(x) THEN refill(x) ELSE {x}}

peekRound(xs, n) == UNION {IF Len(y.peeked) > n THEN {y} ELSE peekMore(y) : y \in xs}

\* The whole loop: once a round has found no character, the others change nothing.
peekAt(x, n) ==
    LET two == peekRound(peekRound({x}, n), n)
    IN  IF n = 1 THEN two ELSE peekRound(two, n)

\* peekAtSize(n); peekThree is peekAtSize of 0, 1 and 2.
PeekAt(n) ==
    /\ Reading
    /\ s' \in peekAt(s, n)
    /\ answer' = Ahead(s', n + 1)
    /\ UNCHANGED <<pos, data, marked>>

\* Mutant: the cache is not shifted.
consumeOnly(x) ==
    LET d == IF x.peeked # <<>> THEN x.peeked[1] ELSE DecodeRune(x, 0)
    IN  IF d.rune \in {Eof, Invalid} THEN x
        ELSE [x EXCEPT !.off = @ + d.size, !.len = @ - d.size]

\* Mutant: the length is counted down twice.
consumeTwice(x) ==
    LET d == IF x.peeked # <<>> THEN x.peeked[1] ELSE DecodeRune(x, 0)
    IN  IF d.rune \in {Eof, Invalid} THEN x
        ELSE [x EXCEPT !.off = @ + d.size, !.len = @ - 2 * d.size,
                       !.peeked = IF @ = <<>> THEN <<>> ELSE Tail(@)]

\* The end of get: the cached character, or the one DecodeRune finds, is cut off
\* the front of s.input.
consume(x) ==
    LET d == IF x.peeked # <<>> THEN x.peeked[1] ELSE DecodeRune(x, 0)
    IN  IF d.rune \in {Eof, Invalid} THEN x
        ELSE [x EXCEPT !.off = @ + d.size, !.len = @ - d.size,
                       !.peeked = IF @ = <<>> THEN <<>> ELSE Tail(@)]

\* get, and skip
Get ==
    /\ Reading
    /\ \E x \in IF s.len <= LowWater THEN refill(s) ELSE {s} :
          /\ s' = consume(x)
          /\ answer' = Ahead(x, 1)
          /\ pos' = pos + (s'.off - x.off)
    /\ UNCHANGED <<data, marked>>

----------------------------------------------------------------------------
(* Marks and token data.                                                   *)

PushMark ==
    /\ Reading
    /\ Len(s.marks) < MaxMarks
    /\ s' = [s EXCEPT !.marks = Append(@, s.off)]
    /\ marked' = Append(marked, pos)
    /\ answer' = NoAnswer
    /\ UNCHANGED <<pos, data>>

Front1(q) == SubSeq(q, 1, Len(q) - 1)

PopMark ==
    /\ Reading
    /\ s.marks # <<>>
    /\ s' = [s EXCEPT !.marks = Front1(@)]
    /\ marked' = Front1(marked)
    /\ answer' = NoAnswer
    /\ UNCHANGED <<pos, data>>

\* A slice of the buffer: [lo, hi) of the array, and the stream positions it is
\* to hold.
NoData == [from |-> 0, to |-> 0, copied |-> FALSE, lo |-> 0, hi |-> 0, bytes |-> <<>>]

Bytes(x, lo, hi) == SubSeq(x.mem, lo + 1, hi)

\* Mutant: the token is always a part of the buffer.
sliceAlways(x, lo, hi, from, to) ==
    [from |-> from, to |-> to, copied |-> FALSE, lo |-> lo, hi |-> hi, bytes |-> <<>>]

\* A copy as long as the buffer may be refilled, else a part of the buffer.
slice(x, lo, hi, from, to) ==
    [from |-> from, to |-> to, copied |-> x.r, lo |-> lo, hi |-> hi,
     bytes |-> IF x.r THEN Bytes(x, lo, hi) ELSE <<>>]

\* copyFromMark.  What a reader copies from a later mark than the start of the
\* token is dropped by the reader that called it.
CopyFromMark ==
    /\ Reading
    /\ s.marks # <<>> /\ marked[Len(marked)] = start
    /\ data' = slice(s, s.marks[Len(s.marks)], s.off, start, pos)
    /\ answer' = NoAnswer
    /\ UNCHANGED <<s, pos, marked>>

\* copyInput(size) of the characters looked at, which are then skipped.
CopyInput ==
    /\ Reading
    /\ s.peeked # <<>> /\ s.marks = <<>> /\ pos = start
    /\ data' = slice(s, s.off, s.off + PeekedSize(s), pos, pos + PeekedSize(s))
    /\ answer' = NoAnswer
    /\ UNCHANGED <<s, pos, marked>>

----------------------------------------------------------------------------
(* NewBuffer, Scan and Read.                                               *)

Init ==
    /\ stream \in Streams
    /\ s = newScanner
    /\ pos = 0 /\ start = 0
    /\ pc = "new"
    /\ data = NoData /\ held = <<>>
    /\ marked = <<>>
    /\ answer = NoAnswer

\* The first read: a full buffer keeps the reader, a shorter stream does not, an
\* empty one or a failure leaves an empty buffer and s.err.
NewBuffer ==
    /\ pc = "new"
    /\ pc' \in {"idle", "drain"}
    /\ LET n == Smaller(BufferSize, Total)
       IN  \/ n = 0 /\ s' = [s EXCEPT !.err = "eof"]
           \/ /\ n > 0
              /\ s' = [s EXCEPT !.mem = [i \in 1 .. BufferSize |->
                                            IF i <= n THEN i ELSE 0],
                                !.raw = n, !.len = n, !.r = (n = BufferSize), !.read = n]
           \/ s' = [s EXCEPT !.err = "error", !.failed = TRUE]
    /\ UNCHANGED <<stream, pos, start, data, held, marked, answer>>

\* NewSlice: the whole input is the buffer, and there is no reader.
NewSlice ==
    /\ pc = "new"
    /\ pc' = "idle"
    /\ s' = [s EXCEPT !.mem = [i \in 1 .. Total |-> i], !.raw = Total, !.len = Total,
                      !.read = Total]
    /\ UNCHANGED <<stream, pos, start, data, held, marked, answer>>

\* Scan: the error of the last call, if any, ends the loop of parseOne; the end
\* of the input is not an error.
Scan ==
    /\ pc = "idle"
    /\ \/ s.err = "none" /\ pc' = "token" /\ s' = s
       \/ s.err = "eof" /\ pc' = "stopped" /\ s' = [s EXCEPT !.err = "none"]
       \/ s.err = "error" /\ pc' = "stopped" /\ s' = s
    /\ start' = pos
    /\ data' = NoData
    /\ answer' = NoAnswer
    /\ UNCHANGED <<stream, pos, held, marked>>

\* readNext returned a token; its result overwrites s.err.
ScanToken ==
    /\ pc = "token"
    /\ s.marks = <<>>
    /\ data # NoData /\ data.to = pos
    /\ s' = [s EXCEPT !.err = "none"]
    /\ held' = IF Len(held) < MaxHeld THEN Append(held, data)
               ELSE Append(Tail(held), data)
    /\ data' = NoData
    /\ answer' = NoAnswer
    /\ pc' = "idle"
    /\ UNCHANGED <<stream, pos, start, marked>>

\* readNext answered io.EOF, which Scan takes for the end of the input: nothing is
\* left to read, or a look-ahead met the end behind the last character, or a reader
\* hands on the io.EOF it got in the middle of a token.
ScanEOF ==
    /\ pc = "token"
    /\ answer.at = pos /\ answer.ahead \in {1, 2} /\ answer.rune = Eof
    /\ s' = [s EXCEPT !.err = "eof", !.marks = <<>>]
    /\ marked' = <<>>
    /\ pc' = "idle"
    /\ UNCHANGED <<stream, pos, start, data, held, answer>>

\* readNext failed with anything else, on what it looked at.  The deferred popMarks
\* have run.
ScanError ==
    /\ pc = "token"
    /\ answer.ahead > 0
    /\ answer.rune = Eof => pos > start \/ answer.ahead > 1
    /\ s' = [s EXCEPT !.err = "error", !.marks = <<>>]
    /\ marked' = <<>>
    /\ pc' = "stopped"
    /\ UNCHANGED <<stream, pos, start, data, held, answer>>

\* Read, in the loop of io.ReadAll: "drained" when it answers io.EOF, "broken"
\* when it answers s.lastErr.
Read(size) ==
    /\ pc = "drain"
    /\ \/ s.lastErr /\ pc' = "broken" /\ UNCHANGED <<s, pos>>
       \/ /\ ~s.lastErr
          /\ \E x \in IF s.raw = s.off THEN refill(s) ELSE {s} :
                LET n == Smaller(size, x.raw - x.off)
                IN  /\ pc' = IF x.raw = x.off THEN "drained" ELSE "drain"
                    /\ s' = [x EXCEPT !.off = @ + n, !.len = @ - n]
                    /\ pos' = pos + n
    /\ UNCHANGED <<stream, start, data, held, marked, answer>>

Ended == pc \in {"stopped", "drained", "broken"} /\ UNCHANGED vars

Next ==
    \/ NewBuffer \/ NewSlice \/ Scan \/ ScanToken \/ ScanEOF \/ ScanError
    \/ Peek \/ PeekTwo \/ (\E n \in {1, 2} : PeekAt(n)) \/ Get
    \/ PushMark \/ PopMark \/ CopyFromMark \/ CopyInput
    \/ (\E n \in 1 .. MaxRead : Read(n))
    \/ Ended

Spec == Init /\ [][Next]_vars

----------------------------------------------------------------------------
(* What the rest of the scanner relies on.  A failure of the reader moves  *)
(* bytes under s.input (refillFailed); until then:                         *)

\* The Scanner has its type, and s.input is within s.raw within its array.
TypeOK ==
    /\ stream \in Streams /\ s \in Scanner
    /\ s.off <= s.raw /\ s.raw <= cap(s)
    /\ pos \in 0 .. Total
    /\ pc \in {"new", "idle", "token", "stopped", "drain", "drained", "broken"}

\* The buffer is the part of the stream read last, without a gap, and s.input
\* begins in it where the caller is; s.len is the number of unread bytes.
BufferIsWindow ==
    pc # "new" /\ ~s.failed =>
        /\ \A i \in 0 .. s.raw - 1 : Byte(s, i) = s.read - s.raw + 1 + i
        /\ s.len = s.raw - s.off
        /\ pos = s.read - s.len

\* A mark keeps denoting the byte it was pushed at, however often the buffer is
\* moved or enlarged under it, so copyFromMark returns the token that began there.
MarksHold ==
    ~s.failed => /\ Len(s.marks) = Len(marked)
                 /\ \A k \in DOMAIN marked : s.read - s.raw + s.marks[k] = marked[k]

\* The cache holds the characters that come next, whatever was consumed and
\* refilled since they were looked at.
CacheIsNext ==
    ~s.failed => \A k \in DOMAIN s.peeked :
                     s.peeked[k] = [rune |-> RuneAfter(pos) + k - 1,
                                    size |-> Size(RuneAfter(pos) + k - 1)]

\* peek, get and the look-ahead answer with the characters of the stream.  The
\* end of the input is reported at its end only, although peek and peekTwo never
\* refill; and a character that lies across the end of the buffer is taken for
\* invalid only when something longer than one byte is looked past (peekTwo), or
\* by the third of peekThree, where no reader of a token tells the two apart.
RightAnswers ==
    ~s.failed /\ answer.ahead > 0 =>
        LET i == RuneAfter(answer.at) + answer.ahead - 1 IN
        CASE answer.rune = Eof -> i > Len(stream)
          [] answer.rune = Invalid ->
                 \/ answer.ahead = 2 /\ Size(i - 1) > 1
                 \/ answer.ahead = 3
          [] OTHER -> answer.rune = i

\* The bytes of a token stay what they were: a later refill never writes into a
\* part of the buffer that was handed out.
TokensIntact ==
    ~s.failed => \A k \in DOMAIN held :
        (IF held[k].copied THEN held[k].bytes ELSE Bytes(s, held[k].lo, held[k].hi))
            = [i \in 1 .. held[k].to - held[k].from |-> held[k].from + i]

\* A caller of Scan that is told the input has ended has been given all of it but
\* its last character, and one of Read all of it, although peekTwo, whose end of the
\* input is reported too, never refills.
NothingButTail ==
    /\ pc = "stopped" /\ s.err = "none" => s.failed \/ RuneAfter(pos) >= Len(stream)
    /\ pc = "drained" => s.failed \/ pos = Total

\* "If Scan returns false, Err will return an error indicating the nature of the
\* failure" (scanner.go:994): a read that failed is not the end of the input.
ReadErrorReported == pc = "stopped" /\ s.failed => s.err = "error"
============================================================================
