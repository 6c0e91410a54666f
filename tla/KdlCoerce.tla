----------------------------- MODULE KdlCoerce -----------------------------
(***************************************************************************)
(* What a value that was read becomes in a Go variable of an integer kind, *)
(* or in a bool: package coerce, and the assignment in unmarshal.go.       *)
(*                                                                         *)
(* Integers keep their width: an int64 holds 2 * IntLimit of them.         *)
(***************************************************************************)
EXTENDS KdlStrings

CONSTANT Sizes   \* how many integers a kind holds: 2^8, 2^16, 2^32 and 2^64
ASSUME SizesAssumption ==
    \A s \in Sizes : s \in Nat \ {0} /\ s % 2 = 0 /\ (2 * IntLimit) % s = 0

IntKinds == [size : Sizes, signed : BOOLEAN]

Holds(k) == IF k.signed THEN -(k.size \div 2) .. (k.size \div 2) - 1 ELSE 0 .. k.size - 1
Int64s == -IntLimit .. IntLimit - 1

\* Go's conversion of an integer to a kind: the one of its range that is as far from n
\* as a number of whole turns.
Converted(n, k) == IF n % k.size \in Holds(k) THEN n % k.size ELSE (n % k.size) - k.size

\* The decimal text of an integer, and back.
Decimal(n) == IF n < 0 THEN <<"-">> \o InBase(-n, 10) ELSE InBase(n, 10)
Unsigned(w) == IF w # <<>> /\ w[1] \in Signs THEN Tail(w) ELSE w
IsDecimal(w) == Unsigned(w) # <<>> /\ ToSet(Unsigned(w)) \subseteq Digits

Figure(c) == (CHOOSE k \in 1 .. 10 : Figures[k] = c) - 1
Magnitude(w) ==
    LET value[n \in 0 .. Len(w)] == IF n = 0 THEN 0 ELSE 10 * value[n - 1] + Figure(w[n])
    IN  value[Len(w)]
Integer(w) == IF w[1] = "-" THEN -Magnitude(Tail(w)) ELSE Magnitude(Unsigned(w))

\* strconv.ParseInt: at the ends of the range it returns the end; an error is not looked at.
ParseInt(w) ==
    LET n == Integer(w)
    IN  IF ~IsDecimal(w) THEN 0
        ELSE CASE n < -IntLimit -> -IntLimit
               [] n >= IntLimit -> IntLimit - 1
               [] OTHER -> n

\* ResolvedValue, for a string: its type annotation stands in front of it.
Annotated(x) == IF x.type = <<>> THEN x.text ELSE <<"(">> \o x.type \o <<")">> \o x.text

\* A big.Int is a fmt.Stringer, and that case of each switch comes first.
TextOf(x) == IF x.kind = "big.Int" THEN Decimal(x.number) ELSE Annotated(x)

boolString(w) ==
    CASE Len(w) = 1 -> w[1] \in (Digits \ {"0"}) \cup {"y", "Y", "t", "T"}
      [] Len(w) = 3 -> w[1] \in {"y", "Y"}
      [] Len(w) = 4 -> w[1] \in {"t", "T"}
      [] OTHER -> FALSE

ToBool(x) == IF x.kind = "int64" THEN x.number # 0 ELSE boolString(TextOf(x))

\* Mutant: the case for big.Int is the one that is taken.
ToInt64Low(x) ==
    CASE x.kind = "int64" -> x.number
      [] x.kind = "big.Int" -> Converted(x.number, [size |-> 2 * IntLimit, signed |-> TRUE])
      [] OTHER -> ParseInt(Annotated(x))

ToInt64(x) == IF x.kind = "int64" THEN x.number ELSE ParseInt(TextOf(x))
ToUint64(x) == Converted(ToInt64(x), [size |-> 2 * IntLimit, signed |-> FALSE])

\* directSetReflectValueFromIntf: SetInt and SetUint keep the low bits.
Assign(x, k) == Converted(IF k.signed THEN ToInt64(x) ELSE ToUint64(x), k)
============================================================================
