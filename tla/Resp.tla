-------------------------------- MODULE Resp --------------------------------
(***************************************************************************)
(* A connection that carries the redis protocol, and the bytes and values  *)
(* of that protocol as utils/resparse/credis has them (resp.go, and the    *)
(* integers of encoder.go and decoder.go).                                 *)
(*                                                                         *)
(* A byte is a string; the bytes that no rule of the protocol mentions are *)
(* one of them. Integers are written in the base Base: a small one makes   *)
(* lengths of several digits out of short payloads.                        *)
(***************************************************************************)
EXTENDS Integers, Sequences, FiniteSets, SequencesExt, FiniteSetsExt

CONSTANTS
    Nil,   \* a nil slice
    Base   \* the base of the integers, 10 in the code

ASSUME RespAssumption == Base \in 2..10

VARIABLES
    wire,    \* the bytes under way: sent and not yet read
    closed   \* the sender has closed the connection

CR == "\r"
LF == "\n"
CRLF == <<CR, LF>>
Space == " "

Digits == <<"0", "1", "2", "3", "4", "5", "6", "7", "8", "9">>

TextTypes == {"+", "-", ":"}   \* TypeString, TypeError, TypeInt

\* Resp: one of Value and Array is used, according to the type.
Text(t, b) == [type |-> t, val |-> b, arr |-> Nil]
Bulk(b) == [type |-> "$", val |-> b, arr |-> Nil]
Array(a) == [type |-> "*", val |-> Nil, arr |-> a]

-----------------------------------------------------------------------------
(* Integers *)

\* The digits of a natural number.
DigitsOf(n) ==
    LET d[k \in 0..n] == IF k < Base THEN <<Digits[k + 1]>>
                         ELSE Append(d[k \div Base], Digits[(k % Base) + 1])
    IN  d[n]

\* itoa; its table of the common numbers holds what FormatInt would yield.
Itoa(i) == IF i < 0 THEN <<"-">> \o DigitsOf(-i) ELSE DigitsOf(i)

\* The bytes of a number after its sign.
Unsigned(b) == IF b # <<>> /\ b[1] \in {"-", "+"} THEN Tail(b) ELSE b

DigitValue(c) == (CHOOSE i \in 1..Base : Digits[i] = c) - 1

\* Whether Btoi64 accepts b: a sign, if any, and at least one digit.
IsNumber(b) ==
    /\ Unsigned(b) # <<>>
    /\ \A i \in DOMAIN Unsigned(b) : \E j \in 1..Base : Digits[j] = Unsigned(b)[i]

\* The number that digits stand for: the loop of Btoi64.
NumberOf(b) ==
    LET n[k \in 0..Len(b)] == IF k = 0 THEN 0 ELSE n[k - 1] * Base + DigitValue(b[k])
    IN  n[Len(b)]

Btoi64(b) == IF b[1] = "-" THEN -NumberOf(Unsigned(b)) ELSE NumberOf(Unsigned(b))

-----------------------------------------------------------------------------
(* Decoding *)

\* The index of the first newline of b, 0 if there is none.
FirstLF(b) ==
    LET I == {i \in DOMAIN b : b[i] = LF}
    IN  IF I = {} THEN 0 ELSE Min(I)

\* A line must end in CRLF.
EndsInCRLF(line) == Len(line) >= 2 /\ line[Len(line) - 1] = CR

Chomp(line) == SubSeq(line, 1, Len(line) - 2)

\* The words of a line, as decodeSingleLineMultiBulk cuts them.
Words(b) ==
    LET starts == {i \in DOMAIN b : b[i] # Space /\ (i = 1 \/ b[i - 1] = Space)}
        last(i) == Min({j \in i..Len(b) : j = Len(b) \/ b[j + 1] = Space})
        nth(k) == CHOOSE i \in starts : Cardinality({j \in starts : j <= i}) = k
    IN  [k \in 1..Cardinality(starts) |-> SubSeq(b, nth(k), last(nth(k)))]

-----------------------------------------------------------------------------
(* Encoding: the calls of the writer that a value becomes *)

Writes == {"WriteByte", "Write", "WriteString"}

Call(op, b) == [op |-> op, b |-> b]

\* encodeInt
IntCalls(i) == <<Call("WriteString", Itoa(i)), Call("WriteString", CRLF)>>

\* Mutant: a nil slice is written as an empty one.
BulkCallsEmpty(b) ==
    LET v == IF b = Nil THEN <<>> ELSE b
    IN  IntCalls(Len(v)) \o <<Call("Write", v), Call("WriteString", CRLF)>>

\* encodeBulkBytes
BulkCalls(b) ==
    IF b = Nil
    THEN IntCalls(-1)
    ELSE IntCalls(Len(b)) \o <<Call("Write", b), Call("WriteString", CRLF)>>

\* encodeArray; the elements are values still to be encoded.
ArrayCalls(a) ==
    IF a = Nil
    THEN IntCalls(-1)
    ELSE IntCalls(Len(a)) \o [i \in DOMAIN a |-> [op |-> "encodeResp", r |-> a[i]]]

\* encodeResp and encodeMultiBulk; of an unknown type only the byte is written.
Calls(r) ==
    <<Call("WriteByte", <<r.type>>)>> \o
    CASE r.type \in TextTypes -> <<Call("Write", r.val), Call("WriteString", CRLF)>>
      [] r.type = "$" -> BulkCalls(r.val)
      [] r.type = "*" -> ArrayCalls(r.arr)
      [] OTHER -> <<[op |-> "badType"]>>
=============================================================================
