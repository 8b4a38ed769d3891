----------------------------- MODULE DecimalText -----------------------------
(***************************************************************************)
(* The decimal text dtoa_milo writes for a number: Prettify places the     *)
(* point or the exponent among the digits Grisu2 found.  Digit i of the    *)
(* number is <<"digit", i>> in the text, and a zero that Prettify adds is   *)
(* <<"0", 0>>.                                                             *)
(***************************************************************************)
EXTENDS Integers, Sequences

CONSTANTS
  MaxDigits,  \* bound: digits of a number; Grisu2 finds at most 17
  MinPower, MaxPower   \* the powers of ten of a number's first digit

ASSUME DecimalAssumption ==
  /\ MaxDigits \in 1 .. 119   \* emitConst's buffer holds no more
  /\ MinPower \in -999 .. 0 /\ MaxPower \in 0 .. 999   \* three digits of exponent

VARIABLES length, power    \* a number's digits and the power of its last one

DecimalInit == length = 1 /\ power = 0

LongerNumber == length < MaxDigits /\ length' = length + 1 /\ power' = power - 1
LargerNumber == length + power - 1 < MaxPower /\ power' = power + 1 /\ UNCHANGED length
SmallerNumber == length + power - 1 > MinPower /\ power' = power - 1 /\ UNCHANGED length

DecimalNext == LongerNumber \/ LargerNumber \/ SmallerNumber

DecimalSpec == DecimalInit /\ [][DecimalNext]_<<length, power>>

-----------------------------------------------------------------------------
Digits(from, to) == [i \in 1 .. to - from + 1 |-> <<"digit", from + i - 1>>]
Zeros(n) == [i \in 1 .. n |-> <<"0", 0>>]
Point == <<<<".", 0>>>>
Decimal(n) == <<"n", n>>

WriteExponent(K) ==
  LET a == IF K < 0 THEN -K ELSE K IN
  (IF K < 0 THEN <<<<"-", 0>>>> ELSE <<>>)
  \o CASE a >= 100 -> <<Decimal(a \div 100), Decimal((a % 100) \div 10), Decimal(a % 10)>>
       [] a >= 10 /\ a < 100 -> <<Decimal(a \div 10), Decimal(a % 10)>>
       [] a < 10 -> <<Decimal(a)>>

\* Mutant of Fraction: a zero too many after the point.
MutantOffset(kk) == Zeros(1) \o Point \o Zeros(1 - kk)

(* 1234e-6 -> 0.001234                                                      *)
Fraction(kk) == Zeros(1) \o Point \o Zeros(-kk)

Prettify(len, k) ==
  LET kk == len + k IN
  CASE len <= kk /\ kk <= 21 -> Digits(1, len) \o Zeros(kk - len) \o Point \o Zeros(1)
    [] len > kk /\ 0 < kk /\ kk <= 21 -> Digits(1, kk) \o Point \o Digits(kk + 1, len)
    [] -6 < kk /\ kk <= 0 -> Fraction(kk) \o Digits(1, len)
    [] kk > 21 \/ kk <= -6 ->
         Digits(1, 1) \o (IF len = 1 THEN <<>> ELSE Point \o Digits(2, len))
           \o <<<<"e", 0>>>> \o WriteExponent(kk - 1)

-----------------------------------------------------------------------------
(* The weight a reader gives the character at i of a decimal text.          *)

Positions(text, c) == {i \in DOMAIN text : text[i][1] = c}

(* The digits after the e, read from the left.                              *)
Magnitude(text) ==
  LET upTo[i \in 0 .. Len(text)] ==
        IF i = 0 THEN 0
        ELSE IF text[i][1] = "n" THEN 10 * upTo[i - 1] + text[i][2] ELSE upTo[i - 1]
  IN  upTo[Len(text)]

Exponent(text) == IF Positions(text, "-") = {} THEN Magnitude(text) ELSE -Magnitude(text)

(* The point, or where it would be: before the e or at the end.             *)
PointAt(text) ==
  LET stops == Positions(text, ".") \cup Positions(text, "e") \cup {Len(text) + 1}
  IN  CHOOSE p \in stops : \A q \in stops : p <= q

Weight(text, i) ==
  (IF i < PointAt(text) THEN PointAt(text) - 1 - i ELSE PointAt(text) - i) + Exponent(text)

(* Prettify and WriteExponent keep every digit at its weight, write a text  *)
(* GLSL takes for a floating-point number, and stay within emitConst's      *)
(* buffer of 128 with its sign and its final zero.                          *)
DecimalReadsBack ==
  LET text == Prettify(length, power) IN
  /\ \A d \in 1 .. length :
       \E i \in Positions(text, "digit") :
         text[i][2] = d /\ Weight(text, i) = power + length - d
  /\ Positions(text, ".") \cup Positions(text, "e") # {}
  /\ Len(text) + 2 <= 128
=============================================================================
