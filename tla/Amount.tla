------------------------------- MODULE Amount ------------------------------
(***************************************************************************)
(* The decimal arithmetic of Amount: native amounts are integers, the      *)
(* others a mantissa of Digits digits and a power of ten.                  *)
(*                                                                         *)
(* An amount is [native, value, offset, neg], the fields _is_native,       *)
(* _value, _offset and _is_negative; currency and issuer are those of the  *)
(* first operand in every operation and are left out.  The constants scale *)
(* the code's (16 digits, 9e18, 6 digits) to numbers TLC can hold.  The    *)
(* loops that move a decimal point by one are the division or product by   *)
(* the power of ten they add up to.                                        *)
(***************************************************************************)
EXTENDS Integers

CONSTANTS
  Digits,     \* of a mantissa: 16
  NativeMax,  \* consts.bi_xns_max: 9e18
  UnitDigits, \* consts.xns_precision: 6
  MinPlaces, MaxPlaces \* fractions that to_text writes out: 4, 25

ASSUME AmountAssumption ==
  /\ Digits \in Nat \ {0, 1} /\ UnitDigits \in Nat /\ NativeMax \in Nat
  /\ UnitDigits < Digits
  /\ MinPlaces \in Nat \ {0} /\ MaxPlaces \in Nat

\* The powers of ten.
Ten[n \in Nat] == IF n = 0 THEN 1 ELSE 10 * Ten[n - 1]

ManMin == Ten[Digits - 1]
ManMax == Ten[Digits] - 1
Unit   == Ten[UnitDigits]

Amt(native, value, offset, neg) ==
  [native |-> native, value |-> value, offset |-> offset, neg |-> neg]

\* _value that is no BigInteger.
NaN == Amt(TRUE, -1, 0, FALSE)
Valid(a) == a.value >= 0
IsZero(a) == a.value = 0

\* v times 10^k, cut off.
Scaled(v, k) == IF k >= 0 THEN v * Ten[k] ELSE v \div Ten[-k]

Length[v \in Nat] == IF v < 10 THEN 1 ELSE 1 + Length[v \div 10]

Canonicalize(a) ==
  IF ~Valid(a) THEN a
  ELSE IF a.native
  THEN IF IsZero(a) THEN Amt(TRUE, 0, 0, FALSE)
       ELSE Amt(TRUE, Scaled(a.value, a.offset), 0, a.neg)
  ELSE IF IsZero(a) THEN Amt(FALSE, 0, -100, FALSE)
  ELSE LET k == Length[a.value] - Digits
       IN Amt(FALSE, Scaled(a.value, -k), a.offset + k, a.neg)

-----------------------------------------------------------------------------
(* Sums, products and quotients.                                           *)

\* clone and copyTo: no negative zero.
Clone(a, negate) == [a EXCEPT !.neg = ~IsZero(a) /\ (@ # negate)]
Negate(a) == Clone(a, TRUE)
Abs(a) == Clone(a, Valid(a) /\ a.neg)

IsComparable(a, b) == Valid(a) /\ Valid(b) /\ a.native = b.native

Signed(a) == IF a.neg THEN -a.value ELSE a.value
Magnitude(n) == IF n < 0 THEN -n ELSE n

\* The signed mantissa moved to a higher offset, cut off towards zero.
MovedTo(a, offset) ==
  LET v == Scaled(a.value, a.offset - offset) IN IF a.neg THEN -v ELSE v

Larger(m, n) == IF m < n THEN n ELSE m

\* Mutation: the mantissas are added whatever their offsets.
AddUnaligned(a, b) ==
  IF ~IsComparable(a, b) THEN NaN
  ELSE LET s == Signed(a) + Signed(b)
       IN Canonicalize(Amt(a.native, Magnitude(s), a.offset, s < 0))

Add(a, b) ==
  IF ~IsComparable(a, b) THEN NaN
  ELSE IF IsZero(b) THEN a
  ELSE IF IsZero(a) THEN [Clone(b, FALSE) EXCEPT !.native = a.native]
  ELSE IF a.native
  THEN LET s == Signed(a) + Signed(b) IN Amt(TRUE, Magnitude(s), 0, s < 0)
  ELSE LET o == Larger(a.offset, b.offset)
           s == MovedTo(a, o) + MovedTo(b, o)
       IN Canonicalize(Amt(FALSE, Magnitude(s), o, s < 0))

Subtract(a, b) == Add(a, Negate(b))

\* A native factor is first brought up to a full mantissa.
Widened(a) ==
  LET k == Larger(0, Digits - Length[a.value])
  IN IF a.native /\ ~IsZero(a)
     THEN Amt(TRUE, Scaled(a.value, k), a.offset - k, a.neg) ELSE a

Multiply(a, b) ==
  IF IsZero(a) THEN a
  ELSE IF IsZero(b) THEN [Clone(a, FALSE) EXCEPT !.value = 0]
  ELSE LET m == Widened(a)
           n == Widened(b)
       IN Canonicalize(
            Amt(a.native, (m.value * n.value) \div Ten[Digits - 2] + 7,
                m.offset + n.offset + Digits - 2, a.neg # b.neg))

\* The divisor is not zero (the code throws).
Divide(a, d) ==
  IF IsZero(a) THEN a
  ELSE LET m == Widened(a)
           n == Widened(d)
       IN Canonicalize(
            Amt(a.native, (m.value * Ten[Digits + 1]) \div n.value + 5,
                m.offset - n.offset - (Digits + 1), a.neg # d.neg))

\* A price: native amounts count in whole units, not in drops.
RatioHuman(a, d) ==
  IF d.native
  THEN Divide(Canonicalize([Clone(a, FALSE) EXCEPT !.value = @ * Unit]), d)
  ELSE Divide(a, d)

ProductHuman(a, f) ==
  LET p == Multiply(a, f) IN
  IF f.native THEN Canonicalize([p EXCEPT !.value = @ \div Unit]) ELSE p

\* invert
One(a) == Canonicalize(Amt(a.native, 1, 0, FALSE))
Invert(a) == RatioHuman(One(a), a)

-----------------------------------------------------------------------------
(* Comparison.                                                             *)

Signum(n) == IF n < 0 THEN -1 ELSE IF n > 0 THEN 1 ELSE 0

CompareTo(a, b) ==
  LET outward == IF a.neg THEN -1 ELSE 1 IN
  IF a.neg # b.neg THEN outward
  ELSE IF IsZero(a) THEN IF IsZero(b) THEN 0 ELSE -1
  ELSE IF IsZero(b) THEN 1
  ELSE IF ~a.native /\ a.offset # b.offset
  THEN IF a.offset > b.offset THEN outward ELSE -outward
  ELSE Signum(a.value - b.value) * outward

Equals(a, b) == Valid(a) /\ Valid(b) /\ a = b

-----------------------------------------------------------------------------
(* Prices of a book directory: mantissa and offset are in its index.       *)

\* _invert
Inverted(a) ==
  Canonicalize(Amt(a.native, Ten[2 * Digits] \div a.value, -2 * Digits - a.offset, a.neg))

\* parse_quality, of a book whose base currency is the native one (base) or
\* not, the price in drops or in whole units.
FromQuality(value, offset, native, base, inverse, drops) ==
  LET o == IF drops \/ ~base THEN offset
           ELSE IF inverse THEN offset - UnitDigits ELSE offset + UnitDigits
      a == Amt(native, value, o, FALSE)
  IN IF inverse THEN Inverted(a) ELSE Canonicalize(a)
=============================================================================
