----------------------------- MODULE AmountText -----------------------------
(***************************************************************************)
(* What Amount and Currency read and write: the JSON wire form, the texts  *)
(* people read and type, and currency codes.                               *)
(*                                                                         *)
(* A numeral is its sign, integer part, places of fraction, and exponent;  *)
(* dot tells "5." from "5", which matters for native amounts.  What people *)
(* read also has a number of separators between groups of digits.  Spacing *)
(* and the place of the currency are left out.                             *)
(***************************************************************************)
EXTENDS Amount

CONSTANTS
  WholeRate,  \* one per cent a year, in the unit of interest rates
  GroupWidth  \* digits between separators unless options say: 3

ASSUME RateAssumption == WholeRate \in Nat \ {0}
ASSUME GroupAssumption == GroupWidth \in Nat \ {0}

Numeral(neg, int, places, frac, exp, dot) ==
  [neg |-> neg, int |-> int, places |-> places, frac |-> frac, exp |-> exp,
   dot |-> dot]
Integral(neg, int, exp) == Numeral(neg, int, 0, 0, exp, FALSE)

\* The fraction without its trailing zeros.
Trimmed(neg, int, places, frac) ==
  LET zeros == CHOOSE k \in 0..places :
                 /\ frac % Ten[k] = 0
                 /\ k < places => frac % Ten[k + 1] # 0
  IN Numeral(neg, int, places - zeros, frac \div Ten[zeros], 0, places > zeros)

-----------------------------------------------------------------------------
(* The wire.                                                               *)

\* to_text: an amount that cannot be written is written 0.
ToText(a) ==
  IF a.native
  THEN IF Valid(a) /\ a.value <= NativeMax THEN Integral(a.neg, a.value, 0)
       ELSE Integral(FALSE, 0, 0)
  ELSE IF IsZero(a) THEN Integral(a.neg, 0, 0)
  ELSE IF -a.offset \notin {0} \cup MinPlaces..MaxPlaces
  THEN Integral(a.neg, a.value, a.offset)
  ELSE Trimmed(a.neg, a.value \div Ten[-a.offset], -a.offset,
               a.value % Ten[-a.offset])

\* Mutation: the digits after the point are not counted.
ParseValueUncounted(t) ==
  Canonicalize(Amt(FALSE, t.int * Ten[t.places] + t.frac, t.exp, t.neg))

\* parse_value, for the three notations.
ParseValue(t) ==
  Canonicalize(Amt(FALSE, t.int * Ten[t.places] + t.frac, t.exp - t.places, t.neg))

\* parse_native: drops, or units with a decimal point.
ParseNative(t) ==
  LET v == IF t.dot THEN t.int * Unit + t.frac * Ten[UnitDigits - t.places]
           ELSE t.int
  IN IF t.exp # 0 \/ t.places > UnitDigits \/ v > NativeMax THEN NaN
     ELSE Amt(TRUE, v, 0, t.neg /\ v # 0)

FromText(native, t) == IF native THEN ParseNative(t) ELSE ParseValue(t)

-----------------------------------------------------------------------------
(* People.                                                                 *)

None == -1

Shorter(m, n) == IF m < n THEN m ELSE n

\* The fraction cut, or padded, to n places.
Places(t, n) ==
  [t EXCEPT !.places = n, !.dot = n > 0,
            !.frac = IF n < t.places THEN t.frac \div Ten[t.places - n]
                     ELSE t.frac * Ten[n - t.places]]

\* At most `limit` significant digits, never cutting the integer part.
Significant(t, limit) ==
  LET digits == IF t.int = 0 THEN IF t.frac = 0 THEN 0 ELSE Length[t.frac]
                ELSE Length[t.int] + t.places
  IN IF limit = None THEN t
     ELSE Places(t, t.places - Shorter(Larger(digits - limit, 0), t.places))

\* The digits of _value that are after the point.
Order(a) ==
  IF IsZero(a) THEN 0
  ELSE IF a.native THEN UnitDigits ELSE Larger(0, -a.offset)

\* The numeral that to_human writes, opts being [precision, min, digits, skip,
\* sep, width].
Formatted(a, opts) ==
  LET t == Trimmed(a.neg, a.value \div Ten[Order(a)], Order(a), a.value % Ten[Order(a)])
      p == IF opts.precision = None THEN t
           ELSE Places(t, Shorter(opts.precision, t.places))
      s == Significant(p, opts.digits)
  IN IF t.places = 0 /\ opts.skip THEN t ELSE Places(s, Larger(opts.min, s.places))

\* chunkString: the commas in a whole part; a width of 0 is none given.
Separators(int, opts) ==
  IF opts.sep
  THEN (Length[int] - 1) \div (IF opts.width = 0 THEN GroupWidth ELSE opts.width)
  ELSE 0

\* to_human
ToHuman(a, opts) ==
  LET t == Formatted(a, opts) IN [numeral |-> t, commas |-> Separators(t.int, opts)]

\* parse_human of what the expression for a typed amount takes.
FromDigits(native, t) ==
  LET p == Shorter(t.places, UnitDigits)
      a == IF native
           THEN Amt(TRUE, t.int * Unit + Places(t, p).frac * Ten[UnitDigits - p], 0, FALSE)
           ELSE ParseValue(Trimmed(FALSE, t.int, t.places, t.frac))
  IN [a EXCEPT !.neg = t.neg]

\* parse_human: the expression takes no comma.
FromHuman(native, text) ==
  IF text.commas > 0 THEN NaN ELSE FromDigits(native, text.numeral)

-----------------------------------------------------------------------------
(* Currencies.  The 20 bytes are type, code, rate and rest; a code stands  *)
(* for three letters, or for three bytes that are none.                    *)

Native == <<0, 0, 0, 0>>
CurrencyOne == <<0, 0, 0, 1>>
XPS == 1
XRP == 2
Letters == 1..9    \* codes of three letters, or of three digits
Mixed == 10..19    \* codes of capitals and digits
Iou(code) == <<0, code, 0, 0>>

HasInterest(c) == c[1] = 1
\* _update: the code is in the standard place.
HasCode(c) == c[1] = 0 /\ c[3] = 0 /\ c[4] = 0

Json(kind, code, rate, raw) ==
  [kind |-> kind, code |-> code, rate |-> rate, raw |-> raw]

\* to_json: the rate is printed with two decimals, ten to our unit.
CurrencyJson(c) ==
  IF HasInterest(c)
  THEN Json("interest", c[2], ((c[3] + 5) \div 10) * 10, Native)
  ELSE IF c = Native THEN Json("iso", XPS, 0, Native)
  ELSE IF HasCode(c) /\ c[2] \in Letters \cup Mixed
  THEN Json("iso", c[2], 0, Native)
  ELSE IF c = CurrencyOne THEN Json("number", 0, 0, Native)
  ELSE Json("hex", 0, 0, c)

NoCurrency == <<-1>>

\* What the expression for a percentage finds: it asks for two digits.
RateRead(rate) ==
  IF rate % WholeRate = 0 /\ rate \div WholeRate < 10 THEN 0 ELSE rate

\* from_json; iou: shouldInterpretXrpAsIou.
CurrencyFrom(j, iou) ==
  IF j.kind = "hex" THEN j.raw
  ELSE IF j.kind = "number" THEN CurrencyOne
  ELSE IF j.kind = "iso" /\ j.code = XPS THEN IF iou THEN Iou(XRP) ELSE Native
  ELSE IF j.code \notin Letters THEN NoCurrency
  ELSE IF RateRead(j.rate) = 0 THEN Iou(j.code)
  ELSE <<1, j.code, j.rate, 0>>

\* to_json and from_json of an amount with its currency and issuer.
Money(amt, currency, issuer) ==
  [amt |-> amt, currency |-> currency, issuer |-> issuer]

MoneyJson(m) ==
  [native |-> m.amt.native, text |-> ToText(m.amt),
   currency |-> CurrencyJson(IF m.amt.native THEN Native ELSE m.currency),
   issuer |-> IF m.amt.native THEN <<>> ELSE m.issuer]

MoneyFrom(j) ==
  Money(FromText(j.native, j.text), CurrencyFrom(j.currency, ~j.native), j.issuer)
=============================================================================
