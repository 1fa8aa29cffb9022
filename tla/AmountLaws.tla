----------------------------- MODULE AmountLaws -----------------------------
(***************************************************************************)
(* What the operations on amounts promise, against exact arithmetic.       *)
(***************************************************************************)
EXTENDS AmountText

CONSTANTS Formats,  \* options of to_human tried
          Currencies

FormatOptions ==
  [precision : Nat \cup {None}, min : Nat, digits : Nat \cup {None}, skip : BOOLEAN,
   sep : BOOLEAN, width : Nat]

ASSUME TextAssumption ==
  /\ Formats \subseteq FormatOptions
  /\ Currencies \subseteq Nat \X Nat \X Nat \X Nat

Amounts == [native : BOOLEAN, value : Nat, offset : Int, neg : BOOLEAN]

Canonical(a) ==
  /\ a \in Amounts
  /\ IsZero(a) => ~a.neg
  /\ IF a.native THEN a.offset = 0
     ELSE IF IsZero(a) THEN a.offset = -100 ELSE a.value \in ManMin..ManMax

At(v, offset, lowest) == v * Ten[offset - lowest]

\* An offset that no amount of S has a lower one than, except zero.
Lowest(S) ==
  LET offsets == {a.offset : a \in {x \in S : ~IsZero(x)}}
  IN CHOOSE o \in {0} \cup offsets : \A p \in offsets : o <= p

\* The value in units of 10^low.
Exact(a, low) == IF IsZero(a) THEN 0 ELSE At(Signed(a), a.offset, low)

\* The weight of the last digit an operation may get wrong.
Ulp(r) == IF r.native THEN Larger(0, Length[r.value] - Digits) ELSE r.offset

\* How far r is from x times 10^offset, and whether only by its last digit.
Common(r, offset) == IF r.offset < offset THEN r.offset ELSE offset
Off(r, x, offset) ==
  LET low == Common(r, offset)
  IN Magnitude(At(x, offset, low) - At(Signed(r), r.offset, low))
Near(r, x, offset) == Off(r, x, offset) <= Ten[Ulp(r) - Common(r, offset)]

SumLaw(a, b) ==
  LET r == Add(a, b)
      high == Larger(a.offset, b.offset)
      low == Lowest({a, b, r})
      error == Magnitude(Exact(r, low) - Exact(a, low) - Exact(b, low))
  IN /\ Canonical(r) /\ r = Add(b, a)
     /\ IF IsZero(a) \/ IsZero(b) \/ a.native THEN error = 0
        ELSE error < Ten[Larger(high, r.offset) - low]
     /\ CompareTo(a, b) = Signum(Exact(a, low) - Exact(b, low))
     /\ IsZero(Subtract(a, a))

ProductLaw(a, b) ==
  LET r == Multiply(a, b)
      x == Signed(a) * Signed(b)
      e == Canonicalize(Amt(a.native, Magnitude(x), a.offset + b.offset, x < 0))
  IN /\ Canonical(r) \/ (r.neg /\ IsZero(r))
     /\ Near(r, x, a.offset + b.offset)
     /\ (Length[e.value] <= Digits /\ Off(e, x, a.offset + b.offset) = 0) => r = e

\* What a quotient may be wrong by, in its last digit: a divisor longer than a
\* mantissa leaves fewer guard digits, and then fewer digits.
Slack(d) == IF Length[d.value] > Digits THEN 6 * Ten[Length[d.value] - Digits - 1] ELSE 1

QuotientLaw(a, d) ==
  LET r == Divide(a, d)
      o == r.offset + d.offset
      low == IF o < a.offset THEN o ELSE a.offset
  IN /\ Canonical(r) \/ (r.neg /\ IsZero(r))
     /\ Magnitude(At(a.value, a.offset, low) - At(r.value * d.value, o, low))
          <= At(Slack(d) * d.value, Ulp(r) + d.offset, low)

\* A price times what it is a price of is wrong by a few of the last digit; a
\* native factor costs the digits of a unit.  A divisor so long that the
\* quotient has lost most of its digits is out.
PriceLaw(a, d) ==
  LET r == ProductHuman(RatioHuman(a, d), d)
      digits == 12 * Slack(d) + 13 * (IF d.native THEN Unit + 1 ELSE 1)
  IN 10 * Slack(d) <= ManMin =>
       Off(r, Signed(a), a.offset) <= At(digits, a.offset, Common(r, a.offset))

\* A quality read both ways.
QualityLaw(a, base) ==
  LET p == FromQuality(a.value, a.offset, FALSE, base, FALSE, FALSE)
      q == FromQuality(a.value, a.offset, FALSE, base, TRUE, FALSE)
      o == a.offset + q.offset + (IF base THEN -UnitDigits ELSE 0)
  IN /\ Canonical(p) /\ Canonical(q)
     /\ Magnitude(Ten[-o] - a.value * q.value) <= a.value

-----------------------------------------------------------------------------
\* A reader of the JSON gets the amount; one no JSON can carry is out.
WireLaw(a) ==
  (a.native => a.value <= NativeMax) => FromText(a.native, ToText(a)) = Clone(a, FALSE)

\* to_human without options, or only told about separators.
Plain(sep) ==
  [precision |-> None, min |-> 0, digits |-> None, skip |-> FALSE, sep |-> sep, width |-> 0]

\* Nothing is lost in print and typing but for positive offsets, if separators
\* are turned off.  By default an amount with more digits before the point than
\* make a group is refused when it is typed back, never read as another.
HumanLaw(a) ==
  LET typed(sep) == FromHuman(a.native, ToHuman(a, Plain(sep)))
  IN /\ typed(FALSE) = a
     /\ typed(TRUE) = IF a.value \div Ten[Order(a)] < Ten[GroupWidth] THEN a ELSE NaN

\* Options only cut digits of the fraction, no more than they say, and min
\* only adds zeros; separators appear where a second group begins.
FormatLaw(a, opts) ==
  LET full == Formatted(a, Plain(TRUE))
      cut == Formatted(a, [opts EXCEPT !.min = 0])
      t == Formatted(a, opts)
      width == IF opts.width = 0 THEN GroupWidth ELSE opts.width
      digits(x) == IF x.int > 0 THEN Length[x.int] + x.places
                   ELSE IF x.frac > 0 THEN Length[x.frac] ELSE 0
      fits(x) == /\ opts.precision # None => x.places <= opts.precision
                 /\ opts.digits # None =>
                      digits(x) <= Larger(opts.digits, digits([x EXCEPT !.places = 0, !.frac = 0]))
  IN /\ cut = Places(full, cut.places) /\ fits(cut)
     /\ cut.places < full.places => ~fits(Places(full, cut.places + 1))
     /\ Places(t, cut.places) = cut
     /\ t.places = Larger(cut.places, opts.min) \/ (opts.skip /\ full.places = 0)
     /\ ToHuman(a, opts).commas > 0 <=> opts.sep /\ t.int >= Ten[width]

\* The codes and rates JSON can tell apart; what it does not print is zero.
Spelled(c) ==
  IF HasInterest(c)
  THEN c[2] \in Letters /\ c[3] % 10 = 0 /\ RateRead(c[3]) # 0 /\ c[4] = 0
  ELSE HasCode(c) => c[2] \notin Mixed \cup {XPS}

CurrencyLaw(c) == Spelled(c) => CurrencyFrom(CurrencyJson(c), c # Native) = c
=============================================================================
