---------------------------- MODULE AmountProofs ----------------------------
(* The arithmetic of amounts is what it promises to be for mantissas of any  *)
(* number of digits: the code's sixteen among them, which no model checker   *)
(* reaches.  So are their texts, and the 8 bytes of an amount at full width.  *)
EXTENDS AmountLaws, AmountWire, SequenceTheorems, WellFoundedInduction, TLAPS

-----------------------------------------------------------------------------
(* Numbers.                                                                  *)

\* A set of numbers has a first.
LEMMA LeastNumber ==
  ASSUME NEW I, I \subseteq Nat, I # {}
  PROVE  \E m \in I : \A i \in I : m =< i
<1>. DEFINE Less == OpToRel(<, Nat)
<1>1. \A i, j \in Nat : i < j => <<i, j>> \in Less BY DEF OpToRel
<1>2. IsWellFoundedOn(Less, Nat) BY NatLessThanWellFounded
<1>. HIDE DEF Less
<1>3. PICK m \in I : \A i \in I : <<i, m>> \notin Less BY <1>2, WFMin
<1>4. ASSUME NEW i \in I PROVE m =< i
  <2>1. ~(i < m) BY <1>1, <1>3
  <2>. QED BY <2>1
<1>. QED BY <1>4

\* What holds of 0, and of a number after one it holds of, holds of all.
LEMMA AllNumbers ==
  ASSUME NEW I, 0 \in I, \A n \in Nat : n \in I => n + 1 \in I
  PROVE  \A n \in Nat : n \in I
<1>. DEFINE Out == {n \in Nat : n \notin I}
<1>. SUFFICES ASSUME Out # {} PROVE FALSE OBVIOUS
<1>1. Out \subseteq Nat OBVIOUS
<1>2. PICK m \in Out : \A n \in Out : m =< n
  <2>. HIDE DEF Out
  <2>. QED BY <1>1, LeastNumber
<1>3. m # 0 /\ m \in Nat BY <1>2
<1>4. m - 1 \in Nat /\ ~(m =< m - 1) /\ (m - 1) + 1 = m BY <1>3
<1>5. m - 1 \in I BY <1>2, <1>4
<1>. QED BY <1>2, <1>4, <1>5

LEMMA Quotients ==
  ASSUME NEW v \in Nat, NEW n \in Nat, n > 0
  PROVE  /\ v \div n \in Nat
         /\ n * (v \div n) =< v
         /\ v < n * (v \div n) + n
OBVIOUS

LEMMA QuotientIs ==
  ASSUME NEW v \in Nat, NEW n \in Nat, n > 0, NEW q \in Nat,
         n * q =< v, v < n * q + n
  PROVE  v \div n = q
OBVIOUS

LEMMA MoreTimes ==
  ASSUME NEW a \in Int, NEW b \in Int, NEW c \in Nat, a =< b
  PROVE  a * c =< b * c /\ c * a =< c * b
OBVIOUS

LEMMA LessTimes ==
  ASSUME NEW a \in Int, NEW b \in Int, NEW c \in Nat, c > 0
  PROVE  /\ a * c < b * c <=> a < b
         /\ a * c =< b * c <=> a =< b
OBVIOUS

LEMMA Regroup ==
  ASSUME NEW a \in Int, NEW b \in Int, NEW c \in Int
  PROVE  /\ a * (b * c) = (a * b) * c
         /\ a * b = b * a
         /\ (a + b) * c = a * c + b * c
         /\ (a - b) * c = a * c - b * c
OBVIOUS

-----------------------------------------------------------------------------
(* The powers of ten.                                                        *)

PowersTo(g, N) ==
  /\ g = [n \in 0..N |-> g[n]]
  /\ g[0] = 1
  /\ \A n \in 0..N : n < N => g[n + 1] = 10 * g[n]

LEMMA PowersExist == \A N \in Nat : \E g : PowersTo(g, N)
<1>. DEFINE Is(g, n) == PowersTo(g, n)
            I == {n \in Nat : \E g : Is(g, n)}
<1>1. 0 \in I
  <2>. DEFINE g == [n \in 0..0 |-> 1]
  <2>1. Is(g, 0) BY DEF PowersTo
  <2>. QED BY <2>1
<1>2. ASSUME NEW m \in Nat, m \in I PROVE m + 1 \in I
  <2>1. PICK g : Is(g, m) BY <1>2
  <2>. DEFINE h == [n \in 0..m + 1 |-> IF n = m + 1 THEN 10 * g[m] ELSE g[n]]
  <2>2. h = [n \in 0..m + 1 |-> h[n]] OBVIOUS
  <2>3. h[0] = 1 BY <2>1 DEF PowersTo
  <2>4. ASSUME NEW n \in 0..m + 1, n < m + 1 PROVE h[n + 1] = 10 * h[n]
    <3>1. n \in 0..m /\ n + 1 \in 0..m + 1 /\ n # m + 1 BY <2>4
    <3>2. CASE n = m BY <3>1, <3>2
    <3>3. CASE n # m
      <4>1. n < m /\ n + 1 # m + 1 BY <3>1, <3>3
      <4>. QED BY <2>1, <3>1, <4>1 DEF PowersTo
    <3>. QED BY <3>2, <3>3
  <2>. HIDE DEF h
  <2>5. Is(h, m + 1) BY <2>2, <2>3, <2>4 DEF PowersTo
  <2>. QED BY <2>5
<1>3. \A n \in Nat : n \in I
  <2>. HIDE DEF I
  <2>. QED BY <1>1, <1>2, AllNumbers
<1>. QED BY <1>3

LEMMA PowersAgree ==
  ASSUME NEW M \in Nat, NEW N \in Nat, NEW g, NEW h, PowersTo(g, M), PowersTo(h, N)
  PROVE  \A n \in Nat : n =< M /\ n =< N => g[n] = h[n]
<1>. DEFINE I == {n \in Nat : n =< M /\ n =< N => g[n] = h[n]}
<1>1. 0 \in I BY DEF PowersTo
<1>2. ASSUME NEW n \in Nat, n \in I PROVE n + 1 \in I
  <2>. SUFFICES ASSUME n + 1 =< M, n + 1 =< N PROVE g[n + 1] = h[n + 1] OBVIOUS
  <2>1. n \in 0..M /\ n < M /\ n \in 0..N /\ n < N OBVIOUS
  <2>2. g[n] = h[n] BY <1>2, <2>1
  <2>. QED BY <2>1, <2>2 DEF PowersTo
<1>. HIDE DEF I
<1>3. \A n \in Nat : n \in I BY <1>1, <1>2, AllNumbers
<1>. QED BY <1>3 DEF I

\* Ten is the function its definition describes.
LEMMA TenIs == Ten[0] = 1 /\ \A n \in Nat : Ten[n + 1] = 10 * Ten[n]
<1>. DEFINE Def(g, n) == IF n = 0 THEN 1 ELSE 10 * g[n - 1]
            to(n) == CHOOSE h : PowersTo(h, n)
            all == [n \in Nat |-> to(n)[n]]
            f == CHOOSE g : g = [n \in Nat |-> Def(g, n)]
<1>1. ASSUME NEW n \in Nat PROVE PowersTo(to(n), n)
  <2>1. \E h : PowersTo(h, n) BY PowersExist
  <2>. QED BY <2>1
<1>. HIDE DEF to
<1>2. all[0] = 1 BY <1>1 DEF PowersTo
<1>3. ASSUME NEW n \in Nat PROVE all[n + 1] = 10 * all[n]
  <2>. DEFINE g == to(n)
              h == to(n + 1)
  <2>1. PowersTo(g, n) /\ PowersTo(h, n + 1) BY <1>1
  <2>. HIDE DEF g, h
  <2>2. g[n] = h[n] BY <2>1, PowersAgree
  <2>3. h[n + 1] = 10 * h[n] BY <2>1 DEF PowersTo
  <2>4. all[n] = g[n] /\ all[n + 1] = h[n + 1] BY DEF g, h
  <2>. QED BY <2>2, <2>3, <2>4
<1>4. all = [n \in Nat |-> all[n]] OBVIOUS
<1>. HIDE DEF all
<1>5. \A n \in Nat : all[n] = Def(all, n)
  <2>. SUFFICES ASSUME NEW n \in Nat, n # 0 PROVE all[n] = 10 * all[n - 1] BY <1>2
  <2>1. n - 1 \in Nat /\ (n - 1) + 1 = n OBVIOUS
  <2>. QED BY <1>3, <2>1
<1>6. all = [n \in Nat |-> Def(all, n)] BY <1>4, <1>5
<1>7. f = [n \in Nat |-> Def(f, n)] BY <1>6
<1>8. Ten = f BY DEF Ten
<1>. HIDE DEF f
<1>9. f[0] = 1 BY <1>7
<1>10. ASSUME NEW n \in Nat PROVE f[n + 1] = 10 * f[n]
  <2>1. n + 1 \in Nat /\ n + 1 # 0 /\ (n + 1) - 1 = n OBVIOUS
  <2>2. f[n + 1] = Def(f, n + 1) BY <1>7, <2>1
  <2>. QED BY <2>1, <2>2
<1>. QED BY <1>8, <1>9, <1>10

LEMMA TenType == \A n \in Nat : Ten[n] \in Nat /\ Ten[n] > 0 /\ Ten[n] > n
<1>. DEFINE I == {n \in Nat : Ten[n] \in Nat /\ Ten[n] > 0 /\ Ten[n] > n}
<1>1. 0 \in I BY TenIs
<1>2. ASSUME NEW n \in Nat, n \in I PROVE n + 1 \in I BY <1>2, TenIs
<1>. HIDE DEF I
<1>3. \A n \in Nat : n \in I BY <1>1, <1>2, AllNumbers
<1>. QED BY <1>3 DEF I

LEMMA TenSum == ASSUME NEW m \in Nat, NEW n \in Nat PROVE Ten[m + n] = Ten[m] * Ten[n]
<1>. DEFINE I == {k \in Nat : Ten[m + k] = Ten[m] * Ten[k]}
<1>1. 0 \in I BY TenIs, TenType
<1>2. ASSUME NEW k \in Nat, k \in I PROVE k + 1 \in I
  <2>1. m + (k + 1) = (m + k) + 1 /\ m + k \in Nat OBVIOUS
  <2>2. Ten[m + (k + 1)] = 10 * Ten[m + k] BY <2>1, TenIs
  <2>3. Ten[k + 1] = 10 * Ten[k] BY TenIs
  <2>4. Ten[m] \in Nat /\ Ten[k] \in Nat BY TenType
  <2>5. 10 * (Ten[m] * Ten[k]) = Ten[m] * (10 * Ten[k]) BY <2>4
  <2>. QED BY <1>2, <2>2, <2>3, <2>5
<1>. HIDE DEF I
<1>3. \A k \in Nat : k \in I BY <1>1, <1>2, AllNumbers
<1>. QED BY <1>3 DEF I

\* A higher power is that many times the lower one, and at least ten times.
LEMMA TenOrder ==
  ASSUME NEW m \in Nat, NEW n \in Nat, m =< n
  PROVE  /\ Ten[n] = Ten[m] * Ten[n - m]
         /\ Ten[m] =< Ten[n]
         /\ m < n => 10 * Ten[m] =< Ten[n]
<1>1. n - m \in Nat /\ m + (n - m) = n OBVIOUS
<1>2. Ten[n] = Ten[m] * Ten[n - m] BY <1>1, TenSum
<1>3. Ten[m] \in Nat /\ Ten[n - m] \in Nat /\ Ten[n - m] > 0 BY <1>1, TenType
<1>4. Ten[m] * 1 =< Ten[m] * Ten[n - m] BY <1>3, MoreTimes
<1>5. ASSUME m < n PROVE 10 * Ten[m] =< Ten[n]
  <2>1. (n - m) - 1 \in Nat /\ ((n - m) - 1) + 1 = n - m BY <1>5
  <2>2. Ten[n - m] = 10 * Ten[(n - m) - 1] /\ Ten[(n - m) - 1] \in Nat /\ Ten[(n - m) - 1] > 0
    BY <2>1, TenIs, TenType
  <2>3. Ten[n - m] >= 10 BY <2>2
  <2>4. Ten[m] * 10 =< Ten[m] * Ten[n - m] BY <1>3, <2>3, MoreTimes
  <2>. QED BY <1>2, <1>3, <2>4
<1>. QED BY <1>2, <1>3, <1>4, <1>5

-----------------------------------------------------------------------------
(* The number of digits.                                                     *)

IsLength(v, n) == n > 0 /\ v < Ten[n] /\ (n = 1 \/ Ten[n - 1] =< v)

LEMMA LengthUnique ==
  ASSUME NEW v \in Nat, NEW m \in Nat, NEW n \in Nat, IsLength(v, m), IsLength(v, n)
  PROVE  m = n
<1>1. ASSUME NEW i \in Nat, NEW j \in Nat, IsLength(v, i), IsLength(v, j), i < j PROVE FALSE
  <2>1. j - 1 \in Nat /\ i =< j - 1 /\ j # 1 BY <1>1 DEF IsLength
  <2>2. Ten[i] =< Ten[j - 1] /\ Ten[i] \in Nat /\ Ten[j - 1] \in Nat BY <2>1, TenOrder, TenType
  <2>3. v < Ten[i] /\ Ten[j - 1] =< v BY <1>1, <2>1 DEF IsLength
  <2>. QED BY <2>2, <2>3
<1>. QED BY <1>1

LEMMA LengthExists == \A v \in Nat : \E n \in Nat : IsLength(v, n)
<1>. TAKE v \in Nat
<1>. DEFINE Longer == {n \in Nat : n > 0 /\ v < Ten[n]}
<1>1. v + 1 \in Longer BY TenType
<1>2. PICK n \in Longer : \A i \in Longer : n =< i
  <2>1. Longer \subseteq Nat /\ Longer # {} BY <1>1
  <2>. HIDE DEF Longer
  <2>. QED BY <2>1, LeastNumber
<1>3. n \in Nat /\ n > 0 /\ v < Ten[n] OBVIOUS
<1>4. ASSUME n # 1 PROVE Ten[n - 1] =< v
  <2>1. n - 1 \in Nat /\ n - 1 > 0 /\ ~(n =< n - 1) BY <1>3, <1>4
  <2>2. n - 1 \notin Longer BY <1>2, <2>1
  <2>3. Ten[n - 1] \in Nat BY <2>1, TenType
  <2>. QED BY <2>1, <2>2, <2>3
<1>. QED BY <1>3, <1>4 DEF IsLength

LEMMA LengthStep ==
  ASSUME NEW v \in Nat
  PROVE  /\ v < 10 => IsLength(v, 1)
         /\ \A n \in Nat : v >= 10 /\ IsLength(v \div 10, n) => IsLength(v, n + 1)
<1>1. Ten[1] = 10
  <2>1. Ten[0 + 1] = 10 * Ten[0] BY TenIs
  <2>. QED BY <2>1, TenIs
<1>2. ASSUME NEW n \in Nat, v >= 10, IsLength(v \div 10, n) PROVE IsLength(v, n + 1)
  <2>1. v \div 10 \in Nat /\ 10 * (v \div 10) =< v /\ v < 10 * (v \div 10) + 10 BY Quotients
  <2>2. n > 0 /\ v \div 10 < Ten[n] /\ Ten[n + 1] = 10 * Ten[n] /\ Ten[n] \in Nat
    BY <1>2, TenIs, TenType DEF IsLength
  <2>3. v < Ten[n + 1] BY <2>1, <2>2
  <2>4. Ten[n] =< v
    <3>1. CASE n = 1 BY <1>1, <1>2, <3>1
    <3>2. CASE n # 1
      <4>1. n - 1 \in Nat /\ (n - 1) + 1 = n BY <2>2, <3>2
      <4>2. Ten[n] = 10 * Ten[n - 1] /\ Ten[n - 1] \in Nat BY <4>1, TenIs, TenType
      <4>3. Ten[n - 1] =< v \div 10 BY <1>2, <3>2 DEF IsLength
      <4>. QED BY <2>1, <4>2, <4>3
    <3>. QED BY <3>1, <3>2
  <2>5. (n + 1) - 1 = n /\ n + 1 > 0 BY <2>2
  <2>. QED BY <2>3, <2>4, <2>5 DEF IsLength
<1>. QED BY <1>1, <1>2 DEF IsLength

\* Length is the function its definition describes, and counts digits.
LEMMA LengthIs == \A v \in Nat : Length[v] \in Nat /\ IsLength(v, Length[v])
<1>. DEFINE Def(g, v) == IF v < 10 THEN 1 ELSE 1 + g[v \div 10]
            long(v) == CHOOSE n : n \in Nat /\ IsLength(v, n)
            all == [v \in Nat |-> long(v)]
            f == CHOOSE g : g = [v \in Nat |-> Def(g, v)]
<1>1. ASSUME NEW v \in Nat PROVE long(v) \in Nat /\ IsLength(v, long(v))
  <2>1. \E n : n \in Nat /\ IsLength(v, n) BY LengthExists
  <2>. QED BY <2>1
<1>. HIDE DEF long
<1>2. ASSUME NEW v \in Nat PROVE all[v] = Def(all, v)
  <2>1. all[v] = long(v) /\ v \div 10 \in Nat OBVIOUS
  <2>2. all[v \div 10] = long(v \div 10) BY <2>1
  <2>3. CASE v < 10 BY <1>1, <2>1, <2>3, LengthStep, LengthUnique
  <2>4. CASE ~(v < 10)
    <3>1. IsLength(v \div 10, long(v \div 10)) /\ long(v \div 10) \in Nat BY <1>1, <2>1
    <3>2. IsLength(v, long(v \div 10) + 1) /\ long(v \div 10) + 1 \in Nat
      BY <2>4, <3>1, LengthStep
    <3>3. long(v) = long(v \div 10) + 1 BY <1>1, <3>2, LengthUnique
    <3>. QED BY <2>1, <2>2, <2>4, <3>1, <3>3
  <2>. QED BY <2>3, <2>4
<1>3. all = [v \in Nat |-> all[v]] OBVIOUS
<1>. HIDE DEF all
<1>4. all = [v \in Nat |-> Def(all, v)] BY <1>2, <1>3
<1>5. f = [v \in Nat |-> Def(f, v)] BY <1>4
<1>6. Length = f BY DEF Length
<1>. HIDE DEF f
<1>7. \A v \in Nat : f[v] = Def(f, v) BY <1>5
<1>. DEFINE Out == {v \in Nat : ~(f[v] \in Nat /\ IsLength(v, f[v]))}
<1>8. ASSUME Out # {} PROVE FALSE
  <2>1. PICK m \in Out : \A v \in Out : m =< v
    <3>1. Out \subseteq Nat OBVIOUS
    <3>. HIDE DEF Out
    <3>. QED BY <1>8, <3>1, LeastNumber
  <2>2. m \in Nat /\ f[m] = Def(f, m) BY <1>7
  <2>3. ~(m < 10) BY <2>1, <2>2, LengthStep
  <2>4. m \div 10 \in Nat /\ ~(m =< m \div 10) BY <2>2, <2>3
  <2>5. f[m \div 10] \in Nat /\ IsLength(m \div 10, f[m \div 10]) BY <2>1, <2>4
  <2>6. IsLength(m, f[m \div 10] + 1) BY <2>2, <2>3, <2>5, LengthStep
  <2>7. f[m] = f[m \div 10] + 1 BY <2>2, <2>3, <2>5
  <2>. QED BY <2>1, <2>5, <2>6, <2>7
<1>. QED BY <1>6, <1>8

LEMMA LengthOf ==
  ASSUME NEW v \in Nat, v > 0
  PROVE  /\ Length[v] \in Nat /\ Length[v] > 0 /\ Length[v] - 1 \in Nat
         /\ Ten[Length[v] - 1] =< v /\ v < Ten[Length[v]]
<1>1. Length[v] \in Nat /\ IsLength(v, Length[v]) BY LengthIs
<1>2. ASSUME Length[v] = 1 PROVE Ten[Length[v] - 1] =< v BY <1>2, TenIs
<1>. QED BY <1>1, <1>2 DEF IsLength

LEMMA HasLength ==
  ASSUME NEW v \in Nat, NEW n \in Nat, Ten[n] =< v, v < Ten[n + 1]
  PROVE  Length[v] = n + 1
<1>1. IsLength(v, n + 1) BY DEF IsLength
<1>. QED BY <1>1, LengthIs, LengthUnique

LEMMA LengthOfZero == Length[0] = 1
<1>1. IsLength(0, 1) BY LengthStep
<1>. QED BY <1>1, LengthIs, LengthUnique

\* Reaching a power of ten is having more digits than its exponent.
LEMMA LengthOrder ==
  ASSUME NEW v \in Nat, NEW n \in Nat, v > 0
  PROVE  /\ Ten[n] =< v => n < Length[v]
         /\ v < Ten[n] => Length[v] =< n
<1>1. Length[v] \in Nat /\ Length[v] - 1 \in Nat /\ Ten[Length[v] - 1] =< v /\ v < Ten[Length[v]]
  BY LengthOf
<1>2. Ten[n] \in Nat /\ Ten[Length[v]] \in Nat /\ Ten[Length[v] - 1] \in Nat BY <1>1, TenType
<1>3. ASSUME Ten[n] =< v, Length[v] =< n PROVE FALSE
  <2>1. Ten[Length[v]] =< Ten[n] BY <1>1, <1>3, TenOrder
  <2>. QED BY <1>1, <1>2, <1>3, <2>1
<1>4. ASSUME v < Ten[n], n =< Length[v] - 1 PROVE FALSE
  <2>1. Ten[n] =< Ten[Length[v] - 1] BY <1>1, <1>4, TenOrder
  <2>. QED BY <1>1, <1>2, <1>4, <2>1
<1>. QED BY <1>1, <1>3, <1>4

-----------------------------------------------------------------------------
(* Mantissas.                                                                *)

LEMMA Mantissas ==
  /\ ManMin \in Nat /\ ManMin >= 10 /\ ManMax = 10 * ManMin - 1 /\ Ten[Digits] = 10 * ManMin
  /\ \A v \in ManMin..ManMax : v \in Nat /\ v > 0 /\ Length[v] = Digits
<1>1. Digits - 1 \in Nat /\ (Digits - 1) + 1 = Digits /\ Digits - 1 >= 1 BY AmountAssumption
<1>2. Ten[Digits] = 10 * ManMin /\ ManMin \in Nat BY <1>1, TenIs, TenType DEF ManMin
<1>3. ManMin >= 10
  <2>1. Ten[1] =< Ten[Digits - 1] BY <1>1, TenOrder
  <2>2. Ten[0 + 1] = 10 * Ten[0] /\ Ten[0] = 1 BY TenIs
  <2>. QED BY <1>2, <2>1, <2>2 DEF ManMin
<1>4. ManMax = 10 * ManMin - 1 BY <1>2 DEF ManMax
<1>5. ASSUME NEW v \in ManMin..ManMax PROVE v \in Nat /\ v > 0 /\ Length[v] = Digits
  <2>1. v \in Nat /\ v > 0 BY <1>2, <1>3, <1>4
  <2>2. Ten[Digits - 1] =< v /\ v < Ten[(Digits - 1) + 1] BY <1>1, <1>2, <1>4, <2>1 DEF ManMin
  <2>. QED BY <1>1, <2>1, <2>2, HasLength
<1>. QED BY <1>2, <1>3, <1>4, <1>5

LEMMA ScaledUp ==
  ASSUME NEW v \in Nat, NEW k \in Nat
  PROVE  Scaled(v, k) = v * Ten[k] /\ Scaled(v, k) \in Nat
BY TenType DEF Scaled

LEMMA ScaledDown ==
  ASSUME NEW v \in Nat, NEW k \in Nat
  PROVE  /\ Scaled(v, -k) \in Nat
         /\ Ten[k] * Scaled(v, -k) =< v
         /\ v < Ten[k] * Scaled(v, -k) + Ten[k]
<1>1. Ten[k] \in Nat /\ Ten[k] > 0 BY TenType
<1>2. CASE k = 0
  <2>1. Ten[k] = 1 /\ Scaled(v, -k) = v * 1 BY <1>2, TenIs DEF Scaled
  <2>. QED BY <2>1
<1>3. CASE k # 0
  <2>1. ~(-k >= 0) /\ -(-k) = k BY <1>3
  <2>2. Scaled(v, -k) = v \div Ten[k] BY <2>1 DEF Scaled
  <2>. QED BY <1>1, <2>2, Quotients
<1>. QED BY <1>2, <1>3

\* A number cut or filled to Digits digits.
LEMMA FullMantissa ==
  ASSUME NEW v \in Nat, v > 0, NEW k \in Int, k = Length[v] - Digits
  PROVE  Scaled(v, -k) \in Nat /\ ManMin =< Scaled(v, -k) /\ Scaled(v, -k) < Ten[Digits]
<1>1. /\ Length[v] \in Nat /\ Length[v] - 1 \in Nat
      /\ Ten[Length[v] - 1] =< v /\ v < Ten[Length[v]]
  BY LengthOf
<1>2. Digits \in Nat /\ Digits - 1 \in Nat BY AmountAssumption
<1>3. CASE k =< 0
  <2>1. -k \in Nat /\ Length[v] + (-k) = Digits /\ (Length[v] - 1) + (-k) = Digits - 1
    BY <1>1, <1>2, <1>3
  <2>2. Scaled(v, -k) = v * Ten[-k] /\ Scaled(v, -k) \in Nat BY <2>1, ScaledUp
  <2>3. Ten[Digits] = Ten[Length[v]] * Ten[-k] /\ ManMin = Ten[Length[v] - 1] * Ten[-k]
    <3>. DEFINE d == Digits - 1
                l == Length[v] - 1
                j == -k
    <3>1. Ten[Digits] = Ten[Length[v]] * Ten[-k] BY <1>1, <2>1, TenSum
    <3>2. l \in Nat /\ j \in Nat /\ d = l + j BY <1>1, <1>2, <2>1
    <3>. HIDE DEF d, l, j
    <3>3. Ten[d] = Ten[l] * Ten[j] BY <3>2, TenSum
    <3>. QED BY <3>1, <3>3 DEF ManMin, d, l, j
  <2>4. Ten[-k] \in Nat /\ Ten[-k] > 0 /\ Ten[Length[v]] \in Nat /\ Ten[Length[v] - 1] \in Nat
    BY <1>1, <2>1, TenType
  <2>. QED BY <1>1, <2>2, <2>3, <2>4, LessTimes
<1>4. CASE k > 0
  <2>1. k \in Nat /\ Digits + k = Length[v] /\ (Digits - 1) + k = Length[v] - 1
    BY <1>1, <1>2, <1>4
  <2>. DEFINE w == Scaled(v, -k)
  <2>2. w \in Nat /\ Ten[k] * w =< v /\ v < Ten[k] * w + Ten[k] BY <2>1, ScaledDown
  <2>3. Ten[Length[v]] = Ten[Digits] * Ten[k] /\ Ten[Length[v] - 1] = ManMin * Ten[k]
    <3>1. Ten[Length[v]] = Ten[Digits] * Ten[k] BY ZenonT(30), <1>2, <2>1, TenSum
    <3>. DEFINE d == Digits - 1
    <3>2. d \in Nat /\ Length[v] - 1 = d + k BY <1>2, <2>1
    <3>. HIDE DEF d
    <3>3. Ten[Length[v] - 1] = Ten[d] * Ten[k] BY <2>1, <3>2, TenSum
    <3>. QED BY <3>1, <3>3 DEF ManMin, d
  <2>4. Ten[k] \in Nat /\ Ten[k] > 0 /\ Ten[Digits] \in Nat /\ ManMin \in Nat
    BY <1>2, <2>1, TenType DEF ManMin
  <2>. HIDE DEF w
  <2>5. w * Ten[k] < Ten[Digits] * Ten[k] BY <1>1, <2>2, <2>3, <2>4
  <2>6. ManMin * Ten[k] < (w + 1) * Ten[k] BY <1>1, <2>2, <2>3, <2>4
  <2>7. w < Ten[Digits] /\ ManMin < w + 1 BY <2>2, <2>4, <2>5, <2>6, LessTimes
  <2>. QED BY <2>2, <2>4, <2>7 DEF w
<1>. QED BY <1>3, <1>4

-----------------------------------------------------------------------------
(* Numbers at an offset, in units of 10^low.                                 *)

LEMMA AtType ==
  ASSUME NEW v \in Int, NEW o \in Int, NEW low \in Int, low =< o
  PROVE  /\ o - low \in Nat /\ Ten[o - low] \in Nat /\ Ten[o - low] > 0
         /\ At(v, o, low) = v * Ten[o - low] /\ At(v, o, low) \in Int
<1>1. o - low \in Nat OBVIOUS
<1>. QED BY <1>1, TenType DEF At

LEMMA AtInt ==
  ASSUME NEW v \in Int, NEW o \in Int, NEW low \in Int, low =< o
  PROVE  At(v, o, low) \in Int
BY AtType

LEMMA UnitType ==
  ASSUME NEW o \in Int, NEW low \in Int, low =< o
  PROVE  o - low \in Nat /\ Ten[o - low] \in Nat /\ Ten[o - low] > 0
<1>1. o - low \in Nat OBVIOUS
<1>. QED BY <1>1, TenType

\* The same number with another mantissa.
LEMMA AtShift ==
  ASSUME NEW v \in Int, NEW o \in Int, NEW k \in Nat, NEW low \in Int, low =< o
  PROVE  At(v, o + k, low) = At(v * Ten[k], o, low)
<1>1. o - low \in Nat /\ (o + k) - low = k + (o - low) /\ low =< o + k OBVIOUS
<1>2. Ten[(o + k) - low] = Ten[k] * Ten[o - low] BY <1>1, TenSum
<1>3. Ten[k] \in Nat /\ Ten[o - low] \in Nat BY <1>1, TenType
<1>. QED BY <1>2, <1>3, Regroup DEF At

\* In smaller units.
LEMMA AtUnits ==
  ASSUME NEW v \in Int, NEW o \in Int, NEW low \in Int, NEW k \in Nat, low =< o
  PROVE  At(v, o, low - k) = At(v, o, low) * Ten[k]
<1>1. o - low \in Nat /\ o - (low - k) = (o - low) + k OBVIOUS
<1>2. Ten[o - (low - k)] = Ten[o - low] * Ten[k] BY <1>1, TenSum
<1>3. Ten[k] \in Nat /\ Ten[o - low] \in Nat BY <1>1, TenType
<1>. QED BY <1>2, <1>3, Regroup DEF At

LEMMA AtLinear ==
  ASSUME NEW v \in Int, NEW w \in Int, NEW o \in Int, NEW low \in Int, low =< o
  PROVE  /\ At(v + w, o, low) = At(v, o, low) + At(w, o, low)
         /\ At(v - w, o, low) = At(v, o, low) - At(w, o, low)
         /\ At(-v, o, low) = -At(v, o, low)
         /\ At(v, o, low) =< At(w, o, low) <=> v =< w
         /\ At(v, o, low) < At(w, o, low) <=> v < w
         /\ At(0, o, low) = 0
<1>1. Ten[o - low] \in Nat /\ Ten[o - low] > 0 BY AtType
<1>. DEFINE t == Ten[o - low]
<1>. HIDE DEF t
<1>2. t \in Nat /\ t > 0 BY <1>1 DEF t
<1>3. (v + w) * t = v * t + w * t /\ (v - w) * t = v * t - w * t /\ (-v) * t = -(v * t)
  BY <1>2
<1>4. (v * t =< w * t <=> v =< w) /\ (v * t < w * t <=> v < w) BY <1>2, LessTimes
<1>. QED BY <1>2, <1>3, <1>4 DEF At, t

LEMMA AtOrder ==
  ASSUME NEW v \in Int, NEW w \in Int, NEW o \in Int, NEW low \in Int, low =< o
  PROVE  /\ At(v, o, low) =< At(w, o, low) <=> v =< w
         /\ At(v, o, low) < At(w, o, low) <=> v < w
BY AtLinear

LEMMA AtPositive ==
  ASSUME NEW v \in Nat, v > 0, NEW o \in Int, NEW low \in Int, low =< o
  PROVE  At(v, o, low) \in Nat /\ At(v, o, low) > 0 /\ At(-v, o, low) = -At(v, o, low)
<1>1. Ten[o - low] \in Nat /\ Ten[o - low] > 0 BY AtType
<1>. DEFINE t == Ten[o - low]
<1>. HIDE DEF t
<1>2. t \in Nat /\ t > 0 BY <1>1 DEF t
<1>3. v * t \in Nat /\ (-v) * t = -(v * t) BY <1>2
<1>4. 0 * t < v * t BY <1>2, LessTimes
<1>. QED BY <1>2, <1>3, <1>4 DEF At, t

-----------------------------------------------------------------------------
(* Canonical amounts.                                                        *)

IsTokens(a, v, o, n) ==
  a \in Amounts /\ ~a.native /\ a.value = v /\ a.offset = o /\ a.neg = n
IsNative(a, v, o, n) ==
  a \in Amounts /\ a.native /\ a.value = v /\ a.offset = o /\ a.neg = n

LEMMA Made ==
  \A v \in Nat, o \in Int, n \in BOOLEAN :
    IsTokens(Amt(FALSE, v, o, n), v, o, n) /\ IsNative(Amt(TRUE, v, o, n), v, o, n)
BY DEF Amounts, Amt, IsTokens, IsNative

\* canonicalize, of tokens that are not zero.
LEMMA CanonicalTokens ==
  ASSUME NEW v \in Nat, v > 0, NEW o \in Int, NEW n \in BOOLEAN, NEW a, IsTokens(a, v, o, n),
         NEW k, k = Length[v] - Digits
  PROVE  /\ k \in Int /\ Scaled(v, -k) \in ManMin..ManMax
         /\ IsTokens(Canonicalize(a), Scaled(v, -k), o + k, n)
<1>. DEFINE w == Scaled(v, -k)
<1>1. k \in Int /\ Length[v] \in Nat BY LengthOf, AmountAssumption
<1>2. w \in Nat /\ ManMin =< w /\ w < Ten[Digits] BY <1>1, FullMantissa
<1>. HIDE DEF w
<1>3. w \in ManMin..ManMax
  <2>1. ManMin \in Nat /\ ManMin >= 10 /\ ManMax = 10 * ManMin - 1 /\ Ten[Digits] = 10 * ManMin
    BY Mantissas
  <2>. QED BY <1>2, <2>1
<1>4. Canonicalize(a) = Amt(FALSE, w, o + k, n)
  <2>. DEFINE l == Length[a.value] - Digits
  <2>1. ~a.native /\ Valid(a) /\ ~IsZero(a) BY DEF IsTokens, Valid, IsZero
  <2>2. Canonicalize(a) = Amt(FALSE, Scaled(a.value, -l), a.offset + l, a.neg)
    BY <2>1, Zenon DEF Canonicalize
  <2>3. l = k BY DEF IsTokens
  <2>. HIDE DEF l
  <2>. QED BY <2>2, <2>3, Zenon DEF IsTokens, w
<1>5. IsTokens(Amt(FALSE, w, o + k, n), w, o + k, n)
  <2>1. o + k \in Int BY <1>1
  <2>. QED BY <1>2, <2>1, Made
<1>. QED BY <1>1, <1>3, <1>4, <1>5 DEF w

\* What it cuts off is less than the last digit, and nothing of a number that
\* fits.
LEMMA Cut ==
  ASSUME NEW v \in Nat, NEW o \in Int, NEW k \in Int, NEW low \in Int, low =< o, low =< o + k
  PROVE  LET w == Scaled(v, -k) IN
         /\ At(w, o + k, low) =< At(v, o, low)
         /\ k =< 0 => At(w, o + k, low) = At(v, o, low)
         /\ k > 0 => At(v + 1, o, low) =< At(w + 1, o + k, low)
<1>. DEFINE w == Scaled(v, -k)
<1>1. CASE k =< 0
  <2>1. -k \in Nat /\ (o + k) + (-k) = o /\ o + k \in Int BY <1>1
  <2>2. w = v * Ten[-k] /\ w \in Nat BY <2>1, ScaledUp
  <2>3. At(v, (o + k) + (-k), low) = At(v * Ten[-k], o + k, low) BY <2>1, AtShift
  <2>4. At(w, o + k, low) = At(v, o, low) BY <2>1, <2>2, <2>3
  <2>5. At(v, o, low) \in Int BY AtType
  <2>. QED BY <1>1, <2>4, <2>5
<1>2. CASE k > 0
  <2>1. k \in Nat BY <1>2
  <2>2. w \in Nat /\ Ten[k] * w =< v /\ v < Ten[k] * w + Ten[k] BY <2>1, ScaledDown
  <2>3. Ten[k] \in Nat BY <2>1, TenType
  <2>. HIDE DEF w
  <2>4. /\ At(w, o + k, low) = At(w * Ten[k], o, low)
        /\ At(w + 1, o + k, low) = At((w + 1) * Ten[k], o, low)
    <3>. DEFINE x == w + 1
    <3>1. w \in Int /\ x \in Int BY <2>2
    <3>. HIDE DEF x
    <3>2. At(x, o + k, low) = At(x * Ten[k], o, low) BY <2>1, <3>1, AtShift
    <3>3. At(w, o + k, low) = At(w * Ten[k], o, low) BY <2>1, <3>1, AtShift
    <3>. QED BY <3>2, <3>3 DEF x
  <2>5. w * Ten[k] \in Int /\ w * Ten[k] =< v /\ (w + 1) * Ten[k] \in Int
    /\ v + 1 =< (w + 1) * Ten[k] BY <2>2, <2>3
  <2>6. /\ At(w * Ten[k], o, low) =< At(v, o, low)
        /\ At(v + 1, o, low) =< At((w + 1) * Ten[k], o, low)
    <3>. DEFINE x == w * Ten[k]
                y == (w + 1) * Ten[k]
    <3>1. x \in Int /\ y \in Int /\ v + 1 \in Int /\ x =< v /\ v + 1 =< y BY <2>5
    <3>. HIDE DEF x, y
    <3>2. At(x, o, low) =< At(v, o, low) /\ At(v + 1, o, low) =< At(y, o, low)
      BY <3>1, AtLinear
    <3>. QED BY <3>2 DEF x, y
  <2>. QED BY <1>2, <2>4, <2>6 DEF w
<1>. QED BY <1>1, <1>2

\* canonicalize, of a native amount.
LEMMA CanonicalNative ==
  ASSUME NEW v \in Nat, v > 0, NEW o \in Int, NEW n \in BOOLEAN, NEW a, IsNative(a, v, o, n)
  PROVE  Scaled(v, o) \in Nat /\ IsNative(Canonicalize(a), Scaled(v, o), 0, n)
<1>1. Scaled(v, o) \in Nat
  <2>1. CASE o >= 0 BY <2>1, ScaledUp
  <2>2. CASE o < 0
    <3>1. -o \in Nat /\ -(-o) = o BY <2>2
    <3>2. Scaled(v, -(-o)) \in Nat BY <3>1, ScaledDown
    <3>. QED BY <3>1, <3>2
  <2>. QED BY <2>1, <2>2
<1>2. Canonicalize(a) = Amt(TRUE, Scaled(v, o), 0, n)
  <2>1. a.native /\ Valid(a) /\ ~IsZero(a) BY DEF IsNative, Valid, IsZero
  <2>2. Canonicalize(a) = Amt(TRUE, Scaled(a.value, a.offset), 0, a.neg)
    BY <2>1, Zenon DEF Canonicalize
  <2>. QED BY <2>2, Zenon DEF IsNative
<1>3. IsNative(Amt(TRUE, Scaled(v, o), 0, n), Scaled(v, o), 0, n)
  <2>. DEFINE w == Scaled(v, o)
  <2>1. w \in Nat /\ 0 \in Int BY <1>1
  <2>. HIDE DEF w
  <2>2. IsNative(Amt(TRUE, w, 0, n), w, 0, n) BY <2>1, Made
  <2>. QED BY <2>2 DEF w
<1>. QED BY <1>1, <1>2, <1>3

LEMMA CanonicalZero ==
  ASSUME NEW o \in Int, NEW n \in BOOLEAN, NEW a
  PROVE  /\ IsTokens(a, 0, o, n) => IsTokens(Canonicalize(a), 0, -100, FALSE)
         /\ IsNative(a, 0, o, n) => IsNative(Canonicalize(a), 0, 0, FALSE)
<1>1. IsTokens(a, 0, o, n) => Canonicalize(a) = Amt(FALSE, 0, -100, FALSE)
  BY DEF IsTokens, Canonicalize, Valid, IsZero
<1>2. IsNative(a, 0, o, n) => Canonicalize(a) = Amt(TRUE, 0, 0, FALSE)
  BY DEF IsNative, Canonicalize, Valid, IsZero
<1>3. -100 \in Int /\ 0 \in Int /\ 0 \in Nat /\ FALSE \in BOOLEAN OBVIOUS
<1>. QED BY <1>1, <1>2, <1>3, Made

LEMMA SameFields ==
  ASSUME NEW a \in Amounts, NEW b \in Amounts, a.native = b.native, a.value = b.value,
         a.offset = b.offset, a.neg = b.neg
  PROVE  a = b
BY DEF Amounts

LEMMA Members ==
  ASSUME NEW a \in Amounts
  PROVE  /\ a.native \in BOOLEAN /\ a.value \in Nat /\ a.offset \in Int /\ a.neg \in BOOLEAN
         /\ Valid(a) /\ (IsZero(a) <=> a.value = 0)
         /\ Signed(a) \in Int /\ Signed(a) = IF a.neg THEN -a.value ELSE a.value
BY DEF Amounts, Valid, IsZero, Signed

LEMMA Members2 ==
  ASSUME NEW a, Canonical(a)
  PROVE  /\ a \in Amounts
         /\ IsZero(a) => ~a.neg
         /\ a.native => a.offset = 0
         /\ ~a.native /\ ~IsZero(a) => a.value \in ManMin..ManMax
         /\ ~a.native /\ IsZero(a) => a.offset = -100
BY DEF Canonical

\* Amounts with the fields of a canonical one.
LEMMA TokensCanonical ==
  ASSUME NEW a, NEW v \in ManMin..ManMax, NEW o \in Int, NEW n \in BOOLEAN, IsTokens(a, v, o, n)
  PROVE  Canonical(a) /\ ~IsZero(a)
<1>1. v \in Nat /\ v > 0 BY Mantissas
<1>. QED BY <1>1 DEF IsTokens, Canonical, IsZero

LEMMA NativeCanonical ==
  ASSUME NEW a, NEW v \in Nat, NEW n \in BOOLEAN, IsNative(a, v, 0, n), v = 0 => ~n
  PROVE  Canonical(a) /\ (IsZero(a) <=> v = 0)
BY DEF IsNative, Canonical, IsZero

LEMMA ZeroCanonical ==
  ASSUME NEW a, IsTokens(a, 0, -100, FALSE)
  PROVE  Canonical(a) /\ IsZero(a)
BY DEF IsTokens, Canonical, IsZero

\* clone and negate.
LEMMA Cloned ==
  ASSUME NEW a, Canonical(a), NEW negate \in BOOLEAN
  PROVE  LET c == Clone(a, negate) IN
         /\ c \in Amounts
         /\ c.native = a.native /\ c.value = a.value /\ c.offset = a.offset
         /\ c.neg <=> ~IsZero(a) /\ (a.neg # negate)
<1>1. a \in Amounts BY Members2
<1>2. Clone(a, negate) = [a EXCEPT !.neg = ~IsZero(a) /\ (a.neg # negate)] BY DEF Clone
<1>. DEFINE n == ~IsZero(a) /\ (a.neg # negate)
<1>3. n \in BOOLEAN OBVIOUS
<1>. HIDE DEF n
<1>4. Clone(a, negate) = [a EXCEPT !.neg = n] BY <1>2 DEF n
<1>5. LET c == [a EXCEPT !.neg = n] IN
      /\ c \in Amounts
      /\ c.native = a.native /\ c.value = a.value /\ c.offset = a.offset
      /\ c.neg = n
  BY <1>1, <1>3 DEF Amounts
<1>. QED BY <1>4, <1>5, Zenon DEF n

LEMMA CloneSame == ASSUME NEW a, Canonical(a) PROVE Clone(a, FALSE) = a
<1>. DEFINE c == Clone(a, FALSE)
<1>1. /\ c \in Amounts
      /\ c.native = a.native /\ c.value = a.value /\ c.offset = a.offset
      /\ c.neg <=> ~IsZero(a) /\ (a.neg # FALSE)
  BY Cloned
<1>2. a \in Amounts /\ (IsZero(a) => ~a.neg) /\ a.neg \in BOOLEAN BY Members, Members2
<1>. HIDE DEF c
<1>3. c.neg \in BOOLEAN BY <1>1, Members
<1>4. c.neg = a.neg BY <1>1, <1>2, <1>3
<1>5. c = a BY <1>1, <1>2, <1>4, SameFields
<1>. QED BY <1>5 DEF c

-----------------------------------------------------------------------------
(* Exact values.                                                             *)

\* low is a unit a can be counted in.
Counts(low, a) == low \in Int /\ (IsZero(a) \/ low =< a.offset)

LEMMA LowestCounts ==
  ASSUME NEW a \in Amounts, NEW b \in Amounts, NEW r \in Amounts, NEW low,
         low = Lowest({a, b, r})
  PROVE  Counts(low, a) /\ Counts(low, b) /\ Counts(low, r)
<1>. DEFINE offsets == {x.offset : x \in {y \in {a, b, r} : ~IsZero(y)}}
            Least(o) == \A p \in offsets : o =< p
            one == IF IsZero(a) THEN 0 ELSE a.offset
            two == IF ~IsZero(b) /\ (IsZero(a) \/ b.offset < one) THEN b.offset ELSE one
            three == IF ~IsZero(r) /\ ((IsZero(a) /\ IsZero(b)) \/ r.offset < two)
                     THEN r.offset ELSE two
<1>1. a.offset \in Int /\ b.offset \in Int /\ r.offset \in Int BY Members
<1>2. offsets \subseteq Int BY <1>1
<1>3. three \in {0} \cup offsets OBVIOUS
<1>4. Least(three)
  <2>. SUFFICES ASSUME NEW x \in {a, b, r}, ~IsZero(x) PROVE three =< x.offset OBVIOUS
  <2>1. CASE x = a BY <1>1, <2>1
  <2>2. CASE x = b BY <1>1, <2>2
  <2>3. CASE x = r BY <1>1, <2>3
  <2>. QED BY <2>1, <2>2, <2>3
<1>. HIDE DEF three, two, one
<1>5. low = CHOOSE o \in {0} \cup offsets : Least(o) BY DEF Lowest
<1>. HIDE DEF Least
<1>6. low \in {0} \cup offsets /\ Least(low) BY <1>3, <1>4, <1>5
<1>7. low \in Int BY <1>2, <1>6
<1>8. /\ ~IsZero(a) => a.offset \in offsets
      /\ ~IsZero(b) => b.offset \in offsets
      /\ ~IsZero(r) => r.offset \in offsets
  OBVIOUS
<1>. HIDE DEF offsets
<1>9. \A p \in offsets : low =< p BY <1>6 DEF Least
<1>. QED BY <1>7, <1>8, <1>9 DEF Counts

LEMMA ExactIs ==
  ASSUME NEW a, Canonical(a), NEW low, Counts(low, a)
  PROVE  /\ IsZero(a) => Exact(a, low) = 0
         /\ ~IsZero(a) =>
              /\ At(a.value, a.offset, low) \in Int /\ At(a.value, a.offset, low) > 0
              /\ Exact(a, low) = At(Signed(a), a.offset, low)
              /\ Exact(a, low) = IF a.neg THEN -At(a.value, a.offset, low)
                                 ELSE At(a.value, a.offset, low)
<1>. DEFINE v == a.value
            o == a.offset
<1>1. v \in Nat /\ o \in Int /\ (IsZero(a) <=> v = 0) /\ Signed(a) = IF a.neg THEN -v ELSE v
  BY Members, Members2
<1>2. Exact(a, low) = IF IsZero(a) THEN 0 ELSE At(Signed(a), o, low) BY DEF Exact
<1>3. Counts(low, a) <=> low \in Int /\ (IsZero(a) \/ low =< o) BY DEF Counts
<1>. SUFFICES ASSUME ~IsZero(a)
              PROVE  /\ At(v, o, low) \in Int /\ At(v, o, low) > 0
                     /\ Exact(a, low) = At(Signed(a), o, low)
                     /\ Exact(a, low) = IF a.neg THEN -At(v, o, low) ELSE At(v, o, low)
  BY <1>2
<1>. HIDE DEF v, o
<1>4. low \in Int /\ low =< o /\ v > 0 BY <1>1, <1>3
<1>5. At(v, o, low) \in Nat /\ At(v, o, low) > 0 /\ At(-v, o, low) = -At(v, o, low)
  BY <1>1, <1>4, AtPositive
<1>. QED BY <1>1, <1>2, <1>5

\* Of two mantissas the one with the higher offset is the larger number.
LEMMA HigherOffset ==
  ASSUME NEW v \in ManMin..ManMax, NEW w \in ManMin..ManMax, NEW o \in Int, NEW p \in Int,
         NEW low \in Int, low =< p, p < o
  PROVE  At(w, p, low) < At(v, o, low)
<1>1. v \in Nat /\ w \in Nat /\ ManMin =< v /\ w < 10 * ManMin /\ ManMin \in Nat BY Mantissas
<1>2. p - low \in Nat /\ o - low \in Nat /\ p - low < o - low BY <1>1
<1>3. 10 * Ten[p - low] =< Ten[o - low] BY <1>2, TenOrder
<1>4. Ten[p - low] \in Nat /\ Ten[p - low] > 0 /\ Ten[o - low] \in Nat BY <1>2, TenType
<1>5. w * Ten[p - low] < (10 * ManMin) * Ten[p - low] BY <1>1, <1>4, LessTimes
<1>6. ManMin * (10 * Ten[p - low]) =< ManMin * Ten[o - low] BY <1>1, <1>3, <1>4, MoreTimes
<1>7. ManMin * Ten[o - low] =< v * Ten[o - low] BY <1>1, <1>4, MoreTimes
<1>8. (10 * ManMin) * Ten[p - low] = ManMin * (10 * Ten[p - low]) BY <1>1, <1>4
<1>9. At(w, p, low) = w * Ten[p - low] /\ At(v, o, low) = v * Ten[o - low] BY DEF At
<1>10. ManMin * Ten[o - low] \in Int /\ v * Ten[o - low] \in Int /\ w * Ten[p - low] \in Int
       /\ ManMin * (10 * Ten[p - low]) \in Int BY <1>1, <1>4
<1>. QED BY <1>5, <1>6, <1>7, <1>8, <1>9, <1>10

\* compareTo agrees with the numbers.
LEMMA Comparison ==
  ASSUME NEW a, NEW b, Canonical(a), Canonical(b), a.native = b.native,
         NEW low, Counts(low, a), Counts(low, b)
  PROVE  CompareTo(a, b) = Signum(Exact(a, low) - Exact(b, low))
<1>. DEFINE v == a.value  o == a.offset  x == At(a.value, a.offset, low)
            w == b.value  p == b.offset  y == At(b.value, b.offset, low)
            e == Exact(a, low)
            f == Exact(b, low)
            out == IF a.neg THEN -1 ELSE 1
<1>1. /\ a.native \in BOOLEAN /\ v \in Nat /\ o \in Int /\ a.neg \in BOOLEAN
      /\ b.native \in BOOLEAN /\ w \in Nat /\ p \in Int /\ b.neg \in BOOLEAN
  BY Members, Members2
<1>2. (IsZero(a) => ~a.neg) /\ (IsZero(b) => ~b.neg) BY Members2
<1>3. /\ IsZero(a) => e = 0
      /\ ~IsZero(a) => x \in Int /\ x > 0 /\ e = IF a.neg THEN -x ELSE x
      /\ IsZero(b) => f = 0
      /\ ~IsZero(b) => y \in Int /\ y > 0 /\ f = IF b.neg THEN -y ELSE y
  BY ExactIs
<1>4. ASSUME ~IsZero(a), ~IsZero(b), o = p
      PROVE  Signum(v - w) = Signum(x - y) /\ v - w \in Int /\ x - y \in Int
  <2>1. low \in Int /\ low =< o BY <1>4 DEF Counts
  <2>2. x = At(v, o, low) /\ y = At(w, o, low) BY <1>4
  <2>. HIDE DEF x, y, v, w, o, p
  <2>3. (At(v, o, low) < At(w, o, low) <=> v < w) /\ (At(w, o, low) < At(v, o, low) <=> w < v)
    BY <1>1, <2>1, AtOrder
  <2>4. x \in Int /\ y \in Int BY <1>3, <1>4
  <2>. QED BY <1>1, <2>2, <2>3, <2>4 DEF Signum
<1>5. ASSUME ~IsZero(a), ~IsZero(b), ~a.native, o > p PROVE y < x
  <2>1. low \in Int /\ low =< p BY <1>5 DEF Counts
  <2>2. v \in ManMin..ManMax /\ w \in ManMin..ManMax BY <1>5, Members2
  <2>3. x = At(v, o, low) /\ y = At(w, p, low) OBVIOUS
  <2>. HIDE DEF x, y, v, w, o, p
  <2>4. At(w, p, low) < At(v, o, low) BY <1>1, <1>5, <2>1, <2>2, HigherOffset
  <2>. QED BY <2>3, <2>4
<1>6. ASSUME ~IsZero(a), ~IsZero(b), ~a.native, o < p PROVE x < y
  <2>1. low \in Int /\ low =< o BY <1>6 DEF Counts
  <2>2. v \in ManMin..ManMax /\ w \in ManMin..ManMax BY <1>6, Members2
  <2>3. x = At(v, o, low) /\ y = At(w, p, low) OBVIOUS
  <2>. HIDE DEF x, y, v, w, o, p
  <2>4. At(v, o, low) < At(w, p, low) BY <1>1, <1>6, <2>1, <2>2, HigherOffset
  <2>. QED BY <2>3, <2>4
<1>7. a.native => o = p BY Members2
<1>8. CompareTo(a, b) =
        IF a.neg # b.neg THEN out
        ELSE IF IsZero(a) THEN IF IsZero(b) THEN 0 ELSE -1
        ELSE IF IsZero(b) THEN 1
        ELSE IF ~a.native /\ o # p THEN IF o > p THEN out ELSE -out
        ELSE Signum(v - w) * out
  BY Zenon DEF CompareTo
<1>. SUFFICES CompareTo(a, b) = Signum(e - f) OBVIOUS
<1>. HIDE DEF v, w, o, p, x, y, e, f
<1>9. CASE a.neg # b.neg BY <1>1, <1>2, <1>3, <1>8, <1>9 DEF Signum
<1>10. CASE a.neg = b.neg /\ (IsZero(a) \/ IsZero(b))
  BY <1>1, <1>2, <1>3, <1>8, <1>10 DEF Signum
<1>11. CASE a.neg = b.neg /\ ~IsZero(a) /\ ~IsZero(b)
  <2>1. e - f = IF a.neg THEN -(x - y) ELSE x - y BY <1>1, <1>3, <1>11
  <2>2. x \in Int /\ y \in Int BY <1>3, <1>11
  <2>3. CASE ~a.native /\ o # p
    <3>1. CompareTo(a, b) = IF o > p THEN out ELSE -out BY <1>8, <1>11, <2>3
    <3>2. IF o > p THEN y < x ELSE x < y BY <1>1, <1>5, <1>6, <1>11, <2>3
    <3>. QED BY <2>1, <2>2, <3>1, <3>2 DEF Signum
  <2>4. CASE ~(~a.native /\ o # p)
    <3>1. CompareTo(a, b) = Signum(v - w) * out BY <1>8, <1>11, <2>4
    <3>2. Signum(v - w) = Signum(x - y) BY <1>4, <1>7, <1>11, <2>4
    <3>. QED BY <2>1, <2>2, <3>1, <3>2 DEF Signum
  <2>. QED BY <2>3, <2>4
<1>. QED BY <1>9, <1>10, <1>11

-----------------------------------------------------------------------------
(* Sums.                                                                     *)

LEMMA AtNext ==
  ASSUME NEW v \in Int, NEW o \in Int, NEW low \in Int, low =< o
  PROVE  At(v + 1, o, low) = At(v, o, low) + Ten[o - low]
<1>1. Ten[o - low] \in Nat BY AtType
<1>. DEFINE t == Ten[o - low]
<1>. HIDE DEF t
<1>2. t \in Nat BY <1>1 DEF t
<1>3. (v + 1) * t = v * t + t BY <1>2
<1>. QED BY <1>3 DEF At, t

LEMMA AtNegative ==
  ASSUME NEW v \in Int, NEW o \in Int, NEW low \in Int, low =< o
  PROVE  At(-v, o, low) = -At(v, o, low)
BY AtLinear

LEMMA AtSum ==
  ASSUME NEW v \in Int, NEW w \in Int, NEW o \in Int, NEW low \in Int, low =< o
  PROVE  At(v + w, o, low) = At(v, o, low) + At(w, o, low)
BY AtLinear

\* Moving to a higher offset cuts off less than its last digit.
LEMMA Moved ==
  ASSUME NEW a \in Amounts, NEW o \in Int, a.offset =< o, NEW low \in Int, low =< a.offset
  PROVE  /\ MovedTo(a, o) \in Int
         /\ At(Signed(a), a.offset, low) - At(MovedTo(a, o), o, low) < Ten[o - low]
         /\ At(MovedTo(a, o), o, low) - At(Signed(a), a.offset, low) < Ten[o - low]
         /\ a.offset = o => MovedTo(a, o) = Signed(a)
<1>. DEFINE v == a.value
            p == a.offset
            k == o - p
            s == Scaled(v, -k)
            m == MovedTo(a, o)
            n == Signed(a)
            x == At(v, p, low)
            y == At(s, o, low)
<1>1. v \in Nat /\ p \in Int /\ n = IF a.neg THEN -v ELSE v BY Members
<1>2. m = IF a.neg THEN -Scaled(v, p - o) ELSE Scaled(v, p - o) BY DEF MovedTo
<1>. SUFFICES /\ m \in Int
              /\ At(n, p, low) - At(m, o, low) < Ten[o - low]
              /\ At(m, o, low) - At(n, p, low) < Ten[o - low]
              /\ p = o => m = n
  OBVIOUS
<1>3. p =< o /\ low =< p OBVIOUS
<1>. HIDE DEF v, p, m, n
<1>4. k \in Nat /\ p - o = -k /\ p + k = o /\ low =< o BY <1>1, <1>3
<1>5. s \in Nat BY <1>1, <1>4, ScaledDown
<1>6. m = IF a.neg THEN -s ELSE s BY <1>2, <1>4
<1>7. k = 0 => s = v
  <2>. SUFFICES ASSUME k = 0 PROVE s = v OBVIOUS
  <2>1. s = Scaled(v, 0) BY <1>4
  <2>2. Scaled(v, 0) = v * Ten[0] BY DEF Scaled
  <2>. QED BY <1>1, <2>1, <2>2, TenIs
<1>. HIDE DEF s, k
<1>8. /\ At(s, p + k, low) =< At(v, p, low)
      /\ k =< 0 => At(s, p + k, low) = At(v, p, low)
      /\ k > 0 => At(v + 1, p, low) =< At(s + 1, p + k, low)
  <2>1. k \in Int /\ low =< p + k BY <1>4
  <2>. QED BY <1>1, <1>3, <2>1, Cut DEF s
<1>9. At(v + 1, p, low) = x + Ten[p - low] /\ At(s + 1, o, low) = y + Ten[o - low]
  BY <1>1, <1>3, <1>4, <1>5, AtNext
<1>10. Ten[p - low] \in Nat /\ Ten[p - low] > 0 /\ x \in Int /\ y \in Int
       /\ Ten[o - low] \in Nat /\ Ten[o - low] > 0
  <2>1. Ten[p - low] \in Nat /\ Ten[p - low] > 0 BY <1>1, <1>3, UnitType
  <2>2. Ten[o - low] \in Nat /\ Ten[o - low] > 0 BY <1>4, UnitType
  <2>3. At(v, p, low) \in Int /\ At(s, o, low) \in Int BY <1>1, <1>3, <1>4, <1>5, AtInt
  <2>. QED BY <2>1, <2>2, <2>3
<1>11. y =< x /\ x - y < Ten[o - low] BY <1>4, <1>8, <1>9, <1>10
<1>12. At(-v, p, low) = -x /\ At(-s, o, low) = -y BY <1>1, <1>3, <1>4, <1>5, AtNegative
<1>. HIDE DEF x, y
<1>13. At(n, p, low) = IF a.neg THEN -x ELSE x BY <1>1, <1>12 DEF x
<1>14. At(m, o, low) = IF a.neg THEN -y ELSE y BY <1>6, <1>12 DEF y
<1>15. At(n, p, low) - At(m, o, low) < Ten[o - low] /\ At(m, o, low) - At(n, p, low) < Ten[o - low]
  BY <1>10, <1>11, <1>13, <1>14 DEF x, y
<1>. QED BY <1>1, <1>4, <1>5, <1>6, <1>7, <1>15 DEF k

LEMMA MovedInt ==
  ASSUME NEW a \in Amounts, NEW o \in Int, a.offset =< o
  PROVE  MovedTo(a, o) \in Int
<1>1. a.offset \in Int /\ a.offset =< a.offset BY Members
<1>. QED BY <1>1, Moved

LEMMA Absolute ==
  ASSUME NEW s \in Int
  PROVE  /\ Magnitude(s) \in Nat /\ (Magnitude(s) = 0 <=> s = 0)
         /\ s < 0 => s = -Magnitude(s)
         /\ ~(s < 0) => s = Magnitude(s)
BY DEF Magnitude

\* add, of tokens: the sum is canonical, and wrong by less than its last digit
\* or that of the coarser operand.
LEMMA TokenSum ==
  ASSUME NEW a \in Amounts, NEW b \in Amounts, ~a.native, ~b.native, ~IsZero(a), ~IsZero(b),
         NEW low \in Int, low =< a.offset, low =< b.offset,
         NEW r, r = Add(a, b), NEW high, high = Larger(a.offset, b.offset)
  PROVE  /\ Canonical(r)
         /\ Counts(low, r) =>
              Magnitude(Exact(r, low) - At(Signed(a), a.offset, low) - At(Signed(b), b.offset, low))
                < Ten[Larger(high, r.offset) - low]
<1>. DEFINE p == a.offset
            q == b.offset
            x == At(Signed(a), p, low)
            y == At(Signed(b), q, low)
            s == MovedTo(a, high) + MovedTo(b, high)
            e == At(s, high, low)
            v == Magnitude(s)
            n == s < 0
            c == Amt(FALSE, v, high, n)
            unit == Ten[high - low]
<1>1. p \in Int /\ q \in Int /\ Signed(a) \in Int /\ Signed(b) \in Int
      /\ Valid(a) /\ Valid(b) BY Members
<1>2. high \in Int /\ p =< high /\ q =< high /\ (high = p \/ high = q) BY <1>1 DEF Larger
<1>3. low =< p /\ low =< q /\ low =< high BY <1>1, <1>2
<1>4. r = Canonicalize(c)
  <2>1. a.native = b.native
    <3>1. a.native \in BOOLEAN /\ b.native \in BOOLEAN BY Members
    <3>. QED BY <3>1
  <2>2. IsComparable(a, b) BY <1>1, <2>1, Zenon DEF IsComparable
  <2>. QED BY <2>2, Zenon DEF Add
<1>5. /\ MovedTo(a, high) \in Int
      /\ x - At(MovedTo(a, high), high, low) < unit
      /\ At(MovedTo(a, high), high, low) - x < unit
      /\ p = high => MovedTo(a, high) = Signed(a)
  BY <1>2, <1>3, Moved
<1>6. /\ MovedTo(b, high) \in Int
      /\ y - At(MovedTo(b, high), high, low) < unit
      /\ At(MovedTo(b, high), high, low) - y < unit
      /\ q = high => MovedTo(b, high) = Signed(b)
  BY <1>2, <1>3, Moved
<1>7. x \in Int /\ y \in Int /\ unit \in Nat /\ unit > 0
  <2>. HIDE DEF p, q
  <2>1. At(Signed(a), p, low) \in Int /\ At(Signed(b), q, low) \in Int BY <1>1, <1>3, AtInt
  <2>2. unit \in Nat /\ unit > 0 BY <1>2, <1>3, UnitType
  <2>. QED BY <2>1, <2>2
<1>8. s \in Int /\ e \in Int /\ x + y - e < unit /\ e - (x + y) < unit
  <2>. DEFINE m == MovedTo(a, high)
              l == MovedTo(b, high)
  <2>1. m \in Int /\ l \in Int BY <1>5, <1>6
  <2>2. x = At(Signed(a), p, low) /\ y = At(Signed(b), q, low) OBVIOUS
  <2>. HIDE DEF m, l, p, q, x, y, unit
  <2>3. At(m + l, high, low) = At(m, high, low) + At(l, high, low)
    BY <1>2, <1>3, <2>1, AtSum
  <2>4. At(m, high, low) \in Int /\ At(l, high, low) \in Int BY <1>2, <1>3, <2>1, AtInt
  <2>5. (x = At(m, high, low) \/ y = At(l, high, low))
    <3>1. p = high => x = At(m, high, low) BY <1>5, <2>2 DEF m
    <3>2. q = high => y = At(l, high, low) BY <1>6, <2>2 DEF l
    <3>. QED BY <1>2, <3>1, <3>2
  <2>6. x - At(m, high, low) < unit /\ At(m, high, low) - x < unit BY <1>5 DEF m
  <2>7. y - At(l, high, low) < unit /\ At(l, high, low) - y < unit BY <1>6 DEF l
  <2>8. s = m + l BY DEF m, l
  <2>. HIDE DEF s
  <2>9. e = At(m, high, low) + At(l, high, low) BY <2>3, <2>8
  <2>. HIDE DEF e
  <2>. QED BY <1>7, <2>1, <2>4, <2>5, <2>6, <2>7, <2>8, <2>9
<1>9. v \in Nat /\ (v = 0 <=> s = 0) /\ n \in BOOLEAN
      /\ (n => s = -v) /\ (~n => s = v)
  <2>. HIDE DEF s
  <2>. QED BY <1>8, Absolute
<1>. HIDE DEF s, v, n
<1>10. IsTokens(c, v, high, n) BY <1>2, <1>9, Made
<1>. SUFFICES /\ Canonical(r)
              /\ Counts(low, r) =>
                   Magnitude(Exact(r, low) - x - y) < Ten[Larger(high, r.offset) - low]
  OBVIOUS
<1>. HIDE DEF c, x, y, unit
<1>11. CASE v = 0
  <2>1. IsTokens(c, 0, high, n) BY <1>10, <1>11
  <2>2. IsTokens(r, 0, -100, FALSE) BY <1>2, <1>4, <1>9, <2>1, CanonicalZero
  <2>3. Canonical(r) /\ IsZero(r) /\ r.offset = -100 BY <2>2, ZeroCanonical DEF IsTokens
  <2>4. Exact(r, low) = 0 BY <2>3 DEF Exact
  <2>5. e = 0 BY <1>2, <1>3, <1>9, <1>11, AtLinear
  <2>. HIDE DEF e
  <2>6. Larger(high, r.offset) \in Int /\ high =< Larger(high, r.offset) BY <1>2, <2>3 DEF Larger
  <2>7. unit =< Ten[Larger(high, r.offset) - low] /\ Ten[Larger(high, r.offset) - low] \in Nat
    <3>. DEFINE z == Larger(high, r.offset)
    <3>1. z \in Int /\ high =< z BY <2>6
    <3>. HIDE DEF z
    <3>2. high - low \in Nat /\ z - low \in Nat /\ high - low =< z - low BY <1>2, <1>3, <3>1
    <3>3. Ten[high - low] =< Ten[z - low] /\ Ten[z - low] \in Nat BY <3>2, TenOrder, TenType
    <3>. QED BY <3>3 DEF z, unit
  <2>8. Magnitude(0 - x - y) < unit BY <1>7, <1>8, <2>5 DEF Magnitude
  <2>. QED BY <1>7, <2>3, <2>4, <2>7, <2>8 DEF Magnitude
<1>12. CASE v # 0
  <2>. DEFINE k == Length[v] - Digits
              w == Scaled(v, -k)
              o == high + k
  <2>1. v > 0 BY <1>9, <1>12
  <2>2. k \in Int /\ w \in ManMin..ManMax /\ IsTokens(r, w, o, n)
    BY <1>2, <1>4, <1>9, <1>10, <2>1, CanonicalTokens
  <2>3. o \in Int /\ w \in Nat BY <1>2, <2>2, Mantissas
  <2>. HIDE DEF w, k
  <2>4. Canonical(r) /\ ~IsZero(r) BY <1>9, <2>2, <2>3, TokensCanonical
  <2>5. r.value = w /\ r.offset = o /\ r.neg = n BY <2>2 DEF IsTokens
  <2>6. ASSUME Counts(low, r) PROVE Magnitude(Exact(r, low) - x - y) < Ten[Larger(high, o) - low]
    <3>1. low =< o BY <2>4, <2>5, <2>6 DEF Counts
    <3>2. Exact(r, low) = IF n THEN -At(w, o, low) ELSE At(w, o, low)
      BY <2>4, <2>5, <2>6, ExactIs
    <3>3. /\ At(w, o, low) =< At(v, high, low)
          /\ k =< 0 => At(w, o, low) = At(v, high, low)
          /\ k > 0 => At(v + 1, high, low) =< At(w + 1, o, low)
      BY ZenonT(30), <1>2, <1>3, <1>9, <2>2, <3>1, Cut DEF w
    <3>4. At(v + 1, high, low) = At(v, high, low) + unit 
      <4>1. v \in Int BY <1>9
      <4>2. At(v + 1, high, low) = At(v, high, low) + Ten[high - low] BY <1>2, <1>3, <4>1, AtNext
      <4>. QED BY <4>2 DEF unit
    <3>5. At(w + 1, o, low) = At(w, o, low) + Ten[o - low] BY SMTT(30), <2>3, <3>1, AtNext
    <3>6. At(v, high, low) \in Int /\ At(w, o, low) \in Int
      <4>1. v \in Int /\ w \in Int BY <1>9, <2>3
      <4>2. At(v, high, low) \in Int BY <1>2, <1>3, <4>1, AtInt
      <4>3. At(w, o, low) \in Int BY <2>3, <3>1, <4>1, AtInt
      <4>. QED BY <4>2, <4>3
    <3>7. e = IF n THEN -At(v, high, low) ELSE At(v, high, low)
      <4>1. At(-v, high, low) = -At(v, high, low) BY <1>2, <1>3, <1>9, AtNegative
      <4>. QED BY <1>9, <4>1
    <3>8. Ten[o - low] \in Nat BY <2>3, <3>1, UnitType
    <3>. HIDE DEF e
    <3>9. k =< 0 => Larger(high, o) = high BY <1>2, <2>2 DEF Larger
    <3>10. k > 0 => Larger(high, o) = o BY <1>2, <2>2 DEF Larger
    <3>. HIDE DEF o
    <3>11. CASE k =< 0
      <4>1. Exact(r, low) = e BY <3>2, <3>3, <3>7, <3>11
      <4>. QED BY <1>7, <1>8, <3>9, <3>11, <4>1 DEF Magnitude, unit
    <3>12. CASE k > 0
      <4>1. Magnitude(Exact(r, low) - x - y) < Ten[o - low]
        BY <1>7, <1>8, <1>9, <3>2, <3>3, <3>4, <3>5, <3>6, <3>7, <3>8, <3>12 DEF Magnitude
      <4>. QED BY <3>10, <3>12, <4>1
    <3>. QED BY <2>2, <3>11, <3>12
  <2>. QED BY <2>4, <2>5, <2>6
<1>. QED BY <1>11, <1>12

LEMMA Comparable ==
  ASSUME NEW a \in Amounts, NEW b \in Amounts, a.native = b.native
  PROVE  IsComparable(a, b) /\ IsComparable(b, a)
<1>1. Valid(a) /\ Valid(b) BY Members
<1>. QED BY <1>1, Zenon DEF IsComparable

LEMMA AddZero ==
  ASSUME NEW a, NEW b, Canonical(a), Canonical(b), a.native = b.native, IsZero(b)
  PROVE  Add(a, b) = a /\ Add(b, a) = a
<1>1. a \in Amounts /\ b \in Amounts BY Members2
<1>2. IsComparable(a, b) /\ IsComparable(b, a) BY <1>1, Comparable
<1>3. Add(a, b) = a BY <1>2, Zenon DEF Add
<1>4. CASE IsZero(a)
  <2>1. Add(b, a) = b BY <1>2, <1>4, Zenon DEF Add
  <2>2. a.value = 0 /\ b.value = 0 /\ a.neg \in BOOLEAN /\ b.neg \in BOOLEAN
        /\ a.native \in BOOLEAN /\ ~a.neg /\ ~b.neg
    BY <1>1, <1>4, Members, Members2
  <2>3. a.offset = b.offset BY <1>4, <2>2, Members2
  <2>4. a.neg = b.neg BY <2>2
  <2>5. a = b
    <3>1. a.value = b.value BY <2>2
    <3>. QED BY <1>1, <2>3, <2>4, <3>1, SameFields
  <2>. QED BY <1>3, <2>1, <2>5
<1>5. CASE ~IsZero(a)
  <2>1. Add(b, a) = [Clone(a, FALSE) EXCEPT !.native = b.native] BY <1>2, <1>5, Zenon DEF Add
  <2>2. Add(b, a) = [a EXCEPT !.native = a.native] BY <2>1, CloneSame, Zenon
  <2>3. [a EXCEPT !.native = a.native] = a BY <1>1 DEF Amounts
  <2>. QED BY <1>3, <2>2, <2>3
<1>. QED BY <1>4, <1>5

LEMMA AddNative ==
  ASSUME NEW a \in Amounts, NEW b \in Amounts, a.native, b.native, ~IsZero(a), ~IsZero(b),
         NEW s, s = Signed(a) + Signed(b)
  PROVE  s \in Int /\ IsNative(Add(a, b), Magnitude(s), 0, s < 0)
<1>1. s \in Int BY Members
<1>2. Magnitude(s) \in Nat /\ (s < 0) \in BOOLEAN BY <1>1, Absolute
<1>3. a.native = b.native
  <2>1. a.native \in BOOLEAN /\ b.native \in BOOLEAN BY Members
  <2>. QED BY <2>1
<1>4. IsComparable(a, b) BY <1>3, Comparable
<1>5. Add(a, b) = Amt(TRUE, Magnitude(s), 0, s < 0) BY <1>4, Zenon DEF Add
<1>6. \A v \in Nat, n \in BOOLEAN : IsNative(Amt(TRUE, v, 0, n), v, 0, n)
  <2>1. 0 \in Int OBVIOUS
  <2>. QED BY <2>1, Made, Zenon
<1>. QED BY <1>1, <1>2, <1>5, <1>6, Zenon

LEMMA AddCommutes ==
  ASSUME NEW a, NEW b, Canonical(a), Canonical(b), a.native = b.native
  PROVE  Add(a, b) = Add(b, a)
<1>1. a \in Amounts /\ b \in Amounts BY Members2
<1>2. IsComparable(a, b) /\ IsComparable(b, a) BY <1>1, Comparable
<1>3. CASE IsZero(b) BY <1>3, AddZero
<1>4. CASE IsZero(a)
  <2>1. b.native = a.native OBVIOUS
  <2>. QED BY <1>4, <2>1, AddZero
<1>5. CASE ~IsZero(a) /\ ~IsZero(b)
  <2>1. CASE a.native
    <3>. DEFINE s == Signed(a) + Signed(b)
                t == Signed(b) + Signed(a)
    <3>1. s = t BY <1>1, Members
    <3>2. Add(a, b) = Amt(TRUE, Magnitude(s), 0, s < 0) BY <1>2, <1>5, <2>1, Zenon DEF Add
    <3>3. Add(b, a) = Amt(TRUE, Magnitude(t), 0, t < 0) BY <1>2, <1>5, <2>1, Zenon DEF Add
    <3>. HIDE DEF s, t
    <3>. QED BY <3>1, <3>2, <3>3, Zenon
  <2>2. CASE ~a.native
    <3>. DEFINE o == Larger(a.offset, b.offset)
                p == Larger(b.offset, a.offset)
                s(z) == MovedTo(a, z) + MovedTo(b, z)
                t(z) == MovedTo(b, z) + MovedTo(a, z)
    <3>1. o = p BY <1>1, Members DEF Larger
    <3>2. o \in Int /\ a.offset =< o /\ b.offset =< o BY <1>1, Members DEF Larger
    <3>3. Add(a, b) = Canonicalize(Amt(FALSE, Magnitude(s(o)), o, s(o) < 0))
      BY <1>2, <1>5, <2>2, Zenon DEF Add
    <3>4. Add(b, a) = Canonicalize(Amt(FALSE, Magnitude(t(p)), p, t(p) < 0))
      BY <1>2, <1>5, <2>2, Zenon DEF Add
    <3>. HIDE DEF o, p
    <3>5. MovedTo(a, o) \in Int /\ MovedTo(b, o) \in Int
      BY <1>1, <3>2, MovedInt
    <3>6. s(o) = t(o) BY <3>5
    <3>. HIDE DEF s, t
    <3>7. s(o) = t(p) BY <3>1, <3>6, Zenon
    <3>. QED BY <3>1, <3>3, <3>4, <3>7, Zenon
  <2>. QED BY <2>1, <2>2
<1>. QED BY <1>3, <1>4, <1>5

LEMMA Negated ==
  ASSUME NEW a, Canonical(a), NEW c, c = Negate(a)
  PROVE  /\ Canonical(c) /\ c.native = a.native /\ c.offset = a.offset
         /\ (IsZero(c) <=> IsZero(a)) /\ Signed(c) = -Signed(a)
<1>. DEFINE n == ~IsZero(a) /\ ~a.neg
            v == a.value
<1>1. a \in Amounts /\ (IsZero(a) => ~a.neg) /\ a.neg \in BOOLEAN BY Members, Members2
<1>2. c = [a EXCEPT !.neg = ~IsZero(a) /\ (a.neg # TRUE)] BY DEF Clone, Negate
<1>3. (~IsZero(a) /\ (a.neg # TRUE)) = n BY <1>1
<1>4. n \in BOOLEAN OBVIOUS
<1>. HIDE DEF n
<1>5. c = [a EXCEPT !.neg = n] BY <1>2, <1>3
<1>6. c \in Amounts /\ c.native = a.native /\ c.value = a.value /\ c.offset = a.offset /\ c.neg = n
  BY <1>1, <1>4, <1>5 DEF Amounts
<1>7. v \in Nat /\ (IsZero(a) <=> v = 0) /\ (IsZero(c) <=> v = 0) BY <1>1, <1>6, Members
<1>8. Canonical(c)
  <2>1. IsZero(c) => ~c.neg BY <1>6, <1>7 DEF n
  <2>2. /\ a.native => a.offset = 0
        /\ ~a.native /\ IsZero(a) => a.offset = -100
        /\ ~a.native /\ ~IsZero(a) => a.value \in ManMin..ManMax
    BY Members2
  <2>3. IsZero(c) <=> IsZero(a) BY <1>7
  <2>. QED BY <1>6, <2>1, <2>2, <2>3, Zenon DEF Canonical
<1>9. Signed(a) = (IF a.neg THEN -v ELSE v) /\ Signed(c) = (IF n THEN -v ELSE v)
  <2>1. Signed(c) = IF c.neg THEN -c.value ELSE c.value BY DEF Signed
  <2>. QED BY <1>6, <2>1, Zenon DEF Signed
<1>10. n <=> (v # 0 /\ ~a.neg) BY <1>7 DEF n
<1>. HIDE DEF v
<1>11. Signed(c) = -Signed(a)
  <2>1. CASE a.neg BY <1>7, <1>9, <1>10, <2>1
  <2>2. CASE ~a.neg BY <1>7, <1>9, <1>10, <2>2
  <2>. QED BY <2>1, <2>2
<1>. QED BY <1>6, <1>7, <1>8, <1>11

LEMMA SubtractSelf == ASSUME NEW a, Canonical(a) PROVE IsZero(Subtract(a, a))
<1>. DEFINE c == Negate(a)
            o == Larger(a.offset, c.offset)
            s == MovedTo(a, o) + MovedTo(c, o)
            r == Add(a, c)
<1>1. /\ Canonical(c) /\ c.native = a.native /\ c.offset = a.offset
      /\ (IsZero(c) <=> IsZero(a)) /\ Signed(c) = -Signed(a)
  BY Negated
<1>. HIDE DEF c
<1>2. a \in Amounts /\ c \in Amounts BY <1>1, Members2
<1>3. a.native \in BOOLEAN /\ a.offset \in Int /\ Signed(a) \in Int BY <1>2, Members
<1>4. CASE IsZero(a) BY <1>1, <1>4, AddZero DEF Subtract, c
<1>5. CASE ~IsZero(a) /\ a.native
  <2>. DEFINE t == Signed(a) + Signed(c)
  <2>1. t = 0 BY <1>1, <1>3
  <2>2. c.native BY <1>1, <1>5
  <2>. HIDE DEF t
  <2>3. IsNative(r, Magnitude(t), 0, t < 0) BY <1>1, <1>2, <1>5, <2>2, AddNative DEF t
  <2>4. Magnitude(t) = 0 BY <2>1, Absolute
  <2>5. r.value = 0 BY <2>3, <2>4 DEF IsNative
  <2>. QED BY <2>5 DEF Subtract, IsZero, c
<1>6. CASE ~IsZero(a) /\ ~a.native
  <2>1. ~c.native BY <1>1, <1>6, Zenon
  <2>2. o = a.offset BY <1>1, <1>3 DEF Larger
  <2>. HIDE DEF o
  <2>3. MovedTo(a, o) = Signed(a) /\ MovedTo(c, o) = Signed(c)
    <3>1. a.offset =< a.offset /\ c.offset =< c.offset /\ c.offset = a.offset /\ c.offset \in Int
      BY <1>1, <1>3
    <3>2. MovedTo(a, a.offset) = Signed(a) BY <1>2, <1>3, <3>1, Moved
    <3>3. MovedTo(c, c.offset) = Signed(c) BY <1>2, <3>1, Moved
    <3>. QED BY <1>1, <2>2, <3>2, <3>3
  <2>4. s = 0 BY <1>1, <1>3, <2>3
  <2>5. r = Canonicalize(Amt(FALSE, Magnitude(s), o, s < 0))
    <3>1. IsComparable(a, c) BY <1>1, <1>2, Comparable
    <3>. QED BY <1>1, <1>6, <3>1, Zenon DEF Add, o
  <2>. HIDE DEF s
  <2>6. Magnitude(s) = 0 /\ (s < 0) \in BOOLEAN BY <2>4, Absolute
  <2>7. IsTokens(Amt(FALSE, 0, o, s < 0), 0, o, s < 0)
    <3>1. 0 \in Nat /\ o \in Int BY <1>3, <2>2
    <3>. QED BY <2>6, <3>1, Made, Zenon
  <2>8. IsTokens(Canonicalize(Amt(FALSE, 0, o, s < 0)), 0, -100, FALSE)
    <3>1. o \in Int BY <1>3, <2>2
    <3>. QED BY <2>6, <2>7, <3>1, CanonicalZero, Zenon
  <2>9. IsTokens(r, 0, -100, FALSE) BY <2>5, <2>6, <2>8, Zenon
  <2>. QED BY <2>9, ZeroCanonical DEF Subtract, c
<1>. QED BY <1>3, <1>4, <1>5, <1>6

LEMMA ExactType ==
  ASSUME NEW a, Canonical(a), NEW low, Counts(low, a)
  PROVE  Exact(a, low) \in Int
<1>1. a.neg \in BOOLEAN BY Members, Members2
<1>2. IsZero(a) => Exact(a, low) = 0 BY ExactIs
<1>. DEFINE x == At(a.value, a.offset, low)
<1>3. ~IsZero(a) => x \in Int /\ Exact(a, low) = IF a.neg THEN -x ELSE x BY ExactIs
<1>. HIDE DEF x
<1>. QED BY <1>1, <1>2, <1>3

LEMMA NativeSum ==
  ASSUME NEW a, NEW b, Canonical(a), Canonical(b), a.native, b.native, ~IsZero(a), ~IsZero(b),
         NEW low, Counts(low, a), Counts(low, b), NEW r, r = Add(a, b)
  PROVE  /\ Canonical(r)
         /\ Counts(low, r) => Exact(r, low) - Exact(a, low) - Exact(b, low) = 0
<1>. DEFINE m == Signed(a)
            n == Signed(b)
            s == m + n
            v == Magnitude(s)
            g == s < 0
<1>1. a \in Amounts /\ b \in Amounts /\ a.offset = 0 /\ b.offset = 0 BY Members2
<1>2. m \in Int /\ n \in Int BY <1>1, Members
<1>3. s \in Int /\ IsNative(r, v, 0, g) BY <1>1, AddNative
<1>4. low \in Int /\ low =< 0 BY <1>1 DEF Counts
<1>5. Exact(a, low) = At(m, 0, low) /\ Exact(b, low) = At(n, 0, low) BY <1>1, ExactIs
<1>. HIDE DEF m, n
<1>6. At(s, 0, low) = At(m, 0, low) + At(n, 0, low) /\ At(m, 0, low) \in Int /\ At(n, 0, low) \in Int
      /\ At(0, 0, low) = 0
  <2>1. 0 \in Int OBVIOUS
  <2>2. At(m, 0, low) \in Int /\ At(n, 0, low) \in Int BY <1>2, <1>4, <2>1, AtInt
  <2>3. At(0, 0, low) = 0 BY <1>4, <2>1, AtLinear
  <2>4. At(m + n, 0, low) = At(m, 0, low) + At(n, 0, low) BY <1>2, <1>4, <2>1, AtSum
  <2>. QED BY <2>2, <2>3, <2>4
<1>. HIDE DEF s
<1>7. v \in Nat /\ g \in BOOLEAN /\ (v = 0 <=> s = 0) /\ (g => s = -v) /\ (~g => s = v)
  BY <1>3, Absolute
<1>. HIDE DEF v, g
<1>8. v = 0 => ~g
  <2>. SUFFICES ASSUME v = 0, g PROVE FALSE OBVIOUS
  <2>1. s = 0 /\ s < 0 BY <1>7 DEF g
  <2>. QED BY <2>1
<1>9. Canonical(r) /\ (IsZero(r) <=> v = 0) BY <1>3, <1>7, <1>8, NativeCanonical
<1>10. ASSUME Counts(low, r) PROVE Exact(r, low) = At(s, 0, low)
  <2>1. CASE v = 0
    <3>1. Exact(r, low) = 0 BY <1>9, <2>1 DEF Exact
    <3>. QED BY <1>6, <1>7, <2>1, <3>1
  <2>2. CASE v # 0
    <3>1. r.value = v /\ r.offset = 0 /\ r.neg = g BY <1>3 DEF IsNative
    <3>2. Exact(r, low) = At(Signed(r), r.offset, low) BY <1>9, <1>10, <2>2, ExactIs
    <3>3. Signed(r) = IF g THEN -v ELSE v BY <3>1, Zenon DEF Signed
    <3>4. Signed(r) = s BY <1>7, <3>3
    <3>. QED BY <3>1, <3>2, <3>4
  <2>. QED BY <2>1, <2>2
<1>. QED BY <1>5, <1>6, <1>9, <1>10

LEMMA SumValue ==
  ASSUME NEW a, NEW b, Canonical(a), Canonical(b), a.native = b.native,
         NEW low, Counts(low, a), Counts(low, b), NEW r, r = Add(a, b),
         NEW high, high = Larger(a.offset, b.offset)
  PROVE  /\ Canonical(r)
         /\ Counts(low, r) =>
              IF IsZero(a) \/ IsZero(b) \/ a.native
              THEN Exact(r, low) - Exact(a, low) - Exact(b, low) = 0
              ELSE Magnitude(Exact(r, low) - Exact(a, low) - Exact(b, low))
                     < Ten[Larger(high, r.offset) - low]
<1>1. a \in Amounts /\ b \in Amounts BY Members2
<1>2. a.native \in BOOLEAN /\ b.native \in BOOLEAN BY <1>1, Members
<1>3. Exact(a, low) \in Int /\ Exact(b, low) \in Int BY ExactType
<1>4. CASE IsZero(b)
  <2>1. r = a BY <1>4, AddZero
  <2>2. Exact(b, low) = 0 BY <1>4 DEF Exact
  <2>. QED BY <1>3, <1>4, <2>1, <2>2
<1>5. CASE IsZero(a)
  <2>1. r = b
    <3>1. b.native = a.native OBVIOUS
    <3>. QED BY <1>5, <3>1, AddZero
  <2>2. Exact(a, low) = 0 BY <1>5 DEF Exact
  <2>. QED BY <1>3, <1>5, <2>1, <2>2
<1>6. CASE ~IsZero(a) /\ ~IsZero(b) /\ a.native
  <2>1. b.native BY <1>2, <1>6
  <2>2. /\ Canonical(r)
        /\ Counts(low, r) => Exact(r, low) - Exact(a, low) - Exact(b, low) = 0
    BY <1>6, <2>1, NativeSum
  <2>. QED BY <1>6, <2>2, Zenon
<1>7. CASE ~IsZero(a) /\ ~IsZero(b) /\ ~a.native
  <2>1. ~b.native BY <1>2, <1>7
  <2>2. low \in Int /\ low =< a.offset /\ low =< b.offset BY <1>7 DEF Counts
  <2>3. /\ Canonical(r)
        /\ Counts(low, r) =>
             Magnitude(Exact(r, low) - At(Signed(a), a.offset, low) - At(Signed(b), b.offset, low))
               < Ten[Larger(high, r.offset) - low]
    BY <1>1, <1>7, <2>1, <2>2, TokenSum
  <2>4. Exact(a, low) = At(Signed(a), a.offset, low) /\ Exact(b, low) = At(Signed(b), b.offset, low)
    BY <1>7, ExactIs
  <2>. QED BY <1>7, <2>3, <2>4, Zenon
<1>. QED BY <1>4, <1>5, <1>6, <1>7

\* add, subtract and compareTo, of canonical amounts: a sum is canonical, does not
\* depend on the order, is exact if native, and else wrong by less than its last
\* digit or that of the coarser operand; what compareTo says is the sign of the
\* difference; and an amount less itself is zero.
THEOREM SumsKeepTheLaw ==
  ASSUME NEW a, NEW b, Canonical(a), Canonical(b), a.native = b.native
  PROVE  SumLaw(a, b)
<1>. DEFINE r == Add(a, b)
            high == Larger(a.offset, b.offset)
            low == Lowest({a, b, r})
            d == Exact(r, low) - Exact(a, low) - Exact(b, low)
            exact == IsZero(a) \/ IsZero(b) \/ a.native
<1>1. a \in Amounts /\ b \in Amounts BY Members2
<1>2. Canonical(r)
  <2>. DEFINE l == Lowest({a, b, b})
  <2>1. Counts(l, a) /\ Counts(l, b) BY <1>1, LowestCounts
  <2>. HIDE DEF l
  <2>. QED BY <2>1, SumValue
<1>3. r \in Amounts BY <1>2, Members2
<1>4. r = Add(b, a) BY AddCommutes
<1>5. Counts(low, a) /\ Counts(low, b) /\ Counts(low, r) BY <1>1, <1>3, LowestCounts
<1>6. IF exact THEN d = 0 ELSE Magnitude(d) < Ten[Larger(high, r.offset) - low] BY <1>5, SumValue
<1>7. CompareTo(a, b) = Signum(Exact(a, low) - Exact(b, low)) BY <1>5, Comparison
<1>8. IsZero(Subtract(a, a)) BY SubtractSelf
<1>9. SumLaw(a, b) <=> /\ Canonical(r) /\ r = Add(b, a)
                       /\ IF exact THEN Magnitude(d) = 0
                          ELSE Magnitude(d) < Ten[Larger(high, r.offset) - low]
                       /\ CompareTo(a, b) = Signum(Exact(a, low) - Exact(b, low))
                       /\ IsZero(Subtract(a, a))
  BY Zenon DEF SumLaw
<1>10. d = 0 => Magnitude(d) = 0 BY DEF Magnitude
<1>. HIDE DEF d, exact
<1>11. IF exact THEN Magnitude(d) = 0 ELSE Magnitude(d) < Ten[Larger(high, r.offset) - low]
  <2>1. CASE exact BY <1>6, <1>10, <2>1
  <2>2. CASE ~exact BY <1>6, <2>2
  <2>. QED BY <2>1, <2>2
<1>. QED BY <1>2, <1>4, <1>7, <1>8, <1>9, <1>11, Zenon

-----------------------------------------------------------------------------
(* Products.                                                                 *)

\* A factor is brought up to a full mantissa without changing its value.
LEMMA Wide ==
  ASSUME NEW a, Canonical(a), ~IsZero(a), NEW m, m = Widened(a)
  PROVE  /\ m.value \in Nat /\ ManMin =< m.value /\ m.offset \in Int /\ m.offset =< a.offset
         /\ m.value = a.value * Ten[a.offset - m.offset]
         /\ Length[a.value] =< Digits => m.value < Ten[Digits]
         /\ Length[a.value] > Digits => m.offset = a.offset
<1>. DEFINE v == a.value
            o == a.offset
            l == Length[v]
            k == Larger(0, Digits - l)
            w == Scaled(v, k)
<1>1. a \in Amounts /\ a.native \in BOOLEAN /\ v \in Nat /\ v > 0 /\ o \in Int
  BY Members, Members2
<1>2. l \in Nat /\ l - 1 \in Nat /\ Ten[l - 1] =< v /\ v < Ten[l] BY <1>1, LengthOf
<1>3. Digits \in Nat /\ Digits - 1 \in Nat BY AmountAssumption
<1>4. CASE ~a.native
  <2>1. m = a BY <1>4, Zenon DEF Widened
  <2>2. v \in ManMin..ManMax BY <1>4, Members2
  <2>3. ManMin =< v /\ v < Ten[Digits] /\ l = Digits BY <2>2, Mantissas
  <2>4. o - o = 0 /\ v * Ten[0] = v BY <1>1, TenIs
  <2>5. v = v * Ten[o - o] BY <2>4
  <2>6. m.value = v /\ m.offset = o BY <2>1
  <2>7. o =< o BY <1>1
  <2>. QED BY <1>1, <2>3, <2>5, <2>6, <2>7
<1>5. CASE a.native
  <2>1. m = Amt(TRUE, w, o - k, a.neg) BY <1>5, Zenon DEF Widened
  <2>2. m.value = w /\ m.offset = o - k BY <2>1 DEF Amt
  <2>. SUFFICES /\ w \in Nat /\ ManMin =< w /\ o - k \in Int /\ o - k =< o
                /\ w = v * Ten[o - (o - k)]
                /\ l =< Digits => w < Ten[Digits]
                /\ l > Digits => o - k = o
    BY <2>2
  <2>. HIDE DEF v, o, l
  <2>3. /\ k \in Nat
        /\ l =< Digits => k = Digits - l
        /\ l > Digits => k = 0
    BY <1>2, <1>3 DEF Larger
  <2>4. o - (o - k) = k /\ o - k \in Int /\ o - k =< o BY <1>1, <2>3
  <2>. HIDE DEF k
  <2>5. w = v * Ten[k] /\ w \in Nat BY <1>1, <2>3, ScaledUp
  <2>. HIDE DEF w
  <2>6. l =< Digits => ManMin =< w /\ w < Ten[Digits]
    <3>. SUFFICES ASSUME l =< Digits PROVE ManMin =< w /\ w < Ten[Digits] OBVIOUS
    <3>1. (l - 1) + k = Digits - 1 /\ l + k = Digits BY <1>2, <1>3, <2>3
    <3>2. ManMin = Ten[l - 1] * Ten[k] /\ Ten[Digits] = Ten[l] * Ten[k]
      BY <1>2, <2>3, <3>1, TenSum DEF ManMin
    <3>3. Ten[k] \in Nat /\ Ten[k] > 0 /\ Ten[l - 1] \in Nat /\ Ten[l] \in Nat
      BY <1>2, <2>3, TenType
    <3>. QED BY <1>1, <1>2, <2>5, <3>2, <3>3, LessTimes
  <2>7. l > Digits => ManMin =< w
    <3>. SUFFICES ASSUME l > Digits PROVE ManMin =< w OBVIOUS
    <3>1. Digits - 1 =< l - 1 /\ k = 0 BY <1>2, <1>3, <2>3
    <3>2. Ten[Digits - 1] =< Ten[l - 1] /\ Ten[Digits - 1] \in Nat /\ Ten[l - 1] \in Nat
      BY <1>2, <1>3, <3>1, TenOrder, TenType
    <3>3. w = v BY <1>1, <2>5, <3>1, TenIs
    <3>. QED BY <1>1, <1>2, <3>2, <3>3 DEF ManMin
  <2>8. l > Digits => o - k = o BY <1>1, <2>3
  <2>. QED BY <1>2, <1>3, <2>4, <2>5, <2>6, <2>7, <2>8
<1>. QED BY <1>1, <1>4, <1>5

\* What is left of a quotient X / n with its guard g added, after k digits of
\* it are cut off or filled in, in units of 10^low.
IsRounded(X, n, g, v, o, k, low) ==
  /\ X \in Nat /\ n \in Nat /\ n > 0 /\ g \in Nat /\ v \in Nat /\ v = X \div n + g
  /\ o \in Int /\ k \in Int /\ low \in Int /\ low =< o /\ low =< o + k

LEMMA Rounded ==
  ASSUME NEW X, NEW n, NEW g, NEW v, NEW o, NEW k, NEW low, IsRounded(X, n, g, v, o, k, low)
  PROVE  LET W == At(Scaled(v, -k), o + k, low)
             t == Ten[o - low]
             u == Ten[(o + k) - low]
         IN /\ W \in Nat /\ t \in Nat /\ t > 0 /\ u \in Nat /\ u > 0
            /\ n * W - X * t =< n * (g * t)
            /\ k =< 0 => n * (g * t - t) < n * W - X * t
            /\ k > 0 => n * (g * t - u) < n * W - X * t
<1>. DEFINE w == Scaled(v, -k)
            W == At(w, o + k, low)
            V == At(v, o, low)
            t == Ten[o - low]
            u == Ten[(o + k) - low]
            q == X \div n
<1>. USE DEF IsRounded
<1>1. t \in Nat /\ t > 0 /\ u \in Nat /\ u > 0
  <2>. DEFINE p == o + k
  <2>1. p \in Int /\ low =< p OBVIOUS
  <2>. HIDE DEF p
  <2>2. Ten[p - low] \in Nat /\ Ten[p - low] > 0 BY <2>1, UnitType
  <2>3. t \in Nat /\ t > 0 BY UnitType
  <2>. QED BY <2>2, <2>3 DEF p
<1>2. q \in Nat /\ n * q =< X /\ X < n * q + n BY Quotients
<1>3. w \in Nat
  <2>1. CASE k =< 0
    <3>1. -k \in Nat BY <2>1
    <3>. QED BY <3>1, ScaledUp
  <2>2. CASE k > 0
    <3>1. k \in Nat BY <2>2
    <3>. QED BY <3>1, ScaledDown
  <2>. QED BY <2>1, <2>2
<1>4. W =< V /\ (k =< 0 => W = V) /\ (k > 0 => At(v + 1, o, low) =< At(w + 1, o + k, low))
  BY ZenonT(30), Cut
<1>5. W = w * u /\ V = v * t BY DEF At
<1>6. At(v + 1, o, low) = V + t
  <2>1. v \in Int OBVIOUS
  <2>. QED BY <2>1, AtNext
<1>. HIDE DEF w
<1>7. At(w + 1, o + k, low) = W + u
  <2>. DEFINE p == o + k
  <2>1. w \in Int /\ p \in Int /\ low \in Int /\ low =< p BY <1>3
  <2>. HIDE DEF p
  <2>2. At(w + 1, p, low) = At(w, p, low) + Ten[p - low] BY SMTT(30), <2>1, AtNext
  <2>. QED BY <2>2 DEF p
<1>. HIDE DEF t, u, W, V, q
<1>8. W \in Nat /\ V \in Nat /\ V = q * t + g * t
  <2>1. w * u \in Nat /\ v * t \in Nat BY <1>1, <1>3
  <2>2. v = q + g BY DEF q
  <2>3. v * t = q * t + g * t BY <1>1, <1>2, <2>2
  <2>. QED BY <1>5, <2>1, <2>3
<1>9. (n * q) * t =< X * t /\ X * t < (n * q + n) * t BY <1>1, <1>2, MoreTimes, LessTimes
<1>10. (n * q) * t = n * (q * t) /\ (n * q + n) * t = n * (q * t) + n * t
  BY <1>1, <1>2
<1>. DEFINE y == q * t
            z == g * t
            x == X * t
<1>11. y \in Nat /\ z \in Nat /\ x \in Nat /\ n * y =< x /\ x < n * y + n * t /\ V = y + z
  BY <1>1, <1>2, <1>8, <1>9, <1>10
<1>. SUFFICES /\ n * W - x =< n * z
              /\ k =< 0 => n * (z - t) < n * W - x
              /\ k > 0 => n * (z - u) < n * W - x
  BY <1>1, <1>8 DEF W, t, u, w
<1>. HIDE DEF x, y, z
<1>12. n * W - x =< n * z
  <2>1. n * W =< n * (y + z) BY <1>4, <1>8, <1>11, MoreTimes
  <2>2. n * (y + z) = n * y + n * z BY <1>11
  <2>. QED BY <1>8, <1>11, <2>1, <2>2
<1>13. ASSUME k > 0 PROVE n * (z - u) < n * W - x
  <2>1. y + z + t =< W + u BY <1>4, <1>6, <1>7, <1>11, <1>13
  <2>2. n * (y + z + t) =< n * (W + u) BY <1>1, <1>8, <1>11, <2>1, MoreTimes
  <2>3. n * (y + z + t) = n * y + n * z + n * t /\ n * (W + u) = n * W + n * u
        /\ n * (z - u) = n * z - n * u
    BY <1>1, <1>8, <1>11
  <2>. QED BY <1>1, <1>8, <1>11, <2>2, <2>3
<1>14. ASSUME k =< 0 PROVE n * (z - t) < n * W - x
  <2>1. W = y + z BY <1>4, <1>11, <1>14
  <2>2. n * W = n * y + n * z /\ n * (z - t) = n * z - n * t BY <1>1, <1>11, <2>1
  <2>. QED BY <1>1, <1>8, <1>11, <2>2
<1>. QED BY <1>12, <1>13, <1>14

\* A number moved to another offset has as many digits as before and those added
\* or cut off.
LEMMA ScaledLength ==
  ASSUME NEW v \in Nat, v > 0, NEW o \in Int, NEW w \in Nat, w = Scaled(v, o)
  PROVE  0 < Length[v] + o => Length[v] + o =< Length[w]
<1>. SUFFICES ASSUME 0 < Length[v] + o PROVE Length[v] + o =< Length[w] OBVIOUS
<1>. DEFINE l == Length[v] - 1
            n == l + o
<1>1. l \in Nat /\ Ten[l] =< v BY LengthOf
<1>2. Length[v] = l + 1 BY LengthOf
<1>. HIDE DEF l
<1>3. n \in Nat /\ Length[v] + o = n + 1 BY <1>1, <1>2
<1>4. Ten[n] =< w /\ Ten[n] \in Nat /\ Ten[n] > 0
  <2>1. Ten[n] \in Nat /\ Ten[n] > 0 /\ Ten[l] \in Nat BY <1>1, <1>3, TenType
  <2>2. CASE o >= 0
    <3>1. o \in Nat BY <2>2
    <3>2. w = v * Ten[o] /\ Ten[o] \in Nat BY <3>1, ScaledUp, TenType
    <3>3. Ten[l + o] = Ten[l] * Ten[o] BY <1>1, <3>1, TenSum
    <3>4. Ten[l] * Ten[o] =< v * Ten[o] BY <1>1, <2>1, <3>2, MoreTimes
    <3>. QED BY <2>1, <3>2, <3>3, <3>4
  <2>3. CASE o < 0
    <3>. DEFINE k == -o
    <3>1. k \in Nat /\ n + k = l /\ o = -k BY <1>1, <2>3
    <3>. HIDE DEF k
    <3>2. w = Scaled(v, -k) BY <3>1
    <3>3. v < Ten[k] * w + Ten[k] /\ Ten[k] \in Nat /\ Ten[k] > 0 BY <3>1, <3>2, ScaledDown, TenType
    <3>. HIDE DEF n
    <3>4. Ten[l] = Ten[n] * Ten[k] BY <1>3, <3>1, TenSum
    <3>5. (w + 1) * Ten[k] = Ten[k] * w + Ten[k]
      <4>. DEFINE t == Ten[k]
      <4>. HIDE DEF t
      <4>1. t \in Nat BY <3>3 DEF t
      <4>2. (w + 1) * t = t * w + t BY <4>1
      <4>. QED BY <4>2 DEF t
    <3>6. Ten[n] * Ten[k] < (w + 1) * Ten[k] BY <1>1, <2>1, <3>3, <3>4, <3>5
    <3>7. Ten[n] < w + 1 BY <2>1, <3>3, <3>6, LessTimes
    <3>. QED BY <2>1, <3>7
  <2>. QED BY <2>2, <2>3
<1>5. w > 0 BY <1>4
<1>6. n < Length[w] BY <1>3, <1>4, <1>5, LengthOrder
<1>7. Length[w] \in Nat BY <1>5, LengthOf
<1>. QED BY <1>3, <1>6, <1>7

\* A computed amount: what canonicalize does to its digits, whether it is native
\* or not, and where its last digit is.
IsResult(r, k, native, v, o, n) ==
  /\ r \in Amounts /\ r.native = native /\ r.neg = n
  /\ r.value = Scaled(v, -k) /\ r.offset = o + k
  /\ ~native => k = Length[v] - Digits /\ r.value \in ManMin..ManMax
  /\ native => k = -o
  /\ Canonical(r) \/ (r.neg /\ IsZero(r))
  /\ Ulp(r) \in Int /\ o + k =< Ulp(r) /\ o + (Length[v] - Digits) =< Ulp(r)

LEMMA Result ==
  ASSUME NEW native \in BOOLEAN, NEW v \in Nat, v > 0, NEW o \in Int, NEW n \in BOOLEAN,
         NEW r, r = Canonicalize(Amt(native, v, o, n))
  PROVE  \E k \in Int : IsResult(r, k, native, v, o, n)
<1>. DEFINE c == Amt(native, v, o, n)
            l == Length[v]
<1>1. l \in Nat /\ Digits \in Nat BY LengthOf, AmountAssumption
<1>2. CASE ~native
  <2>. DEFINE k == l - Digits
              w == Scaled(v, -k)
  <2>1. native = FALSE BY <1>2
  <2>2. IsTokens(c, v, o, n) BY <2>1, Made
  <2>3. k \in Int /\ w \in ManMin..ManMax /\ IsTokens(r, w, o + k, n) BY <2>2, CanonicalTokens
  <2>. HIDE DEF w, c
  <2>4. o + k \in Int BY <2>3
  <2>5. Canonical(r) BY <2>3, <2>4, TokensCanonical
  <2>6. r \in Amounts /\ ~r.native /\ r.value = w /\ r.offset = o + k /\ r.neg = n
    BY <2>3 DEF IsTokens
  <2>7. Ulp(r) = o + k BY <2>6 DEF Ulp
  <2>8. r.native \in BOOLEAN BY <2>6, Members
  <2>9. r.native = native BY <1>2, <2>6, <2>8
  <2>10. o + k =< Ulp(r) /\ o + (l - Digits) =< Ulp(r) /\ Ulp(r) \in Int BY <2>4, <2>7
  <2>11. r.value = Scaled(v, -k) BY <2>6 DEF w
  <2>12. ~native => k = Length[v] - Digits OBVIOUS
  <2>. HIDE DEF l, k
  <2>13. IsResult(r, k, native, v, o, n)
    BY <1>2, <2>3, <2>5, <2>6, <2>9, <2>10, <2>11, <2>12 DEF IsResult, l
  <2>. QED BY <2>3, <2>13
<1>3. CASE native
  <2>. DEFINE k == -o
              w == Scaled(v, o)
  <2>1. native = TRUE BY <1>3
  <2>2. IsNative(c, v, o, n) BY <2>1, Made
  <2>3. w \in Nat /\ IsNative(r, w, 0, n) BY <2>2, CanonicalNative
  <2>4. k \in Int /\ -k = o /\ o + k = 0 OBVIOUS
  <2>. HIDE DEF c
  <2>5. r \in Amounts /\ r.native /\ r.value = w /\ r.offset = 0 /\ r.neg = n
    BY <2>3 DEF IsNative
  <2>6. Canonical(r) \/ (r.neg /\ IsZero(r))
    <3>1. IsZero(r) <=> w = 0 BY <2>5, Zenon DEF IsZero
    <3>. HIDE DEF w
    <3>2. CASE n /\ w = 0 BY <2>5, <3>1, <3>2
    <3>3. CASE ~(n /\ w = 0)
      <4>1. w = 0 => ~n BY <3>3
      <4>. QED BY <2>3, <4>1, NativeCanonical
    <3>. QED BY <3>2, <3>3
  <2>7. Ulp(r) = Larger(0, Length[w] - Digits) BY <2>5 DEF Ulp
  <2>8. Length[w] \in Nat
    <3>. HIDE DEF w
    <3>. QED BY <2>3, LengthIs
  <2>9. Ulp(r) \in Int /\ 0 =< Ulp(r) /\ Length[w] - Digits =< Ulp(r) BY <1>1, <2>7, <2>8 DEF Larger
  <2>10. 0 < l + o => l + o =< Length[w] BY <2>3, ScaledLength
  <2>. HIDE DEF l, w
  <2>11. o + (l - Digits) =< Ulp(r) BY <1>1, <2>8, <2>9, <2>10
  <2>12. r.value = Scaled(v, -k) BY <2>4, <2>5 DEF w
  <2>13. r.native = native
    <3>1. r.native \in BOOLEAN BY <2>5, Members
    <3>. QED BY <1>3, <2>5, <3>1
  <2>14. r.offset = o + k /\ o + k =< Ulp(r) BY <2>4, <2>5, <2>9
  <2>15. native => k = -o OBVIOUS
  <2>. HIDE DEF k
  <2>16. IsResult(r, k, native, v, o, n)
    BY <1>3, <2>5, <2>6, <2>9, <2>11, <2>12, <2>13, <2>14, <2>15 DEF IsResult, l
  <2>. QED BY <2>4, <2>16
<1>. QED BY <1>2, <1>3

\* The product of two amounts' numbers.
LEMMA SignedProduct ==
  ASSUME NEW a \in Amounts, NEW b \in Amounts, NEW s, s = Signed(a) * Signed(b),
         NEW e, e = a.value * b.value
  PROVE  /\ s \in Int /\ e \in Nat /\ Magnitude(s) = e
         /\ s = IF a.neg # b.neg THEN -e ELSE e
         /\ ~IsZero(a) /\ ~IsZero(b) => e > 0 /\ (s < 0 <=> a.neg # b.neg)
<1>. DEFINE v == a.value
            w == b.value
            p == IF a.neg THEN -v ELSE v
            q == IF b.neg THEN -w ELSE w
<1>1. v \in Nat /\ w \in Nat /\ a.neg \in BOOLEAN /\ b.neg \in BOOLEAN
      /\ (IsZero(a) <=> v = 0) /\ (IsZero(b) <=> w = 0) /\ s = p * q
  BY Members
<1>2. e = v * w OBVIOUS
<1>. HIDE DEF v, w
<1>3. e \in Nat BY <1>1, <1>2
<1>4. s = IF a.neg # b.neg THEN -e ELSE e
  <2>1. (-v) * (-w) = v * w /\ (-v) * w = -(v * w) /\ v * (-w) = -(v * w) BY <1>1
  <2>2. CASE a.neg
    <3>1. CASE b.neg BY <1>1, <1>2, <2>1, <2>2, <3>1
    <3>2. CASE ~b.neg BY <1>1, <1>2, <2>1, <2>2, <3>2
    <3>. QED BY <3>1, <3>2
  <2>3. CASE ~a.neg
    <3>1. CASE b.neg BY <1>1, <1>2, <2>1, <2>3, <3>1
    <3>2. CASE ~b.neg BY <1>1, <1>2, <2>1, <2>3, <3>2
    <3>. QED BY <3>1, <3>2
  <2>. QED BY <2>2, <2>3
<1>5. ~IsZero(a) /\ ~IsZero(b) => e > 0
  <2>. SUFFICES ASSUME v > 0, w > 0 PROVE e > 0 BY <1>1
  <2>1. 0 * w < v * w BY <1>1, LessTimes
  <2>. QED BY <1>1, <1>2, <2>1
<1>. HIDE DEF p, q
<1>6. s \in Int /\ Magnitude(s) = e BY <1>3, <1>4 DEF Magnitude
<1>. QED BY <1>3, <1>4, <1>5, <1>6

\* How far off a result is, from the difference counted in smaller units.
LEMMA OffUnits ==
  ASSUME NEW r \in Amounts, NEW x \in Int, NEW offset \in Int,
         NEW low \in Int, low =< r.offset, low =< offset,
         NEW c, c = Common(r, offset)
  PROVE  /\ c \in Int /\ c =< r.offset /\ c =< offset /\ low =< c
         /\ Off(r, x, offset) \in Nat
         /\ Off(r, x, offset) * Ten[c - low]
              = Magnitude(At(x, offset, low) - At(Signed(r), r.offset, low))
<1>. DEFINE p == r.offset
            s == Signed(r)
            X == At(x, offset, c)
            S == At(s, p, c)
            t == Ten[c - low]
<1>1. p \in Int /\ s \in Int BY Members
<1>2. c = IF p < offset THEN p ELSE offset BY DEF Common
<1>3. Off(r, x, offset) = Magnitude(X - S) BY DEF Off
<1>4. low =< p /\ low =< offset OBVIOUS
<1>. HIDE DEF s, p
<1>5. c \in Int /\ c =< p /\ c =< offset /\ low =< c BY <1>1, <1>2, <1>4
<1>6. X \in Int /\ S \in Int BY <1>1, <1>5, AtInt
<1>7. t \in Nat /\ t > 0 BY <1>5, UnitType
<1>8. At(x, offset, low) = X * t /\ At(s, p, low) = S * t
  <2>. DEFINE k == c - low
  <2>1. k \in Nat /\ low = c - k BY <1>5
  <2>. HIDE DEF k
  <2>2. At(x, offset, c - k) = X * Ten[k] BY <1>5, <2>1, AtUnits
  <2>3. At(s, p, c - k) = S * Ten[k] BY <1>1, <1>5, <2>1, AtUnits
  <2>. QED BY <2>1, <2>2, <2>3 DEF k
<1>. HIDE DEF X, S, t
<1>9. Magnitude(X - S) \in Nat BY <1>6, Absolute
<1>10. Magnitude(X * t - S * t) = Magnitude(X - S) * t
  <2>. DEFINE d == X - S
  <2>1. d \in Int /\ d * t = X * t - S * t /\ (-d) * t = -(X * t - S * t) /\ X * t - S * t \in Int
    BY <1>6, <1>7
  <2>. HIDE DEF d
  <2>2. d < 0 <=> d * t < 0
    <3>1. d * t < 0 * t <=> d < 0 BY <1>7, <2>1, LessTimes
    <3>. QED BY <1>7, <3>1
  <2>3. Magnitude(d * t) = Magnitude(d) * t BY <2>1, <2>2 DEF Magnitude
  <2>. QED BY <2>1, <2>3 DEF d
<1>. QED BY <1>3, <1>5, <1>8, <1>9, <1>10 DEF p, s, t

\* By how much at most, from a bound counted in smaller units.
LEMMA OffBound ==
  ASSUME NEW r \in Amounts, NEW x \in Int, NEW offset \in Int,
         NEW low \in Int, low =< r.offset, low =< offset,
         NEW n \in Nat, NEW e \in Int, Common(r, offset) =< e,
         Magnitude(At(x, offset, low) - At(Signed(r), r.offset, low)) =< n * Ten[e - low]
  PROVE  Off(r, x, offset) =< n * Ten[e - Common(r, offset)]
<1>. DEFINE c == Common(r, offset)
            f == Off(r, x, offset)
            m == Magnitude(At(x, offset, low) - At(Signed(r), r.offset, low))
            t == Ten[c - low]
            u == Ten[e - c]
<1>1. c \in Int /\ low =< c /\ f \in Nat /\ f * t = m BY OffUnits
<1>2. c =< e /\ m =< n * Ten[e - low] OBVIOUS
<1>. HIDE DEF c, f, m
<1>3. c - low \in Nat /\ e - c \in Nat /\ e - low = (e - c) + (c - low) BY <1>1, <1>2
<1>4. Ten[e - low] = u * t BY <1>3, TenSum
<1>5. t \in Nat /\ t > 0 /\ u \in Nat BY <1>3, TenType
<1>. HIDE DEF t, u
<1>6. n * (u * t) = (n * u) * t /\ n * u \in Int BY <1>5
<1>7. f * t =< (n * u) * t BY <1>1, <1>2, <1>4, <1>6
<1>8. f =< n * u BY <1>1, <1>5, <1>6, <1>7, LessTimes
<1>. QED BY <1>8 DEF f, u, c

\* multiply, of amounts that are not zero.
LEMMA Multiplied ==
  ASSUME NEW a, NEW b, Canonical(a), Canonical(b), ~IsZero(a), ~IsZero(b),
         NEW m, m = Widened(a), NEW n, n = Widened(b),
         NEW v, v = (m.value * n.value) \div Ten[Digits - 2] + 7,
         NEW o, o = m.offset + n.offset + Digits - 2, NEW neg, neg = (a.neg # b.neg)
  PROVE  /\ m.value * n.value \in Nat /\ Ten[Digits] * Ten[Digits - 2] =< m.value * n.value
         /\ v \in Nat /\ o \in Int /\ neg \in BOOLEAN /\ Length[v] > Digits
         /\ \E k \in Int : IsResult(Multiply(a, b), k, a.native, v, o, neg)
<1>. DEFINE x == m.value
            y == n.value
            X == x * y
            d == Digits - 2
            T == Ten[d]
            q == X \div T
<1>1. x \in Nat /\ y \in Nat /\ ManMin =< x /\ ManMin =< y /\ m.offset \in Int /\ n.offset \in Int
  BY Wide
<1>2. d \in Nat /\ Digits \in Nat /\ (Digits - 1) + (Digits - 1) = Digits + d /\ Digits - 1 \in Nat
  BY AmountAssumption
<1>3. v = q + 7 OBVIOUS
<1>4. a.native \in BOOLEAN BY Members, Members2
<1>5. Multiply(a, b) = Canonicalize(Amt(a.native, v, o, neg)) BY Zenon DEF Multiply
<1>6. o = m.offset + n.offset + Digits - 2 OBVIOUS
<1>7. neg \in BOOLEAN OBVIOUS
<1>. SUFFICES /\ X \in Nat /\ Ten[Digits] * T =< X
              /\ v \in Nat /\ o \in Int /\ neg \in BOOLEAN /\ Length[v] > Digits
              /\ \E k \in Int : IsResult(Multiply(a, b), k, a.native, v, o, neg)
  OBVIOUS
<1>8. o \in Int BY <1>1, <1>2, <1>6
<1>. HIDE DEF x, y, d
<1>9. ManMin * ManMin = Ten[Digits] * T
  <2>1. ManMin * ManMin = Ten[Digits + d] BY <1>2, TenSum DEF ManMin
  <2>. QED BY <1>2, <2>1, TenSum
<1>10. T \in Nat /\ T > 0 /\ Ten[Digits] \in Nat /\ ManMin \in Nat
  BY <1>2, TenType, Mantissas
<1>11. X \in Nat /\ Ten[Digits] * T =< X
  <2>1. ManMin * ManMin =< x * ManMin /\ x * ManMin =< x * y BY <1>1, <1>10, MoreTimes
  <2>2. ManMin * ManMin \in Int /\ x * ManMin \in Int /\ X \in Nat BY <1>1, <1>10
  <2>. QED BY <1>9, <2>1, <2>2
<1>. HIDE DEF X, T
<1>12. q \in Nat /\ T * q =< X /\ X < T * q + T BY <1>10, <1>11, Quotients
<1>. HIDE DEF q
<1>13. Ten[Digits] =< q
  <2>1. (q + 1) * T = T * q + T /\ T * q \in Nat BY <1>10, <1>12
  <2>2. Ten[Digits] * T < (q + 1) * T
    <3>. DEFINE z == Ten[Digits] * T
    <3>1. z \in Nat /\ z =< X BY <1>10, <1>11
    <3>. HIDE DEF z
    <3>2. z < (q + 1) * T BY <1>10, <1>11, <1>12, <2>1, <3>1
    <3>. QED BY <3>2 DEF z
  <2>3. Ten[Digits] < q + 1 BY <1>10, <1>12, <2>2, LessTimes
  <2>. QED BY <1>10, <1>12, <2>3
<1>14. v \in Nat /\ v > 0 /\ Ten[Digits] =< v BY <1>3, <1>10, <1>12, <1>13
<1>15. Digits < Length[v] BY <1>2, <1>14, LengthOrder
<1>16. Length[v] > Digits BY <1>2, <1>14, <1>15, LengthOf
<1>17. \E k \in Int : IsResult(Multiply(a, b), k, a.native, v, o, neg) BY <1>4, <1>5, <1>7, <1>8, <1>14, Result
<1>. QED BY <1>7, <1>8, <1>11, <1>14, <1>16, <1>17

LEMMA UnitOrder ==
  ASSUME NEW p \in Int, NEW q \in Int, NEW low \in Int, low =< p, p =< q
  PROVE  /\ Ten[p - low] \in Nat /\ Ten[p - low] > 0 /\ Ten[q - low] \in Nat /\ Ten[q - low] > 0
         /\ Ten[p - low] =< Ten[q - low]
         /\ p < q => 10 * Ten[p - low] =< Ten[q - low]
<1>1. p - low \in Nat /\ q - low \in Nat /\ p - low =< q - low /\ (p < q => p - low < q - low)
  OBVIOUS
<1>. QED BY <1>1, TenOrder, TenType

\* A factor common to three numbers.
LEMMA Cancel ==
  ASSUME NEW n \in Nat, n > 0, NEW a \in Int, NEW b \in Int, NEW c \in Int
  PROVE  /\ n * a - n * b =< n * c => a - b =< c
         /\ n * c < n * a - n * b => c < a - b
<1>1. n * a - n * b = (a - b) * n /\ n * c = c * n /\ a - b \in Int OBVIOUS
<1>. DEFINE d == a - b
<1>2. (c * n < d * n <=> c < d) /\ (d * n =< c * n <=> d =< c)
  <2>1. d \in Int OBVIOUS
  <2>. HIDE DEF d
  <2>. QED BY <2>1, LessTimes
<1>. QED BY <1>1, <1>2

\* The digits of a product, in units of 10^low.
IsProduct(X, B, o, v, k, low, ulp) ==
  /\ X \in Nat /\ B \in Int /\ o \in Int /\ o = B + Digits - 2
  /\ v \in Nat /\ v = X \div Ten[Digits - 2] + 7 /\ Length[v] > Digits /\ k \in Int
  /\ low \in Int /\ low =< B /\ low =< o + k
  /\ ulp \in Int /\ o + k =< ulp /\ o + (Length[v] - Digits) =< ulp

LEMMA ProductDigits ==
  ASSUME NEW X, NEW B, NEW o, NEW v, NEW k, NEW low, NEW ulp, IsProduct(X, B, o, v, k, low, ulp)
  PROVE  LET W == At(Scaled(v, -k), o + k, low)
             Y == At(X, B, low)
         IN /\ W \in Nat /\ Y \in Nat
            /\ W - Y =< Ten[ulp - low] /\ Y - W =< Ten[ulp - low]
<1>. DEFINE W == At(Scaled(v, -k), o + k, low)
            Y == At(X, B, low)
            d == Digits - 2
            T == Ten[d]
            t == Ten[o - low]
            u == Ten[(o + k) - low]
            s == Ten[ulp - low]
<1>. USE DEF IsProduct
<1>1. d \in Nat /\ o = B + d /\ low =< o BY AmountAssumption
<1>2. T \in Nat /\ T > 0 BY <1>1, TenType
<1>3. /\ W \in Nat /\ t \in Nat /\ t > 0 /\ u \in Nat /\ u > 0
      /\ T * W - X * t =< T * (7 * t)
      /\ k =< 0 => T * (7 * t - t) < T * W - X * t
      /\ k > 0 => T * (7 * t - u) < T * W - X * t
  <2>. HIDE DEF d, T
  <2>1. v = X \div T + 7 BY DEF T, d
  <2>2. IsRounded(X, T, 7, v, o, k, low) BY <1>1, <1>2, <2>1 DEF IsRounded
  <2>. QED BY <2>2, Rounded
<1>4. Y \in Nat /\ X * t = T * Y
  <2>. DEFINE b == Ten[B - low]
  <2>1. b \in Nat BY UnitType
  <2>2. Y = X * b BY DEF At
  <2>3. t = T * b
    <3>1. B - low \in Nat /\ o - low = d + (B - low) BY <1>1
    <3>. QED BY <1>1, <3>1, TenSum
  <2>. HIDE DEF b, T, Y, t
  <2>4. X * (T * b) = T * (X * b) /\ X * b \in Nat BY <1>2, <2>1
  <2>. QED BY <2>2, <2>3, <2>4
<1>5. s \in Nat /\ 10 * t =< s /\ u =< s
  <2>1. Length[v] \in Nat /\ Digits \in Nat BY LengthIs, AmountAssumption
  <2>2. o < ulp BY <2>1
  <2>3. 10 * Ten[o - low] =< Ten[ulp - low] /\ Ten[ulp - low] \in Nat BY <1>1, <2>2, UnitOrder
  <2>4. Ten[(o + k) - low] =< Ten[ulp - low]
    <3>. DEFINE p == o + k
    <3>1. p \in Int /\ low =< p /\ p =< ulp OBVIOUS
    <3>. HIDE DEF p
    <3>2. Ten[p - low] =< Ten[ulp - low] BY <3>1, UnitOrder
    <3>. QED BY <3>2 DEF p
  <2>. QED BY <2>3, <2>4
<1>. SUFFICES W - Y =< s /\ Y - W =< s BY <1>3, <1>4
<1>. HIDE DEF W, Y, T, t, u, s
<1>6. W - Y =< 7 * t
  <2>1. T * W - T * Y =< T * (7 * t) BY <1>3, <1>4
  <2>2. 7 * t \in Int BY <1>3
  <2>. QED BY <1>2, <1>3, <1>4, <2>1, <2>2, Cancel
<1>7. k =< 0 => 6 * t < W - Y
  <2>. SUFFICES ASSUME k =< 0 PROVE 6 * t < W - Y OBVIOUS
  <2>1. 7 * t - t = 6 * t /\ 6 * t \in Int BY <1>3
  <2>2. T * (6 * t) < T * W - T * Y BY <1>3, <1>4, <2>1
  <2>. QED BY <1>2, <1>3, <1>4, <2>1, <2>2, Cancel
<1>8. k > 0 => 7 * t - u < W - Y
  <2>. SUFFICES ASSUME k > 0 PROVE 7 * t - u < W - Y OBVIOUS
  <2>1. 7 * t - u \in Int BY <1>3
  <2>2. T * (7 * t - u) < T * W - T * Y BY <1>3, <1>4
  <2>. QED BY <1>2, <1>3, <1>4, <2>1, <2>2, Cancel
<1>. QED BY <1>3, <1>4, <1>5, <1>6, <1>7, <1>8

\* The number of a result with the sign it should have.
LEMMA SignedDifference ==
  ASSUME NEW r \in Amounts, NEW e \in Nat, NEW x,
         x = (IF r.neg THEN -e ELSE e), NEW offset \in Int, NEW low \in Int, low =< offset,
         low =< r.offset
  PROVE  /\ x \in Int /\ At(e, offset, low) \in Nat /\ At(r.value, r.offset, low) \in Nat
         /\ Magnitude(At(x, offset, low) - At(Signed(r), r.offset, low))
              = Magnitude(At(e, offset, low) - At(r.value, r.offset, low))
<1>. DEFINE n == r.neg
            v == r.value
            p == r.offset
            Y == At(e, offset, low)
            W == At(v, p, low)
            X == At(x, offset, low)
            S == At(Signed(r), p, low)
<1>1. /\ v \in Nat /\ p \in Int /\ low =< p /\ n \in BOOLEAN
      /\ Signed(r) = (IF n THEN -v ELSE v) /\ x = IF n THEN -e ELSE e
  BY Members
<1>. HIDE DEF v, p, n
<1>2. Y \in Nat /\ W \in Nat
  <2>1. Ten[offset - low] \in Nat /\ Ten[p - low] \in Nat BY <1>1, UnitType
  <2>. QED BY <1>1, <2>1 DEF At
<1>3. At(-e, offset, low) = -Y /\ At(-v, p, low) = -W BY <1>1, AtNegative
<1>4. X = (IF n THEN -Y ELSE Y) /\ S = (IF n THEN -W ELSE W) BY <1>1, <1>3
<1>. HIDE DEF X, S, Y, W
<1>5. Magnitude(X - S) = Magnitude(Y - W) BY <1>2, <1>4 DEF Magnitude
<1>. QED BY <1>2, <1>5 DEF X, S, Y, W, v, p

LEMMA BelowBoth ==
  ASSUME NEW p \in Int, NEW q \in Int
  PROVE  \E low \in Int : low =< p /\ low =< q
<1>1. CASE p =< q BY <1>1
<1>2. CASE ~(p =< q)
  <2>1. q =< q /\ q =< p BY <1>2
  <2>. QED BY <2>1
<1>. QED BY <1>1, <1>2

\* The mantissa of a product, counted from the offsets of its factors.
LEMMA WideProduct ==
  ASSUME NEW a, NEW b, Canonical(a), Canonical(b), ~IsZero(a), ~IsZero(b)
  PROVE  LET X == Widened(a).value * Widened(b).value
             B == Widened(a).offset + Widened(b).offset
             p == a.offset + b.offset
             e == a.value * b.value
         IN /\ B \in Int /\ p \in Int /\ B =< p /\ e \in Nat /\ e > 0 /\ X \in Nat
            /\ \A low \in Int : low =< B => At(e, p, low) = At(X, B, low)
<1>. DEFINE m == Widened(a)
            n == Widened(b)
            X == m.value * n.value
            B == m.offset + n.offset
            p == a.offset + b.offset
            e == a.value * b.value
            i == a.offset - m.offset
            j == b.offset - n.offset
            f == a.value
            g == b.value
            ti == Ten[i]
            tj == Ten[j]
<1>1. a.offset \in Int /\ b.offset \in Int /\ f \in Nat /\ f > 0 /\ g \in Nat /\ g > 0
  BY Members, Members2
<1>2. m.value \in Nat /\ m.offset \in Int /\ m.offset =< a.offset /\ m.value = f * ti BY Wide
<1>3. n.value \in Nat /\ n.offset \in Int /\ n.offset =< b.offset /\ n.value = g * tj BY Wide
<1>4. i \in Nat /\ j \in Nat /\ p = B + (i + j) /\ B \in Int /\ p \in Int /\ B =< p
  BY <1>1, <1>2, <1>3
<1>5. X = (f * ti) * (g * tj) /\ e = f * g BY <1>2, <1>3
<1>. SUFFICES /\ B \in Int /\ p \in Int /\ B =< p /\ e \in Nat /\ e > 0 /\ X \in Nat
              /\ \A low \in Int : low =< B => At(e, p, low) = At(X, B, low)
  OBVIOUS
<1>. HIDE DEF i, j
<1>6. ti \in Nat /\ tj \in Nat /\ Ten[i + j] = ti * tj BY <1>4, TenSum, TenType
<1>7. X \in Nat
  <2>. HIDE DEF m, n
  <2>. QED BY <1>2, <1>3 DEF m, n
<1>8. e \in Nat /\ e > 0
  <2>. HIDE DEF f, g
  <2>1. 0 * g < f * g BY <1>1, LessTimes
  <2>. QED BY <1>1, <1>5, <2>1
<1>. HIDE DEF f, g, ti, tj, X, B, p, e
<1>9. X = e * Ten[i + j]
  <2>1. (f * ti) * (g * tj) = (f * g) * (ti * tj) BY <1>1, <1>6
  <2>. QED BY <1>5, <1>6, <2>1
<1>10. ASSUME NEW low \in Int, low =< B PROVE At(e, p, low) = At(X, B, low)
  <2>. DEFINE k == i + j
  <2>1. k \in Nat BY <1>4
  <2>. HIDE DEF k
  <2>2. e \in Int /\ B \in Int /\ low =< B BY <1>4, <1>8, <1>10
  <2>3. At(e, B + k, low) = At(e * Ten[k], B, low) BY <2>1, <2>2, AtShift
  <2>. QED BY <1>4, <1>9, <2>3 DEF k
<1>. QED BY <1>4, <1>7, <1>8, <1>10

\* A product, in units small enough: v and w are close.
Close(v, o, w, p, e, low) ==
  /\ low =< o /\ low =< p /\ At(v, o, low) \in Nat /\ At(w, p, low) \in Nat
  /\ Magnitude(At(v, o, low) - At(w, p, low)) =< e

LEMMA ProductClose ==
  ASSUME NEW a, NEW b, Canonical(a), Canonical(b), ~IsZero(a), ~IsZero(b),
         NEW r, r = Multiply(a, b)
  PROVE  /\ r \in Amounts /\ r.native = a.native /\ r.neg = (a.neg # b.neg)
         /\ Canonical(r) \/ (r.neg /\ IsZero(r))
         /\ ~a.native => r.value \in ManMin..ManMax
         /\ Ulp(r) \in Int /\ r.offset =< Ulp(r)
         /\ \E B \in Int : \A low \in Int : low =< B =>
              Close(a.value * b.value, a.offset + b.offset, r.value, r.offset, Ten[Ulp(r) - low], low)
<1>. DEFINE m == Widened(a)
            n == Widened(b)
            X == m.value * n.value
            v == X \div Ten[Digits - 2] + 7
            B == m.offset + n.offset
            o == m.offset + n.offset + Digits - 2
            neg == (a.neg # b.neg)
            p == a.offset + b.offset
            e == a.value * b.value
            ulp == Ulp(r)
            f == r.offset
            w == r.value
<1>1. /\ v \in Nat /\ o \in Int /\ neg \in BOOLEAN /\ Length[v] > Digits
      /\ \E k \in Int : IsResult(r, k, a.native, v, o, neg)
  BY Multiplied
<1>2. PICK k \in Int : IsResult(r, k, a.native, v, o, neg) BY <1>1
<1>3. /\ B \in Int /\ p \in Int /\ B =< p /\ e \in Nat /\ X \in Nat
      /\ \A low \in Int : low =< B => At(e, p, low) = At(X, B, low)
  BY WideProduct
<1>4. /\ r \in Amounts /\ r.native = a.native /\ r.neg = neg /\ w = Scaled(v, -k) /\ f = o + k
      /\ Canonical(r) \/ (r.neg /\ IsZero(r))
      /\ ~a.native => r.value \in ManMin..ManMax
      /\ ulp \in Int /\ f =< ulp /\ o + (Length[v] - Digits) =< ulp
  BY <1>2 DEF IsResult
<1>5. o = B + Digits - 2 /\ v = X \div Ten[Digits - 2] + 7
  <2>1. v = X \div Ten[Digits - 2] + 7 OBVIOUS
  <2>2. m.offset \in Int /\ n.offset \in Int BY Wide
  <2>3. o = B + Digits - 2 BY <2>2, AmountAssumption
  <2>. QED BY <2>1, <2>3
<1>6. f \in Int /\ w \in Nat BY <1>4, Members
<1>. SUFFICES \E b1 \in Int : \A low \in Int : low =< b1 => Close(e, p, w, f, Ten[ulp - low], low)
  BY <1>4
<1>. HIDE DEF m, n, X, v, B, o, neg, p, e, ulp, f, w
<1>7. PICK b1 \in Int : b1 =< B /\ b1 =< f BY <1>3, <1>6, BelowBoth
<1>8. ASSUME NEW low \in Int, low =< b1 PROVE Close(e, p, w, f, Ten[ulp - low], low)
  <2>. DEFINE W == At(w, f, low)
              Y == At(X, B, low)
              s == Ten[ulp - low]
  <2>1. low =< B /\ low =< f /\ low =< p /\ low =< ulp BY <1>3, <1>4, <1>6, <1>7, <1>8
  <2>2. IsProduct(X, B, o, v, k, low, ulp) BY <1>1, <1>3, <1>4, <1>5, <2>1 DEF IsProduct
  <2>3. W \in Nat /\ Y \in Nat /\ W - Y =< s /\ Y - W =< s
    <3>1. W = At(Scaled(v, -k), o + k, low) BY <1>4
    <3>. QED BY <2>2, <3>1, ProductDigits
  <2>4. At(e, p, low) = Y BY <1>3, <2>1
  <2>5. s \in Nat BY <1>4, <2>1, UnitType
  <2>. HIDE DEF W, Y, s
  <2>6. Magnitude(Y - W) =< s BY <2>3, <2>5 DEF Magnitude
  <2>7. Close(e, p, w, f, s, low) BY <2>1, <2>3, <2>4, <2>6 DEF Close, W
  <2>. QED BY <2>7 DEF s
<1>. QED BY <1>8

LEMMA ProductNear ==
  ASSUME NEW a, NEW b, Canonical(a), Canonical(b), ~IsZero(a), ~IsZero(b),
         NEW r, r = Multiply(a, b)
  PROVE  Near(r, Signed(a) * Signed(b), a.offset + b.offset)
<1>. DEFINE p == a.offset + b.offset
            e == a.value * b.value
            x == Signed(a) * Signed(b)
            ulp == Ulp(r)
            f == r.offset
            w == r.value
<1>1. a \in Amounts /\ b \in Amounts BY Members2
<1>2. p \in Int BY <1>1, Members
<1>3. /\ r \in Amounts /\ r.neg = (a.neg # b.neg)
      /\ ulp \in Int /\ f =< ulp
      /\ \E B \in Int : \A low \in Int : low =< B => Close(e, p, w, f, Ten[ulp - low], low)
  BY ZenonT(30), ProductClose
<1>4. PICK B \in Int : \A low \in Int : low =< B => Close(e, p, w, f, Ten[ulp - low], low) BY <1>3
<1>5. x \in Int /\ e \in Nat /\ x = IF r.neg THEN -e ELSE e
  <2>1. x \in Int /\ e \in Nat /\ x = IF a.neg # b.neg THEN -e ELSE e BY <1>1, SignedProduct
  <2>. HIDE DEF x, e
  <2>. QED BY <1>3, <2>1, Zenon
<1>6. f \in Int BY <1>3, Members
<1>. HIDE DEF p, e, x, ulp, w
<1>7. Close(e, p, w, f, Ten[ulp - B], B)
  <2>1. B =< B OBVIOUS
  <2>. QED BY <1>4, <2>1
<1>8. B =< p /\ B =< f /\ Magnitude(At(e, p, B) - At(w, f, B)) =< Ten[ulp - B] BY <1>7 DEF Close
<1>9. Magnitude(At(x, p, B) - At(Signed(r), r.offset, B)) = Magnitude(At(e, p, B) - At(w, f, B))
  <2>1. B =< r.offset /\ p \in Int BY <1>2, <1>8
  <2>. HIDE DEF f
  <2>. QED BY <1>3, <1>5, <1>8, <2>1, SignedDifference DEF w, f
<1>10. Ten[ulp - B] \in Nat
  <2>1. B =< ulp BY <1>3, <1>6, <1>8
  <2>. QED BY <1>3, <2>1, UnitType
<1>11. Magnitude(At(x, p, B) - At(Signed(r), r.offset, B)) =< 1 * Ten[ulp - B]
  BY <1>8, <1>9, <1>10
<1>12. Common(r, p) =< ulp /\ Common(r, p) \in Int
  <2>1. r.offset \in Int /\ r.offset =< ulp BY <1>3, <1>6
  <2>. QED BY <1>2, <1>3, <2>1 DEF Common
<1>13. Off(r, x, p) =< 1 * Ten[ulp - Common(r, p)]
  <2>1. B =< r.offset /\ p \in Int BY <1>2, <1>8
  <2>. QED BY <1>3, <1>5, <1>8, <1>11, <1>12, <2>1, OffBound
<1>14. Ten[ulp - Common(r, p)] \in Nat BY <1>3, <1>12, UnitType
<1>15. Near(r, x, p)
  <2>1. 1 * Ten[ulp - Common(r, p)] = Ten[ulp - Common(r, p)] BY <1>14
  <2>. QED BY <1>13, <2>1 DEF Near, ulp
<1>. QED BY <1>15 DEF x, p

\* A product that ends in zeros keeps all its other digits.
EndsExact(E, i, n, v) ==
  /\ E \in Nat /\ i \in Nat /\ i >= 1 /\ n \in Nat /\ n > 0
  /\ v = ((E * Ten[i]) * n) \div n + 7

LEMMA ExactDigits ==
  ASSUME NEW E, NEW i, NEW n, NEW v, EndsExact(E, i, n, v)
  PROVE  /\ v \in Nat /\ Scaled(v, -i) = E
         /\ E \in ManMin..ManMax => Length[v] - Digits = i
<1>. USE DEF EndsExact
<1>. DEFINE t == Ten[i]
            z == E * t
<1>1. t \in Nat /\ t >= 10
  <2>1. i - 1 \in Nat /\ (i - 1) + 1 = i OBVIOUS
  <2>2. Ten[i] = 10 * Ten[i - 1] /\ Ten[i - 1] \in Nat /\ Ten[i - 1] > 0 BY <2>1, TenIs, TenType
  <2>. QED BY <2>2
<1>. HIDE DEF t
<1>2. z \in Nat BY <1>1
<1>3. (E + 1) * t = z + t /\ t * E = z BY <1>1
<1>. HIDE DEF z
<1>4. v = z + 7 /\ v \in Nat
  <2>1. v = (z * n) \div n + 7 BY DEF z, t
  <2>2. n * z =< z * n /\ z * n < n * z + n /\ z * n \in Nat BY <1>2
  <2>3. (z * n) \div n = z BY <1>2, <2>2, QuotientIs
  <2>. QED BY <1>2, <2>1, <2>3
<1>5. Scaled(v, -i) = E
  <2>1. -(-i) = i /\ ~(-i >= 0) OBVIOUS
  <2>2. Scaled(v, -i) = v \div t BY <2>1 DEF Scaled, t
  <2>3. t * E =< v /\ v < t * E + t BY <1>1, <1>2, <1>3, <1>4
  <2>4. v \div t = E BY <1>1, <1>4, <2>3, QuotientIs
  <2>. QED BY <2>2, <2>4
<1>6. ASSUME E \in ManMin..ManMax PROVE Length[v] - Digits = i
  <2>. DEFINE l == Digits - 1
              j == l + i
  <2>1. l \in Nat /\ j \in Nat /\ j + 1 = Digits + i /\ Digits \in Nat BY AmountAssumption
  <2>2. ManMin =< E /\ E + 1 =< Ten[Digits] /\ ManMin \in Nat /\ Ten[Digits] \in Nat
    BY <1>6, Mantissas
  <2>3. Ten[j] = ManMin * t BY <2>1, TenSum DEF ManMin, t
  <2>4. Ten[j + 1] = Ten[Digits] * t BY <2>1, TenSum DEF t
  <2>5. ManMin * t =< E * t /\ (E + 1) * t =< Ten[Digits] * t BY <1>1, <2>2, MoreTimes
  <2>. HIDE DEF j, l
  <2>6. Ten[j] =< v /\ v < Ten[j + 1]
    <3>1. Ten[j] \in Nat /\ Ten[j + 1] \in Nat BY <2>1, TenType
    <3>. QED BY <1>1, <1>2, <1>3, <1>4, <2>3, <2>4, <2>5, <3>1 DEF z
  <2>7. Length[v] = j + 1 BY <1>4, <2>1, <2>6, HasLength
  <2>. QED BY <2>1, <2>7
<1>. QED BY <1>4, <1>5, <1>6

\* An exact result of no more digits than fit ends a product in zeros.
InZeros(E, f, X, B, i) ==
  i >= 1 /\ f = (B + Digits - 2) + i /\ X = (E * Ten[i]) * Ten[Digits - 2]

LEMMA EndsInZeros ==
  ASSUME NEW E \in Nat, Length[E] =< Digits, NEW f \in Int, NEW X \in Nat, NEW B \in Int,
         NEW low \in Int, low =< f, low =< B, At(E, f, low) = At(X, B, low),
         Ten[Digits] * Ten[Digits - 2] =< X
  PROVE  \E i \in Nat : InZeros(E, f, X, B, i)
<1>. DEFINE d == Digits - 2
            i == f - (B + d)
            T == Ten[d]
            b == Ten[B - low]
<1>1. d \in Nat /\ Digits \in Nat BY AmountAssumption
<1>2. T \in Nat /\ T > 0 /\ Ten[Digits] \in Nat /\ Ten[Digits] > 0 BY <1>1, TenType
<1>3. b \in Nat /\ b > 0 BY UnitType
<1>4. E * Ten[f - low] = X * b BY DEF At
<1>5. E < Ten[Digits]
  <2>1. Length[E] \in Nat /\ IsLength(E, Length[E]) BY LengthIs
  <2>2. E < Ten[Length[E]] BY <2>1 DEF IsLength
  <2>3. Ten[Length[E]] =< Ten[Digits] /\ Ten[Length[E]] \in Nat BY <1>1, <2>1, TenOrder, TenType
  <2>. QED BY <1>2, <2>2, <2>3
<1>6. ASSUME f =< B + d PROVE FALSE
  <2>. DEFINE p == B + d
              u == Ten[f - low]
              w == Ten[p - low]
  <2>1. p \in Int /\ f =< p BY <1>1, <1>6
  <2>2. w = T * b
    <3>1. B - low \in Nat /\ p - low = d + (B - low) BY <1>1
    <3>. QED BY <1>1, <3>1, TenSum
  <2>. HIDE DEF p
  <2>3. u \in Nat /\ u =< w BY <2>1, UnitOrder
  <2>4. E * u =< E * w
    <3>1. w \in Nat BY <2>1, UnitOrder
    <3>. HIDE DEF u, w
    <3>. QED BY <2>3, <3>1, MoreTimes
  <2>5. w \in Nat /\ w > 0 BY <2>1, UnitOrder
  <2>. HIDE DEF u, w, T, b
  <2>6. E * w < Ten[Digits] * w BY <1>2, <1>5, <2>5, LessTimes
  <2>7. Ten[Digits] * w = (Ten[Digits] * T) * b BY <1>2, <1>3, <2>2, Regroup
  <2>8. (Ten[Digits] * T) * b =< X * b
    <3>. DEFINE z == Ten[Digits] * T
    <3>1. z \in Nat /\ z =< X BY <1>2 DEF T
    <3>. HIDE DEF z
    <3>2. z * b =< X * b BY <1>3, <3>1, MoreTimes
    <3>. QED BY <3>2 DEF z
  <2>9. E * u \in Int /\ E * w \in Int /\ X * b \in Int /\ Ten[Digits] * w \in Int
    BY <1>2, <1>3, <2>3, <2>5
  <2>10. E * u = X * b BY <1>4 DEF u
  <2>. QED BY <2>4, <2>6, <2>7, <2>8, <2>9, <2>10
<1>7. i \in Nat /\ i >= 1 /\ f = (B + Digits - 2) + i BY <1>1, <1>6
<1>8. Ten[f - low] = (Ten[i] * T) * b
  <2>1. B - low \in Nat /\ i + d \in Nat /\ f - low = (i + d) + (B - low) BY <1>1, <1>7
  <2>. HIDE DEF i, d
  <2>2. Ten[f - low] = Ten[i + d] * b BY <2>1, TenSum
  <2>. QED BY <1>1, <1>7, <2>2, TenSum
<1>9. Ten[i] \in Nat BY <1>7, TenType
<1>. HIDE DEF i, T, b
<1>10. X = (E * Ten[i]) * T
  <2>. DEFINE t == Ten[i]
              y == (E * t) * T
  <2>. HIDE DEF t
  <2>1. t \in Nat BY <1>9 DEF t
  <2>2. E * ((t * T) * b) = y * b BY <1>2, <1>3, <2>1
  <2>3. y \in Nat BY <1>2, <2>1
  <2>. HIDE DEF y
  <2>4. y * b = X * b BY <1>4, <1>8, <2>2 DEF t
  <2>5. y =< X /\ X =< y BY <1>3, <2>3, <2>4, LessTimes
  <2>6. y = X BY <2>3, <2>5
  <2>. QED BY <2>6 DEF y, t
<1>11. InZeros(E, f, X, B, i) BY <1>7, <1>10 DEF T, InZeros
<1>. QED BY <1>7, <1>11

\* What has come off an exact result is nothing.
LEMMA NothingOff ==
  ASSUME NEW r \in Amounts, NEW e \in Nat, NEW x, x = (IF r.neg THEN -e ELSE e),
         NEW offset \in Int, NEW low \in Int, low =< offset, low =< r.offset,
         Off(r, x, offset) = 0
  PROVE  At(e, offset, low) = At(r.value, r.offset, low)
<1>. DEFINE Y == At(e, offset, low)
            W == At(r.value, r.offset, low)
            c == Common(r, offset)
            m == Magnitude(At(x, offset, low) - At(Signed(r), r.offset, low))
<1>1. x \in Int /\ Y \in Nat /\ W \in Nat /\ m = Magnitude(Y - W) BY SignedDifference
<1>2. c \in Int /\ low =< c /\ Off(r, x, offset) * Ten[c - low] = m BY <1>1, OffUnits
<1>3. Ten[c - low] \in Nat BY <1>2, UnitType
<1>4. m = 0
  <2>. HIDE DEF m, c
  <2>. QED BY <1>2, <1>3
<1>. HIDE DEF Y, W, m
<1>5. Y = W BY <1>1, <1>4 DEF Magnitude
<1>. QED BY <1>5 DEF Y, W

\* multiply gives an exact result that fits as it is.
LEMMA ProductExact ==
  ASSUME NEW a, NEW b, Canonical(a), Canonical(b), ~IsZero(a), ~IsZero(b)
  PROVE  LET x == Signed(a) * Signed(b)
             p == a.offset + b.offset
             c == Canonicalize(Amt(a.native, Magnitude(x), p, x < 0))
         IN Length[c.value] =< Digits /\ Off(c, x, p) = 0 => Multiply(a, b) = c
<1>. DEFINE r == Multiply(a, b)
            x == Signed(a) * Signed(b)
            p == a.offset + b.offset
            c == Canonicalize(Amt(a.native, Magnitude(x), p, x < 0))
            m == Widened(a)
            n == Widened(b)
            X == m.value * n.value
            v == X \div Ten[Digits - 2] + 7
            B == m.offset + n.offset
            o == m.offset + n.offset + Digits - 2
            neg == (a.neg # b.neg)
            e == a.value * b.value
            E == c.value
            f == c.offset
<1>. SUFFICES ASSUME Length[c.value] =< Digits /\ Off(c, x, p) = 0 PROVE r = c OBVIOUS
<1>0. Length[c.value] =< Digits /\ Off(c, x, p) = 0 OBVIOUS
<1>1. a \in Amounts /\ b \in Amounts /\ a.native \in BOOLEAN BY Members, Members2
<1>2. /\ Ten[Digits] * Ten[Digits - 2] =< X
      /\ v \in Nat /\ o \in Int /\ neg \in BOOLEAN /\ Length[v] > Digits
      /\ \E k \in Int : IsResult(r, k, a.native, v, o, neg)
  BY Multiplied
<1>3. PICK k \in Int : IsResult(r, k, a.native, v, o, neg) BY <1>2
<1>4. /\ B \in Int /\ p \in Int /\ B =< p /\ e \in Nat /\ e > 0 /\ X \in Nat
      /\ \A low \in Int : low =< B => At(e, p, low) = At(X, B, low)
  BY WideProduct
<1>5. x \in Int /\ Magnitude(x) = e /\ (x < 0 <=> neg) /\ x = IF neg THEN -e ELSE e
  BY <1>1, SignedProduct
<1>6. c = Canonicalize(Amt(a.native, e, p, neg))
  <2>1. (x < 0) = neg BY <1>5
  <2>. HIDE DEF neg, e
  <2>. QED BY <1>5, <2>1, Zenon
<1>7. PICK l \in Int : IsResult(c, l, a.native, e, p, neg)
  <2>. HIDE DEF neg, e
  <2>. QED BY <1>1, <1>2, <1>4, <1>6, Result
<1>8. /\ c \in Amounts /\ c.native = a.native /\ c.neg = neg /\ f = p + l
      /\ ~a.native => E \in ManMin..ManMax
      /\ a.native => l = -p
  BY <1>7 DEF IsResult
<1>9. /\ r \in Amounts /\ r.native = a.native /\ r.neg = neg
      /\ r.value = Scaled(v, -k) /\ r.offset = o + k
      /\ ~a.native => k = Length[v] - Digits
      /\ a.native => k = -o
  BY <1>3 DEF IsResult
<1>10. E \in Nat /\ f \in Int /\ Length[E] =< Digits BY <1>0, <1>8, Members
<1>11. o = B + Digits - 2 BY <1>4, AmountAssumption
<1>. HIDE DEF neg, e, X, B, o, E, f, x, p, c, r
<1>12. PICK low \in Int : low =< B /\ low =< f BY <1>4, <1>10, BelowBoth
<1>13. At(E, f, low) = At(X, B, low)
  <2>1. At(e, p, low) = At(X, B, low) BY <1>4, <1>12
  <2>2. low =< p BY <1>4, <1>12
  <2>3. x = IF c.neg THEN -e ELSE e BY <1>5, <1>8
  <2>4. low =< c.offset BY <1>12 DEF f
  <2>5. At(e, p, low) = At(c.value, c.offset, low)
    BY <1>0, <1>4, <1>8, <2>2, <2>3, <2>4, NothingOff
  <2>. QED BY <2>1, <2>5 DEF E, f
<1>141. PICK i \in Nat : InZeros(E, f, X, B, i)
  <2>1. /\ E \in Nat /\ Length[E] =< Digits /\ f \in Int /\ X \in Nat /\ B \in Int
        /\ low =< f /\ low =< B /\ Ten[Digits] * Ten[Digits - 2] =< X
    BY <1>2, <1>4, <1>10, <1>12
  <2>. QED BY <1>13, <2>1, EndsInZeros
<1>14. i >= 1 /\ f = (B + Digits - 2) + i /\ X = (E * Ten[i]) * Ten[Digits - 2]
  BY <1>141 DEF InZeros
<1>15. Scaled(v, -i) = E /\ (E \in ManMin..ManMax => Length[v] - Digits = i)
  <2>. DEFINE T == Ten[Digits - 2]
  <2>1. Digits - 2 \in Nat BY AmountAssumption
  <2>2. T \in Nat /\ T > 0 BY <2>1, TenType
  <2>3. v = ((E * Ten[i]) * T) \div T + 7 BY <1>14
  <2>. HIDE DEF v, T
  <2>4. EndsExact(E, i, T, v) BY <1>10, <1>14, <2>2, <2>3 DEF EndsExact
  <2>. QED BY <2>4, ExactDigits
<1>. HIDE DEF v
<1>16. k = i
  <2>1. CASE a.native
    <3>1. f = 0 BY <1>4, <1>8, <2>1
    <3>. QED BY <1>9, <1>11, <1>14, <2>1, <3>1, <1>2
  <2>2. CASE ~a.native BY <1>8, <1>9, <1>15, <2>2
  <2>. QED BY <1>1, <2>1, <2>2
<1>17. r.value = E /\ r.offset = f
  <2>1. r.value = E BY <1>9, <1>15, <1>16
  <2>2. r.offset = f BY <1>9, <1>11, <1>14, <1>16
  <2>. QED BY <2>1, <2>2
<1>18. r.native = c.native /\ r.neg = c.neg BY <1>8, <1>9
<1>. QED BY <1>8, <1>9, <1>17, <1>18, SameFields DEF E, f

\* multiply, of canonical amounts that are not zero: a product is canonical but
\* for the sign of a native one cut to zero, wrong by at most its last digit, and
\* not wrong at all when the exact one fits.
THEOREM ProductsKeepTheLaw ==
  ASSUME NEW a, NEW b, Canonical(a), Canonical(b), ~IsZero(a), ~IsZero(b)
  PROVE  ProductLaw(a, b)
<1>. DEFINE r == Multiply(a, b)
            x == Signed(a) * Signed(b)
            p == a.offset + b.offset
            c == Canonicalize(Amt(a.native, Magnitude(x), p, x < 0))
<1>1. (Canonical(r) \/ (r.neg /\ IsZero(r))) /\ Near(r, x, p) BY ProductClose, ProductNear
<1>2. Length[c.value] =< Digits /\ Off(c, x, p) = 0 => r = c BY ProductExact
<1>3. ProductLaw(a, b) <=> /\ Canonical(r) \/ (r.neg /\ IsZero(r))
                           /\ Near(r, x, p)
                           /\ (Length[c.value] <= Digits /\ Off(c, x, p) = 0) => r = c
  BY Zenon DEF ProductLaw
<1>. QED BY <1>1, <1>2, <1>3, Zenon

-----------------------------------------------------------------------------
(* Quotients.                                                                *)

\* In units of a lower power.
LEMMA AtLower ==
  ASSUME NEW v \in Int, NEW o \in Int, NEW low \in Int, NEW l \in Int, l =< low, low =< o
  PROVE  At(v, o, l) = At(v, o, low) * Ten[low - l]
<1>. DEFINE s == Ten[o - low]
            t == Ten[low - l]
<1>1. s \in Nat /\ t \in Nat BY UnitType
<1>2. Ten[o - l] = s * t
  <2>1. o - low \in Nat /\ low - l \in Nat /\ o - l = (o - low) + (low - l) OBVIOUS
  <2>. QED BY <2>1, TenSum
<1>. HIDE DEF s, t
<1>3. v * (s * t) = (v * s) * t BY <1>1
<1>. QED BY <1>2, <1>3 DEF At, s, t

\* The product of two numbers at offsets.
LEMMA AtTimes ==
  ASSUME NEW v \in Int, NEW p \in Int, NEW l \in Int, l =< p,
         NEW w \in Int, NEW q \in Int, NEW m \in Int, m =< q
  PROVE  At(v * w, p + q, l + m) = At(v, p, l) * At(w, q, m)
<1>. DEFINE s == Ten[p - l]
            t == Ten[q - m]
<1>1. s \in Nat /\ t \in Nat BY UnitType
<1>2. Ten[(p + q) - (l + m)] = s * t
  <2>1. p - l \in Nat /\ q - m \in Nat /\ (p + q) - (l + m) = (p - l) + (q - m) OBVIOUS
  <2>. QED BY <2>1, TenSum
<1>. HIDE DEF s, t
<1>3. (v * w) * (s * t) = (v * s) * (w * t) BY <1>1
<1>. QED BY <1>2, <1>3 DEF At, s, t

\* A quotient times its divisor is off by what its last digit, and the guard,
\* weigh times the divisor.
IsQuotient(X, n, v, o, k, low, s) ==
  /\ X \in Nat /\ n \in Nat /\ n > 0 /\ v \in Nat /\ v = X \div n + 5
  /\ o \in Int /\ k \in Int /\ low \in Int /\ low =< o /\ low =< o + k
  /\ s \in Nat /\ 5 * Ten[o - low] =< s /\ Ten[(o + k) - low] =< s

LEMMA QuotientDigits ==
  ASSUME NEW X, NEW n, NEW v, NEW o, NEW k, NEW low, NEW s, IsQuotient(X, n, v, o, k, low, s)
  PROVE  LET W == At(Scaled(v, -k), o + k, low)
             Y == X * Ten[o - low]
         IN W \in Nat /\ Y \in Nat /\ n * W - Y =< n * s /\ Y - n * W =< n * s
<1>. DEFINE W == At(Scaled(v, -k), o + k, low)
            t == Ten[o - low]
            u == Ten[(o + k) - low]
            Y == X * t
<1>. USE DEF IsQuotient
<1>1. /\ W \in Nat /\ t \in Nat /\ t > 0 /\ u \in Nat /\ u > 0
      /\ n * W - X * t =< n * (5 * t)
      /\ k =< 0 => n * (5 * t - t) < n * W - X * t
      /\ k > 0 => n * (5 * t - u) < n * W - X * t
  <2>1. IsRounded(X, n, 5, v, o, k, low) BY DEF IsRounded
  <2>. QED BY <2>1, Rounded
<1>. SUFFICES W \in Nat /\ Y \in Nat /\ n * W - Y =< n * s /\ Y - n * W =< n * s OBVIOUS
<1>. HIDE DEF W, t, u
<1>2. Y \in Nat BY <1>1
<1>3. 5 * t =< s /\ u =< s BY DEF t, u
<1>. DEFINE z == n * W
<1>4. z \in Nat BY <1>1
<1>5. n * (5 * t) =< n * s
  <2>1. 5 * t \in Int BY <1>1
  <2>. QED BY <1>3, <2>1, MoreTimes
<1>6. n * (5 * t) \in Int /\ n * s \in Nat BY <1>1
<1>7. k =< 0 => Y - z =< n * s
  <2>. SUFFICES ASSUME k =< 0 PROVE Y - z =< n * s OBVIOUS
  <2>1. n * (5 * t - t) \in Nat
    <3>1. 5 * t - t \in Nat BY <1>1
    <3>. QED BY <3>1
  <2>2. n * (5 * t - t) < z - Y BY <1>1
  <2>. HIDE DEF Y, z
  <2>. QED BY <1>2, <1>4, <1>6, <2>1, <2>2
<1>8. k > 0 => Y - z =< n * s
  <2>. SUFFICES ASSUME k > 0 PROVE Y - z =< n * s OBVIOUS
  <2>1. -s =< 5 * t - u /\ 5 * t - u \in Int BY <1>1, <1>3
  <2>2. n * (-s) =< n * (5 * t - u) /\ n * (-s) = -(n * s) /\ n * (5 * t - u) \in Int
    <3>. DEFINE y == 5 * t - u
                x == -s
    <3>1. y \in Int /\ x \in Int /\ x =< y BY <2>1
    <3>. HIDE DEF y
    <3>2. n * x =< n * y /\ n * y \in Int BY <3>1, MoreTimes
    <3>. QED BY <3>2 DEF y
  <2>3. n * (5 * t - u) < z - Y BY <1>1
  <2>. HIDE DEF Y, z
  <2>. QED BY <1>2, <1>4, <1>6, <2>2, <2>3
<1>9. z - Y =< n * s
  <2>1. z - Y =< n * (5 * t) BY <1>1
  <2>. HIDE DEF Y, z
  <2>. QED BY <1>2, <1>4, <1>5, <1>6, <2>1
<1>. QED BY <1>1, <1>2, <1>7, <1>8, <1>9

\* divide, of amounts that are not zero.
LEMMA Divided ==
  ASSUME NEW a, NEW d, Canonical(a), Canonical(d), ~IsZero(a), ~IsZero(d),
         NEW m, m = Widened(a), NEW n, n = Widened(d)
  PROVE  LET X == m.value * Ten[Digits + 1]
             v == X \div n.value + 5
             o == m.offset - n.offset - (Digits + 1)
             neg == (a.neg # d.neg)
             j == Length[d.value] - Digits
         IN /\ X \in Nat /\ n.value \in Nat /\ n.value > 0
            /\ v \in Nat /\ o \in Int /\ neg \in BOOLEAN /\ j \in Int /\ Length[v] \in Nat
            /\ IF j > 0 THEN Digits + 1 - j =< Length[v] ELSE Digits + 1 =< Length[v]
            /\ \E k \in Int : IsResult(Divide(a, d), k, a.native, v, o, neg)
<1>. DEFINE x == m.value
            y == n.value
            T == Ten[Digits + 1]
            X == x * T
            q == X \div y
            v == q + 5
            o == m.offset - n.offset - (Digits + 1)
            neg == (a.neg # d.neg)
            e == d.value
            j == Length[e] - Digits
<1>1. x \in Nat /\ y \in Nat /\ ManMin =< x /\ ManMin =< y /\ m.offset \in Int /\ n.offset \in Int
  BY Wide
<1>2. Digits \in Nat /\ Digits >= 2 /\ Digits - 1 \in Nat BY AmountAssumption
<1>3. a.native \in BOOLEAN /\ e \in Nat /\ e > 0 BY Members, Members2
<1>4. Divide(a, d) = Canonicalize(Amt(a.native, v, o, neg)) BY Zenon DEF Divide
<1>5. o \in Int /\ neg \in BOOLEAN BY <1>1, <1>2
<1>6. /\ Length[e] =< Digits => y < Ten[Digits]
      /\ Length[e] > Digits => y = e * Ten[0]
  <2>1. /\ Length[e] =< Digits => y < Ten[Digits]
        /\ Length[e] > Digits => n.offset = d.offset
        /\ y = e * Ten[d.offset - n.offset]
    BY Wide
  <2>2. n.offset = d.offset => d.offset - n.offset = 0 BY <1>1
  <2>. QED BY <2>1, <2>2
<1>. SUFFICES /\ X \in Nat /\ y \in Nat /\ y > 0
              /\ v \in Nat /\ o \in Int /\ neg \in BOOLEAN /\ j \in Int /\ Length[v] \in Nat
              /\ IF j > 0 THEN Digits + 1 - j =< Length[v] ELSE Digits + 1 =< Length[v]
              /\ \E k \in Int : IsResult(Divide(a, d), k, a.native, v, o, neg)
  OBVIOUS
<1>. HIDE DEF x, y, o, neg, e
<1>7. ManMin \in Nat /\ ManMin >= 10 /\ T \in Nat /\ Ten[Digits] \in Nat /\ Ten[Digits] > 0
  BY <1>2, TenType, Mantissas
<1>8. y > 0 /\ X \in Nat BY <1>1, <1>7
<1>9. Ten[2 * Digits] =< X /\ Ten[2 * Digits] \in Nat
  <2>1. 2 * Digits = (Digits - 1) + (Digits + 1) /\ 2 * Digits \in Nat /\ Digits + 1 \in Nat BY <1>2
  <2>2. Ten[2 * Digits] = ManMin * T BY <1>2, <2>1, TenSum DEF ManMin
  <2>3. ManMin * T =< x * T BY <1>1, <1>7, MoreTimes
  <2>. QED BY <2>1, <2>2, <2>3, TenType
<1>. HIDE DEF X, T
<1>10. q \in Nat /\ y * q =< X /\ X < y * q + y BY <1>1, <1>8, Quotients
<1>. HIDE DEF q
<1>11. v \in Nat /\ v > 0 BY <1>10
<1>12. Length[v] \in Nat /\ Length[v] > 0 BY <1>11, LengthOf
<1>13. Length[e] \in Nat /\ e < Ten[Length[e]] BY <1>3, LengthOf
\* Dividing by less than 10^i leaves more than 2 * Digits - i digits.
<1>14. ASSUME NEW i \in Nat, i =< 2 * Digits, y < Ten[i] PROVE 2 * Digits - i + 1 =< Length[v]
  <2>. DEFINE h == 2 * Digits - i
              g == Ten[h]
              f == Ten[i]
  <2>1. h \in Nat /\ 2 * Digits = h + i BY <1>2, <1>14
  <2>2. g \in Nat /\ f \in Nat /\ f > 0 BY <2>1, TenType
  <2>3. Ten[2 * Digits] = g * f BY <2>1, TenSum
  <2>. HIDE DEF h, g, f
  <2>4. y * q + y = (q + 1) * y /\ (q + 1) * y =< (q + 1) * f
    <3>1. y =< f /\ q + 1 \in Nat BY <1>1, <1>10, <1>14, <2>2 DEF f
    <3>2. (q + 1) * y =< (q + 1) * f BY <1>1, <2>2, <3>1, MoreTimes
    <3>. QED BY <1>1, <1>10, <3>2
  <2>5. g * f < (q + 1) * f
    <3>1. (q + 1) * f \in Nat /\ y * q + y \in Nat BY <1>1, <1>10, <2>2
    <3>. QED BY <1>8, <1>9, <1>10, <2>3, <2>4, <3>1
  <2>6. g < q + 1 BY <1>10, <2>2, <2>5, LessTimes
  <2>7. g =< v BY <1>10, <2>2, <2>6
  <2>8. h < Length[v] BY <1>11, <2>1, <2>7, LengthOrder DEF g
  <2>. QED BY <1>12, <2>1, <2>8 DEF h
<1>15. j \in Int /\ (j > 0 <=> Length[e] > Digits) BY <1>2, <1>13
<1>16. ASSUME ~(j > 0) PROVE Digits + 1 =< Length[v]
  <2>1. y < Ten[Digits] /\ Digits =< 2 * Digits BY <1>2, <1>6, <1>13, <1>15, <1>16
  <2>2. 2 * Digits - Digits + 1 =< Length[v] BY <1>2, <1>14, <2>1
  <2>. QED BY <1>2, <1>12, <2>2
<1>17. ASSUME j > 0 PROVE Digits + 1 - j =< Length[v]
  <2>1. y = e * Ten[0] BY <1>6, <1>15, <1>17
  <2>2. y = e BY <1>3, <2>1, TenIs
  <2>3. CASE Length[e] =< 2 * Digits
    <3>1. 2 * Digits - Length[e] + 1 =< Length[v] BY <1>13, <1>14, <2>2, <2>3
    <3>. QED BY <1>2, <1>12, <1>13, <3>1
  <2>4. CASE Length[e] > 2 * Digits BY <1>2, <1>12, <1>13, <2>4
  <2>. QED BY <1>2, <1>13, <2>3, <2>4
<1>. HIDE DEF v, j
<1>18. \E k \in Int : IsResult(Divide(a, d), k, a.native, v, o, neg)
  BY <1>3, <1>4, <1>5, <1>11, Result
<1>. QED BY <1>1, <1>5, <1>8, <1>11, <1>12, <1>15, <1>16, <1>17, <1>18

\* The weight of what a quotient may be wrong by.
LEMMA SlackWeight ==
  ASSUME NEW d \in Amounts, NEW j, j = Length[d.value] - Digits,
         NEW o \in Int, NEW f \in Int, NEW ulp \in Int, f =< ulp,
         IF j > 0 THEN o + 1 - j =< ulp ELSE o + 1 =< ulp,
         NEW low \in Int, low =< o, low =< f
  PROVE  LET s == Slack(d) * Ten[ulp - low] IN
         Slack(d) \in Nat /\ Slack(d) > 0 /\ s \in Nat /\ 5 * Ten[o - low] =< s /\ Ten[f - low] =< s
<1>. DEFINE S == Slack(d)
            t == Ten[o - low]
            u == Ten[ulp - low]
<1>1. d.value \in Nat /\ Digits \in Nat BY Members, AmountAssumption
<1>2. j \in Int
  <2>1. Length[d.value] \in Nat BY <1>1, LengthIs
  <2>. QED BY <1>1, <2>1
<1>3. S = IF j > 0 THEN 6 * Ten[j - 1] ELSE 1
  <2>1. Length[d.value] \in Nat BY <1>1, LengthIs
  <2>2. j > 0 <=> Length[d.value] > Digits BY <1>1, <2>1
  <2>3. S = IF Length[d.value] > Digits THEN 6 * Ten[Length[d.value] - Digits - 1] ELSE 1
    BY DEF Slack
  <2>4. j - 1 = Length[d.value] - Digits - 1 OBVIOUS
  <2>. QED BY <2>2, <2>3, <2>4
<1>4. t \in Nat /\ t > 0 /\ u \in Nat /\ u > 0 /\ Ten[f - low] =< u
  <2>1. t \in Nat /\ t > 0 BY UnitType
  <2>2. low =< ulp OBVIOUS
  <2>3. u \in Nat /\ u > 0 BY <2>2, UnitType
  <2>4. Ten[f - low] =< u BY UnitOrder
  <2>. QED BY <2>1, <2>3, <2>4
<1>5. Ten[f - low] \in Nat BY UnitType
<1>. HIDE DEF S
<1>6. CASE j > 0
  <2>. DEFINE i == j - 1
              T == Ten[i]
  <2>1. i \in Nat /\ S = 6 * T BY <1>2, <1>3, <1>6
  <2>2. T \in Nat /\ T > 0 BY <2>1, TenType
  <2>3. t =< T * u
    <3>1. ulp - low \in Nat /\ o - low \in Nat /\ i + (ulp - low) \in Nat
          /\ o - low =< i + (ulp - low)
      BY <1>2, <1>6
    <3>2. Ten[o - low] =< Ten[i + (ulp - low)] BY <3>1, TenOrder
    <3>. HIDE DEF i
    <3>3. Ten[i + (ulp - low)] = Ten[i] * Ten[ulp - low] BY <2>1, <3>1, TenSum
    <3>. QED BY <3>2, <3>3
  <2>. HIDE DEF T, t, u
  <2>4. T * u \in Nat /\ S * u = 6 * (T * u) BY <1>4, <2>1, <2>2
  <2>5. u =< T * u
    <3>1. 1 * u =< T * u BY <1>4, <2>2, MoreTimes
    <3>. QED BY <1>4, <3>1
  <2>6. S \in Nat /\ S > 0 BY <2>1, <2>2
  <2>. QED BY <1>4, <1>5, <2>3, <2>4, <2>5, <2>6 DEF S, t, u
<1>7. CASE ~(j > 0)
  <2>1. S = 1 BY <1>3, <1>7
  <2>2. o < ulp /\ o =< ulp BY <1>7
  <2>3. 10 * Ten[o - low] =< Ten[ulp - low] BY <2>2, UnitOrder
  <2>. HIDE DEF t, u
  <2>4. S * u = u BY <1>4, <2>1
  <2>. QED BY <1>4, <1>5, <2>1, <2>3, <2>4 DEF S, t, u
<1>. QED BY <1>6, <1>7

\* Two numbers in smaller units.
LEMMA Closer ==
  ASSUME NEW A \in Int, NEW B \in Int, NEW E \in Int, NEW t \in Nat, t > 0,
         A * t - B * t =< E * t, B * t - A * t =< E * t
  PROVE  Magnitude(A - B) =< E
<1>1. (A - B) * t = A * t - B * t /\ (B - A) * t = B * t - A * t /\ A - B \in Int /\ B - A \in Int
  OBVIOUS
<1>. DEFINE x == A - B
            y == B - A
<1>2. x \in Int /\ y \in Int /\ x * t =< E * t /\ y * t =< E * t /\ y = -x BY <1>1
<1>. HIDE DEF x, y
<1>3. x =< E /\ y =< E BY <1>2, LessTimes
<1>4. Magnitude(x) =< E BY <1>2, <1>3 DEF Magnitude
<1>. QED BY <1>4 DEF x

\* divide, of canonical amounts that are not zero: a quotient is canonical but for
\* the sign of a native one cut to zero, and times its divisor it is wrong by at
\* most the quotient's last digit, or as many of them as the digits say that a
\* divisor longer than a mantissa costs.
THEOREM QuotientsKeepTheLaw ==
  ASSUME NEW a, NEW d, Canonical(a), Canonical(d), ~IsZero(a), ~IsZero(d)
  PROVE  QuotientLaw(a, d)
<1>. DEFINE m == Widened(a)
            n == Widened(d)
            y == n.value
            X == m.value * Ten[Digits + 1]
            v == X \div y + 5
            o == m.offset - n.offset - (Digits + 1)
            neg == (a.neg # d.neg)
            j == Length[d.value] - Digits
            r == Divide(a, d)
            p == a.offset
            g == d.offset
            h == n.offset
            z == a.value
            e == d.value
            S == Slack(d)
            ulp == Ulp(r)
            f == r.offset
            w == r.value
            c == f + g
            low == IF c < p THEN c ELSE p
<1>1. a \in Amounts /\ d \in Amounts BY Members2
<1>2. p \in Int /\ g \in Int /\ z \in Nat /\ e \in Nat /\ Digits \in Nat
  BY <1>1, Members, AmountAssumption
<1>3. m.value \in Nat /\ m.offset \in Int /\ m.offset =< p /\ m.value = z * Ten[p - m.offset]
  BY Wide
<1>4. y \in Nat /\ h \in Int /\ h =< g /\ y = e * Ten[g - h] BY Wide
<1>5. /\ X \in Nat /\ y \in Nat /\ y > 0
      /\ v \in Nat /\ o \in Int /\ neg \in BOOLEAN /\ j \in Int /\ Length[v] \in Nat
      /\ IF j > 0 THEN Digits + 1 - j =< Length[v] ELSE Digits + 1 =< Length[v]
      /\ \E k \in Int : IsResult(r, k, a.native, v, o, neg)
  BY Divided
<1>6. PICK k \in Int : IsResult(r, k, a.native, v, o, neg) BY <1>5
<1>7. /\ r \in Amounts /\ w = Scaled(v, -k) /\ f = o + k
      /\ Canonical(r) \/ (r.neg /\ IsZero(r))
      /\ ulp \in Int /\ f =< ulp /\ o + (Length[v] - Digits) =< ulp
  BY <1>6 DEF IsResult
<1>8. QuotientLaw(a, d) <=>
        /\ Canonical(r) \/ (r.neg /\ IsZero(r))
        /\ Magnitude(At(z, p, low) - At(w * e, c, low)) <= At(S * e, ulp + g, low)
  BY Zenon DEF QuotientLaw
<1>9. v = X \div y + 5 /\ o + h = m.offset - (Digits + 1) /\ f \in Int /\ w \in Nat
  <2>1. v = X \div y + 5 OBVIOUS
  <2>2. f \in Int /\ w \in Nat BY <1>7, Members
  <2>3. o + h = m.offset - (Digits + 1) BY <1>2, <1>3, <1>4
  <2>. QED BY <2>1, <2>2, <2>3
<1>10. X = m.value * Ten[Digits + 1] /\ c = f + g /\ c \in Int
  <2>1. X = m.value * Ten[Digits + 1] /\ c = f + g OBVIOUS
  <2>2. c \in Int
    <3>. HIDE DEF f, g
    <3>. QED BY <1>2, <1>9
  <2>. QED BY <2>1, <2>2

<1>. SUFFICES Magnitude(At(z, p, low) - At(w * e, c, low)) <= At(S * e, ulp + g, low)
  BY <1>7, <1>8
<1>11. low \in Int /\ low =< p /\ low =< c /\ low =< ulp + g /\ (low = c \/ low = p)
  <2>1. g \in Int /\ p \in Int /\ ulp \in Int /\ f \in Int /\ f =< ulp BY <1>2, <1>7, <1>9
  <2>. HIDE DEF f, g, p, ulp
  <2>. QED BY <2>1
<1>12. S = Slack(d) /\ e = d.value /\ j = Length[d.value] - Digits /\ y = At(e, g, h)
  BY <1>4 DEF At
<1>. HIDE DEF m, n, y, X, v, o, neg, j, r, p, g, h, z, e, S, ulp, f, w, c, low
<1>13. PICK L \in Int : L =< o /\ L =< f BY <1>5, <1>9, BelowBoth
<1>. DEFINE s == S * Ten[ulp - L]
            l == L + h
            W == At(w, f, L)
            Y == X * Ten[o - L]
            t == Ten[low - l]
<1>14. S \in Nat /\ S > 0 /\ s \in Nat /\ 5 * Ten[o - L] =< s /\ Ten[f - L] =< s
  <2>1. IF j > 0 THEN o + 1 - j =< ulp ELSE o + 1 =< ulp BY <1>2, <1>5, <1>7
  <2>. QED BY ZenonT(30), <1>1, <1>5, <1>7, <1>9, <1>12, <1>13, <2>1, SlackWeight
<1>15. W \in Nat /\ Y \in Nat /\ y * W - Y =< y * s /\ Y - y * W =< y * s
  <2>. HIDE DEF s
  <2>1. f = o + k BY <1>7
  <2>2. L =< o + k /\ Ten[(o + k) - L] =< s
    <3>. DEFINE i == o + k
    <3>1. f = i BY <2>1
    <3>. HIDE DEF i
    <3>2. L =< i /\ Ten[i - L] =< s BY <1>13, <1>14, <3>1, Zenon
    <3>. QED BY <3>2 DEF i
  <2>3. IsQuotient(X, y, v, o, k, L, s) BY <1>5, <1>9, <1>13, <1>14, <2>2 DEF IsQuotient
  <2>4. W = At(Scaled(v, -k), o + k, L) BY <1>7
  <2>. QED BY <2>3, <2>4, QuotientDigits
<1>16. l \in Int /\ l =< p /\ l =< low
  <2>1. l =< p BY <1>2, <1>3, <1>4, <1>5, <1>9, <1>13
  <2>2. l =< c BY <1>2, <1>4, <1>9, <1>10, <1>13
  <2>. QED BY <1>4, <1>11, <2>1, <2>2
<1>17. At(z, p, l) = Y
  <2>. DEFINE i == p - m.offset
              q == Digits + 1
              b == o - L
  <2>1. i \in Nat /\ q \in Nat /\ b \in Nat /\ p - l = (i + q) + b /\ i + q \in Nat
    BY <1>2, <1>3, <1>4, <1>5, <1>9, <1>13
  <2>2. Ten[p - l] = (Ten[i] * Ten[q]) * Ten[b]
    <3>. HIDE DEF i, q, b, l
    <3>1. Ten[(i + q) + b] = Ten[i + q] * Ten[b] BY <2>1, TenSum
    <3>2. Ten[i + q] = Ten[i] * Ten[q] BY <2>1, TenSum
    <3>. QED BY <2>1, <3>1, <3>2
  <2>. DEFINE ti == Ten[i]
              tq == Ten[q]
              tb == Ten[b]
  <2>3. ti \in Nat /\ tq \in Nat /\ tb \in Nat BY <2>1, TenType
  <2>4. Y = ((z * ti) * tq) * tb BY <1>3, <1>10
  <2>5. At(z, p, l) = z * ((ti * tq) * tb) BY <2>2 DEF At
  <2>. HIDE DEF ti, tq, tb
  <2>6. z * ((ti * tq) * tb) = ((z * ti) * tq) * tb BY <1>2, <2>3
  <2>. QED BY <2>4, <2>5, <2>6
<1>18. At(w * e, c, l) = y * W
  <2>1. w \in Int /\ e \in Int /\ f \in Int /\ g \in Int /\ h \in Int /\ L =< f /\ h =< g
    BY <1>2, <1>4, <1>9, <1>13
  <2>2. At(w * e, f + g, L + h) = At(w, f, L) * At(e, g, h) BY <2>1, AtTimes
  <2>. HIDE DEF W
  <2>3. W * y = y * W BY <1>5, <1>15
  <2>. QED BY <1>10, <1>12, <2>2, <2>3 DEF W
<1>19. At(S * e, ulp + g, l) = y * s
  <2>1. /\ S \in Int /\ e \in Int /\ ulp \in Int /\ g \in Int /\ L \in Int /\ h \in Int
        /\ L =< ulp /\ h =< g
    BY <1>2, <1>4, <1>7, <1>9, <1>13, <1>14
  <2>2. At(S * e, ulp + g, L + h) = At(S, ulp, L) * At(e, g, h)
    <3>. HIDE DEF S
    <3>. QED BY <2>1, AtTimes
  <2>3. At(S, ulp, L) = s BY DEF At
  <2>. HIDE DEF s
  <2>4. s * y = y * s BY <1>5, <1>14
  <2>. QED BY <1>12, <2>2, <2>3, <2>4
<1>20. t \in Nat /\ t > 0 BY <1>11, <1>16, UnitType
<1>. DEFINE A == At(z, p, low)
            B == At(w * e, c, low)
            E == At(S * e, ulp + g, low)
<1>21. A \in Int /\ At(z, p, l) = A * t
  <2>1. z \in Int /\ p \in Int BY <1>2
  <2>2. A \in Int BY <1>11, <2>1, AtInt
  <2>3. At(z, p, l) = At(z, p, low) * Ten[low - l] BY <1>11, <1>16, <2>1, AtLower
  <2>. QED BY <2>2, <2>3
<1>22. B \in Int /\ At(w * e, c, l) = B * t
  <2>. DEFINE x == w * e
  <2>1. x \in Int BY <1>2, <1>9
  <2>. HIDE DEF x
  <2>2. At(x, c, low) \in Int BY <1>10, <1>11, <2>1, AtInt
  <2>3. At(x, c, l) = At(x, c, low) * t BY <1>10, <1>11, <1>16, <2>1, AtLower
  <2>. QED BY <2>2, <2>3 DEF x
<1>23. E \in Int /\ At(S * e, ulp + g, l) = E * t
  <2>. DEFINE x == S * e
              b == ulp + g
  <2>1. x \in Int /\ b \in Int /\ low =< b BY <1>2, <1>7, <1>11, <1>14
  <2>. HIDE DEF x, b
  <2>2. At(x, b, low) \in Int BY <1>11, <2>1, AtInt
  <2>3. At(x, b, l) = At(x, b, low) * t BY <1>11, <1>16, <2>1, AtLower
  <2>. QED BY <2>2, <2>3 DEF x, b
<1>. HIDE DEF A, B, E, t, Y, W, s, l
<1>24. A * t - B * t =< E * t /\ B * t - A * t =< E * t
  BY <1>15, <1>17, <1>18, <1>19, <1>21, <1>22, <1>23
<1>25. Magnitude(A - B) =< E BY <1>20, <1>21, <1>22, <1>23, <1>24, Closer
<1>. QED BY <1>25 DEF A, B, E

\* A quotient of tokens: it has a full mantissa and, times the divisor, it is
\* close to the dividend.
LEMMA TokenQuotient ==
  ASSUME NEW a, NEW d, Canonical(a), Canonical(d), ~IsZero(a), ~IsZero(d), ~a.native,
         NEW r, r = Divide(a, d)
  PROVE  LET c == r.offset + d.offset IN
         /\ Canonical(r) /\ ~IsZero(r) /\ ~r.native /\ r.value \in ManMin..ManMax
         /\ r.neg = (a.neg # d.neg) /\ Slack(d) \in Nat /\ Slack(d) > 0
         /\ \A l \in Int : l =< a.offset /\ l =< c =>
              Close(a.value, a.offset, r.value * d.value, c, At(Slack(d) * d.value, c, l), l)
<1>. DEFINE v == (Widened(a).value * Ten[Digits + 1]) \div Widened(d).value + 5
            o == Widened(a).offset - Widened(d).offset - (Digits + 1)
            neg == (a.neg # d.neg)
            j == Length[d.value] - Digits
            p == a.offset
            g == d.offset
            z == a.value
            e == d.value
            S == Slack(d)
            f == r.offset
            w == r.value
            c == f + g
            low == IF c < p THEN c ELSE p
<1>1. a \in Amounts /\ d \in Amounts BY Members2
<1>2. p \in Int /\ g \in Int /\ z \in Nat /\ z > 0 /\ e \in Nat /\ e > 0
  BY <1>1, Members
<1>3. /\ neg \in BOOLEAN /\ v \in Nat /\ o \in Int
      /\ \E k \in Int : IsResult(r, k, a.native, v, o, neg)
  BY Divided
<1>4. PICK k \in Int : IsResult(r, k, a.native, v, o, neg) BY <1>3
<1>5. r \in Amounts /\ ~r.native /\ r.neg = neg /\ w \in ManMin..ManMax /\ f = o + k
  BY <1>4 DEF IsResult
<1>6. f \in Int /\ w \in Nat /\ w > 0 BY <1>5, Members, Mantissas
<1>7. IsTokens(r, w, f, neg) BY <1>5 DEF IsTokens
<1>8. Canonical(r) /\ ~IsZero(r)
  <2>. HIDE DEF w, f, neg
  <2>. QED BY <1>3, <1>5, <1>6, <1>7, TokensCanonical
<1>9. Ulp(r) = f BY <1>5 DEF Ulp
<1>10. S \in Nat /\ S > 0
  <2>. DEFINE m == IF o + 1 < o + 1 - j THEN o + 1 - j ELSE o + 1
              u == IF m < f THEN f ELSE m
  <2>1. j \in Int BY <1>2, LengthOf, AmountAssumption
  <2>2. u \in Int /\ f =< u /\ o + 1 =< u /\ o + 1 - j =< u
    <3>. HIDE DEF j, o, f
    <3>. QED BY <1>3, <1>6, <2>1
  <2>3. PICK b \in Int : b =< o /\ b =< f
    <3>. HIDE DEF f, o
    <3>. QED BY <1>3, <1>6, BelowBoth
  <2>. HIDE DEF u, m, f, o
  <2>. QED BY <1>1, <1>3, <1>6, <2>1, <2>2, <2>3, SlackWeight
<1>11. Magnitude(At(z, p, low) - At(w * e, c, low)) =< At(S * e, c, low)
  <2>1. QuotientLaw(a, d) BY QuotientsKeepTheLaw
  <2>2. Magnitude(At(z, p, low) - At(w * e, c, low)) =< At(S * e, Ulp(r) + g, low)
    BY <2>1, Zenon DEF QuotientLaw
  <2>. QED BY <1>9, <2>2, Zenon
<1>. SUFFICES ASSUME NEW l \in Int, l =< p, l =< c PROVE Close(z, p, w * e, c, At(S * e, c, l), l)
  BY <1>5, <1>8, <1>10
<1>. HIDE DEF v, o, j, p, g, z, e, S, f, w
<1>12. c \in Int BY <1>2, <1>6
<1>. HIDE DEF c
<1>13. low \in Int /\ low =< p /\ low =< c /\ l =< low BY <1>2, <1>12
<1>. HIDE DEF low
<1>14. w * e \in Nat /\ S * e \in Nat BY <1>2, <1>6, <1>10
<1>. DEFINE A == At(z, p, low)
            B == At(w * e, c, low)
            E == At(S * e, c, low)
            t == Ten[low - l]
<1>15. t \in Nat /\ t > 0 BY <1>13, UnitType
<1>16. A \in Int /\ At(z, p, l) = A * t /\ At(z, p, l) \in Int
  <2>1. A \in Int BY <1>2, <1>13, AtInt
  <2>2. At(z, p, l) = At(z, p, low) * Ten[low - l] BY <1>2, <1>13, AtLower
  <2>3. At(z, p, l) \in Int BY <1>2, AtInt
  <2>. QED BY <2>1, <2>2, <2>3
<1>17. B \in Int /\ E \in Int
  <2>. DEFINE i == w * e
              k1 == S * e
  <2>. HIDE DEF i, k1
  <2>1. i \in Int /\ k1 \in Int BY <1>14 DEF i, k1
  <2>2. At(i, c, low) \in Int /\ At(k1, c, low) \in Int BY <1>12, <1>13, <2>1, AtInt
  <2>. QED BY <2>2 DEF i, k1
<1>18. At(w * e, c, l) = B * t /\ At(S * e, c, l) = E * t
  <2>. DEFINE i == w * e
              k1 == S * e
  <2>. HIDE DEF i, k1
  <2>1. i \in Int /\ k1 \in Int BY <1>14 DEF i, k1
  <2>2. At(i, c, l) = At(i, c, low) * Ten[low - l] /\ At(k1, c, l) = At(k1, c, low) * Ten[low - l]
    BY <1>12, <1>13, <2>1, AtLower
  <2>. QED BY <2>2 DEF i, k1
<1>19. Magnitude(A * t - B * t) =< E * t
  <2>1. Magnitude(A - B) =< E BY <1>11
  <2>. HIDE DEF A, B, E, t
  <2>2. A - B =< E /\ B - A =< E BY <1>16, <1>17, <2>1 DEF Magnitude
  <2>3. (A - B) * t =< E * t /\ (B - A) * t =< E * t
    <3>1. A - B \in Int /\ B - A \in Int BY <1>16, <1>17
    <3>. QED BY <1>15, <1>17, <2>2, <3>1, MoreTimes
  <2>4. (A - B) * t = A * t - B * t /\ (B - A) * t = B * t - A * t BY <1>15, <1>16, <1>17, Regroup
  <2>5. A * t - B * t =< E * t /\ B * t - A * t =< E * t BY <2>3, <2>4
  <2>6. A * t \in Int /\ B * t \in Int /\ E * t \in Int BY <1>15, <1>16, <1>17
  <2>. QED BY <2>5, <2>6 DEF Magnitude
<1>20. At(z, p, l) \in Nat /\ At(w * e, c, l) \in Nat
  <2>1. Ten[p - l] \in Nat /\ Ten[c - l] \in Nat BY <1>2, <1>12, UnitType
  <2>. QED BY <1>2, <1>14, <2>1 DEF At
<1>21. Magnitude(At(z, p, l) - At(w * e, c, l)) =< At(S * e, c, l)
  BY <1>16, <1>18, <1>19, Zenon
<1>. QED BY <1>20, <1>21 DEF Close

\* A price times its divisor, p, of an amount G, in units in which the last digit
\* of G weighs g, that of the price times the divisor Y and that of p itself u:
\* how wrong p can be.
IsPriced(G, g, S, Y, X, M, p, u) ==
  /\ G \in Nat /\ g \in Nat /\ S \in Nat /\ Y \in Nat /\ X \in Nat /\ M \in Nat
  /\ p \in Nat /\ u \in Nat
  /\ M >= 10 /\ 10 * S =< M /\ G =< 10 * (M * g)
  /\ G - X =< S * Y /\ X - G =< S * Y /\ M * Y =< X
  /\ p - X =< u /\ X - p =< u /\ M * u =< p

LEMMA PriceDigits ==
  ASSUME NEW G, NEW g, NEW S, NEW Y, NEW X, NEW M, NEW p, NEW u, IsPriced(G, g, S, Y, X, M, p, u)
  PROVE  p - G =< g * (12 * S + 13) /\ G - p =< g * (12 * S + 13) /\ u =< 13 * g
<1>1. /\ G \in Nat /\ g \in Nat /\ S \in Nat /\ Y \in Nat /\ X \in Nat /\ M \in Nat
      /\ p \in Nat /\ u \in Nat /\ M >= 10 /\ 10 * S =< M
  BY DEF IsPriced
<1>. DEFINE MY == M * Y
            SY == S * Y
            Mg == M * g
            Mu == M * u
            Sg == S * g
<1>2. MY \in Nat /\ SY \in Nat /\ Mg \in Nat /\ Mu \in Nat /\ Sg \in Nat BY <1>1
<1>3. /\ G =< 10 * Mg /\ G - X =< SY /\ X - G =< SY /\ MY =< X
      /\ p - X =< u /\ X - p =< u /\ Mu =< p
  BY DEF IsPriced
<1>4. 10 * SY =< MY
  <2>1. (10 * S) * Y =< M * Y
    <3>1. 10 * S \in Int BY <1>1
    <3>. DEFINE b == 10 * S
    <3>2. b \in Int /\ b =< M BY <1>1
    <3>. HIDE DEF b
    <3>3. b * Y =< M * Y BY <1>1, <3>2, MoreTimes
    <3>. QED BY <3>3 DEF b
  <2>2. (10 * S) * Y = 10 * (S * Y) BY <1>1
  <2>. QED BY <2>1, <2>2
<1>5. 10 * u =< Mu
  <2>1. 10 * u =< M * u BY <1>1, MoreTimes
  <2>. QED BY <2>1
<1>. HIDE DEF MY, SY, Mg, Mu
<1>6. 9 * X =< 10 * G BY <1>1, <1>2, <1>3, <1>4
<1>7. 9 * MY =< 100 * Mg BY <1>1, <1>2, <1>3, <1>6
<1>8. 9 * p =< 10 * X BY <1>1, <1>2, <1>3, <1>5
<1>9. 81 * Mu =< 1000 * Mg BY <1>1, <1>2, <1>3, <1>6, <1>8
<1>10. 9 * Y =< 100 * g
  <2>. DEFINE i == 9 * Y
              k == 100 * g
  <2>1. i * M = 9 * (M * Y) /\ k * M = 100 * (M * g) /\ i \in Int /\ k \in Int BY <1>1
  <2>2. i * M =< k * M BY <1>7, <2>1 DEF MY, Mg
  <2>. HIDE DEF i, k
  <2>3. i =< k BY <1>1, <2>1, <2>2, LessTimes
  <2>. QED BY <2>3 DEF i, k
<1>11. 81 * u =< 1000 * g
  <2>. DEFINE i == 81 * u
              k == 1000 * g
  <2>1. i * M = 81 * (M * u) /\ k * M = 1000 * (M * g) /\ i \in Int /\ k \in Int BY <1>1
  <2>2. i * M =< k * M BY <1>9, <2>1 DEF Mu, Mg
  <2>. HIDE DEF i, k
  <2>3. i =< k BY <1>1, <2>1, <2>2, LessTimes
  <2>. QED BY <2>3 DEF i, k
<1>12. u =< 13 * g BY <1>1, <1>11
<1>13. SY =< 12 * Sg
  <2>1. Y =< 12 * g /\ 12 * g \in Int BY <1>1, <1>10
  <2>. DEFINE k == 12 * g
  <2>2. S * k = 12 * (S * g) BY <1>1
  <2>3. Y =< k /\ k \in Int BY <2>1
  <2>. HIDE DEF k
  <2>4. S * Y =< S * k BY <1>1, <2>3, MoreTimes
  <2>. QED BY <2>2, <2>4 DEF SY
<1>14. g * (12 * S + 13) = 12 * Sg + 13 * g BY <1>1
<1>. HIDE DEF Sg
<1>15. p - G =< 12 * Sg + 13 * g /\ G - p =< 12 * Sg + 13 * g BY <1>1, <1>2, <1>3, <1>12, <1>13
<1>. QED BY <1>12, <1>14, <1>15

\* A number v and what its price times the divisor makes of it, p, in units small
\* enough.
PriceClose(v, o, p, f, S, l) ==
  /\ l =< o /\ l =< f /\ At(v, o, l) \in Nat /\ At(p, f, l) \in Nat
  /\ At(p, f, l) - At(v, o, l) =< Ten[o - l] * (12 * S + 13)
  /\ At(v, o, l) - At(p, f, l) =< Ten[o - l] * (12 * S + 13)
  /\ Ten[f - l] =< 13 * Ten[o - l]

LEMMA PriceProduct ==
  ASSUME NEW a, NEW d, Canonical(a), Canonical(d), ~IsZero(a), ~IsZero(d), ~a.native,
         10 * Slack(d) =< ManMin, NEW r, r = Multiply(Divide(a, d), d)
  PROVE  /\ r \in Amounts /\ ~r.native /\ r.value \in ManMin..ManMax /\ r.neg = a.neg
         /\ \E B \in Int : \A l \in Int : l =< B =>
              PriceClose(a.value, a.offset, r.value, r.offset, Slack(d), l)
<1>. DEFINE q == Divide(a, d)
            p == a.offset
            z == a.value
            e == d.value
            w == q.value
            c == q.offset + d.offset
            S == Slack(d)
            f == r.offset
            y == r.value
<1>1. a \in Amounts /\ d \in Amounts /\ z \in ManMin..ManMax BY Members2
<1>2. p \in Int /\ z \in Nat /\ e \in Nat /\ e > 0 /\ d.offset \in Int
      /\ a.neg \in BOOLEAN /\ d.neg \in BOOLEAN
  BY <1>1, Members
<1>3. /\ Canonical(q) /\ ~IsZero(q) /\ ~q.native /\ w \in ManMin..ManMax
      /\ q.neg = (a.neg # d.neg) /\ S \in Nat /\ S > 0
      /\ \A l \in Int : l =< p /\ l =< c => Close(z, p, w * e, c, At(S * e, c, l), l)
  BY TokenQuotient
<1>4. /\ r \in Amounts /\ r.native = q.native /\ r.neg = (q.neg # d.neg)
      /\ ~q.native => y \in ManMin..ManMax
      /\ \E B \in Int : \A l \in Int : l =< B => Close(w * e, c, y, f, Ten[Ulp(r) - l], l)
  <2>. HIDE DEF q
  <2>. QED BY <1>3, ProductClose DEF q
<1>5. ~r.native /\ y \in ManMin..ManMax /\ Ulp(r) = f BY <1>3, <1>4 DEF Ulp
<1>6. r.neg = a.neg
  <2>1. r.neg = ((a.neg # d.neg) # d.neg) BY <1>3, <1>4, Zenon
  <2>. DEFINE i == a.neg
              k == d.neg
  <2>2. i \in BOOLEAN /\ k \in BOOLEAN BY <1>2
  <2>. HIDE DEF i, k
  <2>3. ((i # k) # k) = i BY <2>2
  <2>. QED BY <2>1, <2>3 DEF i, k
<1>7. c \in Int /\ f \in Int
  <2>1. q \in Amounts BY <1>3, Members2
  <2>2. q.offset \in Int BY <2>1, Members
  <2>. QED BY <1>2, <1>4, <2>2, Members
<1>8. w \in Nat /\ y \in Nat /\ ManMin \in Nat /\ ManMin >= 10 /\ ManMax = 10 * ManMin - 1
  BY <1>3, <1>5, Mantissas
<1>. SUFFICES \E B \in Int : \A l \in Int : l =< B => PriceClose(z, p, y, f, S, l)
  BY <1>4, <1>5, <1>6
<1>. HIDE DEF p, z, e, w, c, S, f, y
<1>9. PICK b1 \in Int : \A l \in Int : l =< b1 => Close(w * e, c, y, f, Ten[Ulp(r) - l], l) BY <1>4
<1>10. PICK b2 \in Int : b2 =< c /\ b2 =< p BY <1>2, <1>7, BelowBoth
<1>11. PICK b3 \in Int : b3 =< b1 /\ b3 =< b2 BY BelowBoth
<1>12. ASSUME NEW l \in Int, l =< b3 PROVE PriceClose(z, p, y, f, S, l)
  <2>. DEFINE G == At(z, p, l)
              g == Ten[p - l]
              t == Ten[c - l]
              Y == e * t
              x == At(w * e, c, l)
              u == Ten[f - l]
              P == At(y, f, l)
  <2>1. l =< p /\ l =< c /\ l =< b1 BY <1>2, <1>7, <1>10, <1>11, <1>12
  <2>2. Close(z, p, w * e, c, At(S * e, c, l), l) BY <1>3, <2>1
  <2>3. Close(w * e, c, y, f, Ten[f - l], l)
    <3>1. Close(w * e, c, y, f, Ten[Ulp(r) - l], l) BY <1>9, <2>1
    <3>. QED BY <1>5, <3>1
  <2>4. G \in Nat /\ x \in Nat /\ Magnitude(G - x) =< At(S * e, c, l) BY <2>2 DEF Close
  <2>5. l =< f /\ P \in Nat /\ Magnitude(x - P) =< u BY <2>3 DEF Close
  <2>6. g \in Nat /\ t \in Nat /\ u \in Nat /\ g > 0
    BY <1>2, <1>7, <2>1, <2>5, UnitType
  <2>7. At(S * e, c, l) = S * Y /\ x = w * Y /\ Y \in Nat
    <3>1. At(S * e, c, l) = (S * e) * t /\ x = (w * e) * t BY DEF At
    <3>. HIDE DEF x, t
    <3>. QED BY <1>2, <1>3, <1>8, <2>6, <3>1
  <2>8. P = y * u /\ G = z * g BY DEF At
  <2>9. ManMin * Y =< w * Y
    <3>1. ManMin =< w BY <1>3, <1>8
    <3>. HIDE DEF Y
    <3>. QED BY <1>8, <2>7, <3>1, MoreTimes
  <2>10. ManMin * u =< y * u
    <3>1. ManMin =< y BY <1>5, <1>8
    <3>. HIDE DEF u
    <3>. QED BY <1>8, <2>6, <3>1, MoreTimes
  <2>11. z * g =< 10 * (ManMin * g)
    <3>. DEFINE k == 10 * ManMin
    <3>1. z =< k /\ k \in Int /\ k * g = 10 * (ManMin * g) BY <1>1, <1>8, <2>6 DEF z
    <3>. HIDE DEF g, k
    <3>2. z * g =< k * g BY <1>2, <2>6, <3>1, MoreTimes
    <3>. QED BY <3>1, <3>2
  <2>. HIDE DEF G, g, t, Y, x, u, P
  <2>12. G - x =< S * Y /\ x - G =< S * Y
    <3>. DEFINE i == S * Y
    <3>1. i \in Nat /\ Magnitude(G - x) =< i BY <1>3, <2>4, <2>7
    <3>. HIDE DEF i
    <3>2. G - x =< i /\ x - G =< i BY <2>4, <3>1 DEF Magnitude
    <3>. QED BY <3>2 DEF i
  <2>13. P - x =< u /\ x - P =< u BY <2>4, <2>5, <2>6 DEF Magnitude
  <2>14. ManMin * Y =< x /\ ManMin * u =< P /\ G =< 10 * (ManMin * g)
    BY <2>7, <2>8, <2>9, <2>10, <2>11
  <2>15. 10 * S =< ManMin BY DEF S
  <2>16. IsPriced(G, g, S, Y, x, ManMin, P, u)
    BY <1>3, <1>8, <2>4, <2>5, <2>6, <2>7, <2>12, <2>13, <2>14, <2>15 DEF IsPriced
  <2>17. P - G =< g * (12 * S + 13) /\ G - P =< g * (12 * S + 13) /\ u =< 13 * g
    BY <2>16, PriceDigits
  <2>. QED BY <2>1, <2>4, <2>5, <2>17 DEF PriceClose, G, P, g, u
<1>. QED BY <1>12

\* How far an amount is from another of its sign, at a lower offset.
LEMMA OffSame ==
  ASSUME NEW a \in Amounts, NEW r \in Amounts, r.neg = a.neg,
         NEW low \in Int, low =< a.offset, low =< r.offset, NEW n \in Nat,
         At(r.value, r.offset, low) - At(a.value, a.offset, low) =< Ten[a.offset - low] * n,
         At(a.value, a.offset, low) - At(r.value, r.offset, low) =< Ten[a.offset - low] * n
  PROVE  Off(r, Signed(a), a.offset) =< At(n, a.offset, Common(r, a.offset))
<1>. DEFINE x == Signed(a)
            e == a.value
            o == a.offset
            f == r.offset
            c == Common(r, o)
            g == Ten[o - low]
            A == At(e, o, low)
            B == At(r.value, f, low)
<1>1. e \in Nat /\ o \in Int /\ f \in Int /\ x \in Int /\ r.value \in Nat
  BY Members
<1>2. x = IF r.neg THEN -e ELSE e
  <2>1. x = IF a.neg THEN -e ELSE e BY Members
  <2>. HIDE DEF x, e
  <2>. QED BY <2>1, Zenon
<1>3. low =< o /\ low =< f /\ c = IF f < o THEN f ELSE o BY DEF Common
<1>4. A \in Int /\ B \in Int /\ g \in Nat
  <2>. DEFINE y == r.value
  <2>1. y \in Int /\ e \in Int BY <1>1
  <2>2. low =< o /\ low =< f BY <1>3
  <2>. HIDE DEF y, e, o, f
  <2>3. At(e, o, low) \in Int BY <1>1, <2>1, <2>2, AtInt
  <2>4. At(y, f, low) \in Int BY <1>1, <2>1, <2>2, AtInt
  <2>5. g \in Nat BY <1>1, <2>2, UnitType
  <2>6. B \in Int BY <2>4 DEF y
  <2>. QED BY <2>3, <2>5, <2>6
<1>5. B - A =< g * n /\ A - B =< g * n OBVIOUS
<1>. HIDE DEF x, e, o, f, c, A, B, g
<1>6. Magnitude(A - B) =< n * g
  <2>. DEFINE i == g * n
  <2>1. i \in Int /\ i = n * g /\ B - A =< i /\ A - B =< i BY <1>4, <1>5
  <2>. HIDE DEF i
  <2>2. Magnitude(A - B) =< i BY <1>4, <2>1 DEF Magnitude
  <2>. QED BY <2>1, <2>2
<1>7. Magnitude(At(x, o, low) - At(Signed(r), f, low)) = Magnitude(A - B)
  BY SMTT(30), <1>1, <1>2, <1>3, SignedDifference DEF A, B, f
<1>8. Magnitude(At(x, o, low) - At(Signed(r), f, low)) =< n * Ten[o - low]
  BY <1>6, <1>7 DEF g
<1>9. c =< o BY <1>1, <1>3
<1>10. Off(r, x, o) =< n * Ten[o - c] BY <1>1, <1>3, <1>8, <1>9, OffBound DEF c, f
<1>. QED BY <1>10 DEF At, x, o, c

\* A product of whole numbers of units that counts in drops.
InUnits(G, P, u, a, R, U, N) ==
  /\ a \in Nat /\ R \in Nat /\ U \in Nat /\ U > 0 /\ N \in Nat /\ P \in Nat /\ u \in Nat
  /\ G \in Nat
  /\ P - U * a * G =< U * G * N /\ U * a * G - P =< U * G * N /\ u =< 13 * (U * G)
  /\ U * R =< P /\ P < U * R + U * u

LEMMA UnitsCut ==
  ASSUME NEW G, NEW P, NEW u, NEW a, NEW R, NEW U, NEW N, InUnits(G, P, u, a, R, U, N)
  PROVE  /\ R - a * G =< G * (N + 13 * U)
         /\ a * G - R =< G * (N + 13 * U)
<1>1. /\ a \in Nat /\ R \in Nat /\ U \in Nat /\ U > 0 /\ N \in Nat /\ P \in Nat /\ u \in Nat
      /\ G \in Nat
  BY DEF InUnits
<1>. DEFINE A == a * G
            GN == G * N
            UG == U * G
            UA == U * A
            UR == U * R
            UGN == U * GN
            Uu == U * u
<1>2. A \in Nat /\ GN \in Nat /\ UG \in Nat /\ UA \in Nat /\ UR \in Nat /\ UGN \in Nat /\ Uu \in Nat
  BY <1>1
<1>3. U * a * G = UA /\ U * G * N = UGN BY <1>1
<1>4. P - UA =< UGN /\ UA - P =< UGN /\ u =< 13 * UG /\ UR =< P /\ P < UR + Uu
  BY <1>3 DEF InUnits
<1>. HIDE DEF A, GN, UG, UA, UR, UGN, Uu
<1>5. UR - UA =< UGN /\ UA - UR < UGN + Uu BY <1>1, <1>2, <1>4
<1>6. R - A =< GN
  <2>1. U * R - U * A =< U * GN BY <1>5 DEF UR, UA, UGN
  <2>. QED BY <1>1, <1>2, <2>1, Cancel
<1>7. A - R < GN + u
  <2>1. (A - R) * U < (GN + u) * U
    <3>1. UA - UR < UGN + Uu BY <1>5
    <3>2. (A - R) * U = UA - UR BY <1>1, <1>2 DEF UA, UR
    <3>3. (GN + u) * U = UGN + Uu BY <1>1, <1>2 DEF UGN, Uu
    <3>. QED BY <3>1, <3>2, <3>3
  <2>. DEFINE i == A - R
              k == GN + u
  <2>2. i \in Int /\ k \in Int /\ i * U < k * U BY <1>1, <1>2, <2>1
  <2>. HIDE DEF i, k
  <2>3. i < k BY <1>1, <2>2, LessTimes
  <2>. QED BY <2>3 DEF i, k
<1>8. G * (N + 13 * U) = GN + 13 * UG BY <1>1 DEF GN, UG
<1>9. R - A =< GN + 13 * UG /\ A - R =< GN + 13 * UG BY <1>1, <1>2, <1>4, <1>6, <1>7
<1>. QED BY <1>8, <1>9 DEF A

\* Tokens counted in units of a native amount.
LEMMA TokensInUnits ==
  ASSUME NEW a, Canonical(a), ~IsZero(a), ~a.native,
         NEW b, b = Canonicalize([Clone(a, FALSE) EXCEPT !.value = @ * Unit])
  PROVE  /\ IsTokens(b, a.value, a.offset + UnitDigits, a.neg)
         /\ Canonical(b) /\ ~IsZero(b)
<1>. DEFINE v == a.value
            o == a.offset
            n == a.neg
            w == v * Unit
            s == [Clone(a, FALSE) EXCEPT !.value = @ * Unit]
            i == Digits - 1
            k == Length[w] - Digits
<1>1. a \in Amounts /\ v \in ManMin..ManMax BY Members2
<1>2. v \in Nat /\ v > 0 /\ o \in Int /\ n \in BOOLEAN BY <1>1, Members, Mantissas
<1>3. UnitDigits \in Nat /\ Unit = Ten[UnitDigits] /\ Unit \in Nat /\ Unit > 0 /\ i \in Nat
  BY AmountAssumption, TenType DEF Unit
<1>4. w \in Nat /\ w > 0
  <2>. HIDE DEF v
  <2>. QED BY <1>2, <1>3
<1>5. IsTokens(s, w, o, n)
  <2>1. s = [a EXCEPT !.value = @ * Unit] BY CloneSame
  <2>. HIDE DEF s
  <2>. QED BY <1>1, <1>4, <2>1 DEF IsTokens, Amounts
<1>6. Length[w] = (i + UnitDigits) + 1
  <2>1. Ten[i] =< v /\ v < Ten[i + 1]
    <3>1. ManMin \in Nat /\ ManMax = 10 * ManMin - 1 /\ ManMin = Ten[i] BY Mantissas DEF ManMin
    <3>2. Ten[i + 1] = 10 * Ten[i] BY <1>3, TenIs
    <3>. QED BY <1>1, <3>1, <3>2
  <2>2. Ten[i] \in Nat /\ Ten[i + 1] \in Nat BY <1>3, TenType
  <2>3. Ten[i + UnitDigits] = Ten[i] * Unit
    <3>. HIDE DEF i
    <3>. QED BY <1>3, TenSum
  <2>4. Ten[(i + 1) + UnitDigits] = Ten[i + 1] * Unit
    <3>. DEFINE h == i + 1
    <3>1. h \in Nat BY <1>3
    <3>. HIDE DEF h
    <3>2. Ten[h + UnitDigits] = Ten[h] * Unit BY <1>3, <3>1, TenSum
    <3>. QED BY <3>2 DEF h
  <2>. DEFINE t == Ten[i]
              h == Ten[i + 1]
  <2>5. t * Unit =< w /\ w < h * Unit
    <3>1. t \in Nat /\ h \in Nat /\ t =< v /\ v < h BY <2>1, <2>2
    <3>. HIDE DEF t, h, v
    <3>. QED BY <1>2, <1>3, <3>1, LessTimes
  <2>6. i + UnitDigits \in Nat /\ (i + 1) + UnitDigits = (i + UnitDigits) + 1 BY <1>3
  <2>. DEFINE j == i + UnitDigits
  <2>7. j \in Nat /\ Ten[j] =< w /\ w < Ten[j + 1] BY <2>3, <2>4, <2>5, <2>6
  <2>. HIDE DEF j, w
  <2>8. Length[w] = j + 1 BY <1>4, <2>7, HasLength
  <2>. QED BY <2>8 DEF j
<1>. HIDE DEF w, s
<1>7. k = UnitDigits /\ k \in Nat BY <1>3, <1>6, AmountAssumption
<1>8. IsTokens(Canonicalize(s), Scaled(w, -k), o + k, n)
  <2>. HIDE DEF v, o, n
  <2>. QED BY <1>2, <1>4, <1>5, CanonicalTokens
<1>. HIDE DEF k
<1>9. Scaled(w, -k) = v
  <2>. DEFINE y == Scaled(w, -k)
  <2>1. y \in Nat /\ Ten[k] * y =< w /\ w < Ten[k] * y + Ten[k] BY <1>4, <1>7, ScaledDown
  <2>2. w = v * Unit /\ Ten[k] = Unit BY <1>3, <1>7 DEF w
  <2>. HIDE DEF y, v
  <2>3. y * Unit =< v * Unit /\ v * Unit < (y + 1) * Unit
    <3>1. Unit * y = y * Unit /\ (y + 1) * Unit = Unit * y + Unit BY <1>3, <2>1
    <3>. QED BY <2>1, <2>2, <3>1
  <2>4. y =< v BY <1>2, <1>3, <2>1, <2>3, LessTimes
  <2>5. v < y + 1
    <3>. DEFINE h == y + 1
    <3>1. h \in Int /\ v * Unit < h * Unit BY <2>1, <2>3
    <3>. HIDE DEF h
    <3>2. v < h BY <1>2, <1>3, <3>1, LessTimes
    <3>. QED BY <3>2 DEF h
  <2>6. y = v BY <1>2, <2>1, <2>4, <2>5
  <2>. QED BY <2>6 DEF y
<1>10. b = Canonicalize(s) BY DEF s
<1>11. IsTokens(b, v, o + UnitDigits, n) BY <1>7, <1>8, <1>9, <1>10
<1>12. o + UnitDigits \in Int
  <2>. HIDE DEF o
  <2>. QED BY <1>2, <1>3
<1>13. Canonical(b) /\ ~IsZero(b)
  <2>. DEFINE h == o + UnitDigits
  <2>1. h \in Int /\ IsTokens(b, v, h, n) BY <1>11, <1>12
  <2>. HIDE DEF h, v, n
  <2>. QED BY <1>1, <1>2, <2>1, TokensCanonical
<1>. QED BY <1>11, <1>13

\* Tokens counted in drops of whole units.
LEMMA TokensInDrops ==
  ASSUME NEW a \in Amounts, ~a.native, a.value \in ManMin..ManMax,
         NEW b, b = Canonicalize([a EXCEPT !.value = @ \div Unit])
  PROVE  LET x == a.value \div Unit IN
         /\ x \in Nat /\ Unit * x =< a.value /\ a.value < Unit * x + Unit
         /\ IsTokens(b, x * Unit, a.offset - UnitDigits, a.neg)
<1>. DEFINE v == a.value
            o == a.offset
            n == a.neg
            w == v \div Unit
            s == [a EXCEPT !.value = @ \div Unit]
            i == Digits - 1 - UnitDigits
            k == Length[w] - Digits
<1>2. v \in Nat /\ v > 0 /\ o \in Int /\ n \in BOOLEAN BY Members, Mantissas
<1>3. UnitDigits \in Nat /\ Unit = Ten[UnitDigits] /\ Unit \in Nat /\ Unit > 0 /\ i \in Nat
      /\ Digits \in Nat
  BY AmountAssumption, TenType DEF Unit
<1>4. w \in Nat /\ Unit * w =< v /\ v < Unit * w + Unit
  <2>. HIDE DEF v
  <2>. QED BY <1>2, <1>3, Quotients
<1>5. IsTokens(s, w, o, n) BY <1>4 DEF IsTokens, Amounts
<1>6. Ten[i] =< w /\ w < Ten[i + 1]
  <2>1. Ten[i] * Unit =< v /\ v < Ten[i + 1] * Unit
    <3>1. ManMin \in Nat /\ ManMax = 10 * ManMin - 1 /\ ManMin = Ten[Digits - 1]
      BY Mantissas DEF ManMin
    <3>2. Ten[i + UnitDigits] = Ten[i] * Unit /\ Digits - 1 = i + UnitDigits
      <4>1. Digits - 1 = i + UnitDigits BY <1>3
      <4>. HIDE DEF i
      <4>. QED BY <1>3, <4>1, TenSum
    <3>3. Ten[i + 1] = 10 * Ten[i] /\ Ten[i] \in Nat BY <1>3, TenIs, TenType
    <3>. DEFINE t == Ten[i]
    <3>4. ManMin = t * Unit /\ Ten[i + 1] = 10 * t /\ t \in Nat BY <3>1, <3>2, <3>3
    <3>. HIDE DEF t
    <3>5. (10 * t) * Unit = 10 * (t * Unit) BY <1>3, <3>4
    <3>6. v >= ManMin /\ v =< ManMax OBVIOUS
    <3>7. t * Unit =< v /\ v < 10 * (t * Unit) BY <3>1, <3>4, <3>6
    <3>. QED BY <3>4, <3>5, <3>7 DEF t
  <2>2. Ten[i] \in Nat /\ Ten[i + 1] \in Nat BY <1>3, TenType
  <2>. DEFINE t == Ten[i]
              h == Ten[i + 1]
  <2>3. t \in Nat /\ h \in Nat /\ t * Unit =< v /\ v < h * Unit BY <2>1, <2>2
  <2>. HIDE DEF t, h, w, v
  <2>4. Unit * w = w * Unit /\ Unit * w + Unit = (w + 1) * Unit BY <1>3, <1>4
  <2>5. t * Unit < (w + 1) * Unit /\ w * Unit < h * Unit
    <3>1. t * Unit \in Int /\ w * Unit \in Int /\ (w + 1) * Unit \in Int /\ h * Unit \in Int
      BY <1>3, <1>4, <2>3
    <3>. QED BY <1>2, <1>4, <2>3, <2>4, <3>1
  <2>6. w < h BY <1>3, <1>4, <2>3, <2>5, LessTimes
  <2>7. t < w + 1
    <3>. DEFINE y == w + 1
    <3>1. y \in Int /\ t * Unit < y * Unit BY <1>4, <2>5
    <3>. HIDE DEF y
    <3>2. t < y BY <1>3, <2>3, <3>1, LessTimes
    <3>. QED BY <3>2 DEF y
  <2>8. t =< w BY <1>4, <2>3, <2>7
  <2>. QED BY <2>6, <2>8 DEF t, h
<1>. HIDE DEF w, s
<1>7. w > 0
  <2>1. Ten[i] \in Nat /\ Ten[i] > 0 BY <1>3, TenType
  <2>. HIDE DEF i
  <2>. QED BY <1>4, <1>6, <2>1
<1>8. k = -UnitDigits
  <2>1. Length[w] = i + 1
    <3>. HIDE DEF i
    <3>. QED BY <1>3, <1>4, <1>6, HasLength
  <2>. QED BY <1>3, <2>1
<1>9. IsTokens(Canonicalize(s), Scaled(w, -k), o + k, n)
  <2>. HIDE DEF v, o, n
  <2>. QED BY <1>2, <1>4, <1>5, <1>7, CanonicalTokens
<1>. HIDE DEF k
<1>10. Scaled(w, -k) = w * Unit
  <2>1. -k = UnitDigits BY <1>3, <1>8
  <2>. QED BY <1>3, <1>4, <2>1, ScaledUp
<1>11. o + k = o - UnitDigits
  <2>. HIDE DEF o
  <2>. QED BY <1>2, <1>3, <1>8
<1>12. b = Canonicalize(s) BY DEF s
<1>13. IsTokens(b, w * Unit, o - UnitDigits, n) BY <1>9, <1>10, <1>11, <1>12
<1>. QED BY <1>4, <1>13 DEF w

LEMMA PriceOfTokens ==
  ASSUME NEW a, NEW d, Canonical(a), Canonical(d), ~IsZero(a), ~IsZero(d), ~a.native, ~d.native,
         10 * Slack(d) =< ManMin, NEW r, r = Multiply(Divide(a, d), d)
  PROVE  Off(r, Signed(a), a.offset) =< At(12 * Slack(d) + 13, a.offset, Common(r, a.offset))
<1>. DEFINE S == Slack(d)
            n == 12 * S + 13
            p == a.offset
            f == r.offset
            A(l) == At(a.value, p, l)
            R(l) == At(r.value, f, l)
<1>1. a \in Amounts /\ S \in Nat BY Members2, TokenQuotient
<1>2. /\ r \in Amounts /\ r.neg = a.neg
      /\ \E B \in Int : \A l \in Int : l =< B => PriceClose(a.value, p, r.value, f, S, l)
  BY PriceProduct
<1>. HIDE DEF S
<1>3. n \in Nat BY <1>1
<1>4. PICK B \in Int : \A l \in Int : l =< B => PriceClose(a.value, p, r.value, f, S, l) BY <1>2
<1>5. PriceClose(a.value, p, r.value, f, S, B)
  <2>1. B =< B OBVIOUS
  <2>. QED BY <1>4, <2>1
<1>6. B =< p /\ B =< f /\ R(B) - A(B) =< Ten[p - B] * n /\ A(B) - R(B) =< Ten[p - B] * n
  BY <1>5 DEF PriceClose
<1>. HIDE DEF n
<1>7. Off(r, Signed(a), a.offset) =< At(n, a.offset, Common(r, a.offset))
  BY <1>1, <1>2, <1>3, <1>6, OffSame
<1>. QED BY <1>7 DEF n, S

LEMMA PriceOfNative ==
  ASSUME NEW a, NEW d, Canonical(a), Canonical(d), ~IsZero(a), ~IsZero(d), ~a.native,
         10 * Slack(d) =< ManMin,
         NEW b, b = Canonicalize([Clone(a, FALSE) EXCEPT !.value = @ * Unit]),
         NEW q, q = Multiply(Divide(b, d), d),
         NEW r, r = Canonicalize([q EXCEPT !.value = @ \div Unit])
  PROVE  Off(r, Signed(a), a.offset)
           =< At(12 * Slack(d) + 13 * (Unit + 1), a.offset, Common(r, a.offset))
<1>. DEFINE S == Slack(d)
            n == 12 * S + 13 * (Unit + 1)
            N == 12 * S + 13
            z == a.value
            p == a.offset
            y == q.value
            f == q.offset
            x == y \div Unit
            e == f - UnitDigits
            o == p + UnitDigits
<1>1. a \in Amounts /\ z \in Nat /\ p \in Int
  <2>1. a \in Amounts BY Members2
  <2>. QED BY <2>1, Members
<1>2. UnitDigits \in Nat /\ Unit = Ten[UnitDigits] /\ Unit \in Nat /\ Unit > 0
  BY AmountAssumption, TenType DEF Unit
<1>3. IsTokens(b, z, o, a.neg) /\ Canonical(b) /\ ~IsZero(b) BY TokensInUnits
<1>4. ~b.native /\ b.value = z /\ b.offset = o /\ b.neg = a.neg BY <1>3 DEF IsTokens
<1>5. /\ q \in Amounts /\ ~q.native /\ y \in ManMin..ManMax /\ q.neg = b.neg
      /\ \E B \in Int : \A l \in Int : l =< B => PriceClose(b.value, b.offset, y, f, S, l)
  BY <1>3, <1>4, PriceProduct
<1>6. S \in Nat BY <1>3, <1>4, TokenQuotient
<1>7. /\ x \in Nat /\ Unit * x =< y /\ y < Unit * x + Unit
      /\ IsTokens(r, x * Unit, e, q.neg)
  BY <1>5, TokensInDrops
<1>8. r \in Amounts /\ r.value = x * Unit /\ r.offset = e /\ r.neg = a.neg
  BY <1>4, <1>5, <1>7 DEF IsTokens
<1>9. y \in Nat /\ f \in Int BY <1>5, Members
<1>10. PICK B \in Int : \A l \in Int : l =< B => PriceClose(z, o, y, f, S, l) BY <1>4, <1>5
<1>. HIDE DEF S, z, p, y, f, x
<1>11. e \in Int /\ o \in Int BY <1>1, <1>2, <1>9
<1>. HIDE DEF e, o
<1>12. PICK b2 \in Int : b2 =< e /\ b2 =< p BY <1>1, <1>11, BelowBoth
<1>13. PICK l \in Int : l =< B /\ l =< b2 BY BelowBoth
<1>14. PriceClose(z, o, y, f, S, l) BY <1>10, <1>13
<1>15. l =< p /\ l =< e /\ l =< o /\ l =< f
  <2>1. l =< p /\ l =< e BY <1>1, <1>11, <1>12, <1>13
  <2>. QED BY <1>1, <1>2, <1>9, <2>1 DEF e, o
<1>. DEFINE G == Ten[p - l]
            P == At(y, f, l)
            u == Ten[f - l]
            R == x * u
<1>16. G \in Nat /\ u \in Nat BY <1>1, <1>9, <1>15, UnitType
<1>17. Ten[o - l] = Unit * G
  <2>. DEFINE i == p - l
  <2>1. i \in Nat /\ o - l = UnitDigits + i BY <1>1, <1>2, <1>15 DEF o
  <2>. HIDE DEF i
  <2>2. Ten[UnitDigits + i] = Ten[UnitDigits] * Ten[i] BY <1>2, <2>1, TenSum
  <2>. QED BY <1>2, <2>1, <2>2 DEF i
<1>18. u = Unit * Ten[e - l] /\ Ten[e - l] \in Nat
  <2>. DEFINE i == e - l
  <2>1. i \in Nat /\ f - l = UnitDigits + i BY <1>2, <1>9, <1>11, <1>15 DEF e
  <2>. HIDE DEF i
  <2>2. Ten[UnitDigits + i] = Ten[UnitDigits] * Ten[i] BY <1>2, <2>1, TenSum
  <2>3. Ten[i] \in Nat BY <2>1, TenType
  <2>. QED BY <1>2, <2>1, <2>2, <2>3 DEF i
<1>19. At(x * Unit, e, l) = R
  <2>. DEFINE t == Ten[e - l]
  <2>1. t \in Nat /\ u = Unit * t BY <1>18
  <2>. HIDE DEF t, u
  <2>2. (x * Unit) * t = x * u BY <1>2, <1>7, <2>1
  <2>. QED BY <2>2 DEF At, t
<1>20. R \in Nat /\ Unit * R =< P /\ P < Unit * R + Unit * u /\ P \in Nat
  <2>1. P = y * u BY DEF At
  <2>. DEFINE i == Unit * x
              k == Unit * x + Unit
  <2>2. i \in Int /\ k \in Int /\ i =< y /\ y < k /\ i * u = Unit * (x * u)
        /\ k * u = Unit * (x * u) + Unit * u
    <3>1. i \in Int /\ k \in Int /\ i =< y /\ y < k BY <1>2, <1>7
    <3>. HIDE DEF u
    <3>2. i * u = Unit * (x * u) /\ k * u = Unit * (x * u) + Unit * u BY <1>2, <1>7, <1>16
    <3>. QED BY <3>1, <3>2
  <2>3. u > 0 BY <1>9, <1>15, UnitType
  <2>. HIDE DEF i, k, u, P
  <2>4. i * u =< y * u /\ y * u < k * u BY <1>9, <1>16, <2>2, <2>3, LessTimes
  <2>5. R \in Nat /\ y * u \in Nat BY <1>7, <1>9, <1>16
  <2>. QED BY <2>1, <2>2, <2>4, <2>5
<1>21. InUnits(G, P, u, z, R, Unit, N)
  <2>1. At(z, o, l) = Unit * z * G
    <3>1. At(z, o, l) = z * (Unit * G) BY <1>17 DEF At
    <3>. HIDE DEF G
    <3>2. z * (Unit * G) = Unit * z * G BY <1>1, <1>2, <1>16
    <3>. QED BY <3>1, <3>2
  <2>2. /\ P - At(z, o, l) =< Ten[o - l] * N
        /\ At(z, o, l) - P =< Ten[o - l] * N
        /\ u =< 13 * Ten[o - l]
    BY <1>14 DEF PriceClose
  <2>3. N \in Nat BY <1>6
  <2>. HIDE DEF G, P, u, R, N
  <2>. QED BY <1>1, <1>2, <1>16, <1>17, <1>20, <2>1, <2>2, <2>3 DEF InUnits
<1>22. R - z * G =< G * (N + 13 * Unit) /\ z * G - R =< G * (N + 13 * Unit)
  <2>. HIDE DEF G, P, u, R, N
  <2>. QED BY <1>21, UnitsCut
<1>23. n \in Nat /\ N + 13 * Unit = n BY <1>2, <1>6
<1>24. At(r.value, r.offset, l) = R /\ At(a.value, a.offset, l) = z * G
  <2>1. At(z, p, l) = z * G BY DEF At
  <2>. HIDE DEF R, G
  <2>. QED BY <1>8, <1>19, <2>1 DEF z, p
<1>25. /\ At(r.value, r.offset, l) - At(a.value, a.offset, l) =< Ten[a.offset - l] * n
       /\ At(a.value, a.offset, l) - At(r.value, r.offset, l) =< Ten[a.offset - l] * n
  <2>. HIDE DEF R, n, N
  <2>. QED BY <1>22, <1>23, <1>24 DEF p, G
<1>26. l =< a.offset /\ l =< r.offset BY <1>8, <1>15 DEF p
<1>. HIDE DEF n
<1>27. Off(r, Signed(a), a.offset) =< At(n, a.offset, Common(r, a.offset))
  BY <1>1, <1>8, <1>23, <1>25, <1>26, OffSame
<1>. QED BY <1>27 DEF n, S

\* RatioHuman and ProductHuman, of canonical amounts that are not zero: an amount
\* divided by another for a price and multiplied with it again is wrong by a few
\* of its last digit, the digits of a unit more if the other amount counts in
\* drops; unless the divisor is so long that nearly all digits are gone.
THEOREM PricesKeepTheLaw ==
  ASSUME NEW a, NEW d, Canonical(a), Canonical(d), ~IsZero(a), ~IsZero(d), ~a.native
  PROVE  PriceLaw(a, d)
<1>. DEFINE r == ProductHuman(RatioHuman(a, d), d)
            n == 12 * Slack(d) + 13 * (IF d.native THEN Unit + 1 ELSE 1)
<1>1. SUFFICES ASSUME 10 * Slack(d) =< ManMin
               PROVE  Off(r, Signed(a), a.offset) =< At(n, a.offset, Common(r, a.offset))
  BY Zenon DEF PriceLaw
<1>2. CASE d.native
  <2>. DEFINE b == Canonicalize([Clone(a, FALSE) EXCEPT !.value = @ * Unit])
              q == Multiply(Divide(b, d), d)
  <2>1. RatioHuman(a, d) = Divide(b, d) BY <1>2, Zenon DEF RatioHuman
  <2>2. r = Canonicalize([q EXCEPT !.value = @ \div Unit])
    BY <1>2, <2>1, Zenon DEF ProductHuman
  <2>3. n = 12 * Slack(d) + 13 * (Unit + 1) BY <1>2, Zenon
  <2>. HIDE DEF b, r, n
  <2>4. Off(r, Signed(a), a.offset)
          =< At(12 * Slack(d) + 13 * (Unit + 1), a.offset, Common(r, a.offset))
    BY <1>1, <2>2, PriceOfNative DEF b
  <2>. QED BY <2>3, <2>4
<1>3. CASE ~d.native
  <2>1. RatioHuman(a, d) = Divide(a, d) BY <1>3, Zenon DEF RatioHuman
  <2>2. r = Multiply(Divide(a, d), d) BY <1>3, <2>1, Zenon DEF ProductHuman
  <2>3. n = 12 * Slack(d) + 13
    <3>1. n = 12 * Slack(d) + 13 * 1 BY <1>3, Zenon
    <3>. QED BY <3>1
  <2>. HIDE DEF r, n
  <2>4. Off(r, Signed(a), a.offset) =< At(12 * Slack(d) + 13, a.offset, Common(r, a.offset))
    BY <1>1, <1>3, <2>2, PriceOfTokens
  <2>. QED BY <2>3, <2>4
<1>. QED BY <1>2, <1>3

\* The reciprocal of a mantissa m: V of T / m, all but k digits of it kept as w.
IsInverse(m, T, V, K, w, t) ==
  /\ m \in Nat /\ m > 0 /\ V \in Nat /\ V = T \div m /\ T \in Nat /\ T = t * K
  /\ t \in Nat /\ K \in Nat /\ K > 0 /\ w \in Nat /\ K * w =< V /\ V < K * w + K

LEMMA InverseDigits ==
  ASSUME NEW m, NEW T, NEW V, NEW K, NEW w, NEW t, IsInverse(m, T, V, K, w, t)
  PROVE  Magnitude(t - m * w) =< m
<1>1. /\ m \in Nat /\ m > 0 /\ V \in Nat /\ T \in Nat /\ T = t * K
      /\ t \in Nat /\ K \in Nat /\ K > 0 /\ w \in Nat /\ K * w =< V /\ V < K * w + K
  BY DEF IsInverse
<1>2. m * V =< T /\ T < m * V + m
  <2>1. V = T \div m BY DEF IsInverse
  <2>. QED BY <1>1, <2>1, Quotients
<1>. DEFINE mw == m * w
            mV == m * V
            mwK == m * (K * w)
            mK == m * K
<1>3. mw \in Nat /\ mV \in Nat /\ mwK \in Nat /\ mK \in Nat BY <1>1
<1>4. mwK =< mV
  <2>. DEFINE i == K * w
  <2>1. i \in Int /\ i =< V BY <1>1
  <2>. HIDE DEF i
  <2>2. m * i =< m * V BY <1>1, <2>1, MoreTimes
  <2>. QED BY <2>2 DEF i
<1>5. mV + m =< mwK + mK
  <2>. DEFINE i == V + 1
              k == K * w + K
  <2>1. i \in Int /\ k \in Int /\ i =< k
    <3>. DEFINE h == K * w
    <3>1. h \in Int /\ V < h + K BY <1>1
    <3>2. i = V + 1 /\ k = h + K OBVIOUS
    <3>. HIDE DEF h, i, k
    <3>. QED BY <1>1, <3>1, <3>2
  <2>2. m * i = m * V + m /\ m * k = m * (K * w) + m * K
    <3>. HIDE DEF mw, mV
    <3>. QED BY <1>1
  <2>. HIDE DEF i, k
  <2>3. m * i =< m * k BY <1>1, <2>1, MoreTimes
  <2>. QED BY <2>2, <2>3
<1>6. mwK = mw * K /\ mwK + mK = (mw + m) * K
  <2>1. m * (K * w) = (m * w) * K /\ m * (K * w) + m * K = (m * w + m) * K BY <1>1
  <2>. QED BY <2>1
<1>. HIDE DEF mw, mV, mwK, mK
<1>7. mw * K =< t * K /\ t * K < (mw + m) * K
  <2>1. mw * K =< T BY <1>1, <1>2, <1>3, <1>4, <1>6 DEF mV
  <2>2. T < (mw + m) * K
    <3>1. T < mV + m BY <1>2 DEF mV
    <3>2. T < mwK + mK BY <1>1, <1>3, <1>5, <3>1
    <3>. QED BY <1>6, <3>2
  <2>. QED BY <1>1, <2>1, <2>2
<1>8. mw =< t BY <1>1, <1>3, <1>7, LessTimes
<1>9. t < mw + m
  <2>. DEFINE i == mw + m
  <2>1. i \in Int /\ t * K < i * K BY <1>1, <1>3, <1>7
  <2>. HIDE DEF i
  <2>2. t < i BY <1>1, <2>1, LessTimes
  <2>. QED BY <2>2 DEF i
<1>10. Magnitude(t - mw) =< m BY <1>1, <1>3, <1>8, <1>9 DEF Magnitude
<1>. QED BY <1>10 DEF mw

\* The reciprocal of a full mantissa has one or two digits more than one.
LEMMA InverseLength ==
  ASSUME NEW v \in ManMin..ManMax, NEW w, w = Ten[2 * Digits] \div v
  PROVE  /\ w \in Nat /\ w > 0 /\ Length[w] \in Nat
         /\ Digits < Length[w] /\ Length[w] =< Digits + 2
<1>. DEFINE D == Digits
            T == Ten[2 * D]
            t == Ten[D]
            i == D - 1
<1>1. D \in Nat /\ i \in Nat /\ 2 * D \in Nat /\ D = i + 1 /\ 2 * D = D + D /\ 2 * D = i + (D + 1)
  BY AmountAssumption
<1>2. v \in Nat /\ v > 0 /\ ManMin =< v /\ v < t /\ ManMin \in Nat /\ ManMin > 0
  <2>1. ManMin \in Nat /\ ManMin >= 10 /\ ManMax = 10 * ManMin - 1 /\ t = 10 * ManMin
    BY Mantissas
  <2>. QED BY <2>1
<1>3. T \in Nat /\ t \in Nat /\ t > 0 BY <1>1, TenType
<1>4. T = t * t /\ T = ManMin * Ten[D + 1]
  <2>. HIDE DEF i
  <2>1. Ten[D + D] = Ten[D] * Ten[D] BY <1>1, TenSum
  <2>2. Ten[i + (D + 1)] = Ten[i] * Ten[D + 1]
    <3>. DEFINE j == D + 1
    <3>1. j \in Nat BY <1>1
    <3>. HIDE DEF j
    <3>2. Ten[i + j] = Ten[i] * Ten[j] BY <1>1, <3>1, TenSum
    <3>. QED BY <3>2 DEF j
  <2>3. ManMin = Ten[i] BY DEF ManMin, i
  <2>. QED BY <1>1, <2>1, <2>2, <2>3
<1>5. w \in Nat /\ v * w =< T /\ T < v * w + v
  <2>1. w = T \div v OBVIOUS
  <2>. HIDE DEF T
  <2>. QED BY <1>2, <1>3, <2>1, Quotients
<1>. DEFINE u == Ten[D + 1]
<1>6. u \in Nat /\ u < Ten[D + 2] /\ D + 2 \in Nat /\ Ten[D + 2] \in Nat
  <2>. DEFINE j == D + 1
  <2>1. j \in Nat /\ D + 2 = j + 1 BY <1>1
  <2>. HIDE DEF j
  <2>2. Ten[j] \in Nat /\ Ten[j] > 0 /\ Ten[j + 1] = 10 * Ten[j] BY <2>1, TenIs, TenType
  <2>. QED BY <2>1, <2>2 DEF j
<1>. HIDE DEF D, T, t, i, u
<1>7. t =< w
  <2>1. t * v < (w + 1) * v
    <3>1. t * v =< t * t BY <1>2, <1>3, MoreTimes
    <3>2. (w + 1) * v = v * w + v BY <1>2, <1>5
    <3>3. t * v \in Int /\ v * w \in Int BY <1>2, <1>3, <1>5
    <3>. QED BY <1>2, <1>3, <1>4, <1>5, <3>1, <3>2, <3>3
  <2>. DEFINE h == w + 1
  <2>2. h \in Int /\ t * v < h * v BY <1>5, <2>1
  <2>. HIDE DEF h
  <2>3. t < h BY <1>2, <1>3, <2>2, LessTimes
  <2>. QED BY <1>3, <1>5, <2>3 DEF h
<1>8. w =< u
  <2>1. ManMin * w =< v * w BY <1>2, <1>5, MoreTimes
  <2>2. w * ManMin =< u * ManMin
    <3>1. w * ManMin = ManMin * w /\ u * ManMin = ManMin * u BY <1>2, <1>5, <1>6
    <3>2. ManMin * w \in Int /\ v * w \in Int BY <1>2, <1>5
    <3>. QED BY <1>3, <1>4, <1>5, <2>1, <3>1, <3>2 DEF u
  <2>. QED BY <1>2, <1>5, <1>6, <2>2, LessTimes
<1>9. w > 0 /\ Ten[D] =< w /\ w < Ten[D + 2]
  <2>1. w > 0 /\ t =< w BY <1>3, <1>5, <1>7
  <2>2. w < Ten[D + 2] BY <1>5, <1>6, <1>8
  <2>. QED BY <2>1, <2>2 DEF t
<1>10. D < Length[w]
  BY <1>1, <1>5, <1>9, LengthOrder
<1>11. Length[w] =< D + 2
  <2>. DEFINE j == D + 2
  <2>1. j \in Nat /\ w < Ten[j] BY <1>6, <1>9
  <2>. HIDE DEF j
  <2>2. Length[w] =< j BY <1>5, <1>9, <2>1, LengthOrder
  <2>. QED BY <2>2 DEF j
<1>12. Length[w] \in Nat BY <1>5, LengthIs
<1>. QED BY <1>5, <1>9, <1>10, <1>11, <1>12 DEF D

\* parse_quality, of a full mantissa: read either way the price is canonical, and
\* read inverted it is the reciprocal, wrong by at most its last digit.
THEOREM QualitiesKeepTheLaw ==
  ASSUME NEW a, Canonical(a), ~IsZero(a), ~a.native, NEW base \in BOOLEAN
  PROVE  QualityLaw(a, base)
<1>. DEFINE D == Digits
            v == a.value
            g == a.offset
            p == FromQuality(v, g, FALSE, base, FALSE, FALSE)
            q == FromQuality(v, g, FALSE, base, TRUE, FALSE)
            o == g + q.offset + (IF base THEN -UnitDigits ELSE 0)
            i == IF ~base THEN g ELSE g + UnitDigits
            j == IF ~base THEN g ELSE g - UnitDigits
            T == Ten[2 * D]
            V == T \div v
            k == Length[V] - D
            e == -2 * D - j
            w == Scaled(V, -k)
            t == Ten[2 * D - k]
            K == Ten[k]
<1>1. a \in Amounts /\ v \in ManMin..ManMax BY Members2
<1>2. v \in Nat /\ v > 0 /\ g \in Int /\ D \in Nat /\ UnitDigits \in Nat /\ D >= 2
  BY <1>1, Members, Mantissas, AmountAssumption
<1>3. i \in Int /\ j \in Int
  <2>. HIDE DEF g
  <2>. QED BY <1>2
<1>4. p = Canonicalize(Amt(FALSE, v, i, FALSE)) BY Zenon DEF FromQuality
<1>5. q = Canonicalize(Amt(FALSE, V, e, FALSE))
  <2>. DEFINE b == Amt(FALSE, v, j, FALSE)
  <2>1. q = Inverted(b) BY Zenon DEF FromQuality
  <2>2. b.native = FALSE /\ b.value = v /\ b.offset = j /\ b.neg = FALSE BY DEF Amt
  <2>. HIDE DEF b, q, j, v
  <2>3. Inverted(b) = Canonicalize(Amt(FALSE, T \div v, -2 * D - j, FALSE))
    BY <2>2, Zenon DEF Inverted
  <2>. QED BY <2>1, <2>3
<1>6. /\ V \in Nat /\ V > 0 /\ Length[V] \in Nat /\ D < Length[V] /\ Length[V] =< D + 2
  <2>. HIDE DEF v
  <2>. QED BY <1>1, InverseLength
<1>7. QualityLaw(a, base) <=>
        /\ Canonical(p) /\ Canonical(q)
        /\ Magnitude(Ten[-o] - v * q.value) =< v
  BY Zenon DEF QualityLaw
<1>8. o = g + q.offset + (IF base THEN -UnitDigits ELSE 0) /\ w = Scaled(V, -k) OBVIOUS
<1>9. V = T \div v /\ k = Length[V] - D OBVIOUS
<1>. SUFFICES Canonical(p) /\ Canonical(q) /\ Magnitude(Ten[-o] - v * q.value) =< v
  BY <1>7
<1>. HIDE DEF v, p, q, o, i, V, w
<1>10. Canonical(p)
  <2>. DEFINE b == Amt(FALSE, v, i, FALSE)
              h == Length[v] - D
              y == Scaled(v, -h)
  <2>1. IsTokens(b, v, i, FALSE) BY <1>2, <1>3, Made
  <2>2. p = Canonicalize(b) BY <1>4
  <2>. HIDE DEF b
  <2>3. h \in Int /\ y \in ManMin..ManMax /\ IsTokens(p, y, i + h, FALSE)
    BY <1>2, <1>3, <2>1, <2>2, CanonicalTokens
  <2>4. i + h \in Int
    <3>. HIDE DEF h
    <3>. QED BY <1>3, <2>3
  <2>. DEFINE f == i + h
  <2>5. f \in Int /\ IsTokens(p, y, f, FALSE) BY <2>3, <2>4
  <2>. HIDE DEF y, f
  <2>. QED BY <2>3, <2>5, TokensCanonical
<1>11. e \in Int
  <2>. HIDE DEF j
  <2>. QED BY <1>2, <1>3
<1>12. k \in 1..2 /\ 2 * D - k \in Nat BY <1>2, <1>6
<1>. DEFINE f == e + k
<1>13. f \in Int
  <2>. HIDE DEF e, k
  <2>. QED BY <1>11, <1>12
<1>14. w \in ManMin..ManMax /\ IsTokens(q, w, f, FALSE)
  <2>. DEFINE b == Amt(FALSE, V, e, FALSE)
  <2>. HIDE DEF e
  <2>1. IsTokens(b, V, e, FALSE) BY <1>6, <1>11, Made
  <2>2. q = Canonicalize(b) BY <1>5
  <2>. HIDE DEF b
  <2>3. Scaled(V, -k) \in ManMin..ManMax /\ IsTokens(q, Scaled(V, -k), e + k, FALSE)
    BY <1>6, <1>9, <1>11, <2>1, <2>2, CanonicalTokens
  <2>. QED BY <2>3 DEF w
<1>15. Canonical(q)
  <2>. HIDE DEF f
  <2>. QED BY <1>13, <1>14, TokensCanonical
<1>16. q.value = w /\ q.offset = f BY <1>14 DEF IsTokens
<1>17. -o = 2 * D - k
  <2>1. g + f + (IF base THEN -UnitDigits ELSE 0) = k - 2 * D
    <3>. HIDE DEF g, k
    <3>. QED BY <1>2, <1>12
  <2>2. o = k - 2 * D BY <1>8, <1>16, <2>1
  <2>. HIDE DEF k
  <2>. QED BY <1>2, <1>12, <2>2
<1>18. w \in Nat /\ K * w =< V /\ V < K * w + K
  <2>. HIDE DEF k
  <2>. DEFINE y == Scaled(V, -k)
  <2>1. k \in Nat BY <1>12
  <2>2. y \in Nat /\ Ten[k] * y =< V /\ V < Ten[k] * y + Ten[k] BY <1>6, <2>1, ScaledDown
  <2>3. w = y BY DEF w
  <2>. HIDE DEF y
  <2>. QED BY <2>2, <2>3
<1>19. T = t * K /\ T \in Nat /\ t \in Nat /\ K \in Nat /\ K > 0
  <2>. DEFINE h == 2 * D - k
  <2>. HIDE DEF k
  <2>1. h \in Nat /\ k \in Nat /\ 2 * D = h + k BY <1>2, <1>12
  <2>. HIDE DEF h
  <2>2. Ten[h + k] = Ten[h] * Ten[k] BY <2>1, TenSum
  <2>3. Ten[h] \in Nat /\ Ten[k] \in Nat /\ Ten[k] > 0 BY <2>1, TenType
  <2>4. Ten[h] * Ten[k] \in Nat BY <2>3
  <2>. QED BY <2>1, <2>2, <2>3, <2>4 DEF h
<1>20. IsInverse(v, T, V, K, w, t)
  <2>. HIDE DEF T, t, K
  <2>. QED BY <1>2, <1>6, <1>9, <1>18, <1>19 DEF IsInverse
<1>21. Magnitude(t - v * w) =< v BY <1>20, InverseDigits
<1>22. Magnitude(Ten[-o] - v * q.value) =< v
  <2>. HIDE DEF k
  <2>. QED BY <1>16, <1>17, <1>21
<1>. QED BY <1>10, <1>15, <1>22

-----------------------------------------------------------------------------
(* What an application can work out: zeros apart, canonical amounts.         *)

Sound(a) == a \in Amounts /\ (IsZero(a) \/ Canonical(a))

LEMMA SoundCanonical ==
  ASSUME NEW a \in Amounts
  PROVE  Sound(Canonicalize(a))
<1>. DEFINE v == a.value
            o == a.offset
            n == a.neg
            r == Canonicalize(a)
<1>1. v \in Nat /\ o \in Int /\ n \in BOOLEAN /\ (IsZero(a) <=> v = 0) /\ a.native \in BOOLEAN
  BY Members
<1>2. CASE v = 0
  <2>1. a.native => IsNative(a, 0, o, n) BY <1>2 DEF IsNative
  <2>2. ~a.native => IsTokens(a, 0, o, n) BY <1>2 DEF IsTokens
  <2>. HIDE DEF o, n, r, v
  <2>3. a.native => IsNative(r, 0, 0, FALSE) BY <1>1, <2>1, CanonicalZero DEF r
  <2>4. ~a.native => IsTokens(r, 0, -100, FALSE) BY <1>1, <2>2, CanonicalZero DEF r
  <2>5. r \in Amounts /\ r.value = 0 BY <2>3, <2>4 DEF IsTokens, IsNative
  <2>. QED BY <1>1, <1>2, <2>5 DEF Sound, IsZero, r
<1>3. CASE v > 0 /\ a.native
  <2>1. IsNative(a, v, o, n) BY <1>3 DEF IsNative
  <2>. DEFINE w == Scaled(v, o)
  <2>. HIDE DEF v, o, n, r
  <2>2. w \in Nat /\ IsNative(r, w, 0, n) BY <1>1, <1>3, <2>1, CanonicalNative DEF r
  <2>. HIDE DEF w
  <2>3. r \in Amounts /\ r.native /\ r.value = w BY <2>2 DEF IsNative
  <2>4. w = 0 => IsZero(r) BY <2>3 DEF IsZero
  <2>5. w # 0 => Canonical(r) BY <1>1, <2>2, NativeCanonical
  <2>. QED BY <2>3, <2>4, <2>5 DEF Sound, r
<1>4. CASE v > 0 /\ ~a.native
  <2>1. IsTokens(a, v, o, n) BY <1>4 DEF IsTokens
  <2>. DEFINE k == Length[v] - Digits
              w == Scaled(v, -k)
              f == o + k
  <2>. HIDE DEF v, o, n, r
  <2>2. k \in Int /\ w \in ManMin..ManMax /\ IsTokens(r, w, o + k, n)
    BY <1>1, <1>4, <2>1, CanonicalTokens DEF r
  <2>3. f \in Int
    <3>. HIDE DEF k
    <3>. QED BY <1>1, <2>2
  <2>4. IsTokens(r, w, f, n) BY <2>2
  <2>. HIDE DEF w, f
  <2>5. Canonical(r) BY <1>1, <2>2, <2>3, <2>4, TokensCanonical
  <2>. QED BY <1>4, <2>4, <2>5 DEF Sound, IsTokens, r
<1>. QED BY <1>1, <1>2, <1>3, <1>4

LEMMA SoundSum ==
  ASSUME NEW a, NEW b, Sound(a), Canonical(b), Valid(Add(a, b))
  PROVE  Sound(Add(a, b))
<1>1. a \in Amounts /\ b \in Amounts BY Members2 DEF Sound
<1>2. a.native = b.native
  <2>1. ~Valid(NaN) BY DEF Valid, NaN, Amt
  <2>2. IsComparable(a, b) BY <2>1, Zenon DEF Add
  <2>. QED BY <2>2 DEF IsComparable
<1>3. IsComparable(a, b) BY <1>1, <1>2, Comparable
<1>4. CASE IsZero(b)
  <2>1. Add(a, b) = a BY <1>3, <1>4, Zenon DEF Add
  <2>. QED BY <2>1
<1>5. CASE IsZero(a) /\ ~IsZero(b)
  <2>1. Add(a, b) = [Clone(b, FALSE) EXCEPT !.native = a.native] BY <1>3, <1>5, Zenon DEF Add
  <2>2. Clone(b, FALSE) = b BY CloneSame
  <2>3. [b EXCEPT !.native = b.native] = b BY <1>1 DEF Amounts
  <2>4. Add(a, b) = b BY <1>2, <2>1, <2>2, <2>3
  <2>. QED BY <1>1, <2>4 DEF Sound
<1>6. CASE ~IsZero(a) /\ ~IsZero(b)
  <2>1. Canonical(a) BY <1>6 DEF Sound
  <2>2. SumLaw(a, b) BY <1>2, <2>1, SumsKeepTheLaw
  <2>3. Canonical(Add(a, b)) BY <2>2, Zenon DEF SumLaw
  <2>. QED BY <2>3, Members2 DEF Sound
<1>. QED BY <1>4, <1>5, <1>6

LEMMA SoundDifference ==
  ASSUME NEW a, NEW b, Sound(a), Canonical(b), Valid(Subtract(a, b))
  PROVE  Sound(Subtract(a, b))
<1>. DEFINE c == Negate(b)
<1>1. Canonical(c) BY Negated
<1>2. Subtract(a, b) = Add(a, c) BY DEF Subtract
<1>. HIDE DEF c
<1>. QED BY <1>1, <1>2, SoundSum

LEMMA SoundProduct ==
  ASSUME NEW a, NEW b, Sound(a), Canonical(b)
  PROVE  Sound(Multiply(a, b))
<1>1. a \in Amounts /\ b \in Amounts BY Members2 DEF Sound
<1>2. CASE IsZero(a)
  <2>1. Multiply(a, b) = a BY <1>2, Zenon DEF Multiply
  <2>. QED BY <2>1
<1>3. CASE ~IsZero(a) /\ IsZero(b)
  <2>1. Multiply(a, b) = [Clone(a, FALSE) EXCEPT !.value = 0] BY <1>3, Zenon DEF Multiply
  <2>2. Canonical(a) BY <1>3 DEF Sound
  <2>3. Clone(a, FALSE) = a BY <2>2, CloneSame
  <2>4. [a EXCEPT !.value = 0] \in Amounts /\ [a EXCEPT !.value = 0].value = 0
    BY <1>1 DEF Amounts
  <2>. QED BY <2>1, <2>3, <2>4 DEF Sound, IsZero
<1>4. CASE ~IsZero(a) /\ ~IsZero(b)
  <2>1. Canonical(a) BY <1>4 DEF Sound
  <2>. DEFINE r == Multiply(a, b)
  <2>2. r \in Amounts /\ (Canonical(r) \/ (r.neg /\ IsZero(r))) BY <1>4, <2>1, ProductClose
  <2>. QED BY <2>2 DEF Sound
<1>. QED BY <1>2, <1>3, <1>4

LEMMA SoundQuotient ==
  ASSUME NEW a, NEW d, Sound(a), Canonical(d), ~IsZero(d)
  PROVE  Sound(Divide(a, d))
<1>1. CASE IsZero(a)
  <2>1. Divide(a, d) = a BY <1>1, Zenon DEF Divide
  <2>. QED BY <2>1
<1>2. CASE ~IsZero(a)
  <2>1. Canonical(a) BY <1>2 DEF Sound
  <2>. DEFINE r == Divide(a, d)
              v == (Widened(a).value * Ten[Digits + 1]) \div Widened(d).value + 5
              o == Widened(a).offset - Widened(d).offset - (Digits + 1)
              neg == (a.neg # d.neg)
  <2>2. \E k \in Int : IsResult(r, k, a.native, v, o, neg) BY <1>2, <2>1, Divided
  <2>3. r \in Amounts BY <2>2 DEF IsResult
  <2>4. QuotientLaw(a, d) BY <1>2, <2>1, QuotientsKeepTheLaw
  <2>5. Canonical(r) \/ (r.neg /\ IsZero(r)) BY <2>4, Zenon DEF QuotientLaw
  <2>. QED BY <2>3, <2>5 DEF Sound
<1>. QED BY <1>1, <1>2

LEMMA SoundPrice ==
  ASSUME NEW a, NEW d, Sound(a), Canonical(d), ~IsZero(d)
  PROVE  Sound(RatioHuman(a, d))
<1>1. CASE d.native
  <2>. DEFINE s == [Clone(a, FALSE) EXCEPT !.value = @ * Unit]
              b == Canonicalize(s)
  <2>1. RatioHuman(a, d) = Divide(b, d) BY <1>1, Zenon DEF RatioHuman
  <2>2. Unit \in Nat BY TenType, AmountAssumption DEF Unit
  <2>3. s \in Amounts
    <3>1. a \in Amounts BY DEF Sound
    <3>2. a.value \in Nat /\ a.neg \in BOOLEAN BY <3>1, Members
    <3>3. a.value * Unit \in Nat BY <2>2, <3>2
    <3>. QED BY <3>1, <3>2, <3>3 DEF Clone, Amounts
  <2>. HIDE DEF s
  <2>4. Sound(b) BY <2>3, SoundCanonical
  <2>. HIDE DEF b
  <2>. QED BY <2>1, <2>4, SoundQuotient
<1>2. CASE ~d.native
  <2>1. RatioHuman(a, d) = Divide(a, d) BY <1>2, Zenon DEF RatioHuman
  <2>. QED BY <2>1, SoundQuotient
<1>. QED BY <1>1, <1>2

LEMMA SoundCost ==
  ASSUME NEW a, NEW f, Sound(a), Canonical(f)
  PROVE  Sound(ProductHuman(a, f))
<1>. DEFINE p == Multiply(a, f)
<1>1. Sound(p) BY SoundProduct
<1>2. CASE f.native
  <2>. DEFINE s == [p EXCEPT !.value = @ \div Unit]
  <2>1. ProductHuman(a, f) = Canonicalize(s) BY <1>2, Zenon DEF ProductHuman
  <2>2. Unit \in Nat /\ Unit > 0 BY TenType, AmountAssumption DEF Unit
  <2>. HIDE DEF p
  <2>3. p \in Amounts BY <1>1 DEF Sound
  <2>. DEFINE v == p.value
  <2>4. v \in Nat BY <2>3, Members
  <2>5. v \div Unit \in Nat
    <3>. HIDE DEF v
    <3>. QED BY <2>2, <2>4, Quotients
  <2>6. s \in Amounts BY <2>3, <2>5 DEF Amounts
  <2>. QED BY <2>1, <2>6, SoundCanonical
<1>3. CASE ~f.native
  <2>1. ProductHuman(a, f) = p BY <1>3, Zenon DEF ProductHuman
  <2>. QED BY <1>1, <2>1
<1>. QED BY <1>2, <1>3

LEMMA SoundInverse ==
  ASSUME NEW a, Sound(a), ~IsZero(a)
  PROVE  Sound(Invert(a))
<1>1. a \in Amounts /\ Canonical(a) BY DEF Sound
<1>2. a.native \in BOOLEAN BY <1>1, Members
<1>. DEFINE i == Amt(a.native, 1, 0, FALSE)
<1>3. i \in Amounts BY <1>2 DEF Amt, Amounts
<1>4. Sound(One(a)) BY <1>3, SoundCanonical DEF One
<1>. QED BY <1>1, <1>4, SoundPrice DEF Invert

-----------------------------------------------------------------------------
(* Texts.                                                                    *)

Texts == [neg : BOOLEAN, int : Nat, places : Nat, frac : Nat, exp : Int, dot : BOOLEAN]

LEMMA Remainders ==
  ASSUME NEW v \in Nat, NEW n \in Nat, n > 0
  PROVE  /\ v \div n \in Nat /\ v % n \in Nat /\ v % n < n
         /\ v = n * (v \div n) + (v % n)
OBVIOUS

\* Zeros at the end of a fraction there are at most as many as places.
LEMMA SomeZeros ==
  ASSUME NEW places \in Nat, NEW frac \in Nat
  PROVE  \E k \in 0..places : frac % Ten[k] = 0 /\ (k < places => frac % Ten[k + 1] # 0)
<1>. DEFINE I == {k \in 0..places : k < places => frac % Ten[k + 1] # 0}
<1>1. I \subseteq Nat /\ places \in I OBVIOUS
<1>2. PICK m \in I : \A i \in I : m =< i
  <2>. HIDE DEF I
  <2>. QED BY <1>1, LeastNumber
<1>3. frac % Ten[m] = 0
  <2>1. CASE m = 0
    <3>1. Ten[m] = 1 BY <2>1, TenIs
    <3>. QED BY <3>1
  <2>2. CASE m > 0
    <3>. DEFINE j == m - 1
    <3>1. j \in 0..places /\ j < m /\ j + 1 = m /\ j < places BY <2>2
    <3>2. j \notin I
      <4>. HIDE DEF j, I
      <4>. QED BY <1>1, <1>2, <3>1
    <3>. HIDE DEF j
    <3>. QED BY <3>1, <3>2
  <2>. QED BY <2>1, <2>2
<1>. QED BY <1>2, <1>3

\* t is a text of int and frac, the last z of its places left out.
IsTrimmed(t, neg, int, places, frac, z) ==
  /\ t \in Texts /\ t.neg = neg /\ t.int = int /\ t.exp = 0
  /\ z \in 0..places /\ t.places = places - z /\ t.dot = (places > z)
  /\ t.frac * Ten[z] = frac

LEMMA TrimmedIs ==
  ASSUME NEW neg \in BOOLEAN, NEW int \in Nat, NEW places \in Nat, NEW frac \in Nat,
         NEW t, t = Trimmed(neg, int, places, frac)
  PROVE  \E z \in 0..places : IsTrimmed(t, neg, int, places, frac, z)
<1>. DEFINE P(k) == frac % Ten[k] = 0 /\ (k < places => frac % Ten[k + 1] # 0)
            z == CHOOSE k \in 0..places : P(k)
            f == frac \div Ten[z]
<1>1. \E k \in 0..places : P(k) BY SomeZeros
<1>2. z \in 0..places /\ P(z)
  <2>. HIDE DEF P
  <2>. QED BY <1>1
<1>3. t = Numeral(neg, int, places - z, f, 0, places > z) BY Zenon DEF Trimmed
<1>. HIDE DEF z
<1>4. z \in Nat /\ places - z \in Nat BY <1>2
<1>5. Ten[z] \in Nat /\ Ten[z] > 0 BY <1>4, TenType
<1>6. f \in Nat /\ f * Ten[z] = frac
  <2>. DEFINE n == Ten[z]
  <2>1. n \in Nat /\ n > 0 /\ frac % n = 0 BY <1>2, <1>5
  <2>. HIDE DEF n
  <2>2. frac \div n \in Nat /\ frac = n * (frac \div n) + (frac % n) BY <2>1, Remainders
  <2>3. (frac \div n) * n = frac BY <2>1, <2>2
  <2>. QED BY <2>2, <2>3 DEF n
<1>. HIDE DEF f
<1>7. /\ t \in Texts /\ t.neg = neg /\ t.int = int /\ t.exp = 0
      /\ t.places = places - z /\ t.dot = (places > z) /\ t.frac = f
  BY <1>3, <1>4, <1>6 DEF Numeral, Texts
<1>8. IsTrimmed(t, neg, int, places, frac, z) BY <1>2, <1>6, <1>7 DEF IsTrimmed
<1>. QED BY <1>2, <1>8

LEMMA TrimmedValue ==
  ASSUME NEW t, NEW neg, NEW int \in Nat, NEW places \in Nat, NEW frac \in Nat, NEW z,
         IsTrimmed(t, neg, int, places, frac, z)
  PROVE  LET v == t.int * Ten[t.places] + t.frac IN
         /\ v \in Nat /\ z \in Nat /\ t.places = places - z /\ t.exp = 0 /\ t.neg = neg
         /\ t.frac \in Nat
         /\ v * Ten[z] = int * Ten[places] + frac
<1>. DEFINE f == t.frac
            p == t.places
            c == Ten[p]
            d == Ten[z]
<1>1. /\ t.int = int /\ z \in Nat /\ p = places - z /\ p \in Nat /\ f \in Nat /\ f * d = frac
      /\ t.exp = 0 /\ t.neg = neg
  BY DEF IsTrimmed, Texts
<1>2. c \in Nat /\ d \in Nat BY <1>1, TenType
<1>3. Ten[places] = c * d
  <2>1. places = p + z BY <1>1
  <2>. HIDE DEF p
  <2>. QED BY <1>1, <2>1, TenSum
<1>. HIDE DEF f, p, c, d
<1>4. int * c + f \in Nat BY <1>1, <1>2
<1>5. (int * c + f) * d = int * (c * d) + f * d BY <1>1, <1>2
<1>. QED BY <1>1, <1>3, <1>4, <1>5 DEF f, p, c, d

\* A mantissa is the same tokens, written with or without its last zeros.
IsMantissa(x, f, z, v, o) ==
  /\ x \in Nat /\ z \in Nat /\ x * Ten[z] = v /\ f \in Int /\ o \in Int /\ f - z = o
  /\ v \in ManMin..ManMax

LEMMA MantissaRead ==
  ASSUME NEW n \in BOOLEAN, NEW x, NEW f, NEW z, NEW v, NEW o, IsMantissa(x, f, z, v, o)
  PROVE  IsTokens(Canonicalize(Amt(FALSE, x, f, n)), v, o, n)
<1>. DEFINE t == Ten[z]
            D == Digits
            i == D - 1 - z
            k == Length[x] - D
            a == Amt(FALSE, x, f, n)
            r == Canonicalize(a)
<1>0. /\ x \in Nat /\ z \in Nat /\ x * Ten[z] = v /\ f \in Int /\ o \in Int /\ f - z = o
      /\ v \in ManMin..ManMax
  BY DEF IsMantissa
<1>1. t \in Nat /\ t > 0 /\ x * t = v BY <1>0, TenType
<1>2. /\ v \in Nat /\ v > 0 /\ D \in Nat /\ D - 1 \in Nat
      /\ Ten[D - 1] =< v /\ v < Ten[D] /\ Ten[D] \in Nat
  <2>1. /\ ManMin \in Nat /\ ManMin >= 10 /\ ManMax = 10 * ManMin - 1 /\ Ten[D] = 10 * ManMin
        /\ ManMin = Ten[D - 1]
    BY Mantissas DEF ManMin
  <2>. QED BY <1>0, <2>1, AmountAssumption
<1>. HIDE DEF t
<1>3. x > 0
  <2>1. x = 0 => x * t = 0 BY <1>1
  <2>. QED BY <1>0, <1>1, <1>2, <2>1
<1>4. z < D
  <2>. SUFFICES ASSUME D =< z PROVE FALSE BY <1>0, <1>2
  <2>1. Ten[D] =< t BY <1>0, <1>2, TenOrder DEF t
  <2>2. 1 * t =< x * t BY <1>0, <1>1, <1>3, MoreTimes
  <2>. QED BY <1>0, <1>1, <1>2, <2>1, <2>2
<1>5. i \in Nat /\ D - 1 = i + z /\ D = (i + 1) + z /\ i + 1 \in Nat BY <1>0, <1>2, <1>4
<1>6. Ten[i] =< x /\ x < Ten[i + 1]
  <2>. DEFINE u == Ten[i]
              w == Ten[i + 1]
  <2>1. u \in Nat /\ w \in Nat BY <1>5, TenType
  <2>2. Ten[D - 1] = u * t
    <3>. HIDE DEF i
    <3>1. Ten[i + z] = Ten[i] * Ten[z] BY <1>0, <1>5, TenSum
    <3>. QED BY <1>5, <3>1 DEF t
  <2>3. Ten[D] = w * t
    <3>. DEFINE j == i + 1
    <3>1. j \in Nat /\ D = j + z BY <1>5
    <3>. HIDE DEF j, D
    <3>2. Ten[j + z] = Ten[j] * Ten[z] BY <1>0, <3>1, TenSum
    <3>. QED BY <3>1, <3>2 DEF t, j
  <2>4. u * t =< x * t /\ x * t < w * t BY <1>1, <1>2, <2>2, <2>3
  <2>. HIDE DEF u, w
  <2>5. u =< x /\ x < w BY <1>0, <1>1, <2>1, <2>4, LessTimes
  <2>. QED BY <2>5 DEF u, w
<1>7. k = -z
  <2>1. Length[x] = i + 1
    <3>. HIDE DEF i
    <3>. QED BY <1>0, <1>5, <1>6, HasLength
  <2>. QED BY <1>0, <1>2, <2>1
<1>8. IsTokens(a, x, f, n) BY <1>0, Made
<1>. HIDE DEF a, k
<1>9. IsTokens(r, Scaled(x, -k), f + k, n) BY <1>0, <1>3, <1>8, CanonicalTokens DEF k
<1>10. Scaled(x, -k) = v /\ f + k = o
  <2>1. -k = z BY <1>0, <1>7
  <2>2. Scaled(x, z) = x * Ten[z] BY <1>0, ScaledUp
  <2>3. f + k = f - z BY <1>0, <1>7
  <2>. QED BY <1>0, <1>1, <2>1, <2>2, <2>3 DEF t
<1>. QED BY <1>9, <1>10 DEF r, a

\* A whole number, with an exponent.
IsIntegral(t, neg, int, exp) ==
  /\ t \in Texts /\ t.neg = neg /\ t.int = int /\ t.places = 0 /\ t.frac = 0
  /\ t.exp = exp /\ t.dot = FALSE

LEMMA IntegralIs ==
  \A neg \in BOOLEAN, int \in Nat, exp \in Int :
    IsIntegral(Integral(neg, int, exp), neg, int, exp)
BY DEF IsIntegral, Integral, Numeral, Texts

LEMMA IntegralRead ==
  \A neg \in BOOLEAN, int \in Nat, exp \in Int :
    ParseValue(Integral(neg, int, exp)) = Canonicalize(Amt(FALSE, int, exp, neg))
<1>. TAKE neg \in BOOLEAN, int \in Nat, exp \in Int
<1>. DEFINE t == Integral(neg, int, exp)
<1>1. IsIntegral(t, neg, int, exp) BY IntegralIs
<1>. HIDE DEF t
<1>2. t.neg = neg /\ t.int = int /\ t.places = 0 /\ t.frac = 0 /\ t.exp = exp
  BY <1>1 DEF IsIntegral
<1>3. t.int * Ten[t.places] + t.frac = int /\ t.exp - t.places = exp
  <2>1. t.int * Ten[t.places] + t.frac = int * 1 + 0 BY <1>2, TenIs
  <2>. QED BY <1>2, <2>1
<1>4. ParseValue(t) = Canonicalize(Amt(FALSE, int, exp, neg)) BY <1>2, <1>3, Zenon DEF ParseValue
<1>. QED BY <1>4 DEF t

\* A fraction with or without the zeros at its end.
LEMMA FractionRead ==
  ASSUME NEW v \in ManMin..ManMax, NEW p \in Nat, NEW n \in BOOLEAN, NEW t, NEW z,
         IsTrimmed(t, n, v \div Ten[p], p, v % Ten[p], z)
  PROVE  IsTokens(ParseValue(t), v, -p, n)
<1>. DEFINE T == Ten[p]
            i == v \div T
            f == v % T
            x == t.int * Ten[t.places] + t.frac
            e == t.exp - t.places
<1>1. v \in Nat /\ T \in Nat /\ T > 0 BY Mantissas, TenType
<1>2. i \in Nat /\ f \in Nat /\ v = T * i + f
  <2>. HIDE DEF T
  <2>. QED BY <1>1, Remainders
<1>3. IsTrimmed(t, n, i, p, f, z) OBVIOUS
<1>. HIDE DEF i, f
<1>4. /\ x \in Nat /\ z \in Nat /\ t.places = p - z /\ t.exp = 0 /\ t.neg = n
      /\ x * Ten[z] = i * Ten[p] + f
  BY <1>2, <1>3, TrimmedValue
<1>5. x * Ten[z] = v
  <2>1. i * Ten[p] + f = T * i + f BY <1>1, <1>2
  <2>. QED BY <1>2, <1>4, <2>1
<1>6. e \in Int /\ e - z = -p BY <1>4
<1>. HIDE DEF x, e
<1>7. IsTokens(Canonicalize(Amt(FALSE, x, e, n)), v, -p, n)
  <2>1. -p \in Int OBVIOUS
  <2>2. IsMantissa(x, e, z, v, -p) BY <1>4, <1>5, <1>6, <2>1 DEF IsMantissa
  <2>. QED BY <2>2, MantissaRead
<1>8. ParseValue(t) = Canonicalize(Amt(FALSE, x, e, n)) BY <1>4, Zenon DEF ParseValue, x, e
<1>. QED BY <1>7, <1>8

LEMMA ZeroRead ==
  ASSUME NEW a, Canonical(a), ~a.native, IsZero(a), NEW o \in Int, NEW n \in BOOLEAN
  PROVE  Canonicalize(Amt(FALSE, 0, o, n)) = a
<1>1. Canonicalize(Amt(FALSE, 0, o, n)) = Amt(FALSE, 0, -100, FALSE)
  <2>. DEFINE z == Amt(FALSE, 0, o, n)
  <2>1. ~z.native /\ Valid(z) /\ IsZero(z) BY DEF Amt, Valid, IsZero
  <2>. HIDE DEF z
  <2>2. Canonicalize(z) = Amt(FALSE, 0, -100, FALSE) BY <2>1, Zenon DEF Canonicalize
  <2>. QED BY <2>2 DEF z
<1>2. a \in Amounts /\ a.offset = -100 /\ a.value = 0 /\ a.neg = FALSE /\ a.native = FALSE
  <2>1. a \in Amounts /\ a.offset = -100 /\ ~a.neg BY Members2
  <2>2. a.neg \in BOOLEAN /\ a.native \in BOOLEAN /\ a.value = 0 BY <2>1, Members
  <2>. QED BY <2>1, <2>2
<1>3. a = Amt(FALSE, 0, -100, FALSE) BY <1>2 DEF Amounts, Amt
<1>. QED BY <1>1, <1>3

LEMMA NativeRead ==
  ASSUME NEW a, Canonical(a), a.native, a.value =< NativeMax
  PROVE  FromText(TRUE, ToText(a)) = a
<1>. DEFINE t == Integral(a.neg, a.value, 0)
            v == a.value
<1>1. a \in Amounts /\ a.offset = 0 /\ v \in Nat /\ a.neg \in BOOLEAN /\ Valid(a)
  <2>1. a \in Amounts BY Members2
  <2>. QED BY <2>1, Members, Members2
<1>2. ToText(a) = t BY <1>1, Zenon DEF ToText
<1>3. /\ t.neg = a.neg /\ t.int = v /\ t.places = 0 /\ t.exp = 0 /\ t.dot = FALSE
  <2>1. 0 \in Int OBVIOUS
  <2>2. IsIntegral(t, a.neg, v, 0) BY <1>1, <2>1, IntegralIs, Zenon
  <2>. HIDE DEF v, t
  <2>. QED BY <2>2 DEF IsIntegral
<1>. HIDE DEF t
<1>4. NativeMax \in Nat /\ UnitDigits \in Nat BY AmountAssumption
<1>5. ~(t.exp # 0 \/ t.places > UnitDigits \/ v > NativeMax)
  <2>1. v =< NativeMax OBVIOUS
  <2>. HIDE DEF v
  <2>. QED BY <1>1, <1>3, <1>4, <2>1
<1>6. ParseNative(t) = Amt(TRUE, v, 0, a.neg /\ v # 0)
  BY <1>3, <1>5, Zenon DEF ParseNative
<1>7. (a.neg /\ v # 0) = a.neg
  <2>1. v = 0 => ~a.neg BY <1>1, Members, Members2
  <2>. HIDE DEF v
  <2>. QED BY <1>1, <2>1
<1>8. FromText(TRUE, t) = Amt(TRUE, v, 0, a.neg) BY <1>6, <1>7, Zenon DEF FromText
<1>9. Amt(TRUE, v, 0, a.neg) = a
  <2>1. a.native = TRUE BY <1>1, Members
  <2>. QED BY <1>1, <2>1 DEF Amounts, Amt
<1>. QED BY <1>2, <1>8, <1>9

\* to_text and parse_json: a reader of the JSON gets the amount, whatever notation
\* its offset asks for.
THEOREM WireKeepsAmounts ==
  ASSUME NEW a, Canonical(a)
  PROVE  WireLaw(a)
<1>1. SUFFICES ASSUME a.native => a.value =< NativeMax
               PROVE  FromText(a.native, ToText(a)) = a
  BY CloneSame DEF WireLaw
<1>2. a \in Amounts BY Members2
<1>. DEFINE v == a.value
            o == a.offset
            n == a.neg
<1>3. v \in Nat /\ o \in Int /\ n \in BOOLEAN /\ a.native \in BOOLEAN BY <1>2, Members
<1>4. CASE a.native
  <2>1. FromText(TRUE, ToText(a)) = a BY <1>1, <1>4, NativeRead
  <2>. QED BY <1>3, <1>4, <2>1
<1>5. CASE ~a.native /\ IsZero(a)
  <2>1. ToText(a) = Integral(n, 0, 0) BY <1>5, Zenon DEF ToText
  <2>. HIDE DEF n
  <2>2. ParseValue(Integral(n, 0, 0)) = Canonicalize(Amt(FALSE, 0, 0, n))
    <3>1. 0 \in Nat /\ 0 \in Int OBVIOUS
    <3>. QED BY <1>3, <3>1, IntegralRead
  <2>3. Canonicalize(Amt(FALSE, 0, 0, n)) = a
    <3>1. 0 \in Int OBVIOUS
    <3>. QED BY <1>3, <1>5, <3>1, ZeroRead
  <2>4. FromText(a.native, ToText(a)) = ParseValue(ToText(a)) BY <1>5, Zenon DEF FromText
  <2>. QED BY <2>1, <2>2, <2>3, <2>4
<1>6. CASE ~a.native /\ ~IsZero(a)
  <2>1. v \in ManMin..ManMax BY <1>6, Members2
  <2>2. IsTokens(ParseValue(ToText(a)), v, o, n)
    <3>1. CASE -o \notin {0} \cup MinPlaces..MaxPlaces
      <4>1. ToText(a) = Integral(n, v, o) BY <1>6, <3>1, Zenon DEF ToText
      <4>. HIDE DEF v, o, n
      <4>2. ParseValue(Integral(n, v, o)) = Canonicalize(Amt(FALSE, v, o, n))
        BY <1>3, IntegralRead
      <4>3. IsMantissa(v, o, 0, v, o)
        <5>1. 0 \in Nat /\ v * Ten[0] = v /\ o - 0 = o BY <1>3, TenIs
        <5>. QED BY <1>3, <2>1, <5>1 DEF IsMantissa
      <4>4. IsTokens(Canonicalize(Amt(FALSE, v, o, n)), v, o, n)
        BY <1>3, <4>3, MantissaRead
      <4>. QED BY <4>1, <4>2, <4>4
    <3>2. CASE -o \in {0} \cup MinPlaces..MaxPlaces
      <4>. DEFINE p == -o
      <4>1. ToText(a) = Trimmed(n, v \div Ten[p], p, v % Ten[p]) BY <1>6, <3>2, Zenon DEF ToText
      <4>2. p \in Nat /\ -p = o
        <5>1. MinPlaces \in Nat /\ MaxPlaces \in Nat BY AmountAssumption
        <5>. HIDE DEF o
        <5>. QED BY <1>3, <3>2, <5>1
      <4>. HIDE DEF p, v, o, n
      <4>3. v \div Ten[p] \in Nat /\ v % Ten[p] \in Nat
        <5>. DEFINE T == Ten[p]
        <5>1. T \in Nat /\ T > 0 BY <4>2, TenType
        <5>. HIDE DEF T
        <5>2. v \div T \in Nat /\ v % T \in Nat BY <1>3, <5>1, Remainders
        <5>. QED BY <5>2 DEF T
      <4>. DEFINE t == Trimmed(n, v \div Ten[p], p, v % Ten[p])
      <4>4. PICK z \in 0..p : IsTrimmed(t, n, v \div Ten[p], p, v % Ten[p], z)
        <5>. DEFINE i == v \div Ten[p]
                    f == v % Ten[p]
        <5>1. i \in Nat /\ f \in Nat /\ t = Trimmed(n, i, p, f) BY <4>3
        <5>. HIDE DEF i, f, t
        <5>2. \E z \in 0..p : IsTrimmed(t, n, i, p, f, z) BY <1>3, <4>2, <5>1, TrimmedIs
        <5>. QED BY <5>2 DEF i, f
      <4>. HIDE DEF t
      <4>5. IsTokens(ParseValue(t), v, -p, n) BY <1>3, <2>1, <4>2, <4>4, FractionRead
      <4>. QED BY <4>1, <4>2, <4>5 DEF t
    <3>. QED BY <3>1, <3>2
  <2>3. FromText(a.native, ToText(a)) = ParseValue(ToText(a)) BY <1>6, Zenon DEF FromText
  <2>. DEFINE r == ParseValue(ToText(a))
  <2>. HIDE DEF r
  <2>4. r \in Amounts /\ ~r.native /\ r.value = v /\ r.offset = o /\ r.neg = n
    BY <2>2 DEF IsTokens, r
  <2>5. r.native = a.native BY <1>3, <1>6, <2>4, Members
  <2>6. r = a BY <1>2, <2>4, <2>5, SameFields
  <2>. QED BY <2>3, <2>6 DEF r
<1>. QED BY <1>4, <1>5, <1>6

\* A text of as many places as it has.
LEMMA PlacesSame ==
  ASSUME NEW t \in Texts, t.dot = (t.places > 0)
  PROVE  Places(t, t.places) = t
<1>1. t.frac \in Nat /\ t.places \in Nat BY DEF Texts
<1>2. (IF t.places < t.places THEN t.frac \div Ten[t.places - t.places]
       ELSE t.frac * Ten[t.places - t.places]) = t.frac
  <2>1. ~(t.places < t.places) /\ t.places - t.places = 0 BY <1>1
  <2>2. t.frac * Ten[0] = t.frac BY <1>1, TenIs
  <2>. QED BY <2>1, <2>2
<1>3. Places(t, t.places) = [t EXCEPT !.places = t.places, !.dot = t.places > 0, !.frac = t.frac]
  BY <1>2, Zenon DEF Places
<1>. QED BY <1>3 DEF Texts

\* to_human, without options: full.
FullText(a) == Trimmed(a.neg, a.value \div Ten[Order(a)], Order(a), a.value % Ten[Order(a)])

IsFull(t, a, z) ==
  LET o == Order(a) IN
  /\ t = FullText(a) /\ o \in Nat /\ a.value \div Ten[o] \in Nat /\ a.value % Ten[o] \in Nat
  /\ a.value % Ten[o] < Ten[o]
  /\ IsTrimmed(t, a.neg, a.value \div Ten[o], o, a.value % Ten[o], z)
  /\ (a.value \div Ten[o]) * Ten[o] + (a.value % Ten[o]) = a.value

LEMMA FullTextIs ==
  ASSUME NEW a, Canonical(a)
  PROVE  \E z \in Nat : IsFull(FullText(a), a, z)
<1>. DEFINE o == Order(a)
            v == a.value
            n == a.neg
            i == v \div Ten[o]
            f == v % Ten[o]
            t == Trimmed(n, i, o, f)
<1>1. a \in Amounts BY Members2
<1>2. v \in Nat /\ n \in BOOLEAN /\ a.offset \in Int BY <1>1, Members
<1>3. o \in Nat
  <2>1. UnitDigits \in Nat BY AmountAssumption
  <2>2. Larger(0, -a.offset) \in Nat
    <3>. DEFINE e == a.offset
    <3>1. e \in Int BY <1>2
    <3>. HIDE DEF e
    <3>2. Larger(0, -e) \in Nat BY <3>1 DEF Larger
    <3>. QED BY <3>2 DEF e
  <2>. QED BY <2>1, <2>2 DEF Order
<1>4. t = FullText(a) BY DEF FullText
<1>. HIDE DEF o, v, n
<1>5. i \in Nat /\ f \in Nat /\ i * Ten[o] + f = v /\ f < Ten[o]
  <2>. DEFINE T == Ten[o]
  <2>1. T \in Nat /\ T > 0 BY <1>3, TenType
  <2>. HIDE DEF T
  <2>2. v \div T \in Nat /\ v % T \in Nat /\ v % T < T /\ v = T * (v \div T) + (v % T)
    BY <1>2, <2>1, Remainders
  <2>3. T * (v \div T) = (v \div T) * T BY <2>1, <2>2
  <2>. QED BY <2>2, <2>3 DEF T
<1>6. PICK z \in 0..o : IsTrimmed(t, n, i, o, f, z)
  <2>. HIDE DEF i, f, t
  <2>. QED BY <1>2, <1>3, <1>5, TrimmedIs DEF t
<1>. HIDE DEF t
<1>7. IsFull(t, a, z) BY <1>3, <1>4, <1>5, <1>6 DEF IsFull, o, v, n
<1>8. z \in Nat BY <1>3, <1>6
<1>. QED BY <1>4, <1>7, <1>8

LEMMA PlainText ==
  ASSUME NEW a, Canonical(a), NEW sep
  PROVE  Formatted(a, Plain(sep)) = FullText(a)
<1>. DEFINE plain == Plain(sep)
<1>. DEFINE t == FullText(a)
<1>1. PICK z \in Nat : IsFull(t, a, z) BY FullTextIs
<1>2. t \in Texts /\ t.dot = (t.places > 0)
  <2>1. t \in Texts /\ z \in 0..Order(a) /\ t.places = Order(a) - z /\ t.dot = (Order(a) > z)
        /\ Order(a) \in Nat
    BY <1>1 DEF IsFull, IsTrimmed
  <2>. DEFINE o == Order(a)
              p == t.places
  <2>. HIDE DEF o, p
  <2>2. (o > z) <=> (p > 0) BY <1>1, <2>1 DEF o, p
  <2>3. (o > z) = (p > 0) BY <2>2
  <2>. QED BY <2>1, <2>3 DEF o, p
<1>3. plain.precision = None /\ plain.digits = None /\ plain.min = 0 /\ plain.skip = FALSE
  BY DEF Plain
<1>. HIDE DEF plain
<1>4. t = Trimmed(a.neg, a.value \div Ten[Order(a)], Order(a), a.value % Ten[Order(a)])
  BY Zenon DEF FullText
<1>5. Significant(t, None) = t BY Zenon DEF Significant
<1>6. Larger(0, t.places) = t.places
  <2>1. t.places \in Nat BY <1>2 DEF Texts
  <2>. HIDE DEF t
  <2>. QED BY <2>1 DEF Larger
<1>7. Formatted(a, plain) = Places(t, Larger(0, t.places))
  BY <1>3, <1>4, <1>5, Zenon DEF Formatted
<1>. HIDE DEF t
<1>8. Places(t, t.places) = t BY <1>2, PlacesSame
<1>. QED BY <1>6, <1>7, <1>8 DEF t, plain

\* What parse_human reads in a text that to_human wrote, zeros left out twice.
IsReread(x, y, v) == x \in Nat /\ y \in Nat /\ x * Ten[y] = v

LEMMA Reread ==
  ASSUME NEW a, Canonical(a)
  PROVE  LET t == FullText(a) IN
         \E x, y \in Nat :
           /\ IsReread(x, y, a.value)
           /\ ParseValue(Trimmed(FALSE, t.int, t.places, t.frac))
                = Canonicalize(Amt(FALSE, x, y - Order(a), FALSE))
<1>. DEFINE t == FullText(a)
            o == Order(a)
            v == a.value
            u == Trimmed(FALSE, t.int, t.places, t.frac)
            x == t.int * Ten[t.places] + t.frac
            w == u.int * Ten[u.places] + u.frac
            e == u.exp - u.places
<1>1. PICK z \in Nat : IsFull(t, a, z) BY FullTextIs
<1>2. /\ o \in Nat /\ v \div Ten[o] \in Nat /\ v % Ten[o] \in Nat
      /\ IsTrimmed(t, a.neg, v \div Ten[o], o, v % Ten[o], z)
      /\ (v \div Ten[o]) * Ten[o] + (v % Ten[o]) = v
  BY <1>1 DEF IsFull
<1>3. t \in Texts BY <1>2 DEF IsTrimmed
<1>. HIDE DEF t, o, v
<1>4. /\ x \in Nat /\ t.places = o - z /\ x * Ten[z] = v
  <2>. DEFINE i == v \div Ten[o]
              f == v % Ten[o]
  <2>1. i \in Nat /\ f \in Nat /\ i * Ten[o] + f = v BY <1>2
  <2>2. IsTrimmed(t, a.neg, i, o, f, z) BY <1>2
  <2>. HIDE DEF i, f
  <2>3. x \in Nat /\ t.places = o - z /\ x * Ten[z] = i * Ten[o] + f
    BY <1>2, <2>1, <2>2, TrimmedValue
  <2>. QED BY <2>1, <2>3
<1>5. t.int \in Nat /\ t.places \in Nat /\ t.frac \in Nat BY <1>3 DEF Texts
<1>6. PICK y \in 0..t.places : IsTrimmed(u, FALSE, t.int, t.places, t.frac, y)
  <2>1. FALSE \in BOOLEAN OBVIOUS
  <2>. DEFINE i == t.int
              p == t.places
              f == t.frac
  <2>2. i \in Nat /\ p \in Nat /\ f \in Nat /\ u = Trimmed(FALSE, i, p, f) BY <1>5
  <2>. HIDE DEF i, p, f, u
  <2>3. \E y \in 0..p : IsTrimmed(u, FALSE, i, p, f, y) BY <2>1, <2>2, TrimmedIs
  <2>. QED BY <2>3 DEF i, p, f
<1>. HIDE DEF u
<1>7. /\ w \in Nat /\ y \in Nat /\ u.places = t.places - y /\ u.exp = 0 /\ u.neg = FALSE
      /\ w * Ten[y] = x
  <2>. DEFINE i == t.int
              p == t.places
              f == t.frac
              n == FALSE
  <2>1. i \in Nat /\ p \in Nat /\ f \in Nat BY <1>5
  <2>2. IsTrimmed(u, n, i, p, f, y) BY <1>6
  <2>. HIDE DEF i, p, f, n
  <2>3. /\ w \in Nat /\ y \in Nat /\ u.places = p - y /\ u.exp = 0 /\ u.neg = n
        /\ w * Ten[y] = i * Ten[p] + f
    BY <2>1, <2>2, TrimmedValue
  <2>. QED BY <2>3 DEF i, p, f, n
<1>8. e = (z + y) - o /\ z + y \in Nat BY <1>2, <1>4, <1>5, <1>7
<1>9. w * Ten[z + y] = v
  <2>1. Ten[z + y] = Ten[z] * Ten[y] BY <1>7, TenSum
  <2>. DEFINE c == Ten[z]
              d == Ten[y]
  <2>2. c \in Nat /\ d \in Nat BY <1>7, TenType
  <2>. HIDE DEF c, d, w, x
  <2>3. (w * d) * c = x * c BY <1>7 DEF d
  <2>4. w * (c * d) = (w * d) * c BY <1>7, <2>2
  <2>. QED BY <1>4, <2>1, <2>3, <2>4 DEF c, d
<1>10. ParseValue(u) = Canonicalize(Amt(FALSE, w, e, FALSE)) BY <1>7, Zenon DEF ParseValue
<1>. HIDE DEF w, e, x
<1>. DEFINE k == z + y
<1>11. IsReread(w, k, v) /\ w \in Nat /\ k \in Nat BY <1>7, <1>8, <1>9 DEF IsReread
<1>12. ParseValue(u) = Canonicalize(Amt(FALSE, w, k - o, FALSE)) BY <1>8, <1>10
<1>. QED BY <1>11, <1>12 DEF t, o, v, u

\* A text of a native amount is read as that many drops.
LEMMA NativeReread ==
  ASSUME NEW a, Canonical(a), a.native
  PROVE  LET t == FullText(a)
             p == Shorter(t.places, UnitDigits)
         IN t.int * Unit + Places(t, p).frac * Ten[UnitDigits - p] = a.value
<1>. DEFINE t == FullText(a)
            o == Order(a)
            v == a.value
            q == t.places
            f == t.frac
            i == t.int
            U == UnitDigits
<1>1. PICK z \in Nat : IsFull(t, a, z) BY FullTextIs
<1>2. /\ o \in Nat /\ v \div Ten[o] \in Nat /\ v % Ten[o] \in Nat /\ v % Ten[o] < Ten[o]
      /\ IsTrimmed(t, a.neg, v \div Ten[o], o, v % Ten[o], z)
      /\ (v \div Ten[o]) * Ten[o] + (v % Ten[o]) = v
  BY <1>1 DEF IsFull
<1>3. o = (IF v = 0 THEN 0 ELSE U) BY Zenon DEF Order, IsZero
<1>4. U \in Nat BY AmountAssumption
<1>. HIDE DEF t, o, v, U
<1>5. /\ t \in Texts /\ i = v \div Ten[o] /\ q = o - z /\ f * Ten[z] = v % Ten[o] /\ z \in 0..o
      /\ t.dot = (o > z)
  BY <1>2 DEF IsTrimmed
<1>6. i \in Nat /\ q \in Nat /\ f \in Nat BY <1>5 DEF Texts
<1>. HIDE DEF q, f, i
<1>7. q =< U /\ o =< U BY <1>2, <1>3, <1>4, <1>5
<1>8. Shorter(q, U) = q BY <1>4, <1>6, <1>7 DEF Shorter
<1>9. Places(t, q) = t
  <2>1. t.dot = (t.places > 0)
    <3>1. (o > z) <=> (q > 0) BY <1>2, <1>5
    <3>. QED BY <1>5, <3>1 DEF q
  <2>2. Places(t, t.places) = t BY <1>5, <2>1, PlacesSame
  <2>. QED BY <2>2 DEF q
<1>10. i * Ten[U] + f * Ten[U - q] = v
  <2>1. CASE v # 0
    <3>1. o = U /\ U - q = z BY <1>2, <1>3, <1>4, <1>5, <1>6, <2>1
    <3>. QED BY <1>2, <1>5, <3>1
  <2>2. CASE v = 0
    <3>1. o = 0 /\ z = 0 BY <1>3, <1>5, <2>2
    <3>2. Ten[0] = 1 BY TenIs
    <3>3. i = 0 /\ f = 0 BY <1>2, <1>5, <1>6, <2>2, <3>1, <3>2
    <3>. DEFINE c == Ten[U]
                d == Ten[U - q]
    <3>4. c \in Nat /\ d \in Nat
      <4>1. U - q \in Nat BY <1>4, <1>6, <1>7
      <4>. QED BY <1>4, <4>1, TenType
    <3>. HIDE DEF c, d
    <3>5. 0 * c + 0 * d = 0 BY <3>4
    <3>. QED BY <2>2, <3>3, <3>5 DEF c, d
  <2>. QED BY <2>1, <2>2
<1>. QED BY <1>8, <1>9, <1>10 DEF Unit, U, q, f, i, t, v

\* The width of a group, by options.
WidthOf(opts) == IF opts.width = 0 THEN GroupWidth ELSE opts.width

\* chunkString: a separator is written exactly when a second group begins.
LEMMA SeparatorsAppear ==
  ASSUME NEW opts \in FormatOptions, NEW n \in Nat
  PROVE  /\ Separators(n, opts) > 0 <=> opts.sep /\ n >= Ten[WidthOf(opts)]
         /\ Separators(n, opts) \in Nat
<1>. DEFINE w == WidthOf(opts)
            d == Length[n] - 1
<1>1. w \in Nat /\ w > 0 BY GroupAssumption DEF FormatOptions, WidthOf
<1>2. d \in Nat
  <2>1. CASE n = 0 BY <2>1, LengthOfZero
  <2>2. CASE n > 0 BY <2>2, LengthOf
  <2>. QED BY <2>1, <2>2
<1>3. n >= Ten[w] <=> d >= w
  <2>1. Ten[w] \in Nat /\ Ten[w] > 0 BY <1>1, TenType
  <2>2. CASE n = 0 BY <1>1, <2>1, <2>2, LengthOfZero
  <2>3. CASE n > 0
    <3>1. (Ten[w] =< n => w < Length[n]) /\ (n < Ten[w] => Length[n] =< w)
      BY <1>1, <2>3, LengthOrder
    <3>2. Length[n] \in Nat BY <2>3, LengthOf
    <3>. HIDE DEF w
    <3>. DEFINE T == Ten[w]
                l == Length[n]
    <3>3. T \in Nat /\ l \in Nat /\ (T =< n => w < l) /\ (n < T => l =< w)
      BY <2>1, <3>1, <3>2
    <3>. HIDE DEF T, l
    <3>4. n >= T <=> l - 1 >= w BY <1>1, <3>3
    <3>. QED BY <3>4 DEF T, l
  <2>. QED BY <2>2, <2>3
<1>4. Separators(n, opts) = IF opts.sep THEN d \div w ELSE 0 BY DEF Separators, WidthOf
<1>. HIDE DEF d, w
<1>5. d \div w \in Nat /\ (d \div w > 0 <=> d >= w)
  <2>. DEFINE q == d \div w
              r == d % w
  <2>1. q \in Nat /\ r \in Nat /\ r < w /\ d = w * q + r BY <1>1, <1>2, Remainders
  <2>. HIDE DEF q, r
  <2>2. q = 0 => d < w
    <3>. SUFFICES ASSUME q = 0 PROVE d < w OBVIOUS
    <3>1. w * q = 0 BY <1>1
    <3>. QED BY <1>1, <1>2, <2>1, <3>1
  <2>3. q > 0 => d >= w
    <3>. SUFFICES ASSUME q > 0 PROVE d >= w OBVIOUS
    <3>1. PICK k \in Nat : q = k + 1
      <4>1. q - 1 \in Nat /\ q = (q - 1) + 1 BY <2>1
      <4>. QED BY <4>1
    <3>2. w * k \in Nat BY <1>1
    <3>3. w * q = w * k + w BY <1>1, <3>1
    <3>. QED BY <1>1, <1>2, <2>1, <3>2, <3>3
  <2>4. q \in Nat /\ (q > 0 <=> d >= w) BY <1>1, <1>2, <2>1, <2>2, <2>3
  <2>. QED BY <2>4 DEF q
<1>6. opts.sep \in BOOLEAN BY DEF FormatOptions
<1>. QED BY <1>3, <1>4, <1>5, <1>6 DEF w

\* parse_human of the digits that to_human writes.
LEMMA DigitsRead ==
  ASSUME NEW a, Canonical(a), a.offset =< 0
  PROVE  FromDigits(a.native, FullText(a)) = a
<1>. DEFINE t == FullText(a)
            v == a.value
            p == Shorter(t.places, UnitDigits)
            r == IF a.native
                 THEN Amt(TRUE, t.int * Unit + Places(t, p).frac * Ten[UnitDigits - p], 0, FALSE)
                 ELSE ParseValue(Trimmed(FALSE, t.int, t.places, t.frac))
<1>1. a \in Amounts BY Members2
<1>2. /\ v \in Nat /\ a.offset \in Int /\ a.neg \in BOOLEAN /\ a.native \in BOOLEAN
  BY <1>1, Members
<1>3. FromDigits(a.native, t) = [r EXCEPT !.neg = t.neg] BY Zenon DEF FromDigits
<1>4. t.neg = a.neg
  <2>1. PICK z \in Nat : IsFull(t, a, z) BY FullTextIs
  <2>. QED BY <2>1 DEF IsFull, IsTrimmed
<1>5. r \in Amounts /\ r.native = a.native /\ r.value = v /\ r.offset = a.offset
  <2>1. CASE a.native
    <3>1. t.int * Unit + Places(t, p).frac * Ten[UnitDigits - p] = v BY <2>1, NativeReread
    <3>2. r = Amt(TRUE, v, 0, FALSE) BY <2>1, <3>1, Zenon
    <3>3. a.offset = 0 BY <2>1, Members2
    <3>. HIDE DEF r, v
    <3>. QED BY <1>2, <2>1, <3>2, <3>3 DEF Amt, Amounts
  <2>2. CASE ~a.native
    <3>. DEFINE o == Order(a)
    <3>1. PICK x, y \in Nat :
            /\ IsReread(x, y, v)
            /\ ParseValue(Trimmed(FALSE, t.int, t.places, t.frac))
                 = Canonicalize(Amt(FALSE, x, y - o, FALSE))
      BY Reread, Zenon
    <3>2. r = Canonicalize(Amt(FALSE, x, y - o, FALSE)) BY <2>2, <3>1, Zenon
    <3>3. CASE IsZero(a)
      <4>1. v = 0 /\ o = 0 BY <3>3, Zenon DEF IsZero, Order
      <4>. HIDE DEF v, o, r
      <4>2. x = 0
        <5>. DEFINE c == Ten[y]
        <5>1. c \in Nat /\ c > 0 /\ x * c = v BY <3>1, TenType DEF IsReread
        <5>. HIDE DEF c
        <5>2. x > 0 => x * c > 0 BY <5>1
        <5>. QED BY <4>1, <5>1, <5>2
      <4>3. y - o \in Int BY <4>1
      <4>. DEFINE e == y - o
      <4>. HIDE DEF e
      <4>4. Canonicalize(Amt(FALSE, 0, e, FALSE)) = a
        <5>1. e \in Int /\ FALSE \in BOOLEAN BY <4>3 DEF e
        <5>. QED BY <2>2, <3>3, <5>1, ZeroRead
      <4>5. r = a BY <3>2, <4>2, <4>4 DEF e
      <4>. QED BY <1>1, <4>5 DEF v
    <3>4. CASE ~IsZero(a)
      <4>1. o = Larger(0, -a.offset) BY <2>2, <3>4, Zenon DEF Order
      <4>. DEFINE f == a.offset
                  e == y - o
      <4>2. v \in ManMin..ManMax BY <2>2, <3>4, Members2
      <4>. HIDE DEF v, o, r, f
      <4>3. f \in Int /\ f =< 0 /\ o = Larger(0, -f) BY <1>2, <4>1 DEF f
      <4>4. e \in Int /\ e - y = f BY <4>3 DEF Larger
      <4>. HIDE DEF e
      <4>5. IsMantissa(x, e, y, v, f) BY <3>1, <4>2, <4>3, <4>4 DEF IsReread, IsMantissa
      <4>. DEFINE n == FALSE
      <4>6. n \in BOOLEAN /\ r = Canonicalize(Amt(FALSE, x, e, n)) BY <3>2 DEF e
      <4>. HIDE DEF n
      <4>7. IsTokens(Canonicalize(Amt(FALSE, x, e, n)), v, f, n) BY <4>5, <4>6, MantissaRead
      <4>8. IsTokens(r, v, f, n) BY <4>6, <4>7
      <4>9. r \in Amounts /\ ~r.native /\ r.value = v /\ r.offset = f BY <4>8 DEF IsTokens
      <4>10. r.native = a.native BY <1>2, <2>2, <4>9, Members
      <4>. QED BY <4>9, <4>10 DEF f
    <3>. QED BY <3>3, <3>4
  <2>. QED BY <1>2, <2>1, <2>2
<1>. HIDE DEF r, t, v
<1>6. [r EXCEPT !.neg = t.neg] = a
  <2>. DEFINE s == [r EXCEPT !.neg = t.neg]
  <2>1. s \in Amounts /\ s.native = a.native /\ s.value = v /\ s.offset = a.offset /\ s.neg = a.neg
    BY <1>2, <1>4, <1>5 DEF Amounts
  <2>. HIDE DEF s
  <2>2. s = a BY <1>1, <2>1, SameFields DEF v
  <2>. QED BY <2>2 DEF s
<1>. QED BY <1>3, <1>6 DEF t

\* to_human and parse_human: what an amount is printed as, a person types back,
\* unless zeros were left out before the point.  A print with separators, which
\* is the default from the second group of digits on, is refused.
THEOREM PeopleKeepAmounts ==
  ASSUME NEW a, Canonical(a), a.offset =< 0
  PROVE  HumanLaw(a)
<1>. DEFINE text(sep) == ToHuman(a, Plain(sep))
            whole == a.value \div Ten[Order(a)]
<1>1. ASSUME NEW sep \in BOOLEAN
      PROVE  /\ Plain(sep) \in FormatOptions
             /\ Plain(sep).sep = sep /\ WidthOf(Plain(sep)) = GroupWidth
  BY DEF Plain, FormatOptions, WidthOf
<1>2. whole \in Nat /\ FullText(a).int = whole
  <2>1. PICK z \in Nat : IsFull(FullText(a), a, z) BY FullTextIs
  <2>. QED BY <2>1 DEF IsFull, IsTrimmed
<1>. HIDE DEF whole
<1>3. ASSUME NEW sep \in BOOLEAN
      PROVE  FromHuman(a.native, text(sep)) = IF sep /\ whole >= Ten[GroupWidth] THEN NaN ELSE a
  <2>. DEFINE o == Plain(sep)
              n == Separators(whole, o)
  <2>1. text(sep) = [numeral |-> FullText(a), commas |-> n]
    BY <1>2, PlainText DEF ToHuman
  <2>2. o \in FormatOptions /\ o.sep = sep /\ WidthOf(o) = GroupWidth BY <1>1
  <2>. HIDE DEF o
  <2>3. (n > 0) <=> (sep /\ whole >= Ten[GroupWidth]) BY <1>2, <2>2, SeparatorsAppear
  <2>. HIDE DEF n
  <2>4. FromHuman(a.native, text(sep)) = IF n > 0 THEN NaN ELSE FromDigits(a.native, FullText(a))
    BY <2>1 DEF FromHuman
  <2>5. FromDigits(a.native, FullText(a)) = a BY DigitsRead
  <2>. QED BY <2>3, <2>4, <2>5
<1>4. Ten[GroupWidth] \in Nat BY GroupAssumption, TenType
<1>5. FromHuman(a.native, text(FALSE)) = a BY <1>3
<1>6. FromHuman(a.native, text(TRUE)) = IF whole < Ten[GroupWidth] THEN a ELSE NaN
  <2>1. whole < Ten[GroupWidth] <=> ~(whole >= Ten[GroupWidth]) BY <1>2, <1>4
  <2>2. TRUE \in BOOLEAN OBVIOUS
  <2>. QED BY <1>3, <2>1, <2>2
<1>. QED BY <1>5, <1>6 DEF HumanLaw, whole

\* Currency: to_json and parse_json of every code and rate that JSON can tell
\* apart.
THEOREM CurrenciesKept ==
  ASSUME NEW c \in Nat \X Nat \X Nat \X Nat
  PROVE  CurrencyLaw(c)
<1>. SUFFICES ASSUME Spelled(c) PROVE CurrencyFrom(CurrencyJson(c), c # Native) = c
  BY DEF CurrencyLaw
<1>1. c[1] \in Nat /\ c[2] \in Nat /\ c[3] \in Nat /\ c[4] \in Nat /\ c = <<c[1], c[2], c[3], c[4]>>
  OBVIOUS
<1>2. WholeRate \in Nat /\ WholeRate > 0 BY RateAssumption
<1>3. CASE HasInterest(c)
  <2>1. c[1] = 1 /\ c[2] \in Letters /\ c[3] % 10 = 0 /\ RateRead(c[3]) # 0 /\ c[4] = 0
    BY <1>3 DEF Spelled, HasInterest
  <2>2. ((c[3] + 5) \div 10) * 10 = c[3] BY <1>1, <2>1
  <2>3. CurrencyJson(c) = Json("interest", c[2], c[3], Native) BY <1>3, <2>2, Zenon DEF CurrencyJson
  <2>4. CurrencyFrom(CurrencyJson(c), c # Native) = <<1, c[2], c[3], 0>>
    BY <2>1, <2>3 DEF CurrencyFrom, Json
  <2>. QED BY <1>1, <2>1, <2>4
<1>4. CASE c = Native
  <2>1. ~HasInterest(c) BY <1>4 DEF HasInterest, Native
  <2>2. CurrencyJson(c) = Json("iso", XPS, 0, Native) BY <1>4, <2>1, Zenon DEF CurrencyJson
  <2>3. CurrencyFrom(CurrencyJson(c), FALSE) = Native BY <2>2 DEF CurrencyFrom, Json
  <2>. QED BY <1>4, <2>3
<1>5. CASE ~HasInterest(c) /\ c # Native /\ HasCode(c) /\ c[2] \in Letters \cup Mixed
  <2>1. c[2] \in Letters /\ c[2] # XPS /\ c[1] = 0 /\ c[3] = 0 /\ c[4] = 0
    BY <1>5 DEF Spelled, HasCode
  <2>2. CurrencyJson(c) = Json("iso", c[2], 0, Native) BY <1>5, Zenon DEF CurrencyJson
  <2>3. RateRead(0) = 0 BY <1>2 DEF RateRead
  <2>4. CurrencyFrom(CurrencyJson(c), c # Native) = Iou(c[2])
    BY <2>1, <2>2, <2>3 DEF CurrencyFrom, Json
  <2>. QED BY <1>1, <2>1, <2>4 DEF Iou
<1>6. CASE /\ ~HasInterest(c) /\ c # Native /\ ~(HasCode(c) /\ c[2] \in Letters \cup Mixed)
           /\ c = CurrencyOne
  <2>1. CurrencyJson(c) = Json("number", 0, 0, Native) BY <1>6, Zenon DEF CurrencyJson
  <2>. QED BY <1>6, <2>1 DEF CurrencyFrom, Json
<1>7. CASE /\ ~HasInterest(c) /\ c # Native /\ ~(HasCode(c) /\ c[2] \in Letters \cup Mixed)
           /\ c # CurrencyOne
  <2>1. CurrencyJson(c) = Json("hex", 0, 0, c) BY <1>7, Zenon DEF CurrencyJson
  <2>. QED BY <2>1 DEF CurrencyFrom, Json
<1>. QED BY <1>3, <1>4, <1>5, <1>6, <1>7

-----------------------------------------------------------------------------
(* Texts cut to fewer places.                                                *)

LEMMA CutTwice ==
  ASSUME NEW v \in Nat, NEW j \in Nat, NEW k \in Nat
  PROVE  (v \div Ten[j]) \div Ten[k] = v \div Ten[j + k]
<1>. DEFINE a == Ten[j]
            b == Ten[k]
            q == v \div a
            r == q \div b
<1>1. a \in Nat /\ a > 0 /\ b \in Nat /\ b > 0 BY TenType
<1>2. Ten[j + k] = a * b BY TenSum
<1>. HIDE DEF a, b
<1>3. q \in Nat /\ a * q =< v /\ v < a * q + a BY <1>1, Quotients
<1>. HIDE DEF q
<1>4. r \in Nat /\ b * r =< q /\ q < b * r + b BY <1>1, <1>3, Quotients
<1>. HIDE DEF r
<1>. DEFINE n == a * b
<1>5. n \in Nat /\ n > 0 BY <1>1
<1>6. n * r =< v
  <2>1. (b * r) * a =< q * a
    <3>. DEFINE x == b * r
    <3>1. x \in Int /\ x =< q /\ q \in Int BY <1>1, <1>3, <1>4
    <3>. HIDE DEF x
    <3>2. x * a =< q * a BY <1>1, <3>1, MoreTimes
    <3>. QED BY <3>2 DEF x
  <2>2. n * r = (b * r) * a /\ q * a = a * q BY <1>1, <1>3, <1>4
  <2>. QED BY <1>1, <1>3, <1>4, <1>5, <2>1, <2>2
<1>7. v < n * r + n
  <2>1. (q + 1) * a =< (b * r + b) * a
    <3>. DEFINE x == b * r + b
                y == q + 1
    <3>1. x \in Int /\ y =< x /\ y \in Int BY <1>1, <1>3, <1>4
    <3>. HIDE DEF x, y
    <3>2. y * a =< x * a BY <1>1, <3>1, MoreTimes
    <3>. QED BY <3>2 DEF x, y
  <2>2. (q + 1) * a = a * q + a /\ (b * r + b) * a = n * r + n BY <1>1, <1>3, <1>4
  <2>. QED BY <1>1, <1>3, <1>4, <1>5, <2>1, <2>2
<1>. HIDE DEF n
<1>8. v \div n = r BY <1>4, <1>5, <1>6, <1>7, QuotientIs
<1>. QED BY <1>2, <1>8 DEF n, r, q, a, b

\* A number with its last k digits cut off.
LEMMA CutLength ==
  ASSUME NEW f \in Nat, f > 0, NEW k \in Nat
  PROVE  LET w == f \div Ten[k] IN
         /\ w \in Nat
         /\ k < Length[f] => w > 0 /\ Length[w] = Length[f] - k
         /\ Length[f] =< k => w = 0
<1>. DEFINE n == Length[f]
            T == Ten[k]
            w == f \div T
<1>1. n \in Nat /\ n > 0 /\ n - 1 \in Nat /\ Ten[n - 1] =< f /\ f < Ten[n] BY LengthOf
<1>2. T \in Nat /\ T > 0 BY TenType
<1>. HIDE DEF n, T
<1>3. w \in Nat /\ T * w =< f /\ f < T * w + T BY <1>2, Quotients
<1>4. ASSUME k < n PROVE w > 0 /\ Length[w] = n - k
  <2>. DEFINE i == (n - 1) - k
              a == Ten[i]
              b == Ten[i + 1]
  <2>1. i \in Nat /\ i + 1 \in Nat /\ n - 1 = i + k /\ n = (i + 1) + k BY <1>1, <1>4
  <2>2. a \in Nat /\ a > 0 /\ b \in Nat BY <2>1, TenType
  <2>3. Ten[n - 1] = a * T
    <3>. HIDE DEF i
    <3>. QED BY <2>1, TenSum DEF T
  <2>4. Ten[n] = b * T
    <3>. DEFINE j == i + 1
    <3>1. j \in Nat /\ n = j + k BY <2>1
    <3>. HIDE DEF j
    <3>2. Ten[n] = Ten[j] * T BY <3>1, TenSum DEF T
    <3>. QED BY <3>2 DEF j
  <2>. HIDE DEF a, b, w
  <2>5. a * T < (w + 1) * T /\ w * T < b * T BY <1>1, <1>2, <1>3, <2>2, <2>3, <2>4
  <2>6. a < w + 1 /\ w < b BY <1>2, <1>3, <2>2, <2>5, LessTimes
  <2>7. a =< w /\ w > 0 BY <1>3, <2>2, <2>6
  <2>. HIDE DEF i
  <2>8. Length[w] = i + 1 BY <1>3, <2>1, <2>6, <2>7, HasLength DEF a, b
  <2>. QED BY <1>1, <2>1, <2>7, <2>8
<1>5. ASSUME n =< k PROVE w = 0
  <2>1. Ten[n] =< T /\ Ten[n] \in Nat BY <1>1, <1>5, TenOrder, TenType DEF T
  <2>2. f < T BY <1>1, <1>2, <2>1
  <2>3. 0 \in Nat /\ T * 0 =< f /\ f < T * 0 + T BY <1>2, <2>2
  <2>. QED BY <1>2, <2>3, QuotientIs
<1>. QED BY <1>3, <1>4, <1>5 DEF w, n, T

IsText(t) == t \in Texts /\ t.dot = (t.places > 0) /\ t.frac < Ten[t.places]

\* s is t with n places, whose fraction is f.
HasPlaces(s, t, n, f) ==
  /\ IsText(s) /\ s.neg = t.neg /\ s.int = t.int /\ s.exp = t.exp
  /\ s.places = n /\ s.frac = f

LEMMA SameText ==
  ASSUME NEW t, NEW r, NEW s, NEW n, NEW f, HasPlaces(r, t, n, f), HasPlaces(s, t, n, f)
  PROVE  r = s
BY DEF HasPlaces, IsText, Texts

LEMMA FewerPlaces ==
  ASSUME NEW t, IsText(t), NEW n \in Nat, n =< t.places
  PROVE  HasPlaces(Places(t, n), t, n, t.frac \div Ten[t.places - n])
<1>. DEFINE p == t.places
            f == t.frac
            k == p - n
            w == f \div Ten[k]
<1>1. p \in Nat /\ f \in Nat /\ f < Ten[p] /\ t \in Texts BY DEF IsText, Texts
<1>2. k \in Nat BY <1>1
<1>3. w \in Nat /\ w < Ten[n]
  <2>. DEFINE T == Ten[k]
              N == Ten[n]
  <2>1. T \in Nat /\ T > 0 /\ N \in Nat BY <1>2, TenType
  <2>2. Ten[p] = N * T
    <3>1. p = n + k BY <1>1
    <3>. HIDE DEF p, k
    <3>. QED BY <1>2, <3>1, TenSum
  <2>. HIDE DEF T, N, f, p
  <2>3. f \div T \in Nat /\ T * (f \div T) =< f BY <1>1, <2>1, Quotients
  <2>. DEFINE q == f \div T
  <2>. HIDE DEF q
  <2>4. q * T < N * T /\ q \in Nat BY <1>1, <2>1, <2>2, <2>3 DEF q
  <2>5. q < N BY <2>1, <2>4, LessTimes
  <2>. QED BY <2>4, <2>5 DEF q, T, N
<1>4. (IF n < p THEN f \div Ten[p - n] ELSE f * Ten[n - p]) = w
  <2>1. CASE n < p BY <2>1
  <2>2. CASE ~(n < p)
    <3>1. n - p = 0 /\ k = 0 BY <1>1, <2>2
    <3>2. Ten[0] = 1 BY TenIs
    <3>3. f * 1 = f /\ f \div 1 = f BY <1>1
    <3>. QED BY <2>2, <3>1, <3>2, <3>3
  <2>. QED BY <2>1, <2>2
<1>5. Places(t, n) = [t EXCEPT !.places = n, !.dot = n > 0, !.frac = w]
  BY <1>4, Zenon DEF Places
<1>. HIDE DEF w
<1>. DEFINE s == Places(t, n)
            d == n > 0
<1>6. d \in BOOLEAN OBVIOUS
<1>7. s = [t EXCEPT !.places = n, !.dot = d, !.frac = w] BY <1>5
<1>. HIDE DEF s, d
<1>8. /\ s \in Texts /\ s.neg = t.neg /\ s.int = t.int /\ s.exp = t.exp
      /\ s.places = n /\ s.frac = w /\ s.dot = d
  BY <1>1, <1>3, <1>6, <1>7 DEF Texts
<1>9. s.dot = (s.places > 0) BY <1>8, Zenon DEF d
<1>10. HasPlaces(s, t, n, w) BY <1>3, <1>8, <1>9, Zenon DEF HasPlaces, IsText
<1>. QED BY <1>10 DEF s, w

LEMMA MorePlaces ==
  ASSUME NEW t, IsText(t), NEW n \in Nat, t.places =< n
  PROVE  HasPlaces(Places(t, n), t, n, t.frac * Ten[n - t.places])
<1>. DEFINE p == t.places
            f == t.frac
            k == n - p
            w == f * Ten[k]
<1>1. p \in Nat /\ f \in Nat /\ f < Ten[p] /\ t \in Texts BY DEF IsText, Texts
<1>2. k \in Nat BY <1>1
<1>3. w \in Nat /\ w < Ten[n]
  <2>. DEFINE T == Ten[k]
              P == Ten[p]
  <2>1. T \in Nat /\ T > 0 /\ P \in Nat BY <1>1, <1>2, TenType
  <2>2. Ten[n] = P * T
    <3>1. n = p + k BY <1>1
    <3>. HIDE DEF p, k
    <3>. QED BY <1>1, <1>2, <3>1, TenSum
  <2>. HIDE DEF T, P, f, p
  <2>3. f * T < P * T BY <1>1, <2>1, LessTimes DEF P
  <2>4. f * T \in Nat BY <1>1, <2>1
  <2>. QED BY <2>2, <2>3, <2>4 DEF T
<1>4. ~(n < p) BY <1>1
<1>5. Places(t, n) = [t EXCEPT !.places = n, !.dot = n > 0, !.frac = w]
  BY <1>4, Zenon DEF Places
<1>. HIDE DEF w
<1>. DEFINE s == Places(t, n)
            d == n > 0
<1>6. d \in BOOLEAN OBVIOUS
<1>7. s = [t EXCEPT !.places = n, !.dot = d, !.frac = w] BY <1>5
<1>. HIDE DEF s, d
<1>8. /\ s \in Texts /\ s.neg = t.neg /\ s.int = t.int /\ s.exp = t.exp
      /\ s.places = n /\ s.frac = w /\ s.dot = d
  BY <1>1, <1>3, <1>6, <1>7 DEF Texts
<1>9. s.dot = (s.places > 0) BY <1>8, Zenon DEF d
<1>10. HasPlaces(s, t, n, w) BY <1>3, <1>8, <1>9, Zenon DEF HasPlaces, IsText
<1>. QED BY <1>10 DEF s, w

LEMMA PlacesTwice ==
  ASSUME NEW t, IsText(t), NEW m \in Nat, m =< t.places, NEW n \in Nat, n =< m
  PROVE  Places(Places(t, m), n) = Places(t, n)
<1>. DEFINE p == t.places
            f == t.frac
            r == Places(t, m)
            s == Places(r, n)
            w == f \div Ten[p - n]
<1>1. p \in Nat /\ f \in Nat BY DEF IsText, Texts
<1>2. HasPlaces(r, t, m, f \div Ten[p - m]) BY FewerPlaces
<1>3. HasPlaces(Places(t, n), t, n, w) BY <1>1, FewerPlaces
<1>. HIDE DEF r
<1>4. IsText(r) /\ r.places = m /\ r.frac = f \div Ten[p - m] BY <1>2 DEF HasPlaces
<1>5. HasPlaces(s, r, n, r.frac \div Ten[m - n]) BY <1>4, FewerPlaces
<1>6. r.frac \div Ten[m - n] = w
  <2>. DEFINE j == p - m
              k == m - n
  <2>1. j \in Nat /\ k \in Nat /\ j + k = p - n BY <1>1
  <2>. HIDE DEF j, k, f
  <2>2. (f \div Ten[j]) \div Ten[k] = f \div Ten[j + k] BY <1>1, <2>1, CutTwice
  <2>. QED BY <1>4, <2>1, <2>2 DEF j, k
<1>. HIDE DEF s, w, p, f
<1>7. HasPlaces(s, t, n, w)
  <2>1. r.neg = t.neg /\ r.int = t.int /\ r.exp = t.exp BY <1>2 DEF HasPlaces
  <2>. QED BY <1>5, <1>6, <2>1 DEF HasPlaces
<1>8. s = Places(t, n) BY <1>3, <1>7, SameText
<1>. QED BY <1>8 DEF s, r

LEMMA PlacesBack ==
  ASSUME NEW t, IsText(t), NEW m \in Nat, t.places =< m
  PROVE  Places(Places(t, m), t.places) = t
<1>. DEFINE p == t.places
            f == t.frac
            T == Ten[m - p]
            r == Places(t, m)
            s == Places(r, p)
<1>1. p \in Nat /\ f \in Nat BY DEF IsText, Texts
<1>2. HasPlaces(r, t, m, f * T) BY MorePlaces
<1>3. T \in Nat /\ T > 0
  <2>1. m - p \in Nat BY <1>1
  <2>. QED BY <2>1, TenType
<1>. HIDE DEF r
<1>4. IsText(r) /\ r.places = m /\ r.frac = f * T BY <1>2 DEF HasPlaces
<1>5. HasPlaces(s, r, p, r.frac \div T) BY <1>1, <1>4, FewerPlaces
<1>6. r.frac \div T = f
  <2>. HIDE DEF f, T
  <2>. DEFINE x == r.frac
  <2>1. x \in Nat /\ T * f =< x /\ x < T * f + T BY <1>1, <1>3, <1>4
  <2>. HIDE DEF x
  <2>2. x \div T = f BY <1>1, <1>3, <2>1, QuotientIs
  <2>. QED BY <2>2 DEF x
<1>. HIDE DEF s, T
<1>7. HasPlaces(s, t, p, f)
  <2>1. r.neg = t.neg /\ r.int = t.int /\ r.exp = t.exp BY <1>2 DEF HasPlaces
  <2>. QED BY <1>5, <1>6, <2>1 DEF HasPlaces
<1>8. HasPlaces(t, t, p, f) BY DEF HasPlaces
<1>. HIDE DEF p, f
<1>9. s = t BY <1>7, <1>8, SameText
<1>. QED BY <1>9 DEF s, r, p

LEMMA PlacesKept ==
  ASSUME NEW t, IsText(t)
  PROVE  Places(t, t.places) = t
<1>1. t \in Texts /\ t.dot = (t.places > 0) BY DEF IsText
<1>. QED BY <1>1, PlacesSame

\* The significant digits of a text, and of its integer part.
Count(x) == IF x.int > 0 THEN Length[x.int] + x.places
            ELSE IF x.frac > 0 THEN Length[x.frac] ELSE 0
CountWhole(x) == IF x.int > 0 THEN Length[x.int] ELSE 0

IsCounted(C, W, q) ==
  C \in Nat /\ W \in Nat /\ q \in Nat /\ W =< C /\ C =< W + q /\ (C = W + q \/ W = 0)

LEMMA Counted ==
  ASSUME NEW t, IsText(t)
  PROVE  IsCounted(Count(t), CountWhole(t), t.places)
<1>1. t.int \in Nat /\ t.places \in Nat /\ t.frac \in Nat /\ t.frac < Ten[t.places]
  BY DEF IsText, Texts
<1>2. Length[t.int] \in Nat /\ Length[t.frac] \in Nat BY <1>1, LengthIs
<1>3. CASE t.int > 0 BY <1>1, <1>2, <1>3 DEF IsCounted, Count, CountWhole
<1>4. CASE ~(t.int > 0) /\ t.frac > 0
  <2>1. Length[t.frac] =< t.places BY <1>1, <1>4, LengthOrder
  <2>. QED BY <1>1, <1>2, <1>4, <2>1 DEF IsCounted, Count, CountWhole
<1>5. CASE ~(t.int > 0) /\ ~(t.frac > 0)
  BY <1>1, <1>5 DEF IsCounted, Count, CountWhole
<1>. QED BY <1>3, <1>4, <1>5

\* Cutting places takes as many digits, down to those of the integer part.
LEMMA CountCut ==
  ASSUME NEW t, IsText(t), NEW n \in Nat, n =< t.places
  PROVE  /\ CountWhole(Places(t, n)) = CountWhole(t)
         /\ Count(Places(t, n)) = Larger(CountWhole(t), Count(t) - (t.places - n))
<1>. DEFINE s == Places(t, n)
            k == t.places - n
<1>1. HasPlaces(s, t, n, t.frac \div Ten[k]) BY FewerPlaces
<1>2. t.int \in Nat /\ t.places \in Nat /\ t.frac \in Nat /\ t.frac < Ten[t.places]
  BY DEF IsText, Texts
<1>3. k \in Nat BY <1>2
<1>. HIDE DEF s
<1>4. s.int = t.int /\ s.places = n /\ s.frac = t.frac \div Ten[k] BY <1>1 DEF HasPlaces
<1>5. CountWhole(s) = CountWhole(t) BY <1>4 DEF CountWhole
<1>6. Length[t.int] \in Nat /\ Length[t.frac] \in Nat BY <1>2, LengthIs
<1>7. CASE t.int > 0
  <2>1. Count(t) = Length[t.int] + t.places /\ Count(s) = Length[t.int] + n
        /\ CountWhole(t) = Length[t.int]
    BY <1>4, <1>7 DEF Count, CountWhole
  <2>. QED BY <1>2, <1>5, <1>6, <2>1 DEF Larger, s
<1>8. CASE ~(t.int > 0) /\ t.frac > 0
  <2>. DEFINE f == t.frac
              w == f \div Ten[k]
  <2>1. /\ w \in Nat
        /\ k < Length[f] => w > 0 /\ Length[w] = Length[f] - k
        /\ Length[f] =< k => w = 0
    <3>1. f \in Nat /\ f > 0 BY <1>2, <1>8
    <3>. HIDE DEF f, k
    <3>. QED BY <1>3, <3>1, CutLength
  <2>2. Count(t) = Length[f] /\ CountWhole(t) = 0
        /\ Count(s) = IF w > 0 THEN Length[w] ELSE 0
    BY <1>4, <1>8 DEF Count, CountWhole
  <2>3. Length[f] \in Nat BY <1>6
  <2>. HIDE DEF w, f
  <2>4. Count(s) = Larger(0, Length[f] - k)
    <3>. HIDE DEF k
    <3>1. CASE k < Length[f] BY <1>3, <2>1, <2>2, <2>3, <3>1 DEF Larger
    <3>2. CASE Length[f] =< k BY <1>3, <2>1, <2>2, <2>3, <3>2 DEF Larger
    <3>. QED BY <1>3, <2>3, <3>1, <3>2
  <2>. QED BY <1>5, <2>2, <2>4 DEF s
<1>9. CASE ~(t.int > 0) /\ ~(t.frac > 0)
  <2>1. t.frac = 0 BY <1>2, <1>9
  <2>2. t.frac \div Ten[k] = 0
    <3>1. Ten[k] \in Nat /\ Ten[k] > 0 BY <1>3, TenType
    <3>. DEFINE T == Ten[k]
    <3>. HIDE DEF T
    <3>2. 0 \div T = 0 BY <3>1 DEF T
    <3>. QED BY <2>1, <3>2 DEF T
  <2>3. Count(t) = 0 /\ CountWhole(t) = 0 /\ Count(s) = 0
    BY <1>4, <1>9, <2>2 DEF Count, CountWhole
  <2>. QED BY <1>3, <1>5, <2>3 DEF Larger, s
<1>. QED BY <1>7, <1>8, <1>9

\* s is p with as many places as L significant digits leave it.
IsLimited(s, p, L, c) ==
  /\ c \in Nat /\ c =< p.places /\ s = Places(p, c)
  /\ Count(s) =< Larger(L, CountWhole(p))
  /\ c < p.places => Count(Places(p, c + 1)) > Larger(L, CountWhole(p))

LEMMA SignificantIs ==
  ASSUME NEW p, IsText(p), NEW L \in Nat
  PROVE  \E c \in Nat : IsLimited(Significant(p, L), p, L, c)
<1>. DEFINE C == Count(p)
            W == CountWhole(p)
            q == p.places
            r == Larger(C - L, 0)
            c == q - Shorter(r, q)
            s == Places(p, c)
<1>1. p.int \in Nat /\ q \in Nat /\ p.frac \in Nat BY DEF IsText, Texts
<1>2. IsCounted(C, W, q) BY Counted
<1>3. Significant(p, L) = s
  <2>. DEFINE digits == IF p.int = 0 THEN IF p.frac = 0 THEN 0 ELSE Length[p.frac]
                        ELSE Length[p.int] + p.places
  <2>1. digits = C BY <1>1 DEF Count
  <2>2. L # None BY DEF None
  <2>3. Significant(p, L) = Places(p, p.places - Shorter(Larger(digits - L, 0), p.places))
    BY <2>2, Zenon DEF Significant
  <2>. HIDE DEF digits, C
  <2>. QED BY <2>1, <2>3
<1>. HIDE DEF C, W, q
<1>4. C \in Nat /\ W \in Nat /\ W =< C /\ C =< W + q /\ (C = W + q \/ W = 0)
  BY <1>2 DEF IsCounted
<1>5. r \in Nat /\ r >= C - L /\ (r > 0 => r = C - L) BY <1>4 DEF Larger
<1>. HIDE DEF r
<1>6. /\ c \in Nat /\ c =< q /\ c >= q - r
      /\ c > 0 => c = q - r
  BY <1>1, <1>5 DEF Shorter
<1>7. c < q => r > 0
  BY <1>1, <1>5, <1>6 DEF Shorter
<1>. HIDE DEF c
<1>8. Count(s) = Larger(W, C - (q - c)) BY <1>6, CountCut DEF q, W, C
<1>9. Count(s) =< Larger(L, W) BY <1>1, <1>4, <1>5, <1>6, <1>8 DEF Larger
<1>10. ASSUME c < q PROVE Count(Places(p, c + 1)) > Larger(L, W)
  <2>. DEFINE d == c + 1
  <2>1. d \in Nat /\ d =< q BY <1>1, <1>6, <1>10
  <2>. HIDE DEF d
  <2>2. Count(Places(p, d)) = Larger(W, C - (q - d)) BY <2>1, CountCut DEF q, W, C
  <2>3. r > 0 /\ r = C - L BY <1>5, <1>7, <1>10
  <2>4. C - (q - d) > L BY <1>1, <1>4, <1>6, <2>1, <2>3 DEF d
  <2>5. C - (q - d) > W
    <3>1. CASE C = W + q BY <1>1, <1>4, <1>6, <3>1 DEF d
    <3>2. CASE W = 0 BY <1>1, <1>4, <2>1, <2>4, <3>2
    <3>. QED BY <1>4, <3>1, <3>2
  <2>6. Count(Places(p, d)) > Larger(L, W) BY <1>1, <1>4, <2>1, <2>2, <2>4, <2>5 DEF Larger
  <2>. QED BY <2>6 DEF d
<1>11. IsLimited(s, p, L, c) BY <1>6, <1>9, <1>10, Zenon DEF IsLimited, q, W
<1>. QED BY <1>3, <1>6, <1>11

\* A text that the options let pass.
Fits(opts, x) ==
  /\ opts.precision # None => x.places <= opts.precision
  /\ opts.digits # None =>
       Count(x) <= Larger(opts.digits, Count([x EXCEPT !.places = 0, !.frac = 0]))

LEMMA WholeIs ==
  ASSUME NEW x, IsText(x)
  PROVE  Count([x EXCEPT !.places = 0, !.frac = 0]) = CountWhole(x)
<1>. DEFINE w == [x EXCEPT !.places = 0, !.frac = 0]
<1>1. x \in Texts /\ x.int \in Nat BY DEF IsText, Texts
<1>2. w.int = x.int /\ w.places = 0 /\ w.frac = 0 BY <1>1 DEF Texts
<1>. HIDE DEF w
<1>3. Length[x.int] \in Nat BY <1>1, LengthIs
<1>4. Count(w) = CountWhole(x) BY <1>2, <1>3 DEF Count, CountWhole
<1>. QED BY <1>4 DEF w

\* s is t, cut to the longest text that fits.
IsShown(s, t, opts, c) ==
  /\ c \in Nat /\ c =< t.places /\ s = Places(t, c) /\ Fits(opts, s)
  /\ c < t.places => ~Fits(opts, Places(t, c + 1))

Cutting(t, opts) ==
  LET p == IF opts.precision = None THEN t ELSE Places(t, Shorter(opts.precision, t.places))
  IN Significant(p, opts.digits)

LEMMA Shown ==
  ASSUME NEW t, IsText(t), NEW opts \in FormatOptions
  PROVE  \E c \in Nat : IsShown(Cutting(t, opts), t, opts, c)
<1>. DEFINE m == opts.precision
            L == opts.digits
            P == t.places
            q == IF m = None THEN P ELSE Shorter(m, P)
            p == Places(t, q)
            W == CountWhole(t)
<1>1. /\ m \in Nat \cup {None} /\ L \in Nat \cup {None} /\ P \in Nat
  BY DEF FormatOptions, IsText, Texts
<1>2. (IF m = None THEN t ELSE Places(t, Shorter(m, P))) = p
  <2>1. Places(t, P) = t BY PlacesKept
  <2>. QED BY <2>1
<1>3. Cutting(t, opts) = Significant(p, L) BY <1>2, Zenon DEF Cutting
<1>. HIDE DEF m, L, P
<1>4. /\ q \in Nat /\ q =< P /\ (m # None => m \in Nat /\ q =< m)
      /\ q < P => m # None /\ q = m
  BY <1>1 DEF Shorter
<1>. HIDE DEF q
<1>5. HasPlaces(p, t, q, t.frac \div Ten[P - q]) BY <1>4, FewerPlaces DEF P
<1>6. CountWhole(p) = W BY <1>4, CountCut DEF P
<1>. HIDE DEF p
<1>7. IsText(p) /\ p.places = q BY <1>5 DEF HasPlaces
\* A cut text fits when it has few enough places and digits.
<1>8. ASSUME NEW c \in Nat, c =< P
      PROVE  /\ IsText(Places(t, c))
             /\ Fits(opts, Places(t, c)) <=>
                  (m # None => c <= m) /\ (L # None => Count(Places(t, c)) <= Larger(L, W))
  <2>. DEFINE x == Places(t, c)
  <2>1. HasPlaces(x, t, c, t.frac \div Ten[P - c]) BY <1>8, FewerPlaces DEF P
  <2>2. CountWhole(x) = W BY <1>8, CountCut DEF P
  <2>. HIDE DEF x
  <2>3. IsText(x) /\ x.places = c BY <2>1 DEF HasPlaces
  <2>4. Count([x EXCEPT !.places = 0, !.frac = 0]) = W BY <2>2, <2>3, WholeIs
  <2>5. Fits(opts, x) <=> (m # None => c <= m) /\ (L # None => Count(x) <= Larger(L, W))
    BY <2>3, <2>4, Zenon DEF Fits, m, L
  <2>. QED BY <2>3, <2>5 DEF x
<1>9. ASSUME NEW c \in Nat, c =< q PROVE Places(p, c) = Places(t, c)
  <2>1. Places(Places(t, q), c) = Places(t, c) BY <1>4, <1>9, PlacesTwice DEF P
  <2>. QED BY <2>1 DEF p
<1>. HIDE DEF W
<1>10. CASE L = None
  <2>1. Significant(p, L) = p BY <1>10, Zenon DEF Significant
  <2>2. Fits(opts, Places(t, q)) BY <1>4, <1>8, <1>10
  <2>3. ASSUME q < P PROVE ~Fits(opts, Places(t, q + 1))
    <3>. DEFINE d == q + 1
    <3>1. d \in Nat /\ d =< P /\ m # None /\ ~(d =< m) BY <1>1, <1>4, <2>3
    <3>. HIDE DEF d
    <3>2. ~Fits(opts, Places(t, d)) BY <1>8, <3>1
    <3>. QED BY <3>2 DEF d
  <2>4. IsShown(p, t, opts, q) BY <1>4, <2>2, <2>3, Zenon DEF IsShown, p, P
  <2>. QED BY <1>3, <1>4, <2>1, <2>4
<1>11. CASE L # None
  <2>. DEFINE s == Significant(p, L)
  <2>1. L \in Nat BY <1>1, <1>11
  <2>2. PICK c \in Nat : IsLimited(s, p, L, c) BY <1>7, <2>1, SignificantIs
  <2>. HIDE DEF s
  <2>3. /\ c =< q /\ s = Places(p, c) /\ Count(s) =< Larger(L, W)
        /\ c < q => Count(Places(p, c + 1)) > Larger(L, W)
    BY <1>6, <1>7, <2>2 DEF IsLimited
  <2>4. c =< P /\ s = Places(t, c) BY <1>1, <1>4, <1>9, <2>3
  <2>5. Fits(opts, s)
    <3>1. m # None => c =< m BY <1>4, <2>3
    <3>. QED BY <1>8, <2>3, <2>4, <3>1
  <2>6. ASSUME c < P PROVE ~Fits(opts, Places(t, c + 1))
    <3>. DEFINE d == c + 1
    <3>1. d \in Nat /\ d =< P BY <1>1, <2>6
    <3>2. CASE c < q
      <4>1. d =< q BY <1>4, <3>2
      <4>2. Count(Places(p, d)) > Larger(L, W) BY <2>3, <3>2
      <4>. HIDE DEF d
      <4>3. Count(Places(t, d)) > Larger(L, W) BY <1>9, <3>1, <4>1, <4>2
      <4>4. Count(Places(t, d)) \in Nat /\ Larger(L, W) \in Nat
        <5>1. IsText(Places(t, d)) BY <1>8, <3>1
        <5>2. IsCounted(Count(Places(t, d)), CountWhole(Places(t, d)), Places(t, d).places)
          BY <5>1, Counted
        <5>3. IsCounted(Count(p), W, q) BY <1>6, <1>7, Counted
        <5>4. W \in Nat BY <5>3 DEF IsCounted
        <5>. QED BY <2>1, <5>2, <5>4 DEF IsCounted, Larger
      <4>5. ~(Count(Places(t, d)) =< Larger(L, W)) BY <4>3, <4>4
      <4>6. ~Fits(opts, Places(t, d)) BY <1>8, <1>11, <3>1, <4>5
      <4>. QED BY <4>6 DEF d
    <3>3. CASE ~(c < q)
      <4>1. c = q /\ m # None /\ ~(d =< m) BY <1>4, <2>3, <2>6, <3>3
      <4>. HIDE DEF d
      <4>2. ~Fits(opts, Places(t, d)) BY <1>8, <3>1, <4>1
      <4>. QED BY <4>2 DEF d
    <3>. QED BY <3>2, <3>3
  <2>7. IsShown(s, t, opts, c) BY <2>4, <2>5, <2>6, Zenon DEF IsShown, P
  <2>. QED BY <1>3, <2>7 DEF s
<1>. QED BY <1>10, <1>11

LEMMA FullIsText ==
  ASSUME NEW a, Canonical(a)
  PROVE  IsText(FullText(a))
<1>. DEFINE t == FullText(a)
            o == Order(a)
<1>1. PICK z \in Nat : IsFull(t, a, z) BY FullTextIs
<1>2. /\ o \in Nat /\ a.value % Ten[o] < Ten[o]
      /\ IsTrimmed(t, a.neg, a.value \div Ten[o], o, a.value % Ten[o], z)
  BY <1>1 DEF IsFull
<1>. HIDE DEF t, o
<1>3. /\ t \in Texts /\ z \in 0..o /\ t.places = o - z /\ t.dot = (o > z)
      /\ t.frac * Ten[z] = a.value % Ten[o]
  BY <1>2 DEF IsTrimmed
<1>4. t.frac \in Nat /\ t.places \in Nat BY <1>3 DEF Texts
<1>5. t.dot = (t.places > 0)
  <2>1. (o > z) <=> (t.places > 0) BY <1>2, <1>3
  <2>. QED BY <1>3, <2>1
<1>6. t.frac < Ten[t.places]
  <2>. DEFINE p == t.places
              c == Ten[p]
              d == Ten[z]
              f == t.frac
  <2>1. p \in Nat /\ o = p + z BY <1>2, <1>3, <1>4
  <2>. HIDE DEF p
  <2>2. c \in Nat /\ d \in Nat /\ d > 0 BY <2>1, TenType
  <2>3. Ten[o] = c * d BY <2>1, TenSum
  <2>. HIDE DEF c, d, f
  <2>4. f * d < c * d BY <1>2, <1>3, <2>3 DEF f, d
  <2>5. f \in Nat BY <1>4 DEF f
  <2>6. f < c BY <2>2, <2>4, <2>5, LessTimes
  <2>. QED BY <2>6 DEF f, c, p
<1>. QED BY <1>3, <1>5, <1>6 DEF IsText, t

LEMMA HumanIs ==
  ASSUME NEW a, NEW opts
  PROVE  LET t == FullText(a)
             s == Cutting(t, opts)
         IN Formatted(a, opts) = IF t.places = 0 /\ opts.skip THEN t
                                 ELSE Places(s, Larger(opts.min, s.places))
<1>. DEFINE t == FullText(a)
<1>1. t = Trimmed(a.neg, a.value \div Ten[Order(a)], Order(a), a.value % Ten[Order(a)])
  BY Zenon DEF FullText
<1>. QED BY <1>1, Zenon DEF Formatted, Cutting

\* The law of formatting, of the texts it relates.
IsFormatted(full, cut, t, opts) ==
  /\ cut = Places(full, cut.places) /\ Fits(opts, cut)
  /\ cut.places < full.places => ~Fits(opts, Places(full, cut.places + 1))
  /\ Places(t, cut.places) = cut
  /\ t.places = Larger(cut.places, opts.min) \/ (opts.skip /\ full.places = 0)

\* to_human: options only cut digits of the fraction, and no more than they must;
\* the least number of places only adds zeros.
THEOREM FormatsKeepTheLaw ==
  ASSUME NEW a, Canonical(a), NEW opts \in FormatOptions
  PROVE  FormatLaw(a, opts)
<1>. DEFINE full == FullText(a)
            none == [opts EXCEPT !.min = 0]
            cut == Formatted(a, none)
            t == Formatted(a, opts)
            s == Cutting(full, opts)
            m == opts.min
            P == full.places
<1>1. /\ none.min = 0 /\ none.skip = opts.skip /\ none.precision = opts.precision
      /\ none.digits = opts.digits /\ m \in Nat /\ opts.skip \in BOOLEAN
  BY DEF FormatOptions
<1>2. IsText(full) BY FullIsText
<1>. HIDE DEF none
<1>3. Cutting(full, none) = s BY <1>1, Zenon DEF Cutting
<1>4. cut = IF P = 0 /\ opts.skip THEN full ELSE Places(s, Larger(0, s.places))
  BY <1>1, <1>3, HumanIs, Zenon
<1>5. t = IF P = 0 /\ opts.skip THEN full ELSE Places(s, Larger(m, s.places))
  BY HumanIs, Zenon
<1>. HIDE DEF full, cut, t, s, m
<1>6. P \in Nat BY <1>2 DEF IsText, Texts
<1>7. IsFormatted(full, cut, t, opts)
  <2>1. CASE P = 0 /\ opts.skip
    <3>1. cut = full /\ t = full BY <1>4, <1>5, <2>1
    <3>2. Places(full, P) = full BY <1>2, PlacesKept
    <3>3. Fits(opts, full)
      <4>1. opts.precision # None => P <= opts.precision
        BY <2>1 DEF FormatOptions
      <4>2. Count([full EXCEPT !.places = 0, !.frac = 0]) = CountWhole(full)
        BY <1>2, WholeIs
      <4>3. Count(full) = CountWhole(full)
        <5>1. IsCounted(Count(full), CountWhole(full), P) BY <1>2, Counted
        <5>. QED BY <2>1, <5>1 DEF IsCounted
      <4>4. opts.digits # None => CountWhole(full) <= Larger(opts.digits, CountWhole(full))
        <5>1. IsCounted(Count(full), CountWhole(full), P) BY <1>2, Counted
        <5>2. CountWhole(full) \in Nat BY <5>1 DEF IsCounted
        <5>3. opts.digits \in Nat \cup {None} BY DEF FormatOptions
        <5>. DEFINE w == CountWhole(full)
                    d == opts.digits
        <5>. HIDE DEF w, d
        <5>4. d # None => w <= Larger(d, w) BY <5>2, <5>3 DEF w, d, Larger
        <5>. QED BY <5>4 DEF w, d
      <4>. QED BY <4>1, <4>2, <4>3, <4>4, Zenon DEF Fits
    <3>4. ~(full.places < full.places) BY <1>6
    <3>. QED BY <2>1, <3>1, <3>2, <3>3, <3>4, Zenon DEF IsFormatted
  <2>2. CASE ~(P = 0 /\ opts.skip)
    <3>1. PICK c \in Nat : IsShown(s, full, opts, c) BY <1>2, Shown DEF s
    <3>2. /\ c =< P /\ s = Places(full, c) /\ Fits(opts, s)
          /\ c < P => ~Fits(opts, Places(full, c + 1))
      BY <3>1 DEF IsShown
    <3>3. IsText(s) /\ s.places = c
      <4>1. HasPlaces(Places(full, c), full, c, full.frac \div Ten[P - c])
        BY <1>2, <3>2, FewerPlaces
      <4>. QED BY <3>2, <4>1 DEF HasPlaces
    <3>4. cut = s
      <4>1. cut = Places(s, Larger(0, c)) BY <1>4, <2>2, <3>3
      <4>2. Larger(0, c) = c BY DEF Larger
      <4>3. Places(s, c) = s BY <3>3, PlacesKept
      <4>. QED BY <4>1, <4>2, <4>3
    <3>5. t = Places(s, Larger(m, c)) BY <1>5, <2>2, <3>3
    <3>. DEFINE n == Larger(m, c)
    <3>6. n \in Nat /\ c =< n /\ n = Larger(c, m)
      <4>1. m \in Nat BY <1>1
      <4>. QED BY <4>1 DEF Larger
    <3>. HIDE DEF n
    <3>7. HasPlaces(Places(s, n), s, n, s.frac * Ten[n - c]) BY <3>3, <3>6, MorePlaces
    <3>8. t.places = n BY <3>5, <3>7 DEF HasPlaces, n
    <3>9. Places(t, c) = s BY <3>3, <3>5, <3>6, PlacesBack DEF n
    <3>10. cut.places = c /\ cut = Places(full, cut.places) BY <3>2, <3>3, <3>4
    <3>11. t.places = Larger(cut.places, opts.min) BY <3>6, <3>8, <3>10 DEF m
    <3>. QED BY <3>2, <3>4, <3>9, <3>10, <3>11, Zenon DEF IsFormatted
  <2>. QED BY <2>1, <2>2
<1>8. Formatted(a, Plain(TRUE)) = full BY PlainText DEF full
<1>9. t.int \in Nat
  <2>1. t \in Texts
    <3>1. CASE P = 0 /\ opts.skip BY <1>2, <1>5, <3>1 DEF IsText
    <3>2. CASE ~(P = 0 /\ opts.skip)
      <4>1. PICK c \in Nat : IsShown(s, full, opts, c) BY <1>2, Shown DEF s
      <4>2. IsText(s) /\ s.places = c
        <5>1. HasPlaces(Places(full, c), full, c, full.frac \div Ten[P - c])
          BY <1>2, <4>1, FewerPlaces DEF IsShown
        <5>. QED BY <4>1, <5>1 DEF HasPlaces, IsShown
      <4>. DEFINE n == Larger(m, c)
      <4>3. n \in Nat /\ c =< n
        <5>1. m \in Nat BY <1>1
        <5>. QED BY <5>1 DEF Larger
      <4>4. t = Places(s, n) BY <1>5, <3>2, <4>2
      <4>. HIDE DEF n
      <4>5. HasPlaces(Places(s, n), s, n, s.frac * Ten[n - c]) BY <4>2, <4>3, MorePlaces
      <4>. QED BY <4>4, <4>5 DEF HasPlaces, IsText
    <3>. QED BY <3>1, <3>2
  <2>. QED BY <2>1 DEF Texts
<1>10. ToHuman(a, opts).commas > 0 <=> opts.sep /\ t.int >= Ten[WidthOf(opts)]
  <2>1. ToHuman(a, opts).commas = Separators(t.int, opts) BY DEF ToHuman, t
  <2>. QED BY <1>9, <2>1, SeparatorsAppear
<1>11. FormatLaw(a, opts) <=>
         /\ IsFormatted(full, cut, t, opts)
         /\ ToHuman(a, opts).commas > 0 <=> opts.sep /\ t.int >= Ten[WidthOf(opts)]
  BY <1>8, Zenon DEF FormatLaw, IsFormatted, Fits, Count, cut, t, none, WidthOf
<1>. QED BY <1>7, <1>10, <1>11

-----------------------------------------------------------------------------
(* The bytes of an amount.                                                   *)

\* Division by 256 splits off the last byte.
LEMMA LastByte ==
  ASSUME NEW n \in Nat
  PROVE  /\ n \div 256 \in Nat /\ n = 256 * (n \div 256) + (n % 256)
         /\ n % 256 \in Nat /\ n % 256 <= 255
<1>1. n \div 256 \in Nat OBVIOUS
<1>2. n % 256 \in Nat /\ n % 256 <= 255 OBVIOUS
<1>3. n = 256 * (n \div 256) + (n % 256) OBVIOUS
<1>. QED BY <1>1, <1>2, <1>3

\* The definition of Rest, up to N bytes.
RestsTo(g, v, N) ==
  /\ g = [k \in 0..N |-> g[k]]
  /\ g[0] = v
  /\ \A k \in 0..N : k < N => g[k + 1] = g[k] \div 256

LEMMA RestsExist == \A N \in Nat : \A v : \E g : RestsTo(g, v, N)
<1>. DEFINE Is(g, v, n) == RestsTo(g, v, n)
            I == {n \in Nat : \A v : \E g : Is(g, v, n)}
<1>1. 0 \in I
  <2>. SUFFICES ASSUME NEW v PROVE \E g : Is(g, v, 0) OBVIOUS
  <2>. DEFINE g == [k \in 0..0 |-> v]
  <2>1. Is(g, v, 0) BY DEF RestsTo
  <2>. QED BY <2>1
<1>2. ASSUME NEW m \in Nat, m \in I PROVE m + 1 \in I
  <2>. SUFFICES ASSUME NEW v PROVE \E g : Is(g, v, m + 1) OBVIOUS
  <2>1. PICK g : Is(g, v, m) BY <1>2
  <2>. DEFINE h == [k \in 0..m + 1 |-> IF k = m + 1 THEN g[m] \div 256 ELSE g[k]]
  <2>2. h = [k \in 0..m + 1 |-> h[k]] OBVIOUS
  <2>3. h[0] = v BY <2>1 DEF RestsTo
  <2>4. ASSUME NEW k \in 0..m + 1, k < m + 1 PROVE h[k + 1] = h[k] \div 256
    <3>1. k \in 0..m /\ k + 1 \in 0..m + 1 /\ k # m + 1 BY <2>4
    <3>2. CASE k = m BY <3>1, <3>2
    <3>3. CASE k # m
      <4>1. k < m /\ k + 1 # m + 1 BY <3>1, <3>3
      <4>. QED BY <2>1, <3>1, <4>1 DEF RestsTo
    <3>. QED BY <3>2, <3>3
  <2>. HIDE DEF h
  <2>5. Is(h, v, m + 1) BY <2>2, <2>3, <2>4 DEF RestsTo
  <2>. QED BY <2>5
<1>3. \A n \in Nat : n \in I
  <2>. HIDE DEF I
  <2>. QED BY <1>1, <1>2, AllNumbers
<1>. QED BY <1>3

LEMMA RestsAgree ==
  ASSUME NEW v, NEW M \in Nat, NEW N \in Nat, NEW g, NEW h, RestsTo(g, v, M), RestsTo(h, v, N)
  PROVE  \A n \in Nat : n =< M /\ n =< N => g[n] = h[n]
<1>. DEFINE I == {n \in Nat : n =< M /\ n =< N => g[n] = h[n]}
<1>1. 0 \in I BY DEF RestsTo
<1>2. ASSUME NEW n \in Nat, n \in I PROVE n + 1 \in I
  <2>. SUFFICES ASSUME n + 1 =< M, n + 1 =< N PROVE g[n + 1] = h[n + 1] OBVIOUS
  <2>1. n \in 0..M /\ n < M /\ n \in 0..N /\ n < N OBVIOUS
  <2>2. g[n] = h[n] BY <1>2, <2>1
  <2>3. g[n + 1] = g[n] \div 256 BY <2>1 DEF RestsTo
  <2>4. h[n + 1] = h[n] \div 256 BY <2>1 DEF RestsTo
  <2>. QED BY <2>2, <2>3, <2>4, Zenon
<1>. HIDE DEF I
<1>3. \A n \in Nat : n \in I BY <1>1, <1>2, AllNumbers
<1>. QED BY <1>3 DEF I

\* The function in Rest is the one its definition describes.
LEMMA RestDefined ==
  ASSUME NEW v, NEW N \in Nat
  PROVE  \E g : RestsTo(g, v, N) /\ Rest(v, N) = g[N]
<1>. DEFINE Def(g, k) == IF k = 0 THEN v ELSE g[k - 1] \div 256
            f == CHOOSE g : g = [k \in 0..N |-> Def(g, k)]
<1>1. PICK h : RestsTo(h, v, N) BY RestsExist
<1>2. ASSUME NEW k \in 0..N PROVE h[k] = Def(h, k)
  <2>1. CASE k = 0 BY <1>1, <2>1 DEF RestsTo
  <2>2. CASE k # 0
    <3>1. k - 1 \in 0..N /\ k - 1 < N /\ (k - 1) + 1 = k BY <2>2
    <3>. QED BY <1>1, <2>2, <3>1 DEF RestsTo
  <2>. QED BY <2>1, <2>2
<1>3. h = [k \in 0..N |-> h[k]] BY <1>1 DEF RestsTo
<1>4. h = [k \in 0..N |-> Def(h, k)] BY <1>2, <1>3
<1>5. f = [k \in 0..N |-> Def(f, k)] BY <1>4, SMTT(30)
<1>6. Rest(v, N) = f[N] BY DEF Rest
<1>. HIDE DEF f
<1>7. f = [k \in 0..N |-> f[k]] BY <1>5
<1>8. f[0] = v BY <1>5
<1>9. ASSUME NEW k \in 0..N, k < N PROVE f[k + 1] = f[k] \div 256
  <2>1. k + 1 \in 0..N /\ k + 1 # 0 /\ (k + 1) - 1 = k BY <1>9
  <2>2. f[k + 1] = IF k + 1 = 0 THEN v ELSE f[(k + 1) - 1] \div 256 BY <1>5, <2>1, Zenon
  <2>3. f[k + 1] = f[(k + 1) - 1] \div 256 BY <2>1, <2>2, Zenon
  <2>. QED BY <2>1, <2>3, Zenon
<1>10. RestsTo(f, v, N) BY <1>7, <1>8, <1>9 DEF RestsTo
<1>. QED BY <1>6, <1>10

LEMMA NoneCut == ASSUME NEW v PROVE Rest(v, 0) = v
BY RestDefined DEF RestsTo

LEMMA RestStep ==
  ASSUME NEW v, NEW n \in Nat
  PROVE  Rest(v, n + 1) = Rest(v, n) \div 256
<1>1. PICK g : RestsTo(g, v, n) /\ Rest(v, n) = g[n] BY RestDefined
<1>2. PICK h : RestsTo(h, v, n + 1) /\ Rest(v, n + 1) = h[n + 1]
  <2>1. n + 1 \in Nat OBVIOUS
  <2>. QED BY <2>1, RestDefined
<1>3. g[n] = h[n]
  <2>1. n + 1 \in Nat /\ n =< n /\ n =< n + 1 OBVIOUS
  <2>. QED BY <1>1, <1>2, <2>1, RestsAgree
<1>4. h[n + 1] = h[n] \div 256
  <2>1. n \in 0..n + 1 /\ n < n + 1 OBVIOUS
  <2>. QED BY <1>2, <2>1, Zenon DEF RestsTo
<1>. QED BY <1>1, <1>2, <1>3, <1>4, Zenon

LEMMA RestType == ASSUME NEW v \in Nat PROVE \A n \in Nat : Rest(v, n) \in Nat
<1>. DEFINE I == {n \in Nat : Rest(v, n) \in Nat}
<1>1. 0 \in I BY NoneCut
<1>2. ASSUME NEW n \in Nat, n \in I PROVE n + 1 \in I
  <2>1. Rest(v, n) \in Nat /\ Rest(v, n + 1) = Rest(v, n) \div 256 BY <1>2, RestStep, ZenonT(30)
  <2>2. Rest(v, n) \div 256 \in Nat BY <2>1, LastByte
  <2>3. Rest(v, n + 1) \in Nat BY <2>1, <2>2, Zenon
  <2>. QED BY <2>3
<1>. HIDE DEF I
<1>3. \A n \in Nat : n \in I BY <1>1, <1>2, AllNumbers
<1>. QED BY <1>3 DEF I

\* A smaller number leaves no more.
LEMMA RestOrder ==
  ASSUME NEW u \in Nat, NEW v \in Nat, u =< v
  PROVE  \A n \in Nat : Rest(u, n) =< Rest(v, n)
<1>. DEFINE I == {n \in Nat : Rest(u, n) =< Rest(v, n)}
<1>1. 0 \in I BY NoneCut
<1>2. ASSUME NEW n \in Nat, n \in I PROVE n + 1 \in I
  <2>1. Rest(u, n) \in Nat /\ Rest(v, n) \in Nat /\ Rest(u, n) =< Rest(v, n) BY <1>2, RestType
  <2>2. \A a, b \in Nat : a =< b => a \div 256 =< b \div 256 OBVIOUS
  <2>3. Rest(u, n) \div 256 =< Rest(v, n) \div 256 BY <2>1, <2>2
  <2>4. Rest(u, n + 1) = Rest(u, n) \div 256 BY RestStep, ZenonT(30)
  <2>5. Rest(v, n + 1) = Rest(v, n) \div 256 BY RestStep, ZenonT(30)
  <2>6. Rest(u, n + 1) =< Rest(v, n + 1) BY <2>3, <2>4, <2>5, Zenon
  <2>. QED BY <2>6
<1>. HIDE DEF I
<1>3. \A n \in Nat : n \in I BY <1>1, <1>2, AllNumbers
<1>. QED BY <1>3 DEF I

Octets == 0..255

LEMMA BytesType ==
  ASSUME NEW v \in Nat, NEW w \in Nat
  PROVE  Bytes(v, w) \in [1..w -> Octets] /\ Bytes(v, w) \in Seq(Octets) /\ Len(Bytes(v, w)) = w
<1>1. ASSUME NEW i \in 1..w PROVE Rest(v, w - i) % 256 \in Octets
  <2>1. w - i \in Nat OBVIOUS
  <2>2. Rest(v, w - i) \in Nat BY <2>1, RestType
  <2>. QED BY <2>2, LastByte DEF Octets
<1>2. Bytes(v, w) \in [1..w -> Octets] BY <1>1 DEF Bytes
<1>. QED BY <1>2

\* What reads as the number n.
ReadsTo(g, s) ==
  /\ g = [i \in 0..Len(s) |-> g[i]]
  /\ g[0] = 0
  /\ \A i \in 1..Len(s) : g[i] = (g[i - 1] * 256) + s[i]

LEMMA NumberDefined ==
  ASSUME NEW s \in Seq(Octets), NEW g, ReadsTo(g, s)
  PROVE  Number(s) = g[Len(s)]
<1>. DEFINE N == Len(s)
            Def(f, i) == IF i = 0 THEN 0 ELSE (f[i - 1] * 256) + s[i]
            f == CHOOSE h : h = [i \in 0..N |-> Def(h, i)]
<1>. N \in Nat OBVIOUS
<1>1. ASSUME NEW i \in 0..N PROVE g[i] = Def(g, i)
  <2>1. CASE i = 0 BY <2>1 DEF ReadsTo
  <2>2. CASE i # 0
    <3>1. i \in 1..N BY <2>2
    <3>2. g[i] = (g[i - 1] * 256) + s[i] BY <3>1, Zenon DEF ReadsTo
    <3>. QED BY <2>2, <3>2, Zenon
  <2>. QED BY <2>1, <2>2
<1>2. g = [i \in 0..N |-> g[i]] BY DEF ReadsTo
<1>3. g = [i \in 0..N |-> Def(g, i)] BY <1>1, <1>2
<1>4. f = [i \in 0..N |-> Def(f, i)]
  <2>. HIDE DEF N
  <2>1. \E h : h = [i \in 0..N |-> Def(h, i)] BY <1>3, ZenonT(30)
  <2>. QED BY <2>1, ZenonT(30)
<1>5. Number(s) = f[N] BY DEF Number
<1>. HIDE DEF f, N
<1>. DEFINE I == {i \in Nat : i =< N => f[i] = g[i]}
<1>6. 0 \in I BY <1>4 DEF ReadsTo
<1>7. ASSUME NEW n \in Nat, n \in I PROVE n + 1 \in I
  <2>. SUFFICES ASSUME n + 1 =< N PROVE f[n + 1] = g[n + 1] OBVIOUS
  <2>1. n + 1 \in 1..N /\ n + 1 \in 0..N /\ n + 1 # 0 /\ (n + 1) - 1 = n /\ n =< N OBVIOUS
  <2>2. f[n + 1] = Def(f, n + 1) BY <1>4, <2>1
  <2>3. g[n + 1] = Def(g, n + 1) BY <1>1, <2>1 DEF N
  <2>4. f[n] = g[n] BY <1>7, <2>1
  <2>5. f[(n + 1) - 1] = g[(n + 1) - 1] BY <2>1, <2>4, Zenon
  <2>. QED BY <2>2, <2>3, <2>5, Zenon
<1>. HIDE DEF I
<1>8. \A n \in Nat : n \in I BY <1>6, <1>7, AllNumbers
<1>9. f[N] = g[N] BY <1>8 DEF I
<1>. QED BY <1>5, <1>9 DEF N

\* A number that w bytes can hold is the number its w bytes stand for.
LEMMA BytesReadBack ==
  ASSUME NEW v \in Nat, NEW w \in Nat, Rest(v, w) = 0
  PROVE  Number(Bytes(v, w)) = v
<1>. DEFINE s == Bytes(v, w)
            g == [i \in 0..w |-> Rest(v, w - i)]
<1>1. s \in Seq(Octets) /\ Len(s) = w BY BytesType
<1>2. ASSUME NEW i \in 1..w PROVE g[i] = (g[i - 1] * 256) + s[i]
  <2>1. i \in 0..w /\ i - 1 \in 0..w /\ w - i \in Nat /\ w - (i - 1) = (w - i) + 1 OBVIOUS
  <2>2. g[i] = Rest(v, w - i) /\ g[i - 1] = Rest(v, (w - i) + 1) BY <2>1
  <2>3. s[i] = Rest(v, w - i) % 256 BY DEF Bytes
  <2>4. Rest(v, (w - i) + 1) = Rest(v, w - i) \div 256 BY <2>1, RestStep, ZenonT(30)
  <2>5. Rest(v, w - i) \in Nat BY <2>1, RestType
  <2>6. Rest(v, w - i) = 256 * (Rest(v, w - i) \div 256) + (Rest(v, w - i) % 256)
    BY <2>5, LastByte
  <2>7. Rest(v, w - i) \div 256 \in Nat /\ Rest(v, w - i) % 256 \in Nat BY <2>5, LastByte
  <2>. HIDE DEF g, s
  <2>. QED BY <2>2, <2>3, <2>4, <2>6, <2>7
<1>3. g[0] = 0 /\ g[w] = v
  <2>1. 0 \in 0..w /\ w \in 0..w /\ w - 0 = w /\ w - w = 0 OBVIOUS
  <2>. QED BY <2>1, NoneCut
<1>4. g = [i \in 0..w |-> g[i]] OBVIOUS
<1>. HIDE DEF g, s
<1>5. ReadsTo(g, s) BY <1>1, <1>2, <1>3, <1>4, SMTT(30) DEF ReadsTo
<1>6. Number(s) = g[w] BY <1>1, <1>5, NumberDefined
<1>. QED BY <1>3, <1>6 DEF s

LEMMA NoRest == \A n \in Nat : Rest(0, n) = 0
<1>. DEFINE I == {n \in Nat : Rest(0, n) = 0}
<1>1. 0 \in I BY NoneCut
<1>2. ASSUME NEW n \in Nat, n \in I PROVE n + 1 \in I
  <2>1. Rest(0, n + 1) = Rest(0, n) \div 256 BY RestStep, ZenonT(30)
  <2>2. Rest(0, n) = 0 BY <1>2
  <2>3. 0 \div 256 = 0 OBVIOUS
  <2>4. Rest(0, n + 1) = 0 BY <2>1, <2>2, <2>3, Zenon
  <2>. QED BY <2>4
<1>. HIDE DEF I
<1>3. \A n \in Nat : n \in I BY <1>1, <1>2, AllNumbers
<1>. QED BY <1>3 DEF I

\* Only zero has the bytes of zero.
LEMMA BytesOfZero ==
  ASSUME NEW w \in Nat
  PROVE  /\ \A i \in 1..w : Bytes(0, w)[i] = 0
         /\ Number(Bytes(0, w)) = 0
         /\ \A v \in Nat : Rest(v, w) = 0 /\ (\A i \in 1..w : Bytes(v, w)[i] = 0) => v = 0
<1>1. ASSUME NEW i \in 1..w PROVE Bytes(0, w)[i] = 0
  <2>1. w - i \in Nat OBVIOUS
  <2>2. Rest(0, w - i) = 0 BY <2>1, NoRest
  <2>3. Bytes(0, w)[i] = Rest(0, w - i) % 256 BY DEF Bytes
  <2>. QED BY <2>2, <2>3
<1>2. Number(Bytes(0, w)) = 0 BY NoRest, BytesReadBack
<1>3. ASSUME NEW v \in Nat, Rest(v, w) = 0, \A i \in 1..w : Bytes(v, w)[i] = 0
      PROVE  v = 0
  <2>1. Bytes(v, w) \in [1..w -> Octets] /\ Bytes(0, w) \in [1..w -> Octets] BY BytesType
  <2>2. Bytes(v, w) = Bytes(0, w) BY <1>1, <1>3, <2>1
  <2>3. Number(Bytes(v, w)) = v BY <1>3, BytesReadBack
  <2>. QED BY <1>2, <2>2, <2>3
<1>. QED BY <1>1, <1>2, <1>3

\* A number below one whose highest of w + 1 bytes is less than 64 is, too.
LEMMA HighByte ==
  ASSUME NEW v \in Nat, NEW m \in Nat, NEW w \in Nat, v =< m, Rest(m, w) < 64
  PROVE  /\ Rest(v, w + 1) = 0
         /\ Bytes(v, w + 1)[1] \in 0..63
<1>1. Rest(v, w) \in Nat /\ Rest(m, w) \in Nat /\ Rest(v, w) =< Rest(m, w) BY RestType, RestOrder
<1>2. Rest(v, w) \in 0..63 BY <1>1
<1>3. Rest(v, w + 1) = Rest(v, w) \div 256 BY RestStep, ZenonT(30)
<1>4. \A n \in 0..63 : n \div 256 = 0 /\ n % 256 = n OBVIOUS
<1>5. Bytes(v, w + 1)[1] = Rest(v, w) % 256
  <2>1. 1 \in 1..w + 1 /\ (w + 1) - 1 = w OBVIOUS
  <2>2. Bytes(v, w + 1)[1] = Rest(v, (w + 1) - 1) % 256 BY <2>1 DEF Bytes
  <2>. QED BY <2>1, <2>2
<1>6. Rest(v, w + 1) = 0 BY <1>2, <1>3, <1>4, Zenon
<1>7. Bytes(v, w + 1)[1] = Rest(v, w) BY <1>2, <1>4, <1>5, Zenon
<1>. QED BY <1>2, <1>6, <1>7, Zenon

\* The bit of the sign above six bits.
LEMMA SignBit ==
  ASSUME NEW h \in 0..63, NEW sign \in {0, 64}, NEW x \in Int, x = sign + h
  PROVE  /\ x \in 0..127 /\ x % 64 = h
         /\ (x \div 64) % 2 = 0 <=> sign = 0
         /\ x % 128 = 0 <=> sign = 0 /\ h = 0
<1>1. CASE sign = 0
  <2>1. x \in 0..63 /\ x = h BY <1>1
  <2>2. x % 64 = x /\ x \div 64 = 0 /\ x % 128 = x BY <2>1
  <2>. QED BY <1>1, <2>1, <2>2
<1>2. CASE sign = 64
  <2>1. x \in 64..127 /\ x = 64 + h BY <1>2
  <2>2. x % 64 = x - 64 /\ x \div 64 = 1 /\ x % 128 = x BY <2>1
  <2>. QED BY <1>2, <2>1, <2>2
<1>. QED BY <1>1, <1>2

LEMMA NativeBytes ==
  ASSUME NEW a \in Amounts, Canonical(a), a.native
  PROVE  /\ Written(a) \in [1..8 -> Octets]
         /\ Parsed(Written(a)) = Clone([a EXCEPT !.value = @ % WireLimit], FALSE)
<1>. DEFINE n == a.value % WireLimit
            b == Bytes(n, 8)
            sign == IF a.neg THEN 0 ELSE 64
            s == Written(a)
<1>1. a.value \in Nat /\ a.neg \in BOOLEAN /\ WireLimit \in Nat /\ WireLimit > 0
  BY WireAssumption DEF Amounts
<1>2. n \in Nat /\ n =< WireLimit - 1 /\ WireLimit - 1 \in Nat BY <1>1
<1>. HIDE DEF n
<1>3. Rest(n, 8) = 0 /\ b[1] \in 0..63
  <2>1. Rest(WireLimit - 1, 7) < 64 BY WireAssumption
  <2>2. 7 \in Nat /\ 7 + 1 = 8 OBVIOUS
  <2>3. Rest(n, 7 + 1) = 0 /\ Bytes(n, 7 + 1)[1] \in 0..63 BY <1>2, <2>1, HighByte
  <2>. QED BY <2>2, <2>3
<1>4. b \in [1..8 -> Octets] /\ Number(b) = n
  <2>1. 8 \in Nat OBVIOUS
  <2>. QED BY <1>2, <1>3, <2>1, BytesType, BytesReadBack
<1>5. (\A i \in 1..8 : b[i] = 0) <=> n = 0
  <2>1. 8 \in Nat OBVIOUS
  <2>2. (\A i \in 1..8 : b[i] = 0) => n = 0 BY <1>2, <1>3, <2>1, BytesOfZero
  <2>3. \A i \in 1..8 : Bytes(0, 8)[i] = 0 BY <2>1, BytesOfZero
  <2>4. n = 0 => \A i \in 1..8 : b[i] = 0 BY <2>3, Zenon
  <2>. QED BY <2>2, <2>4
<1>6. s = [b EXCEPT ![1] = sign + @] BY DEF Written, n
<1>. HIDE DEF b, s
<1>7. sign \in {0, 64} /\ (a.neg <=> sign = 0) OBVIOUS
<1>. HIDE DEF sign
<1>8. s[1] = sign + b[1] /\ \A i \in 2..8 : s[i] = b[i] BY <1>4, <1>6
<1>9. PICK h \in 0..63 : h = b[1] BY <1>3
<1>10. /\ s[1] \in Octets /\ s[1] < 128 /\ s[1] % 64 = h
       /\ (s[1] \div 64) % 2 = 0 <=> a.neg
       /\ s[1] % 128 = 0 <=> a.neg /\ h = 0
  <2>1. s[1] = sign + h BY <1>8, <1>9
  <2>2. /\ s[1] \in 0..127 /\ s[1] % 64 = h
        /\ (s[1] \div 64) % 2 = 0 <=> sign = 0
        /\ s[1] % 128 = 0 <=> sign = 0 /\ h = 0
    <3>. HIDE DEF sign
    <3>1. h \in 0..63 /\ sign \in {0, 64} BY <1>7, <1>9
    <3>2. s[1] \in Int BY <2>1, <3>1
    <3>. QED BY <2>1, <3>1, <3>2, SignBit
  <2>. QED BY <1>7, <2>2 DEF Octets
<1>11. s \in [1..8 -> Octets] BY <1>4, <1>6, <1>8, <1>10
<1>12. [s EXCEPT ![1] = @ % 64] = b BY <1>4, <1>8, <1>9, <1>10, <1>11
<1>13. WrittenZero(s) <=> a.neg /\ n = 0
  <2>1. WrittenZero(s) <=> a.neg /\ b[1] = 0 /\ \A i \in 2..8 : b[i] = 0
    BY <1>8, <1>9, <1>10 DEF WrittenZero
  <2>2. (\A i \in 1..8 : b[i] = 0) <=> b[1] = 0 /\ \A i \in 2..8 : b[i] = 0 OBVIOUS
  <2>. QED BY <1>5, <2>1, <2>2
<1>14. Parsed(s) = Amt(TRUE, n, 0, ~WrittenZero(s) /\ a.neg)
  BY <1>4, <1>10, <1>12 DEF Parsed
<1>15. ~WrittenZero(s) /\ a.neg <=> a.neg /\ n # 0 BY <1>13
<1>16. Clone([a EXCEPT !.value = @ % WireLimit], FALSE) = Amt(TRUE, n, 0, a.neg /\ n # 0)
  <2>. DEFINE c == [a EXCEPT !.value = n]
              z == ~IsZero(c) /\ (c.neg # FALSE)
  <2>1. a.native = TRUE /\ a.offset = 0 BY DEF Amounts, Canonical
  <2>2. c \in Amounts /\ c.native = a.native /\ c.value = n /\ c.offset = a.offset /\ c.neg = a.neg
    BY <1>2 DEF Amounts
  <2>3. [a EXCEPT !.value = @ % WireLimit] = c BY DEF n
  <2>. HIDE DEF c
  <2>4. z <=> (a.neg /\ n # 0) BY <1>1, <2>2 DEF IsZero
  <2>5. Clone(c, FALSE) = [c EXCEPT !.neg = z] BY Zenon DEF Clone
  <2>6. z \in BOOLEAN OBVIOUS
  <2>. HIDE DEF z
  <2>7. LET e == [c EXCEPT !.neg = z] IN
        /\ e \in Amounts /\ e.native = c.native /\ e.value = c.value
        /\ e.offset = c.offset /\ e.neg = z
    BY <2>2, <2>6 DEF Amounts
  <2>8. LET e == Amt(TRUE, n, 0, z) IN
        /\ e \in Amounts /\ e.native = TRUE /\ e.value = n /\ e.offset = 0 /\ e.neg = z
    BY <1>2, <2>6 DEF Amounts, Amt
  <2>9. Clone(c, FALSE) = Amt(TRUE, n, 0, z)
    <3>. DEFINE e == [c EXCEPT !.neg = z]
                f == Amt(TRUE, n, 0, z)
    <3>1. e \in Amounts /\ e.native = TRUE /\ e.value = n /\ e.offset = 0 /\ e.neg = z
      BY <2>1, <2>2, <2>7, Zenon
    <3>2. f \in Amounts /\ f.native = TRUE /\ f.value = n /\ f.offset = 0 /\ f.neg = z
      BY <2>8, Zenon
    <3>. HIDE DEF e, f
    <3>3. e = f BY <3>1, <3>2, SameFields, Zenon
    <3>. QED BY <2>5, <3>3 DEF e, f
  <2>10. z = (a.neg /\ n # 0) BY <2>4, <2>6, Zenon
  <2>. QED BY <2>3, <2>9, <2>10, Zenon
<1>17. Amt(TRUE, n, 0, ~WrittenZero(s) /\ a.neg) = Amt(TRUE, n, 0, a.neg /\ n # 0)
  BY <1>15, Zenon
<1>. QED BY <1>11, <1>14, <1>16, <1>17, Zenon DEF s

LEMMA BytesAre ==
  ASSUME NEW s \in Seq(Octets), Len(s) = 8
  PROVE  s \in [1..8 -> Octets] /\ \A i \in 1..8 : s[i] \in Octets
<1>1. s \in [1..Len(s) -> Octets] BY LenProperties, Zenon
<1>2. s \in [1..8 -> Octets] BY <1>1, Zenon
<1>. QED BY <1>2

LEMMA ParsedTokens ==
  ASSUME NEW s, s[1] \in 128..255
  PROVE  Parsed(s) = Amt(FALSE, Number(<<s[2] % 64>> \o SubSeq(s, 3, 8)),
                         ((s[1] % 64) * 4) + (s[2] \div 64) - 97,
                         ~WrittenZero(s) /\ (s[1] \div 64) % 2 = 0)
<1>1. (s[1] < 128) = FALSE OBVIOUS
<1>2. Parsed(s) =
        Amt(FALSE, Number(IF FALSE THEN [s EXCEPT ![1] = @ % 64]
                          ELSE <<s[2] % 64>> \o SubSeq(s, 3, 8)),
            IF FALSE THEN 0 ELSE ((s[1] % 64) * 4) + (s[2] \div 64) - 97,
            ~WrittenZero(s) /\ (s[1] \div 64) % 2 = 0)
  BY <1>1, Zenon DEF Parsed
<1>. QED BY <1>2, Zenon

\* What is read of eight bytes is the mantissa they hold.
LEMMA MantissaHeld ==
  ASSUME NEW s \in Seq(Octets), Len(s) = 8, NEW m \in Seq(Octets), Len(m) = 7,
         \A i \in 3..8 : s[i] = m[i - 1]
  PROVE  <<m[1]>> \o SubSeq(s, 3, 8) = m
<1>. DEFINE h == <<m[1]>>
            t == SubSeq(s, 3, 8)
<1>1. m[1] \in Octets
  <2>1. 1 \in 1..Len(m) OBVIOUS
  <2>. QED BY <2>1, ElementOfSeq
<1>2. h \in Seq(Octets) /\ Len(h) = 1 /\ h[1] = m[1] BY <1>1
<1>3. \A i \in 3..8 : s[i] \in Octets BY BytesAre
<1>4. t \in Seq(Octets) /\ Len(t) = 6 /\ \A i \in 1..6 : t[i] = s[3 + i - 1]
  <2>1. 3 \in Int /\ 8 \in Int OBVIOUS
  <2>2. /\ t \in Seq(Octets)
        /\ Len(t) = IF 3 <= 8 THEN 8 - 3 + 1 ELSE 0
        /\ \A i \in 1..8 - 3 + 1 : t[i] = s[3 + i - 1]
    BY <1>3, <2>1, SubSeqProperties
  <2>3. (3 <= 8) = TRUE /\ 8 - 3 + 1 = 6 OBVIOUS
  <2>4. Len(t) = 6 BY <2>2, <2>3
  <2>. QED BY <2>2, <2>3, <2>4, Zenon
<1>. HIDE DEF h, t
<1>5. /\ h \o t \in Seq(Octets) /\ Len(h \o t) = 7
      /\ \A i \in 1..7 : (h \o t)[i] = IF i <= 1 THEN h[i] ELSE t[i - 1]
  <2>1. /\ h \o t \in Seq(Octets) /\ Len(h \o t) = Len(h) + Len(t)
        /\ \A i \in 1..Len(h) + Len(t) : (h \o t)[i] = IF i <= Len(h) THEN h[i] ELSE t[i - Len(h)]
    BY <1>2, <1>4, ConcatProperties, Zenon
  <2>2. Len(h) = 1 /\ Len(h) + Len(t) = 7 BY <1>2, <1>4
  <2>. QED BY <2>1, <2>2, Zenon
<1>6. \A i \in 1..7 : (h \o t)[i] = m[i]
  <2>. TAKE i \in 1..7
  <2>1. CASE i = 1 BY <1>2, <1>5, <2>1
  <2>2. CASE i # 1
    <3>1. ~(i <= 1) /\ i - 1 \in 1..6 /\ 3 + (i - 1) - 1 = i + 1 /\ i + 1 \in 3..8
          /\ (i + 1) - 1 = i
      BY <2>2
    <3>2. (h \o t)[i] = t[i - 1] BY <1>5, <3>1
    <3>3. t[i - 1] = s[i + 1] BY <1>4, <3>1
    <3>4. s[i + 1] = m[i] BY <3>1
    <3>. QED BY <3>2, <3>3, <3>4, Zenon
  <2>. QED BY <2>1, <2>2
<1>7. h \o t = m
  <2>1. Len(h \o t) = Len(m) /\ \A i \in 1..Len(h \o t) : (h \o t)[i] = m[i] BY <1>5, <1>6
  <2>. QED BY <1>5, <2>1, SeqEqual, Zenon
<1>. QED BY <1>7 DEF h, t

\* Two bytes before the last six of a mantissa.
LEMMA MantissaWritten ==
  ASSUME NEW x \in Octets, NEW y \in Octets, NEW m \in Seq(Octets), Len(m) = 7
  PROVE  LET s == <<x, y>> \o Tail(m) IN
         /\ s \in Seq(Octets) /\ Len(s) = 8 /\ s[1] = x /\ s[2] = y
         /\ \A i \in 3..8 : s[i] = m[i - 1]
<1>. DEFINE h == <<x, y>>
            t == Tail(m)
            s == <<x, y>> \o Tail(m)
<1>1. h \in Seq(Octets) /\ Len(h) = 2 /\ h[1] = x /\ h[2] = y OBVIOUS
<1>2. t \in Seq(Octets) /\ Len(t) = 6 /\ \A i \in 1..6 : t[i] = m[i + 1]
  <2>1. m # <<>>
    <3>1. Len(<<>>) = 0 /\ ~(0 = 7) OBVIOUS
    <3>. QED BY <3>1, Zenon
  <2>2. t \in Seq(Octets) /\ Len(t) = Len(m) - 1 /\ \A i \in 1..Len(t) : t[i] = m[i + 1]
    BY <2>1, HeadTailProperties
  <2>3. Len(m) - 1 = 6 OBVIOUS
  <2>. QED BY <2>2, <2>3, Zenon
<1>3. s = h \o t OBVIOUS
<1>. HIDE DEF h, t, s
<1>4. /\ h \o t \in Seq(Octets) /\ Len(h \o t) = Len(h) + Len(t)
      /\ \A i \in 1..Len(h) + Len(t) : (h \o t)[i] = IF i <= Len(h) THEN h[i] ELSE t[i - Len(h)]
  BY <1>1, <1>2, ConcatProperties, Zenon
<1>5. Len(h) = 2 /\ Len(h) + Len(t) = 8 BY <1>1, <1>2
<1>6. /\ s \in Seq(Octets) /\ Len(s) = 8
      /\ \A i \in 1..8 : s[i] = IF i <= 2 THEN h[i] ELSE t[i - 2]
  BY <1>3, <1>4, <1>5, Zenon
<1>7. s[1] = x /\ s[2] = y BY <1>1, <1>6
<1>8. ASSUME NEW i \in 3..8 PROVE s[i] = m[i - 1]
  <2>1. i \in 1..8 /\ ~(i <= 2) /\ i - 2 \in 1..6 /\ (i - 2) + 1 = i - 1 OBVIOUS
  <2>2. s[i] = t[i - 2] BY <1>6, <2>1
  <2>3. t[i - 2] = m[i - 1] BY <1>2, <2>1
  <2>. QED BY <2>2, <2>3
<1>. QED BY <1>6, <1>7, <1>8 DEF s

\* A byte before others.
LEMMA FirstByte ==
  ASSUME NEW x \in Octets, NEW b \in Seq(Octets)
  PROVE  LET s == <<x>> \o b IN
         /\ s \in Seq(Octets) /\ Len(s) = Len(b) + 1
         /\ \A i \in 1..Len(b) + 1 : s[i] = IF i <= 1 THEN x ELSE b[i - 1]
<1>. DEFINE h == <<x>>
            s == <<x>> \o b
<1>1. h \in Seq(Octets) /\ Len(h) = 1 /\ h[1] = x OBVIOUS
<1>2. s = h \o b OBVIOUS
<1>. HIDE DEF h, s
<1>3. /\ h \o b \in Seq(Octets) /\ Len(h \o b) = Len(h) + Len(b)
      /\ \A i \in 1..Len(h) + Len(b) : (h \o b)[i] = IF i <= Len(h) THEN h[i] ELSE b[i - Len(h)]
  BY <1>1, ConcatProperties
<1>4. Len(h) + Len(b) = Len(b) + 1 BY <1>1
<1>5. ASSUME NEW i \in 1..Len(b) + 1 PROVE s[i] = IF i <= 1 THEN x ELSE b[i - 1]
  <2>1. s[i] = IF i <= 1 THEN h[i] ELSE b[i - 1] BY <1>1, <1>2, <1>3, <1>4, Zenon
  <2>2. i <= 1 => i = 1 OBVIOUS
  <2>. QED BY <1>1, <2>1, <2>2, Zenon
<1>6. s \in Seq(Octets) /\ Len(s) = Len(b) + 1 BY <1>2, <1>3, <1>4, Zenon
<1>. QED BY <1>5, <1>6, Zenon DEF s

LEMMA ZeroBytes ==
  ASSUME NEW a \in Amounts, ~a.native, IsZero(a)
  PROVE  /\ Written(a) \in [1..8 -> Octets] /\ WrittenZero(Written(a))
         /\ Parsed(Written(a)) = Amt(FALSE, 0, -97, FALSE)
<1>. DEFINE b == Bytes(0, 7)
            s == Written(a)
<1>1. b \in Seq(Octets) /\ Len(b) = 7
  <2>1. 0 \in Nat /\ 7 \in Nat OBVIOUS
  <2>. QED BY <2>1, BytesType
<1>2. (\A i \in 1..7 : b[i] = 0) /\ Number(b) = 0
  <2>1. 7 \in Nat OBVIOUS
  <2>. QED BY <2>1, BytesOfZero
<1>3. s = <<128>> \o b BY DEF Written
<1>. HIDE DEF b, s
<1>4. /\ s \in Seq(Octets) /\ Len(s) = 8 /\ s[1] = 128
      /\ \A i \in 1..8 : s[i] = IF i <= 1 THEN 128 ELSE b[i - 1]
  <2>1. 128 \in Octets /\ 7 + 1 = 8 BY DEF Octets
  <2>2. LET t == <<128>> \o b IN
        /\ t \in Seq(Octets) /\ Len(t) = Len(b) + 1
        /\ \A i \in 1..Len(b) + 1 : t[i] = IF i <= 1 THEN 128 ELSE b[i - 1]
    BY <1>1, <2>1, FirstByte
  <2>3. /\ s \in Seq(Octets) /\ Len(s) = 8
        /\ \A i \in 1..8 : s[i] = IF i <= 1 THEN 128 ELSE b[i - 1]
    BY <1>1, <1>3, <2>1, <2>2, Zenon
  <2>. QED BY <2>3
<1>5. \A i \in 2..8 : s[i] = 0
  <2>1. \A i \in 2..8 : s[i] = b[i - 1] BY <1>4
  <2>2. \A i \in 2..8 : i - 1 \in 1..7 OBVIOUS
  <2>. QED BY <1>2, <2>1, <2>2
<1>6. WrittenZero(s) BY <1>4, <1>5 DEF WrittenZero
<1>7. <<s[2] % 64>> \o SubSeq(s, 3, 8) = b
  <2>1. s[2] % 64 = b[1] BY <1>2, <1>5
  <2>2. \A i \in 3..8 : i \in 2..8 /\ i - 1 \in 1..7 OBVIOUS
  <2>3. \A i \in 3..8 : s[i] = b[i - 1] BY <1>2, <1>5, <2>2
  <2>4. <<b[1]>> \o SubSeq(s, 3, 8) = b BY <1>1, <1>4, <2>3, MantissaHeld
  <2>. QED BY <2>1, <2>4, Zenon
<1>8. Parsed(s) = Amt(FALSE, 0, -97, FALSE)
  <2>1. s[1] \in 128..255 /\ ((s[1] % 64) * 4) + (s[2] \div 64) - 97 = -97 BY <1>4, <1>5
  <2>2. Parsed(s) = Amt(FALSE, 0, -97, ~WrittenZero(s) /\ (s[1] \div 64) % 2 = 0)
    BY <1>2, <1>7, <2>1, ParsedTokens, ZenonT(30)
  <2>3. (~WrittenZero(s) /\ (s[1] \div 64) % 2 = 0) = FALSE BY <1>6, Zenon
  <2>. QED BY <2>2, <2>3, Zenon
<1>9. s \in [1..8 -> Octets] BY <1>4, BytesAre
<1>. QED BY <1>6, <1>8, <1>9 DEF s

\* x and y are the first two bytes of an exponent e, and of a mantissa that begins with h.
HeadOf(e, h, sign, x, y) ==
  /\ x \in 128..255 /\ y \in 0..255 /\ y % 64 = h
  /\ ((x % 64) * 4) + (y \div 64) = e
  /\ (x \div 64) % 2 = 0 <=> sign = 0

LEMMA HeadOfTokens ==
  ASSUME NEW e \in 0..255, NEW h \in 0..63, NEW sign \in {0, 64}
  PROVE  HeadOf(e, h, sign, 128 + sign + (e \div 4), ((e % 4) * 64) + h)
<1>. DEFINE x == 128 + sign + (e \div 4)
            y == ((e % 4) * 64) + h
<1>1. PICK q \in 0..63 : q = e \div 4 OBVIOUS
<1>2. PICK r \in 0..3 : r = e % 4 OBVIOUS
<1>3. e = (4 * q) + r BY <1>1, <1>2
<1>4. y = (r * 64) + h BY <1>2
<1>5. y \div 64 = r /\ y % 64 = h /\ y \in 0..255 BY <1>2, <1>4
<1>6. CASE sign = 0
  <2>1. x = 128 + q BY <1>1, <1>6
  <2>2. x % 64 = q /\ x \div 64 = 2 /\ x \in 128..191 BY <1>1, <2>1
  <2>. QED BY <1>1, <1>2, <1>3, <1>5, <1>6, <2>2 DEF HeadOf
<1>7. CASE sign = 64
  <2>1. x = 192 + q BY <1>1, <1>7
  <2>2. x % 64 = q /\ x \div 64 = 3 /\ x \in 192..255 BY <1>1, <2>1
  <2>. QED BY <1>1, <1>2, <1>3, <1>5, <1>7, <2>2 DEF HeadOf
<1>. QED BY <1>6, <1>7

\* The bytes of a mantissa m and an exponent e.
LEMMA TokensWritten ==
  ASSUME NEW e \in 0..255, NEW sign \in {0, 64}, NEW m \in Seq(Octets), Len(m) = 7,
         m[1] \in 0..63, ~(\A i \in 1..7 : m[i] = 0)
  PROVE  LET s == <<128 + sign + (e \div 4), ((e % 4) * 64) + m[1]>> \o Tail(m) IN
         /\ s \in [1..8 -> Octets] /\ ~WrittenZero(s)
         /\ Parsed(s) = Amt(FALSE, Number(m), e - 97, sign = 0)
<1>1. PICK s : s = <<128 + sign + (e \div 4), ((e % 4) * 64) + m[1]>> \o Tail(m) OBVIOUS
<1>2. PICK x : x = 128 + sign + (e \div 4) OBVIOUS
<1>3. PICK y : y = ((e % 4) * 64) + m[1] OBVIOUS
<1>4. /\ x \in 128..255 /\ y \in 0..255 /\ y % 64 = m[1]
      /\ ((x % 64) * 4) + (y \div 64) = e
      /\ (x \div 64) % 2 = 0 <=> sign = 0
  <2>1. HeadOf(e, m[1], sign, 128 + sign + (e \div 4), ((e % 4) * 64) + m[1])
    BY HeadOfTokens, ZenonT(30)
  <2>2. HeadOf(e, m[1], sign, x, y) BY <1>2, <1>3, <2>1, Zenon
  <2>. QED BY <2>2, Zenon DEF HeadOf
<1>5. x \in Octets /\ y \in Octets BY <1>4 DEF Octets
<1>6. /\ s \in Seq(Octets) /\ Len(s) = 8 /\ s[1] = x /\ s[2] = y
      /\ \A i \in 3..8 : s[i] = m[i - 1]
  <2>1. s = <<x, y>> \o Tail(m) BY <1>2, <1>3, <1>1, Zenon
  <2>2. LET t == <<x, y>> \o Tail(m) IN
        /\ t \in Seq(Octets) /\ Len(t) = 8 /\ t[1] = x /\ t[2] = y
        /\ \A i \in 3..8 : t[i] = m[i - 1]
    BY <1>5, MantissaWritten
  <2>. QED BY <2>1, <2>2, Zenon
<1>7. <<s[2] % 64>> \o SubSeq(s, 3, 8) = m
  <2>1. s[2] % 64 = m[1] BY <1>4, <1>6, Zenon
  <2>2. <<m[1]>> \o SubSeq(s, 3, 8) = m BY <1>6, MantissaHeld
  <2>. QED BY <2>1, <2>2, Zenon
<1>8. ~WrittenZero(s)
  <2>. SUFFICES ASSUME WrittenZero(s) PROVE FALSE OBVIOUS
  <2>1. \A i \in 2..8 : s[i] = 0 BY DEF WrittenZero
  <2>2. y = 0
    <3>1. 2 \in 2..8 OBVIOUS
    <3>. QED BY <1>6, <2>1, <3>1, Zenon
  <2>3. m[1] = 0
    <3>1. 0 % 64 = 0 OBVIOUS
    <3>. QED BY <1>4, <2>2, <3>1, Zenon
  <2>4. \A i \in 2..7 : i + 1 \in 3..8 /\ i + 1 \in 2..8 /\ (i + 1) - 1 = i OBVIOUS
  <2>5. ASSUME NEW i \in 2..7 PROVE m[i] = 0
    <3>1. i + 1 \in 3..8 /\ i + 1 \in 2..8 /\ (i + 1) - 1 = i BY <2>4, Zenon
    <3>2. s[i + 1] = m[(i + 1) - 1] BY <1>6, <3>1, Zenon
    <3>3. s[i + 1] = 0 BY <2>1, <3>1, Zenon
    <3>. QED BY <3>1, <3>2, <3>3, Zenon
  <2>6. \A i \in 1..7 : i = 1 \/ i \in 2..7 OBVIOUS
  <2>. QED BY <2>3, <2>5, <2>6, Zenon
<1>9. Parsed(s) = Amt(FALSE, Number(m), e - 97, ~WrittenZero(s) /\ (s[1] \div 64) % 2 = 0)
  <2>1. s[1] \in 128..255 /\ ((s[1] % 64) * 4) + (s[2] \div 64) = e BY <1>4, <1>6, Zenon
  <2>2. Parsed(s) = Amt(FALSE, Number(<<s[2] % 64>> \o SubSeq(s, 3, 8)),
                        ((s[1] % 64) * 4) + (s[2] \div 64) - 97,
                        ~WrittenZero(s) /\ (s[1] \div 64) % 2 = 0)
    BY <2>1, ParsedTokens, Zenon
  <2>3. ((s[1] % 64) * 4) + (s[2] \div 64) - 97 = e - 97
    <3>1. ((x % 64) * 4) + (y \div 64) - 97 = e - 97 BY <1>4
    <3>. QED BY <1>6, <3>1, Zenon
  <2>. QED BY <1>7, <2>2, <2>3
<1>10. (~WrittenZero(s) /\ (s[1] \div 64) % 2 = 0) = (sign = 0) BY <1>4, <1>6, <1>8, Zenon
<1>11. s \in [1..8 -> Octets] BY <1>6, BytesAre
<1>. QED BY <1>8, <1>9, <1>10, <1>11, <1>1, Zenon

LEMMA TokensBytes ==
  ASSUME NEW a \in Amounts, Canonical(a), ~a.native, ~IsZero(a)
  PROVE  /\ Written(a) \in [1..8 -> Octets] /\ ~WrittenZero(Written(a))
         /\ Parsed(Written(a)) = [a EXCEPT !.offset = ((97 + @) % 256) - 97]
<1>1. a.value \in Nat /\ a.value > 0 /\ a.value =< ManMax /\ ManMax \in Nat
  <2>1. a.value \in ManMin..ManMax BY DEF Canonical
  <2>. QED BY <2>1, Mantissas, Members DEF IsZero
<1>2. a.offset \in Int /\ a.neg \in BOOLEAN BY DEF Amounts
<1>3. PICK e \in 0..255 : e = (97 + a.offset) % 256
  <2>1. \A k \in Int : k % 256 \in 0..255 OBVIOUS
  <2>. QED BY <1>2, <2>1
<1>4. PICK m : m = Bytes(a.value, 7) OBVIOUS
<1>5. Rest(a.value, 7) = 0 /\ m[1] \in 0..63
  <2>1. Rest(ManMax, 6) < 64 BY WireAssumption
  <2>2. 6 \in Nat /\ 6 + 1 = 7 OBVIOUS
  <2>3. Rest(a.value, 6 + 1) = 0 /\ Bytes(a.value, 6 + 1)[1] \in 0..63
    BY <1>1, <2>1, <2>2, HighByte
  <2>. QED BY <1>4, <2>2, <2>3
<1>6. m \in Seq(Octets) /\ Len(m) = 7 /\ Number(m) = a.value
  <2>1. 7 \in Nat OBVIOUS
  <2>. QED BY <1>1, <1>4, <1>5, <2>1, BytesType, BytesReadBack
<1>7. ~(\A i \in 1..7 : m[i] = 0)
  <2>1. 7 \in Nat OBVIOUS
  <2>2. (\A i \in 1..7 : m[i] = 0) => a.value = 0 BY <1>1, <1>4, <1>5, <2>1, BytesOfZero
  <2>. QED BY <1>1, <2>2
<1>8. PICK sign \in {0, 64} : sign = IF a.neg THEN 0 ELSE 64 OBVIOUS
<1>9. PICK s : s = <<128 + sign + (e \div 4), ((e % 4) * 64) + m[1]>> \o Tail(m) OBVIOUS
<1>10. Written(a) = s
  <2>1. m[1] % 64 = m[1] BY <1>5
  <2>2. Written(a) =
          <<128 + (IF a.neg THEN 0 ELSE 64) + (((97 + a.offset) % 256) \div 4),
            ((((97 + a.offset) % 256) % 4) * 64) + (Bytes(a.value, 7)[1] % 64)>>
          \o Tail(Bytes(a.value, 7))
    BY ZenonT(30) DEF Written
  <2>3. Written(a) = <<128 + sign + (e \div 4), ((e % 4) * 64) + (m[1] % 64)>> \o Tail(m)
    BY <1>3, <1>4, <1>8, <2>2, SMTT(30)
  <2>. QED BY <1>9, <2>1, <2>3
<1>11. /\ s \in [1..8 -> Octets] /\ ~WrittenZero(s)
       /\ Parsed(s) = Amt(FALSE, Number(m), e - 97, sign = 0)
  <2>1. sign \in {0, 64} /\ e \in 0..255 BY <1>3, <1>8
  <2>2. LET t == <<128 + sign + (e \div 4), ((e % 4) * 64) + m[1]>> \o Tail(m) IN
        /\ t \in [1..8 -> Octets] /\ ~WrittenZero(t)
        /\ Parsed(t) = Amt(FALSE, Number(m), e - 97, sign = 0)
    BY <1>5, <1>6, <1>7, <2>1, TokensWritten, ZenonT(30)
  <2>. QED BY <1>9, <2>2, Zenon
<1>12. (sign = 0) = a.neg BY <1>2, <1>8
<1>13. [a EXCEPT !.offset = ((97 + @) % 256) - 97] = Amt(FALSE, a.value, e - 97, a.neg)
  <2>. DEFINE c == [a EXCEPT !.offset = e - 97]
              f == Amt(FALSE, a.value, e - 97, a.neg)
  <2>1. e - 97 \in Int BY <1>3
  <2>2. c \in Amounts /\ c.native = FALSE /\ c.value = a.value /\ c.offset = e - 97 /\ c.neg = a.neg
    BY <2>1 DEF Amounts
  <2>3. /\ f \in Amounts /\ f.native = FALSE /\ f.value = a.value /\ f.offset = e - 97
        /\ f.neg = a.neg
    BY <1>1, <1>2, <2>1 DEF Amounts, Amt
  <2>. HIDE DEF c, f
  <2>4. c = f BY <2>2, <2>3, SameFields, ZenonT(30)
  <2>5. c = [a EXCEPT !.offset = ((97 + @) % 256) - 97] BY <1>3, Zenon DEF c
  <2>. QED BY <2>4, <2>5 DEF f
<1>. QED BY <1>6, <1>10, <1>11, <1>12, <1>13, ZenonT(30)

\* What is read of the bytes of any amount: what was written, cut to the bits
\* there are.  A native amount loses what is above its 62 bits, and its sign if
\* nothing is left; an exponent below -97 or above 158 is another one (STAmount).
THEOREM BytesCutToFit ==
  ASSUME NEW a \in Amounts, Canonical(a)
  PROVE  /\ Written(a) \in [1..8 -> Octets]
         /\ Parsed(Written(a)) =
              IF a.native THEN Clone([a EXCEPT !.value = @ % WireLimit], FALSE)
              ELSE IF IsZero(a) THEN Amt(FALSE, 0, -97, FALSE)
              ELSE [a EXCEPT !.offset = ((97 + @) % 256) - 97]
<1>1. CASE a.native BY <1>1, NativeBytes, Zenon
<1>2. CASE ~a.native /\ IsZero(a) BY <1>2, ZeroBytes, Zenon
<1>3. CASE ~a.native /\ ~IsZero(a) BY <1>3, TokensBytes, Zenon
<1>. QED BY <1>1, <1>2, <1>3, Zenon

\* What fits is written without an exception and read as it was, but for the
\* offset of a zero that is not native; the reader refuses none of it (STAmount).
THEOREM AmountsReadBack ==
  ASSUME NEW a \in Amounts, Canonical(a), FitsWire(a)
  PROVE  /\ Writable(a)
         /\ Parsed(Written(a)) = IF ~a.native /\ IsZero(a) THEN Amt(FALSE, 0, -97, FALSE) ELSE a
         /\ ~a.native => (WrittenZero(Written(a)) <=> IsZero(Parsed(Written(a))))
<1>1. /\ a.value \in Nat /\ a.offset \in Int /\ a.neg \in BOOLEAN /\ a.native \in BOOLEAN
      /\ WireLimit \in Nat
  BY WireAssumption DEF Amounts
<1>2. Writable(a) BY <1>1 DEF Writable, Valid, FitsWire
<1>3. CASE a.native
  <2>1. a.value % WireLimit = a.value
    <3>1. a.value < WireLimit BY <1>3 DEF FitsWire
    <3>. QED BY <1>1, <3>1
  <2>2. [a EXCEPT !.value = @ % WireLimit] = a BY <2>1 DEF Amounts
  <2>3. Parsed(Written(a)) = Clone(a, FALSE) BY <1>3, <2>2, NativeBytes, Zenon
  <2>. QED BY <1>2, <1>3, <2>3, CloneSame, Zenon
<1>4. CASE ~a.native /\ IsZero(a)
  <2>1. IsZero(Amt(FALSE, 0, -97, FALSE)) BY DEF IsZero, Amt
  <2>. QED BY <1>2, <1>4, <2>1, ZeroBytes, Zenon
<1>5. CASE ~a.native /\ ~IsZero(a)
  <2>1. ((97 + a.offset) % 256) - 97 = a.offset
    <3>1. a.offset \in -97..158 BY <1>5 DEF FitsWire
    <3>. QED BY <3>1
  <2>2. [a EXCEPT !.offset = ((97 + @) % 256) - 97] = a BY <2>1 DEF Amounts
  <2>3. Parsed(Written(a)) = a BY <1>5, <2>2, TokensBytes, Zenon
  <2>. QED BY <1>2, <1>5, <2>3, TokensBytes, Zenon
<1>. QED BY <1>3, <1>4, <1>5, Zenon
=============================================================================
