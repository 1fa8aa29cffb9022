---------------------------- MODULE AmountWire ----------------------------
(***************************************************************************)
(* The 8 bytes of an amount in the binary format: STAmount of              *)
(* serializedtypes.js, without the currency and issuer that follow.        *)
(***************************************************************************)
EXTENDS AmountText, Sequences

CONSTANT WireLimit \* of a native amount on the wire: 2^62

\* v without its lowest k bytes.
Rest(v, k) ==
  LET rest[j \in 0..k] == IF j = 0 THEN v ELSE rest[j - 1] \div 256 IN rest[k]

\* The bits there are: 62 for a native amount, 54 for a mantissa.
ASSUME WireAssumption ==
  /\ WireLimit \in Nat \ {0}
  /\ Rest(WireLimit - 1, 7) < 64
  /\ Rest(ManMax, 6) < 64

\* append_byte_array: v in w bytes, the highest first, as toString(16) has them, too.
Bytes(v, w) == [i \in 1..w |-> Rest(v, w - i) % 256]

\* readAndSum, BigInteger: the number bytes stand for.
Number(bytes) ==
  LET upTo[i \in 0..Len(bytes)] == IF i = 0 THEN 0 ELSE (upTo[i - 1] * 256) + bytes[i]
  IN upTo[Len(bytes)]

\* Native amounts longer than 64 bits are refused, those longer than 62 cut.
Writable(a) == Valid(a) /\ (a.native => a.value < 4 * WireLimit)

\* serialize
Written(a) ==
  LET sign == IF a.neg THEN 0 ELSE 64
      exponent == (97 + a.offset) % 256
      mantissa == Bytes(a.value, 7)
  IN IF a.native THEN [Bytes(a.value % WireLimit, 8) EXCEPT ![1] = sign + @]
     ELSE IF IsZero(a) THEN <<128>> \o Bytes(0, 7)
     ELSE <<128 + sign + (exponent \div 4), ((exponent % 4) * 64) + (mantissa[1] % 64)>>
            \o Tail(mantissa)

\* parse: is_zero
WrittenZero(s) == s[1] % 128 = 0 /\ \A i \in 2..8 : s[i] = 0

\* parse: the amount of 8 bytes, which is not canonicalized.
Parsed(s) ==
  LET native == s[1] < 128
      value == Number(IF native THEN [s EXCEPT ![1] = @ % 64]
                      ELSE <<s[2] % 64>> \o SubSeq(s, 3, 8))
      offset == ((s[1] % 64) * 4) + (s[2] \div 64) - 97
  IN Amt(native, value, IF native THEN 0 ELSE offset,
         ~WrittenZero(s) /\ (s[1] \div 64) % 2 = 0)

\* Amounts the 8 bytes can hold.
FitsWire(a) ==
  IF a.native THEN a.value < WireLimit ELSE IsZero(a) \/ a.offset \in -97..158
=============================================================================
