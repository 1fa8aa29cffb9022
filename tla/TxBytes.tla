------------------------------- MODULE TxBytes -------------------------------
(* The bytes of what TxComposer composes.                                   *)
EXTENDS TxComposer, Codec

\* What the reader makes of a value: the reference for CodecLaws.
RECURSIVE Read(_, _)
ReadEvery(obj) == [f \in DOMAIN obj \ Lower |-> Read(f, obj[f])]

StepRead(entry, s) ==
  IF s = "currency"
  THEN CurrencyJson(CurrencyFrom(entry.currency, "non_native" \in DOMAIN entry))
  ELSE AccountJson(entry[s].id, "base58")

EntryAsRead(entry) ==
  LET e == [s \in DOMAIN entry \cap Steps |-> StepRead(entry, s)]
  IN IF "currency" \in DOMAIN e /\ e.currency = CurrencyJson(Iou(XRP))
     THEN [non_native |-> TRUE] @@ e ELSE e

Read(f, v) ==
  LET type == TypeOf(f) IN
  CASE type = 6 -> MoneyJson(MoneyFrom(v))
    [] type = 8 -> AccountJson(v.id, "base58")
    [] type = 14 -> ReadEvery(v)
    [] type = 15 -> [i \in DOMAIN v |-> ReadEvery(v[i])]
    [] type = 18 -> IF v = <<>> THEN <<<<>>>>
                    ELSE [i \in DOMAIN v |-> [j \in DOMAIN v[i] |-> EntryAsRead(v[i][j])]]
    [] type \notin {6, 8, 14, 15, 18} -> v

\* The bytes of an object read as the object, whatever its fields, and no
\* beginning of them does (SerializedObject, SerializedType).
CodecLaws ==
  LET Differs(r, whole) == r.at = 0 \/ r.val # whole.val
      ReadsBack(b, whole) ==
        /\ whole.at = Len(b) + 1 /\ whole.val = ReadEvery(tx_json)
        /\ \A n \in {Len(b) - 1, Len(b) \div 2} : Differs(ToJson(SubSeq(b, 1, n)), whole)
      Holds(b) == ~Thrown(b) /\ \A f \in DOMAIN tx_json \cap Fields :
                                  TypeOf(f) = 6 => FitsWire(MoneyFrom(tx_json[f]).amt)
      Law(b) == Holds(b) => ReadsBack(b, ToJson(b))
  IN /\ Law(FromJson(tx_json))
     /\ \A n \in {192, 193, 12480, 12481, 918744} :
          ReadVarint(Varint(n), 1) = Got(Len(Varint(n)) + 1, n)
==============================================================================
