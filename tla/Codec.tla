------------------------------- MODULE Codec -------------------------------
(***************************************************************************)
(* The binary format: serializedtypes.js and serializedobject.js.          *)
(*                                                                         *)
(* A buffer is a sequence of bytes.  The lengths, tags, headers and        *)
(* markers between the values are the code's own.                          *)
(***************************************************************************)
EXTENDS BinFormat, AmountWire, Sequences, SequencesExt

-----------------------------------------------------------------------------
(* Writing.                                                                *)

\* The pieces Of(1), ..., Of(n), appended.
Joined(n, Of(_)) ==
  LET all[i \in 0..n] == IF i = 0 THEN <<>> ELSE all[i - 1] \o Of(i) IN all[n]

Unsigned(v, w) == IF v < 0 \/ (w < 4 /\ v >= 256^w) THEN Throw ELSE Bytes(v, w)

Hash(v, w) == IF Len(v) = w THEN v ELSE Throw
Prefixed(v) == Varint(Len(v)) \o v

\* Mutation: numbers above 15 have no byte of their own.
HeaderShort(f) == <<((Coordinates[f][1] % 16) * 16) + (Coordinates[f][2] % 16)>>

Header(f) == Mark(Coordinates[f][1], Coordinates[f][2])

\* STCurrency
CurrencyBytes(c) == IF c = NoCurrency THEN Throw ELSE c

\* STAmount.  An issuer that is none has no bytes, and append, which takes their
\* length, throws.
AmountBytes(m) ==
  IF ~Writable(m.amt) THEN Throw
  ELSE IF m.amt.native THEN Written(m.amt)
  ELSE Written(m.amt) \o CurrencyBytes(m.currency) \o Hash(m.issuer, W160)

\* A path entry says what it holds in its tag.
StepTag == [account |-> 1, currency |-> 16, issuer |-> 32]
Tag(entry) ==
  LET of(s) == IF s \in DOMAIN entry THEN StepTag[s] ELSE 0
  IN of("account") + of("currency") + of("issuer")

EntryBytes(entry) ==
  LET Of(s, bytes) == IF s \in DOMAIN entry THEN bytes ELSE <<>>
  IN <<Tag(entry)>>
       \o Of("account", entry.account.id)
       \o Of("currency", CurrencyBytes(CurrencyFrom(entry.currency, "non_native" \in DOMAIN entry)))
       \o Of("issuer", entry.issuer.id)

PathBytes(path) == Joined(Len(path), LAMBDA j : EntryBytes(path[j]))
PathSetBytes(paths) ==
  Joined(Len(paths), LAMBDA i : (IF i > 1 THEN <<255>> ELSE <<>>) \o PathBytes(paths[i])) \o <<0>>

\* sort_fields: by type, then by number.
Before(f, g) ==
  \/ TypeOf(f) < TypeOf(g)
  \/ TypeOf(f) = TypeOf(g) /\ Coordinates[f][2] < Coordinates[g][2]
FieldOrder ==
  LET Nth(i) == <<CHOOSE f \in Fields : Cardinality({g \in Fields : Before(g, f)}) = i - 1>>
  IN Joined(Cardinality(Fields), Nth)

RECURSIVE FieldBytes(_, _)

ObjectBytes(obj) ==
  LET names == DOMAIN obj \ Lower
      order == SelectSeq(FieldOrder, LAMBDA f : f \in names)
  IN IF ~(names \subseteq Fields) THEN Throw
     ELSE Joined(Len(order), LAMBDA i : FieldBytes(order[i], obj[order[i]]))

ArrayBytes(arr) ==
  LET Element(i) == LET f == CHOOSE g \in DOMAIN arr[i] : TRUE
                    IN IF DOMAIN arr[i] # {f} THEN Throw ELSE FieldBytes(f, arr[i][f])
  IN Joined(Len(arr), Element)

\* The value of a field, by its type.
ValueBytes(f, v) ==
  LET type == TypeOf(f) IN
  CASE f = "TransactionType" -> Unsigned(TxTypes[v], 2)
    [] f = "TransactionResult" -> Unsigned(Results[v], 1)
    [] f = "Flags" -> Bytes(v, 2) \o <<0, 0>>
    [] f = "LedgerEntryType" -> Unsigned(v, 2)
    [] type = 2 /\ f # "Flags" -> Unsigned(v, 4)
    [] type = 3 -> Unsigned(v, 8)
    [] type = 4 -> Hash(v, W128)
    [] type = 5 -> Hash(v, W256)
    [] type = 6 -> AmountBytes(MoneyFrom(v))
    [] type = 7 -> Prefixed(v)
    [] type = 8 -> Prefixed(Hash(v.id, W160))
    [] type = 14 -> ObjectBytes(v) \o <<225>>
    [] type = 15 -> ArrayBytes(v) \o <<241>>
    [] type = 17 -> Hash(v, W160)
    [] type = 18 -> PathSetBytes(v)
    [] type = 19 -> Varint(Len(v) * W256)
                      \o Joined(Len(v), LAMBDA i : Hash(v[i], W256))

FieldBytes(f, v) == Header(f) \o ValueBytes(f, v)

-----------------------------------------------------------------------------
(* Reading, with what to_json makes of it.                                 *)

Same(bytes) == bytes

\* What is read after r.
Then(r, Next(_)) == IF r.at = 0 THEN Broken ELSE Next(r)

ReadPrefixed(b, p) ==
  Then(ReadVarint(b, p), LAMBDA n : Taken(b, n.at, n.val, Same))

\* A mantissa of zero is that of zero alone.
TokensRead(at, s, currency, issuer) ==
  IF IsZero(Parsed(s)) /\ ~WrittenZero(s) THEN Broken
  ELSE Got(at, MoneyJson(Money(Parsed(s), currency, issuer)))

ReadAmount(b, p) ==
  Then(Taken(b, p, 8, Same), LAMBDA v :
    IF v.val[1] < 128 THEN Got(v.at, MoneyJson(Money(Parsed(v.val), Native, <<>>)))
    ELSE Then(Taken(b, v.at, W160, Same), LAMBDA c :
           Then(Taken(b, c.at, W160, Same), LAMBDA i :
             TokensRead(i.at, v.val, c.val, i.val))))

\* One step of a path entry, if its tag says so: [at, tag, val].
ReadStep(b, r, step, Of(_)) ==
  IF r.at = 0 \/ (b[r.tag] \div StepTag[step]) % 2 = 0 THEN r
  ELSE Then(Taken(b, r.at, W160, Same), LAMBDA s :
         [r EXCEPT !.at = s.at, !.val = (step :> Of(s.val)) @@ @])

\* to_json spells a currency of code XRP alone with non_native.
EntryRead(r) ==
  IF DOMAIN r.val = {} THEN Broken
  ELSE Got(r.at, IF "currency" \in DOMAIN r.val /\ r.val.currency = CurrencyJson(Iou(XRP))
                 THEN ("non_native" :> TRUE) @@ r.val ELSE r.val)

ReadEntry(b, p) ==
  LET base58(id) == AccountJson(id, "base58")
      start == [at |-> p + 1, tag |-> p, val |-> <<>>]
      account == ReadStep(b, start, "account", base58)
      currency == ReadStep(b, account, "currency", CurrencyJson)
  IN Then(ReadStep(b, currency, "issuer", base58), EntryRead)

RECURSIVE ReadPaths(_, _, _, _)
ReadPaths(b, p, paths, path) ==
  IF p > Len(b) THEN Broken
  ELSE IF b[p] = 0 THEN Got(p + 1, Append(paths, path))
  ELSE IF b[p] = 255 THEN ReadPaths(b, p + 1, Append(paths, path), <<>>)
  ELSE Then(ReadEntry(b, p), LAMBDA e : ReadPaths(b, e.at, paths, Append(path, e.val)))

ReadVector(b, p) ==
  LET Count(bytes) == (bytes + W256 - 1) \div W256
      Split(s) == [i \in 1..Len(s) \div W256 |-> SubSeq(s, (i - 1) * W256 + 1, i * W256)]
  IN Then(ReadVarint(b, p), LAMBDA n : Taken(b, n.at, Count(n.val) * W256, Split))

RECURSIVE ReadObject(_, _, _), ReadArray(_, _, _)

\* jsonify_structure of the names
ReadValue(b, p, f) ==
  LET type == TypeOf(f) IN
  CASE f = "TransactionType" -> Taken(b, p, 2, LAMBDA s : Named(TxTypes, Number(s)))
    [] f = "TransactionResult" -> Taken(b, p, 1, LAMBDA s : Named(Results, Number(s)))
    [] f = "Flags" -> Taken(b, p, 4, LAMBDA s : Number(SubSeq(s, 1, 2)))
    [] f = "LedgerEntryType" -> Taken(b, p, 2, Number)
    [] type = 2 /\ f # "Flags" -> Taken(b, p, 4, Number)
    [] type = 3 -> Taken(b, p, 8, Number)
    [] type = 4 -> Taken(b, p, W128, Same)
    [] type = 5 -> Taken(b, p, W256, Same)
    [] type = 6 -> ReadAmount(b, p)
    [] type = 7 -> ReadPrefixed(b, p)
    [] type = 8 -> Then(ReadVarint(b, p), LAMBDA n :
                     IF n.val # W160 THEN Broken
                     ELSE Taken(b, n.at, W160, LAMBDA s : AccountJson(s, "base58")))
    [] type = 14 -> ReadObject(b, p, <<>>)
    [] type = 15 -> ReadArray(b, p, <<>>)
    [] type = 17 -> Taken(b, p, W160, Same)
    [] type = 18 -> ReadPaths(b, p, <<>>, <<>>)
    [] type = 19 -> ReadVector(b, p)

\* parse: a header, then the value of its field; Got(at, [name, value]).
ReadKnown(b, p, c) ==
  IF c \notin DOMAIN FieldAt THEN Broken
  ELSE Then(ReadValue(b, p, FieldAt[c]), LAMBDA v : Got(v.at, <<FieldAt[c], v.val>>))

ReadField(b, p) == LET mark == ReadMark(b, p) IN ReadKnown(b, mark.at, mark.val)

ReadObject(b, p, obj) ==
  IF p > Len(b) THEN Broken
  ELSE IF b[p] = 225 THEN Got(p + 1, obj)
  ELSE Then(ReadField(b, p), LAMBDA r : ReadObject(b, r.at, (r.val[1] :> r.val[2]) @@ obj))

ReadArray(b, p, arr) ==
  IF p > Len(b) THEN Broken
  ELSE IF b[p] = 241 THEN Got(p + 1, arr)
  ELSE Then(ReadField(b, p), LAMBDA r : ReadArray(b, r.at, Append(arr, r.val[1] :> r.val[2])))

\* to_json: fields to the end of the buffer.
RECURSIVE ToJsonFrom(_, _, _)
ToJsonFrom(b, p, obj) ==
  IF p > Len(b) THEN Got(p, obj)
  ELSE Then(ReadField(b, p), LAMBDA r : ToJsonFrom(b, r.at, (r.val[1] :> r.val[2]) @@ obj))
ToJson(b) == ToJsonFrom(b, 1, <<>>)
=============================================================================
