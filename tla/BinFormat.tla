----------------------------- MODULE BinFormat -----------------------------
(***************************************************************************)
(* The table of the binary format (binformat.js): fields with their types  *)
(* and numbers, the transactions and what each requires.  What the bytes   *)
(* of an object are is left open here; Codec says.                         *)
(*                                                                         *)
(* JSON objects are functions of field names.  Hashes, accounts and        *)
(* currencies are shorter than the code's 16, 20 and 32 bytes; Flags is    *)
(* counted in 65536, as no flag of the library is lower and TLC's integers *)
(* have 31 bits.                                                           *)
(***************************************************************************)
EXTENDS Integers, Sequences

CONSTANT Serialized(_)  \* the bytes of a JSON object

W128 == 3
W160 == 4
W256 == 5

\* binformat: a field's type and number, for one field or more of each type.
Coordinates ==
  [LedgerEntryType |-> <<1, 1>>, TransactionType |-> <<1, 2>>, Flags |-> <<2, 2>>,
   SourceTag |-> <<2, 3>>, Sequence |-> <<2, 4>>, Expiration |-> <<2, 10>>,
   TransferRate |-> <<2, 11>>, DestinationTag |-> <<2, 14>>,
   QualityIn |-> <<2, 20>>, QualityOut |-> <<2, 21>>, OfferSequence |-> <<2, 25>>,
   InflateSeq |-> <<2, 26>>, LastLedgerSequence |-> <<2, 27>>, SetFlag |-> <<2, 33>>,
   ClearFlag |-> <<2, 34>>, TransactionIndex |-> <<2, 28>>,
   BaseFee |-> <<3, 5>>, EmailHash |-> <<4, 1>>,
   InvoiceID |-> <<5, 17>>, Amount |-> <<6, 1>>, LimitAmount |-> <<6, 3>>,
   TakerPays |-> <<6, 4>>, TakerGets |-> <<6, 5>>, Fee |-> <<6, 8>>,
   SendMax |-> <<6, 9>>, DeliveredAmount |-> <<6, 18>>,
   PublicKey |-> <<7, 1>>, SigningPubKey |-> <<7, 3>>, TxnSignature |-> <<7, 4>>,
   Generator |-> <<7, 5>>, Signature |-> <<7, 6>>, MemoData |-> <<7, 13>>,
   Account |-> <<8, 1>>, Destination |-> <<8, 3>>, RegularKey |-> <<8, 8>>,
   InflationDest |-> <<8, 9>>, SetAuthKey |-> <<8, 10>>,
   TransactionMetaData |-> <<14, 2>>, ModifiedNode |-> <<14, 5>>, Memo |-> <<14, 10>>,
   AffectedNodes |-> <<15, 8>>, Memos |-> <<15, 9>>,
   TransactionResult |-> <<16, 3>>, TakerPaysCurrency |-> <<17, 1>>,
   Paths |-> <<18, 1>>, Hashes |-> <<19, 2>>]

Fields == DOMAIN Coordinates
TypeOf(f) == Coordinates[f][1]
FieldAt == [c \in {Coordinates[f] : f \in Fields} |-> CHOOSE f \in Fields : Coordinates[f] = c]

TxTypes ==
  [Payment |-> 0, Inflation |-> 1, AccountSet |-> 3, AccountMerge |-> 4,
   SetRegularKey |-> 5, OfferCreate |-> 7, OfferCancel |-> 8, TrustSet |-> 20]

Base == {"TransactionType", "Account", "Sequence", "Fee", "SigningPubKey"}
Required ==
  [Payment |-> Base \cup {"Destination", "Amount"}, Inflation |-> Base \cup {"InflateSeq"},
   AccountSet |-> Base, AccountMerge |-> Base \cup {"Destination"},
   SetRegularKey |-> Base \cup {"RegularKey"},
   OfferCreate |-> Base \cup {"TakerPays", "TakerGets"},
   OfferCancel |-> Base \cup {"OfferSequence"}, TrustSet |-> Base]
RequiredMeta == {"TransactionIndex", "TransactionResult", "AffectedNodes"}

Results == [tesSUCCESS |-> 0, tecCLAIM |-> 100]
Named(names, id) == CHOOSE n \in DOMAIN names : names[n] = id

Lower == {"hash", "date"}  \* names with a small initial are not written

\* An account in JSON is base58 or hex; it is read alike and printed base58.
AccountJson(id, form) == [id |-> id, form |-> form]

\* The steps of a path entry.
Steps == {"account", "currency", "issuer"}

-----------------------------------------------------------------------------
(* From JSON to bytes.  A value that cannot be written is a byte that is   *)
(* none, which spoils the whole: the exception.                            *)

Throw == <<-1>>
Thrown(bytes) == \E i \in DOMAIN bytes : bytes[i] = -1

\* from_json: the buffer of a transaction or of metadata.
RequiredOf(obj) ==
  IF "TransactionType" \in DOMAIN obj THEN Required[obj.TransactionType] ELSE RequiredMeta

FromJson(obj) ==
  IF \/ {"TransactionType", "AffectedNodes"} \cap DOMAIN obj = {}
     \/ "TransactionType" \in DOMAIN obj /\ obj.TransactionType \notin DOMAIN Required
     \/ ~(RequiredOf(obj) \subseteq DOMAIN obj)
  THEN Throw ELSE Serialized(obj)

-----------------------------------------------------------------------------
(* Lengths and headers, written and read.  What is read is [at, val], the   *)
(* place after the value and the value; at = 0 is the exception.            *)

\* serialize_varint
Varint(n) ==
  IF n <= 192 THEN <<n>>
  ELSE IF n <= 12480 THEN <<193 + ((n - 193) \div 256), (n - 193) % 256>>
  ELSE IF n <= 918744
  THEN <<241 + ((n - 12481) \div 65536), ((n - 12481) \div 256) % 256, (n - 12481) % 256>>
  ELSE Throw

\* The header of a field: type and number in half a byte or in one of their own.
Mark(type, number) ==
  LET nibble(x) == IF x < 16 THEN x ELSE 0
  IN <<nibble(type) * 16 + nibble(number)>>
       \o (IF type < 16 THEN <<>> ELSE <<type>>)
       \o (IF number < 16 THEN <<>> ELSE <<number>>)

Got(at, val) == [at |-> at, val |-> val]
Broken == Got(0, <<>>)

\* read: the w bytes at p.
Taken(b, p, w, Of(_)) ==
  IF p = 0 \/ p + w - 1 > Len(b) THEN Broken ELSE Got(p + w, Of(SubSeq(b, p, p + w - 1)))

\* parse_varint
ReadVarint(b, p) ==
  IF p > Len(b) THEN Broken
  ELSE LET b1 == b[p] IN
       IF b1 <= 192 THEN Got(p + 1, b1)
       ELSE IF b1 <= 240
       THEN Taken(b, p + 1, 1, LAMBDA s : 193 + (b1 - 193) * 256 + s[1])
       ELSE IF b1 <= 254
       THEN Taken(b, p + 1, 2, LAMBDA s : 12481 + (b1 - 241) * 65536 + s[1] * 256 + s[2])
       ELSE Broken

\* A header, with the first bytes of parse: [at, <<type, number>>].
ReadMark(b, p) ==
  LET ByteAt(q) == IF q <= Len(b) THEN b[q] ELSE 0
      high == b[p] \div 16
      low == b[p] % 16
      q == IF high > 0 THEN p + 1 ELSE p + 2
  IN Got(IF low > 0 THEN q ELSE q + 1,
         <<IF high > 0 THEN high ELSE ByteAt(p + 1), IF low > 0 THEN low ELSE ByteAt(q)>>)
=============================================================================
