----------------------------- MODULE TxComposer -----------------------------
(***************************************************************************)
(* An application works out an amount and composes a Transaction with it:  *)
(* setters, direct assignments to tx_json, complete, sign, and what the    *)
(* manager changes between two submissions.                                *)
(*                                                                         *)
(* A hash is what it is the hash of, a signature its key and that hash.    *)
(***************************************************************************)
EXTENDS AmountLaws, BinFormat, FiniteSets, SequencesExt

CONSTANTS
  Starting, Operands,   \* amounts to begin with, and to compute with
  MaxSteps,             \* computations
  Depth,                \* most decimal places of a result
  Prices,               \* results worth handing to a transaction
  Traded,               \* their currencies
  Accounts, Issuer,     \* accounts as JSON, an issuer
  Secrets, KnownSecrets,\* remote.secrets, by account
  FeeLists,             \* the fees the connected servers may ask
  MaxFee,               \* remote.max_fee
  CanonicalSigning,     \* remote.canonical_signing
  Remotes,              \* what else remote is set to: trusted, local_signing, local_fee
  FlagNumbers,          \* flags given as a number
  Options,              \* fields set by a setter of their own
  Assignments,          \* values assigned to fields of tx_json
  Numbers, MaxPaths,
  MaxFields             \* fields and flags beyond those all have, by type

VARIABLES
  amount, steps,        \* the amount and how many computations led to it
  tx_json, secret, previousSigningHash,
  failed,               \* an error was reported
  asked,                \* history: flag bits asked for since the last number
  twice,                \* history: one of them was asked for again
  rekeyed               \* history: the secret was changed under SigningPubKey

\* What assigns fields of tx_json has its own operation for these.
ASSUME OwnOperations ==
  /\ {"Flags", "SigningPubKey", "TxnSignature", "TransactionType"}
       \cap (DOMAIN Options \cup DOMAIN Assignments) = {}
  /\ \A n \in FlagNumbers : n \in Nat /\ n < 2^16

\* Local signing implies local fees.
ASSUME RemoteSettings ==
  \A r \in Remotes : r \in [trusted : BOOLEAN, local_signing : BOOLEAN, local_fee : BOOLEAN]
                     /\ (r.local_signing => r.local_fee)

\* An application starts from, and computes with, what from_json made.
ASSUME AmountsCanonical == \A a \in Starting \cup Operands : Canonical(a)

numbers == <<amount, steps>>
history == <<asked, twice, rekeyed>>
vars == <<numbers, tx_json, secret, previousSigningHash, failed, history>>

NoSecret == 0
NoHash == <<>>
New == [Flags |-> 0]

Init ==
  /\ amount \in Starting /\ steps = 0
  /\ tx_json = New /\ secret = NoSecret /\ previousSigningHash = NoHash
  /\ failed = FALSE /\ asked = {} /\ twice = FALSE /\ rekeyed = FALSE

-----------------------------------------------------------------------------
(* Amounts.                                                                *)

Results2(a, b) ==
  {Add(a, b), Subtract(a, b), Multiply(a, b), ProductHuman(a, b)}
    \cup (IF IsZero(b) THEN {} ELSE {Divide(a, b), RatioHuman(a, b)})
    \cup (IF IsZero(a) THEN {} ELSE {Invert(a)})

\* Results within the laws' reach are kept.
Kept(r) ==
  /\ Valid(r)
  /\ IF r.native THEN r.value <= NativeMax ELSE IsZero(r) \/ r.offset \in -Depth..1

Compute ==
  /\ tx_json = New /\ steps < MaxSteps
  /\ \E b \in Operands : \E r \in Results2(amount, b) : Kept(r) /\ amount' = r
  /\ steps' = steps + 1
  /\ UNCHANGED <<tx_json, secret, previousSigningHash, failed, history>>

-----------------------------------------------------------------------------
(* Setters.                                                                *)

Mine == {MoneyJson(Money(amount, c, Issuer)) : c \in Traded}

Has(f) == f \in DOMAIN tx_json

\* obj.f = fields.f, for each
With(obj, fields) ==
  [f \in DOMAIN obj \cup DOMAIN fields |-> IF f \in DOMAIN fields THEN fields[f] ELSE obj[f]]

FullyCanonicalSig == 2^15

\* The bound on what one transaction says.
Room(tx, flags) ==
  LET type == IF "TransactionType" \in DOMAIN tx THEN tx.TransactionType ELSE "none"
  IN Cardinality(DOMAIN tx \ (Base \cup {"Flags", "TxnSignature"}))
       + Cardinality(flags \ {FullyCanonicalSig}) <= MaxFields[type]

Put(fields) ==
  /\ amount \in Prices /\ ~failed
  /\ tx_json' = With(tx_json, fields) /\ Room(tx_json', asked)
  /\ steps' = MaxSteps \* the computing is over
  /\ UNCHANGED <<amount, secret, previousSigningHash, failed, history>>

\* The bound on when: what the application says it says before the first
\* signature.  The manager changes the transaction later too.
Say(fields) == previousSigningHash = NoHash /\ Put(fields)

\* One constructor call on an object.
Construct(type, account, fields) ==
  ~Has("TransactionType") /\ Put(With(fields, [TransactionType |-> type, Account |-> account]))

Payment ==
  \E src \in Accounts, dst \in Accounts, a \in Mine :
    Construct("Payment", src, [Amount |-> a, Destination |-> dst])

OfferCreate ==
  \E src \in Accounts, a \in Mine, price \in Options.SendMax, mine \in BOOLEAN,
     extra \in {<<>>, [Expiration |-> 500], [OfferSequence |-> 3]} :
    Construct("OfferCreate", src,
      With(extra, [TakerPays |-> IF mine THEN a ELSE price,
                   TakerGets |-> IF mine THEN price ELSE a]))

TrustSet ==
  \E src \in Accounts, limit \in Mine, extra \in {<<>>, [QualityIn |-> 5], [QualityOut |-> 6]} :
    Construct("TrustSet", src, With(extra, [LimitAmount |-> limit]))

AccountSet ==
  \E src \in Accounts, extra \in {<<>>, [SetFlag |-> 1], [ClearFlag |-> 4]} :
    Construct("AccountSet", src, extra)

AccountMerge ==
  \E src \in Accounts, dst \in Accounts : Construct("AccountMerge", src, [Destination |-> dst])

Inflation == \E src \in Accounts : Construct("Inflation", src, [InflateSeq |-> 9])

OfferCancel == \E src \in Accounts : Construct("OfferCancel", src, [OfferSequence |-> 300])

SetRegularKey ==
  \E src \in Accounts, key \in Accounts : Construct("SetRegularKey", src, [RegularKey |-> key])

\* claim: without an account, and of a type the binary format does not know.
Claim ==
  ~Has("TransactionType")
    /\ Put([TransactionType |-> "Claim", Generator |-> <<1>>, PublicKey |-> <<2>>, Signature |-> <<3>>])

\* invoiceID pads a short one.
Padded(id) == IF Len(id) < W256 THEN id \o [i \in 1..W256 - Len(id) |-> 0] ELSE id

\* destinationTag, sourceTag (0 is none), lastLedger, sendMax, transferRate
\* (set before it is refused), inflationDest, setAuthKey, invoiceID.
SetOption ==
  \E f \in DOMAIN Options : \E v \in Options[f] :
    /\ f = "SourceTag" => v # 0
    /\ Has("TransactionType") /\ Say([g \in {f} |-> IF f = "InvoiceID" THEN Padded(v) ELSE v])

\* _pathRewrite: steps only, without non_native.
Rewritten(path) ==
  [j \in DOMAIN path |->
     [s \in DOMAIN path[j] \cap Steps |->
        IF s = "currency" THEN CurrencyJson(CurrencyFrom(path[j].currency, FALSE)) ELSE path[j][s]]]

PathAdd ==
  \E path \in Assignments.Paths :
    LET paths == IF Has("Paths") THEN tx_json.Paths ELSE <<>>
    IN Has("TransactionType") /\ Len(paths) < MaxPaths /\ Say([Paths |-> Append(paths, Rewritten(path))])

\* tx_json.field = value; without a type the object is metadata.
Assign ==
  \E f \in DOMAIN Assignments \ {"Paths"} : \E v \in Assignments[f] :
    (Has("TransactionType") \/ f \in RequiredMeta) /\ Say([g \in {f} |-> v])

\* Flags in units of 65536, by type.
TypeFlags ==
  [AccountSet |-> [RequireDestTag |-> 1, OptionalDestTag |-> 2, RequireAuth |-> 4,
                   OptionalAuth |-> 8, DisallowXRP |-> 16, AllowXRP |-> 32],
   TrustSet |-> [SetAuth |-> 1, NoRipple |-> 2, ClearNoRipple |-> 4, ClearAuth |-> 8],
   OfferCreate |-> [Passive |-> 1, ImmediateOrCancel |-> 2, FillOrKill |-> 4, Sell |-> 8],
   Payment |-> [NoRippleDirect |-> 1, PartialPayment |-> 2, LimitQuality |-> 4]]
FlagsOf(tx) ==
  IF "TransactionType" \in DOMAIN tx /\ tx.TransactionType \in DOMAIN TypeFlags
  THEN TypeFlags[tx.TransactionType] ELSE <<>>

FlagNames == UNION {DOMAIN TypeFlags[t] : t \in DOMAIN TypeFlags}
Bits(n) == {b \in {2^k : k \in 0..15} : (n \div b) % 2 = 1}

\* setFlags with a name (several are several calls): it is added up.
SetFlag ==
  \E name \in FlagNames :
    LET known == FlagsOf(tx_json) IN
    /\ ~failed /\ ~twice /\ Has("TransactionType") /\ previousSigningHash = NoHash
    /\ IF name \in DOMAIN known
       THEN /\ tx_json' = [tx_json EXCEPT !.Flags = @ + known[name]]
            /\ asked' = asked \cup {known[name]}
            /\ Room(tx_json, asked')
            /\ twice' = (twice \/ known[name] \in asked)
            /\ UNCHANGED failed
       ELSE failed' = TRUE /\ UNCHANGED <<tx_json, asked, twice>>
    /\ UNCHANGED <<numbers, secret, previousSigningHash, rekeyed>>

\* setFlags with a number: it takes the place of what was set.
SetFlags ==
  /\ ~failed /\ Has("TransactionType") /\ previousSigningHash = NoHash
  /\ \E n \in FlagNumbers : tx_json' = [tx_json EXCEPT !.Flags = n] /\ asked' = Bits(n)
  /\ Room(tx_json, asked')
  /\ twice' = FALSE
  /\ UNCHANGED <<numbers, secret, previousSigningHash, failed, rekeyed>>

\* secret, of a transaction under way
SetSecret ==
  /\ ~failed /\ Has("TransactionType")
  /\ secret' \in Secrets
  /\ rekeyed' = (rekeyed \/ (Has("SigningPubKey") /\ tx_json.SigningPubKey # <<secret'>>))
  /\ UNCHANGED <<numbers, tx_json, previousSigningHash, failed, asked, twice>>

-----------------------------------------------------------------------------
(* Submission.                                                             *)

Fee(n) == MoneyJson(Money(Amt(TRUE, n, 0, FALSE), Native, <<>>))

\* _computeFee: the median of what the connected servers ask.
Median(fees) ==
  LET s == SortSeq(fees, LAMBDA x, y : x < y)
      mid == Len(s) \div 2 + 1
  IN IF Len(s) % 2 = 1 THEN s[mid] ELSE (s[mid] + s[mid - 1] + 1) \div 2

\* What complete does with the secret s and the fees asked, for a remote that
\* may see the secret: each step keeps what the ones before it filled in.  A
\* trusted server that fills in fees is left to.
CompleteWith(remote, s, fees) ==
  LET keyed == IF Has("SigningPubKey") THEN tx_json ELSE With(tx_json, [SigningPubKey |-> <<s>>])
      computed == ~Has("Fee") /\ (remote.local_fee \/ ~remote.trusted)
      paid == IF computed THEN With(keyed, [Fee |-> Fee(Median(fees))]) ELSE keyed
      payable == computed => fees # <<>>
      dear == "Fee" \in DOMAIN paid /\ paid.Fee.text.int > MaxFee
      canonical == IF remote.local_signing /\ CanonicalSigning THEN {FullyCanonicalSig} ELSE {}
      set == IF canonical \subseteq Bits(tx_json.Flags) THEN 0 ELSE FullyCanonicalSig
      Fail(tx) == failed' = TRUE /\ tx_json' = tx /\ UNCHANGED asked
  IN \/ s = NoSecret /\ Fail(tx_json)
     \/ s # NoSecret /\ ~payable /\ Fail(keyed)
     \/ s # NoSecret /\ payable /\ dear /\ Fail(paid)
     \/ /\ s # NoSecret /\ payable /\ ~dear
        /\ tx_json' = [paid EXCEPT !.Flags = @ + set]
        /\ asked' = asked \cup canonical
        /\ UNCHANGED failed

\* complete: no secret is meant for a server that is not trusted; it is taken
\* from the remote's if none was given.
Complete ==
  /\ ~failed /\ Has("TransactionType")
  /\ \E remote \in Remotes, fees \in FeeLists :
       IF remote.trusted \/ remote.local_signing
       THEN /\ secret' = IF secret = NoSecret /\ Has("Account")
                         THEN KnownSecrets[tx_json.Account] ELSE secret
            /\ CompleteWith(remote, secret', fees)
       ELSE failed' = TRUE /\ UNCHANGED <<secret, tx_json, asked>>
  /\ UNCHANGED <<numbers, previousSigningHash, twice, rekeyed>>

\* transactionmanager: the sequence is filled in or moved on, the fee follows
\* the load.
Renumber == Has("Account") /\ \E n \in Numbers : Put([Sequence |-> n])
Refee ==
  \E fees \in FeeLists \ {<<>>} :
    Has("Fee") /\ Median(fees) <= MaxFee /\ Put([Fee |-> Fee(Median(fees))])

WithoutSignature(tx) == [f \in DOMAIN tx \ {"TxnSignature"} |-> tx[f]]
SigningHash(tx) == FromJson(WithoutSignature(tx))

Signature(hash) == [TxnSignature |-> <<secret>> \o hash]

\* Mutation: a signature is kept whatever it signed.
SignOnce(hash) == IF Has("TxnSignature") THEN tx_json ELSE With(tx_json, Signature(hash))

\* The signature of the same hash is used again.
SignedAs(hash) ==
  IF Has("TxnSignature") /\ hash = previousSigningHash THEN tx_json
  ELSE With(tx_json, Signature(hash))

\* sign
Sign ==
  /\ ~failed /\ secret # NoSecret
  /\ LET hash == SigningHash(tx_json) IN
     IF Thrown(hash)
     THEN tx_json' = WithoutSignature(tx_json) /\ UNCHANGED previousSigningHash
     ELSE tx_json' = SignedAs(hash) /\ previousSigningHash' = hash
  /\ UNCHANGED <<numbers, secret, failed, history>>

Next ==
  \/ Compute
  \/ Payment \/ OfferCreate \/ TrustSet \/ AccountSet
  \/ AccountMerge \/ Inflation \/ OfferCancel \/ SetRegularKey \/ Claim
  \/ SetOption \/ PathAdd \/ Assign \/ SetFlag \/ SetFlags \/ SetSecret
  \/ Complete \/ Renumber \/ Refee \/ Sign

Spec == Init /\ [][Next]_vars

-----------------------------------------------------------------------------
(* Properties.                                                             *)

\* An amount that is not zero is canonical, whatever it was worked out from;
\* sums, products, quotients and prices are exact but for the last digits, and
\* comparison agrees with the numbers (canonicalize, add, multiply, divide,
\* ratio_human, product_human, invert, compareTo, parse_quality).
Arithmetic ==
  tx_json = New =>
  /\ ~IsZero(amount) => Canonical(amount)
  /\ Canonical(amount) =>
       \A b \in Operands :
         /\ b.native = amount.native => SumLaw(amount, b)
         /\ (~IsZero(amount) /\ ~IsZero(b)) =>
              /\ ProductLaw(amount, b) /\ QuotientLaw(amount, b)
              /\ ~amount.native =>
                   PriceLaw(amount, b) /\ QualityLaw(amount, b.native)

\* JSON keeps the amount, and so do print and typing as long as no separators
\* are printed: what has them is refused.  Formatting cuts what its options say
\* (to_text, parse_json, to_human, parse_human, Currency).
TextLaws ==
  tx_json = New =>
  /\ Canonical(amount) =>
       /\ WireLaw(amount)
       /\ amount.offset <= 0 =>
            HumanLaw(amount) /\ \A f \in Formats : FormatLaw(amount, f)
  /\ \A c \in Currencies : CurrencyLaw(c)

\* As long as the transaction is as sign last saw it, TxnSignature is a
\* signature of it by the secret of its key, and its flags are those that were
\* asked for, in the bits they have (sign, secret, setFlags, complete).
SignedAsAsked ==
  Has("TxnSignature") =>
    LET hash == SigningHash(tx_json) IN
    hash = previousSigningHash =>
      /\ ~rekeyed => tx_json.TxnSignature = tx_json.SigningPubKey \o hash
      /\ ~twice => tx_json.Flags < 2^16 /\ Bits(tx_json.Flags) = asked
=============================================================================
