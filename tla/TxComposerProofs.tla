-------------------------- MODULE TxComposerProofs --------------------------
(* A signed transaction is signed and flagged as it was asked to be: for any *)
(* amounts, fields, secrets, fees and numbers of steps, and for any binary   *)
(* format (Serialized).  The amounts it composes with keep the laws of exact  *)
(* arithmetic.  And of the format: lengths and field headers read as they     *)
(* were written.                                                              *)
EXTENDS TxComposer, AmountProofs, TLAPS

(* The inductive invariant.  The key in a transaction is that of its secret  *)
(* unless the secret was changed under it (KeyOfSecret); a signature is one  *)
(* of the hash that was signed last (LastSigned), and a transaction without  *)
(* a key is never signed, because the format requires one of every           *)
(* transaction (OnlyTransactions).  The flags are the bits that were asked   *)
(* for: while none is asked for twice, no addition carries (Flagged).        *)
KeyOfSecret ==
  ~rekeyed /\ Has("SigningPubKey") => tx_json.SigningPubKey = <<secret>> /\ secret # NoSecret

OnlyTransactions == secret # NoSecret => Has("TransactionType")

LastSigned ==
  Has("TxnSignature") =>
    /\ Has("SigningPubKey")
    /\ ~rekeyed => tx_json.TxnSignature = tx_json.SigningPubKey \o previousSigningHash

Flagged ==
  /\ Has("Flags") /\ tx_json.Flags \in Nat
  /\ ~twice => tx_json.Flags < 2^16 /\ Bits(tx_json.Flags) = asked

ComposerInv == KeyOfSecret /\ OnlyTransactions /\ LastSigned /\ Flagged

-----------------------------------------------------------------------------
(* Flag bits.                                                               *)

Powers == {1, 2, 4, 8, 16, 32, 64, 128, 256, 512, 1024, 2048, 4096, 8192, 16384, 32768}

LEMMA Exponents == {2^k : k \in 0..15} = Powers /\ 2^15 = 32768 /\ 2^16 = 65536
<1>1. \A k \in 0..15 : k \in {0, 1, 2, 3, 4, 5, 6, 7, 8, 9, 10, 11, 12, 13, 14, 15}
  OBVIOUS
<1>2. /\ 2^0 = 1 /\ 2^1 = 2 /\ 2^2 = 4 /\ 2^3 = 8 /\ 2^4 = 16 /\ 2^5 = 32
      /\ 2^6 = 64 /\ 2^7 = 128 /\ 2^8 = 256 /\ 2^9 = 512 /\ 2^10 = 1024
      /\ 2^11 = 2048 /\ 2^12 = 4096 /\ 2^13 = 8192 /\ 2^14 = 16384
      /\ 2^15 = 32768 /\ 2^16 = 65536
  OBVIOUS
<1>. QED BY <1>1, <1>2 DEF Powers

LEMMA BitsAre == \A n \in Nat : Bits(n) = {b \in Powers : (n \div b) % 2 = 1}
BY Exponents DEF Bits

\* Adding a bit that is not set sets it, leaves the others alone and stays
\* within the sixteen.
LEMMA BitAdded ==
  ASSUME NEW n \in Nat, NEW b \in Powers, b \notin Bits(n)
  PROVE  /\ Bits(n + b) = Bits(n) \cup {b}
         /\ n < 65536 => n + b < 65536
<1>1. (n \div b) % 2 = 0
  BY BitsAre DEF Powers
<1>2. /\ ((n + b) \div b) % 2 = 1
      /\ \A c \in Powers \ {b} : ((n + b) \div c) % 2 = (n \div c) % 2
      /\ n < 65536 => n + b < 65536
  <2>1. CASE b = 1 BY <2>1, <1>1, SMTT(30) DEF Powers
  <2>2. CASE b = 2 BY <2>2, <1>1, SMTT(30) DEF Powers
  <2>3. CASE b = 4 BY <2>3, <1>1, SMTT(30) DEF Powers
  <2>4. CASE b = 8 BY <2>4, <1>1, SMTT(30) DEF Powers
  <2>5. CASE b = 16 BY <2>5, <1>1, SMTT(30) DEF Powers
  <2>6. CASE b = 32 BY <2>6, <1>1, SMTT(30) DEF Powers
  <2>7. CASE b = 64 BY <2>7, <1>1, SMTT(30) DEF Powers
  <2>8. CASE b = 128 BY <2>8, <1>1, SMTT(30) DEF Powers
  <2>9. CASE b = 256 BY <2>9, <1>1, SMTT(30) DEF Powers
  <2>10. CASE b = 512 BY <2>10, <1>1, SMTT(30) DEF Powers
  <2>11. CASE b = 1024 BY <2>11, <1>1, SMTT(30) DEF Powers
  <2>12. CASE b = 2048 BY <2>12, <1>1, SMTT(30) DEF Powers
  <2>13. CASE b = 4096 BY <2>13, <1>1, SMTT(30) DEF Powers
  <2>14. CASE b = 8192 BY <2>14, <1>1, SMTT(30) DEF Powers
  <2>15. CASE b = 16384 BY <2>15, <1>1, SMTT(30) DEF Powers
  <2>16. CASE b = 32768 BY <2>16, <1>1, SMTT(30) DEF Powers
  <2>. QED BY <2>1, <2>2, <2>3, <2>4, <2>5, <2>6, <2>7, <2>8, <2>9, <2>10,
              <2>11, <2>12, <2>13, <2>14, <2>15, <2>16 DEF Powers
<1>3. n + b \in Nat BY DEF Powers
<1>. QED BY <1>2, <1>3, BitsAre

LEMMA NoBits == Bits(0) = {}
<1>1. \A b \in Powers : (0 \div b) % 2 = 0 BY DEF Powers
<1>. QED BY <1>1, BitsAre

\* Every flag of a type is one bit.
LEMMA FlagIsBit ==
  ASSUME NEW tx, NEW name \in DOMAIN FlagsOf(tx)
  PROVE  FlagsOf(tx)[name] \in Powers
<1>1. CASE "TransactionType" \in DOMAIN tx /\ tx.TransactionType \in DOMAIN TypeFlags
  <2>1. tx.TransactionType \in {"AccountSet", "TrustSet", "OfferCreate", "Payment"}
    BY <1>1 DEF TypeFlags
  <2>. QED BY <1>1, <2>1 DEF FlagsOf, TypeFlags, Powers
<1>2. CASE ~("TransactionType" \in DOMAIN tx /\ tx.TransactionType \in DOMAIN TypeFlags)
  BY <1>2 DEF FlagsOf
<1>. QED BY <1>1, <1>2

-----------------------------------------------------------------------------
(* Assigning fields.                                                        *)

LEMMA WithFields ==
  ASSUME NEW obj, NEW fields
  PROVE  /\ DOMAIN With(obj, fields) = DOMAIN obj \cup DOMAIN fields
         /\ \A f \in DOMAIN fields : With(obj, fields)[f] = fields[f]
         /\ \A f \in DOMAIN obj \ DOMAIN fields : With(obj, fields)[f] = obj[f]
BY DEF With

\* What an assignment of other fields leaves alone.
Watched == {"Flags", "SigningPubKey", "TxnSignature"}

LEMMA WithOthers ==
  ASSUME NEW obj, NEW fields, DOMAIN obj \cap Watched = {}, DOMAIN fields \cap Watched = {}
  PROVE  DOMAIN With(obj, fields) \cap Watched = {}
BY WithFields

LEMMA PutKeeps ==
  ASSUME ComposerInv, NEW fields, DOMAIN fields \cap Watched = {}, Put(fields)
  PROVE  ComposerInv'
<1>1. /\ DOMAIN tx_json' = DOMAIN tx_json \cup DOMAIN fields
      /\ \A f \in DOMAIN tx_json \ DOMAIN fields : tx_json'[f] = tx_json[f]
  BY WithFields DEF Put
<1>2. \A f \in Watched : /\ Has(f)' <=> Has(f)
                         /\ Has(f) => tx_json'[f] = tx_json[f]
  BY <1>1 DEF Has, Watched
<1>3. UNCHANGED <<secret, previousSigningHash, asked, twice, rekeyed>>
  BY DEF Put, history
<1>4. Has("TransactionType") => Has("TransactionType")'
  BY <1>1 DEF Has
<1>5. (KeyOfSecret /\ OnlyTransactions /\ LastSigned)'
  BY <1>2, <1>3, <1>4 DEF ComposerInv, KeyOfSecret, OnlyTransactions, LastSigned, Watched
<1>6. Flagged'
  BY <1>2, <1>3 DEF ComposerInv, Flagged, Watched
<1>. QED BY <1>5, <1>6 DEF ComposerInv

LEMMA ConstructKeeps ==
  ASSUME ComposerInv, NEW type, NEW account, NEW fields, DOMAIN fields \cap Watched = {},
         Construct(type, account, fields)
  PROVE  ComposerInv'
<1> DEFINE all == With(fields, [TransactionType |-> type, Account |-> account])
<1>1. DOMAIN all = DOMAIN fields \cup {"TransactionType", "Account"}
  BY WithFields
<1>2. Put(all) BY DEF Construct
<1>3. DOMAIN all \cap Watched = {} BY <1>1 DEF Watched
<1> HIDE DEF all
<1>. QED BY <1>2, <1>3, PutKeeps

Constructors ==
  Payment \/ OfferCreate \/ TrustSet \/ AccountSet
    \/ AccountMerge \/ Inflation \/ OfferCancel \/ SetRegularKey \/ Claim

LEMMA ConstructorsKeep == ASSUME ComposerInv, Constructors PROVE ComposerInv'
<1> USE DEF Watched
<1>1. ASSUME Payment PROVE ComposerInv'
  <2>1. PICK src \in Accounts, dst \in Accounts, a \in Mine :
          Construct("Payment", src, [Amount |-> a, Destination |-> dst])
    BY <1>1 DEF Payment
  <2>. QED BY <2>1, ConstructKeeps
<1>2. ASSUME OfferCreate PROVE ComposerInv'
  <2> DEFINE Offer(a, price, mine) == [TakerPays |-> IF mine THEN a ELSE price,
                                       TakerGets |-> IF mine THEN price ELSE a]
  <2>1. PICK src \in Accounts, a \in Mine, price \in Options.SendMax, mine \in BOOLEAN,
             extra \in {<<>>, [Expiration |-> 500], [OfferSequence |-> 3]} :
          Construct("OfferCreate", src, With(extra, Offer(a, price, mine)))
    BY <1>2 DEF OfferCreate
  <2>2. DOMAIN extra \cap Watched = {}
    OBVIOUS
  <2>3. DOMAIN Offer(a, price, mine) \cap Watched = {}
    OBVIOUS
  <2>4. DOMAIN With(extra, Offer(a, price, mine)) \cap Watched = {}
    BY <2>2, <2>3, WithOthers
  <2>. QED BY <2>1, <2>4, ConstructKeeps
<1>3. ASSUME TrustSet PROVE ComposerInv'
  <2>1. PICK src \in Accounts, limit \in Mine,
             extra \in {<<>>, [QualityIn |-> 5], [QualityOut |-> 6]} :
          Construct("TrustSet", src, With(extra, [LimitAmount |-> limit]))
    BY <1>3 DEF TrustSet
  <2>2. DOMAIN extra \cap Watched = {}
    OBVIOUS
  <2>3. DOMAIN With(extra, [LimitAmount |-> limit]) \cap Watched = {}
    BY <2>2, WithOthers
  <2>. QED BY <2>1, <2>3, ConstructKeeps
<1>4. ASSUME AccountSet PROVE ComposerInv'
  <2>1. PICK src \in Accounts, extra \in {<<>>, [SetFlag |-> 1], [ClearFlag |-> 4]} :
          Construct("AccountSet", src, extra)
    BY <1>4 DEF AccountSet
  <2>. QED BY <2>1, ConstructKeeps
<1>5. ASSUME AccountMerge PROVE ComposerInv'
  BY <1>5, ConstructKeeps DEF AccountMerge
<1>6. ASSUME Inflation PROVE ComposerInv'
  BY <1>6, ConstructKeeps DEF Inflation
<1>7. ASSUME OfferCancel PROVE ComposerInv'
  BY <1>7, ConstructKeeps DEF OfferCancel
<1>8. ASSUME SetRegularKey PROVE ComposerInv'
  BY <1>8, ConstructKeeps DEF SetRegularKey
<1>9. ASSUME Claim PROVE ComposerInv'
  BY <1>9, PutKeeps DEF Claim
<1>. QED BY <1>1, <1>2, <1>3, <1>4, <1>5, <1>6, <1>7, <1>8, <1>9 DEF Constructors

LEMMA SettersKeep ==
  ASSUME ComposerInv, SetOption \/ PathAdd \/ Assign \/ Renumber \/ Refee
  PROVE  ComposerInv'
<1>1. ASSUME SetOption PROVE ComposerInv'
  <2>1. PICK f \in DOMAIN Options : \E v : Put([g \in {f} |-> v])
    BY <1>1 DEF SetOption, Say
  <2>2. PICK v : Put([g \in {f} |-> v])
    BY <2>1
  <2>3. DOMAIN [g \in {f} |-> v] \cap Watched = {}
    BY OwnOperations DEF Watched
  <2>. QED BY <2>2, <2>3, PutKeeps
<1>2. ASSUME PathAdd PROVE ComposerInv'
  <2>1. PICK paths : Put([Paths |-> paths])
    BY <1>2 DEF PathAdd, Say
  <2>. QED BY <2>1, PutKeeps DEF Watched
<1>3. ASSUME Assign PROVE ComposerInv'
  <2>1. PICK f \in DOMAIN Assignments : \E v : Put([g \in {f} |-> v])
    BY <1>3 DEF Assign, Say
  <2>2. PICK v : Put([g \in {f} |-> v])
    BY <2>1
  <2>3. DOMAIN [g \in {f} |-> v] \cap Watched = {}
    BY OwnOperations DEF Watched
  <2>. QED BY <2>2, <2>3, PutKeeps
<1>4. ASSUME Renumber PROVE ComposerInv'
  BY <1>4, PutKeeps DEF Renumber, Watched
<1>5. ASSUME Refee PROVE ComposerInv'
  <2>1. PICK fee : Put([Fee |-> fee])
    BY <1>5 DEF Refee
  <2>. QED BY <2>1, PutKeeps DEF Watched
<1>. QED BY <1>1, <1>2, <1>3, <1>4, <1>5

-----------------------------------------------------------------------------
(* Flags.                                                                   *)

\* An operation that changes nothing but flags preserves what is not about them.
LEMMA FlagsOnly ==
  ASSUME ComposerInv, NEW n, tx_json' = [tx_json EXCEPT !.Flags = n],
         UNCHANGED <<secret, previousSigningHash, rekeyed>>
  PROVE  /\ (KeyOfSecret /\ OnlyTransactions /\ LastSigned)'
         /\ Has("Flags")' /\ tx_json'.Flags = n
<1>1. /\ DOMAIN tx_json' = DOMAIN tx_json /\ tx_json'.Flags = n
      /\ \A f \in DOMAIN tx_json \ {"Flags"} : tx_json'[f] = tx_json[f]
  BY DEF ComposerInv, Flagged, Has
<1>. QED BY <1>1 DEF ComposerInv, KeyOfSecret, OnlyTransactions, LastSigned, Flagged, Has

LEMMA SetFlagKeeps == ASSUME ComposerInv, SetFlag PROVE ComposerInv'
<1> DEFINE known == FlagsOf(tx_json)
<1>1. PICK name \in FlagNames :
        /\ IF name \in DOMAIN known
           THEN /\ tx_json' = [tx_json EXCEPT !.Flags = @ + known[name]]
                /\ asked' = asked \cup {known[name]}
                /\ twice' = (twice \/ known[name] \in asked)
           ELSE UNCHANGED <<tx_json, asked, twice>>
        /\ UNCHANGED <<secret, previousSigningHash, rekeyed>>
  BY DEF SetFlag
<1>2. CASE name \in DOMAIN known
  <2> DEFINE b == known[name]
             n == tx_json.Flags
  <2>1. b \in Powers BY <1>2, FlagIsBit
  <2>2. n \in Nat /\ b \in Nat BY <2>1 DEF ComposerInv, Flagged, Powers
  <2>3. tx_json' = [tx_json EXCEPT !.Flags = n + b]
        /\ asked' = asked \cup {b} /\ twice' = (twice \/ b \in asked)
    BY <1>1, <1>2
  <2>4. (KeyOfSecret /\ OnlyTransactions /\ LastSigned)' /\ Has("Flags")' /\ tx_json'.Flags = n + b
    BY <1>1, <2>3, FlagsOnly
  <2>5. ASSUME ~twice' PROVE n + b < 2^16 /\ Bits(n + b) = asked'
    <3>1. ~twice /\ b \notin asked BY <2>3, <2>5
    <3>2. n < 2^16 /\ Bits(n) = asked BY <3>1 DEF ComposerInv, Flagged
    <3>. QED BY <3>1, <3>2, <2>1, <2>2, <2>3, BitAdded, Exponents
  <2>6. Flagged' BY <2>2, <2>4, <2>5 DEF Flagged
  <2>. QED BY <2>4, <2>6 DEF ComposerInv
<1>3. CASE name \notin DOMAIN known
  BY <1>1, <1>3
     DEF ComposerInv, KeyOfSecret, OnlyTransactions, LastSigned, Flagged, Has
<1>. QED BY <1>2, <1>3

LEMMA SetFlagsKeeps == ASSUME ComposerInv, SetFlags PROVE ComposerInv'
<1>1. PICK n \in FlagNumbers : tx_json' = [tx_json EXCEPT !.Flags = n] /\ asked' = Bits(n)
  BY DEF SetFlags
<1>2. UNCHANGED <<secret, previousSigningHash, rekeyed>>
  BY DEF SetFlags
<1>3. (KeyOfSecret /\ OnlyTransactions /\ LastSigned)' /\ Has("Flags")' /\ tx_json'.Flags = n
  BY <1>1, <1>2, FlagsOnly
<1>4. n \in Nat /\ n < 2^16 BY OwnOperations
<1>5. Flagged' BY <1>1, <1>3, <1>4 DEF Flagged
<1>. QED BY <1>3, <1>5 DEF ComposerInv

-----------------------------------------------------------------------------
(* Secrets, completion and signatures.                                      *)

LEMMA SetSecretKeeps == ASSUME ComposerInv, SetSecret PROVE ComposerInv'
<1>1. /\ Has("TransactionType")
      /\ rekeyed' = (rekeyed \/ (Has("SigningPubKey") /\ tx_json.SigningPubKey # <<secret'>>))
      /\ UNCHANGED <<tx_json, previousSigningHash, asked, twice>>
  BY DEF SetSecret
<1>2. ASSUME ~rekeyed', Has("SigningPubKey")
      PROVE  tx_json.SigningPubKey = <<secret'>> /\ secret' # NoSecret
  <2>1. ~rekeyed /\ tx_json.SigningPubKey = <<secret'>> BY <1>1, <1>2
  <2>2. tx_json.SigningPubKey = <<secret>> /\ secret # NoSecret
    BY <2>1, <1>2 DEF ComposerInv, KeyOfSecret
  <2>3. secret' = secret BY <2>1, <2>2
  <2>. QED BY <2>1, <2>2, <2>3
<1>3. KeyOfSecret' BY <1>1, <1>2 DEF KeyOfSecret, Has
<1>4. ~rekeyed' => ~rekeyed BY <1>1
<1>. QED BY <1>1, <1>3, <1>4 DEF ComposerInv, OnlyTransactions, LastSigned, Flagged, Has

\* The bit complete adds, if it is not set.
CanonicalBits(remote) ==
  IF remote.local_signing /\ CanonicalSigning THEN {FullyCanonicalSig} ELSE {}
CanonicalAdded(remote) ==
  IF CanonicalBits(remote) \subseteq Bits(tx_json.Flags) THEN 0 ELSE FullyCanonicalSig

LEMMA CompleteKeeps == ASSUME ComposerInv, Complete PROVE ComposerInv'
<1>1. PICK remote \in Remotes, fees \in FeeLists :
        CompleteWith(remote, secret', fees) \/ UNCHANGED <<tx_json, asked>>
  BY DEF Complete
<1>2. /\ Has("TransactionType")
      /\ UNCHANGED <<previousSigningHash, twice, rekeyed>>
      /\ secret # NoSecret => secret' = secret
  BY DEF Complete
<1> DEFINE keyed == IF Has("SigningPubKey") THEN tx_json
                    ELSE With(tx_json, [SigningPubKey |-> <<secret'>>])
           computed == ~Has("Fee") /\ (remote.local_fee \/ ~remote.trusted)
           paid == IF computed THEN With(keyed, [Fee |-> Fee(Median(fees))]) ELSE keyed
           bits == CanonicalBits(remote)
           more == CanonicalAdded(remote)
           Added == [paid EXCEPT !.Flags = @ + more]
<1>3. \/ tx_json' = tx_json /\ UNCHANGED asked
      \/ secret' # NoSecret /\ tx_json' \in {keyed, paid} /\ UNCHANGED asked
      \/ secret' # NoSecret /\ tx_json' = Added /\ asked' = asked \cup bits
  BY <1>1 DEF CompleteWith, CanonicalAdded, CanonicalBits
<1> DEFINE Filled(tx) ==
             /\ \A f \in {"Flags", "SigningPubKey", "TransactionType", "TxnSignature"} :
                  Has(f) => f \in DOMAIN tx /\ tx[f] = tx_json[f]
             /\ "TxnSignature" \in DOMAIN tx => Has("TxnSignature")
             /\ "SigningPubKey" \in DOMAIN tx /\ ~Has("SigningPubKey")
                  => tx.SigningPubKey = <<secret'>> /\ secret' # NoSecret
<1>4. Filled(tx_json)
  BY DEF Has
<1>5. ASSUME secret' # NoSecret PROVE Filled(keyed) /\ Filled(paid)
  <2>1. ASSUME Has("SigningPubKey") PROVE Filled(keyed)
    BY <1>4, <2>1
  <2>2. ASSUME ~Has("SigningPubKey") PROVE Filled(keyed)
    <3> DEFINE new == [SigningPubKey |-> <<secret'>>]
    <3>1. DOMAIN new = {"SigningPubKey"} /\ new.SigningPubKey = <<secret'>>
      OBVIOUS
    <3>2. keyed = With(tx_json, new) BY <2>2
    <3> HIDE DEF new, keyed
    <3>3. /\ DOMAIN keyed = DOMAIN tx_json \cup {"SigningPubKey"}
          /\ keyed.SigningPubKey = <<secret'>>
          /\ \A f \in DOMAIN tx_json \ {"SigningPubKey"} : keyed[f] = tx_json[f]
      BY <3>1, <3>2 DEF With
    <3>. QED BY <1>5, <2>2, <3>3 DEF Has
  <2>3. Filled(keyed) BY <2>1, <2>2
  <2>4. ASSUME computed PROVE Filled(paid)
    <3> DEFINE new == [Fee |-> Fee(Median(fees))]
    <3>1. DOMAIN new = {"Fee"}
      OBVIOUS
    <3>2. paid = With(keyed, new) BY <2>4
    <3> HIDE DEF new, keyed, paid
    <3>3. /\ DOMAIN paid = DOMAIN keyed \cup {"Fee"}
          /\ \A f \in DOMAIN keyed \ {"Fee"} : paid[f] = keyed[f]
      BY <3>1, <3>2 DEF With
    <3>. QED BY <2>3, <3>3 DEF Has
  <2>. QED BY <2>3, <2>4
<1> HIDE DEF keyed, paid
<1>6. ASSUME NEW tx, Filled(tx), NEW n, tx_json' \in {tx, [tx EXCEPT !.Flags = n]}
      PROVE  (KeyOfSecret /\ OnlyTransactions /\ LastSigned)' /\ Has("Flags")'
  <2>1. /\ DOMAIN tx_json' = DOMAIN tx
        /\ \A f \in DOMAIN tx \ {"Flags"} : tx_json'[f] = tx[f]
    BY <1>6
  <2>2. KeyOfSecret'
    BY <1>2, <1>6, <2>1 DEF ComposerInv, KeyOfSecret, Has
  <2>3. OnlyTransactions'
    BY <1>2, <1>6, <2>1 DEF OnlyTransactions, Has
  <2>4. LastSigned'
    BY <1>2, <1>6, <2>1 DEF ComposerInv, LastSigned, Has
  <2>. QED BY <1>6, <2>1, <2>2, <2>3, <2>4 DEF ComposerInv, Flagged, Has
<1>7. ASSUME NEW tx, Filled(tx), tx_json' = tx, UNCHANGED asked
      PROVE  ComposerInv'
  <2>1. tx.Flags = tx_json.Flags BY <1>7 DEF ComposerInv, Flagged
  <2>2. Flagged' BY <1>2, <1>6, <1>7, <2>1 DEF ComposerInv, Flagged
  <2>. QED BY <1>6, <1>7, <2>2 DEF ComposerInv
<1>8. ASSUME NEW tx, Filled(tx), tx_json' = [tx EXCEPT !.Flags = @ + more],
             asked' = asked \cup bits
      PROVE  ComposerInv'
  <2> DEFINE n == tx_json.Flags
  <2>1. n \in Nat /\ "Flags" \in DOMAIN tx /\ tx.Flags = n
    BY <1>8 DEF ComposerInv, Flagged
  <2>2. tx_json'.Flags = n + more
    BY <1>8, <2>1
  <2>3. more \in Nat
    BY Exponents DEF CanonicalAdded, FullyCanonicalSig
  <2>4. ASSUME ~twice PROVE n + more < 2^16 /\ Bits(n + more) = asked'
    <3>1. n < 2^16 /\ Bits(n) = asked
      BY <2>4 DEF ComposerInv, Flagged
    <3>2. CASE bits \subseteq Bits(n)
      BY <1>8, <2>1, <3>1, <3>2 DEF CanonicalAdded
    <3>3. CASE ~(bits \subseteq Bits(n))
      <4>1. /\ bits = {FullyCanonicalSig} /\ FullyCanonicalSig \notin Bits(n)
            /\ more = FullyCanonicalSig
        BY <3>3 DEF CanonicalBits, CanonicalAdded
      <4>2. FullyCanonicalSig \in Powers
        BY Exponents DEF FullyCanonicalSig, Powers
      <4>. QED BY <1>8, <2>1, <3>1, <4>1, <4>2, BitAdded, Exponents
    <3>. QED BY <3>2, <3>3
  <2>5. (KeyOfSecret /\ OnlyTransactions /\ LastSigned)' /\ Has("Flags")'
    BY <1>6, <1>8
  <2>6. Flagged'
    BY <1>2, <2>1, <2>2, <2>3, <2>4, <2>5 DEF Flagged
  <2>. QED BY <2>5, <2>6 DEF ComposerInv
<1>. QED BY <1>3, <1>4, <1>5, <1>7, <1>8

\* The format requires a key of every transaction.
LEMMA KeyRequired ==
  ASSUME NEW tx, "TransactionType" \in DOMAIN tx, ~Thrown(FromJson(tx))
  PROVE  "SigningPubKey" \in DOMAIN tx
<1>1. Thrown(Throw)
  BY DEF Thrown, Throw
<1>2. FromJson(tx) # Throw
  BY <1>1
<1>3. tx.TransactionType \in DOMAIN Required /\ RequiredOf(tx) \subseteq DOMAIN tx
  BY <1>2 DEF FromJson
<1>4. \A type \in DOMAIN Required : "SigningPubKey" \in Required[type]
  BY DEF Required, Base
<1>. QED BY <1>3, <1>4 DEF RequiredOf

LEMMA SignKeeps == ASSUME ComposerInv, Sign PROVE ComposerInv'
<1> DEFINE hash == SigningHash(tx_json)
           Unsigned == WithoutSignature(tx_json)
<1>1. /\ secret # NoSecret
      /\ UNCHANGED <<secret, asked, twice, rekeyed>>
      /\ \/ Thrown(hash) /\ tx_json' = Unsigned /\ UNCHANGED previousSigningHash
         \/ ~Thrown(hash) /\ tx_json' = SignedAs(hash) /\ previousSigningHash' = hash
  BY DEF Sign, history
<1>2. Has("TransactionType")
  BY <1>1 DEF ComposerInv, OnlyTransactions
<1>3. /\ DOMAIN Unsigned = DOMAIN tx_json \ {"TxnSignature"}
      /\ \A f \in DOMAIN tx_json \ {"TxnSignature"} : Unsigned[f] = tx_json[f]
  BY DEF WithoutSignature
<1>4. CASE tx_json' = Unsigned /\ UNCHANGED previousSigningHash
  <2> HIDE DEF Unsigned
  <2>. QED BY <1>1, <1>2, <1>3, <1>4
           DEF ComposerInv, KeyOfSecret, OnlyTransactions, LastSigned, Flagged, Has
<1>5. CASE ~Thrown(hash) /\ tx_json' = SignedAs(hash) /\ previousSigningHash' = hash
  <2>1. Has("SigningPubKey")
    <3>1. "TransactionType" \in DOMAIN Unsigned BY <1>2, <1>3 DEF Has
    <3>2. "SigningPubKey" \in DOMAIN Unsigned
      BY <1>5, <3>1, KeyRequired DEF SigningHash
    <3>. QED BY <1>3, <3>2 DEF Has
  <2>2. CASE tx_json' = tx_json /\ hash = previousSigningHash
    BY <1>1, <1>5, <2>2
       DEF ComposerInv, KeyOfSecret, OnlyTransactions, LastSigned, Flagged, Has
  <2>3. CASE tx_json' = With(tx_json, Signature(hash))
    <3>1. /\ DOMAIN tx_json' = DOMAIN tx_json \cup {"TxnSignature"}
          /\ tx_json'.TxnSignature = <<secret>> \o hash
          /\ \A f \in DOMAIN tx_json \ {"TxnSignature"} : tx_json'[f] = tx_json[f]
      <4>1. /\ DOMAIN Signature(hash) = {"TxnSignature"}
            /\ Signature(hash).TxnSignature = <<secret>> \o hash
        BY DEF Signature
      <4> HIDE DEF hash
      <4>. QED BY <2>3, <4>1 DEF With
    <3> HIDE DEF hash
    <3>2. (KeyOfSecret /\ OnlyTransactions)'
      BY <1>1, <3>1 DEF ComposerInv, KeyOfSecret, OnlyTransactions, Has
    <3>3. LastSigned'
      BY <1>1, <1>5, <2>1, <3>1 DEF ComposerInv, KeyOfSecret, LastSigned, Has
    <3>4. Flagged'
      BY <1>1, <3>1 DEF ComposerInv, Flagged, Has
    <3>. QED BY <3>2, <3>3, <3>4 DEF ComposerInv
  <2>. QED BY <1>5, <2>2, <2>3 DEF SignedAs
<1>. QED BY <1>1, <1>4, <1>5

-----------------------------------------------------------------------------
(* The theorem.                                                             *)

LEMMA ComposerInit == Init => ComposerInv
<1> SUFFICES ASSUME Init PROVE ComposerInv
  OBVIOUS
<1>1. DOMAIN tx_json = {"Flags"} /\ tx_json.Flags = 0 /\ secret = NoSecret /\ asked = {}
  BY DEF Init, New
<1>. QED BY <1>1, NoBits, Exponents
         DEF ComposerInv, KeyOfSecret, OnlyTransactions, LastSigned, Flagged, Has

LEMMA ComposerNext == ComposerInv /\ [Next]_vars => ComposerInv'
<1> SUFFICES ASSUME ComposerInv, [Next]_vars PROVE ComposerInv'
  OBVIOUS
<1>1. ASSUME UNCHANGED <<tx_json, secret, previousSigningHash, history>> PROVE ComposerInv'
  BY <1>1 DEF ComposerInv, KeyOfSecret, OnlyTransactions, LastSigned, Flagged, Has, history
<1>2. CASE Compute BY <1>1, <1>2 DEF Compute
<1>3. CASE Constructors BY <1>3, ConstructorsKeep
<1>4. CASE SetOption \/ PathAdd \/ Assign \/ Renumber \/ Refee BY <1>4, SettersKeep
<1>5. CASE SetFlag BY <1>5, SetFlagKeeps
<1>6. CASE SetFlags BY <1>6, SetFlagsKeeps
<1>7. CASE SetSecret BY <1>7, SetSecretKeeps
<1>8. CASE Complete BY <1>8, CompleteKeeps
<1>9. CASE Sign BY <1>9, SignKeeps
<1>10. CASE UNCHANGED vars BY <1>1, <1>10 DEF vars
<1>. QED BY <1>2, <1>3, <1>4, <1>5, <1>6, <1>7, <1>8, <1>9, <1>10 DEF Next, Constructors

LEMMA ComposerImplies == ComposerInv => SignedAsAsked
<1> SUFFICES ASSUME ComposerInv, Has("TxnSignature"),
                    SigningHash(tx_json) = previousSigningHash
             PROVE  /\ ~rekeyed => tx_json.TxnSignature
                                     = tx_json.SigningPubKey \o previousSigningHash
                    /\ ~twice => tx_json.Flags < 2^16 /\ Bits(tx_json.Flags) = asked
  BY DEF SignedAsAsked
<1>. QED BY DEF ComposerInv, LastSigned, Flagged

\* Whatever an application sets, assigns, completes, signs and changes again,
\* and whatever the manager renumbers and re-prices in between: a signature
\* signs what it accompanies by the secret of its key, and the flags are those
\* that were asked for (sign, complete, secret, setFlags).
THEOREM SignaturesHold == Spec => []SignedAsAsked
<1>. QED BY ComposerInit, ComposerNext, ComposerImplies, PTL DEF Spec

-----------------------------------------------------------------------------
(* The amounts.                                                             *)

\* What an application computes from a sound amount is sound.
LEMMA ComputeSound ==
  ASSUME Sound(amount), Compute
  PROVE  Sound(amount')
<1>1. PICK b \in Operands : \E r \in Results2(amount, b) : Kept(r) /\ amount' = r BY DEF Compute
<1>2. PICK r \in Results2(amount, b) : Kept(r) /\ amount' = r BY <1>1
<1>3. Canonical(b) /\ Valid(r) BY <1>2, AmountsCanonical DEF Kept
<1>4. \/ r = Add(amount, b) \/ r = Subtract(amount, b)
      \/ r = Multiply(amount, b) \/ r = ProductHuman(amount, b)
      \/ ~IsZero(b) /\ (r = Divide(amount, b) \/ r = RatioHuman(amount, b))
      \/ ~IsZero(amount) /\ r = Invert(amount)
  BY <1>2, Zenon DEF Results2
<1>5. ASSUME r = Add(amount, b) PROVE Sound(r) BY <1>3, <1>5, SoundSum
<1>6. ASSUME r = Subtract(amount, b) PROVE Sound(r) BY <1>3, <1>6, SoundDifference
<1>7. ASSUME r = Multiply(amount, b) PROVE Sound(r) BY <1>3, <1>7, SoundProduct
<1>8. ASSUME r = ProductHuman(amount, b) PROVE Sound(r) BY <1>3, <1>8, SoundCost
<1>9. ASSUME ~IsZero(b), r = Divide(amount, b) PROVE Sound(r) BY <1>3, <1>9, SoundQuotient
<1>10. ASSUME ~IsZero(b), r = RatioHuman(amount, b) PROVE Sound(r) BY <1>3, <1>10, SoundPrice
<1>11. ASSUME ~IsZero(amount), r = Invert(amount) PROVE Sound(r) BY <1>11, SoundInverse
<1>12. Sound(r) BY <1>4, <1>5, <1>6, <1>7, <1>8, <1>9, <1>10, <1>11
<1>. QED BY <1>2, <1>12

\* All other steps leave the amount alone.
LEMMA AmountStays == ASSUME Next PROVE Compute \/ UNCHANGED amount
<1>1. \A fields : Put(fields) => UNCHANGED amount BY DEF Put
<1>2. ASSUME Constructors PROVE UNCHANGED amount
  BY <1>1, <1>2 DEF Constructors, Construct, Payment, OfferCreate, TrustSet, AccountSet,
       AccountMerge, Inflation, OfferCancel, SetRegularKey, Claim
<1>3. ASSUME SetOption \/ PathAdd \/ Assign \/ Renumber \/ Refee PROVE UNCHANGED amount
  BY <1>1, <1>3 DEF Say, SetOption, PathAdd, Assign, Renumber, Refee
<1>4. ASSUME SetFlag \/ SetFlags \/ SetSecret \/ Complete \/ Sign PROVE UNCHANGED amount
  BY <1>4 DEF SetFlag, SetFlags, SetSecret, Complete, Sign, numbers
<1>. QED BY <1>2, <1>3, <1>4 DEF Next, Constructors

\* The laws need canonical amounts, and the inductive invariant is that all but
\* zeros are (Sound): the code leaves a zero with the offset of what it was cut
\* from, or with a sign.
AmountInv == Sound(amount)

LEMMA AmountInvariant == Spec => []AmountInv
<1>1. Init => AmountInv
  <2>. SUFFICES ASSUME Init PROVE Sound(amount) BY DEF AmountInv
  <2>1. Canonical(amount) BY AmountsCanonical DEF Init
  <2>. QED BY <2>1, Members2 DEF Sound
<1>2. AmountInv /\ [Next]_vars => AmountInv'
  <2>. SUFFICES ASSUME Sound(amount), [Next]_vars PROVE Sound(amount') BY DEF AmountInv
  <2>1. CASE Next BY <2>1, AmountStays, ComputeSound
  <2>2. CASE UNCHANGED vars BY <2>2 DEF vars, numbers
  <2>. QED BY <2>1, <2>2
<1>. QED BY <1>1, <1>2, PTL DEF Spec

\* Whatever the application computed, the amount it holds is canonical or zero,
\* and every sum, product, quotient and price of it with an operand is right but
\* for the digits that the laws allow, and comparison is right (add, multiply,
\* divide, ratio_human, product_human, compareTo, parse_quality).
THEOREM ArithmeticHolds == Spec => []Arithmetic
<1>1. AmountInv => Arithmetic
  <2>. SUFFICES ASSUME Sound(amount) PROVE Arithmetic BY DEF AmountInv
  <2>1. ~IsZero(amount) => Canonical(amount) BY DEF Sound
  <2>2. ASSUME Canonical(amount), NEW b \in Operands, b.native = amount.native
        PROVE  SumLaw(amount, b)
    <3>1. Canonical(b) BY AmountsCanonical
    <3>. QED BY <2>2, <3>1, SumsKeepTheLaw
  <2>3. ASSUME Canonical(amount), NEW b \in Operands, ~IsZero(amount), ~IsZero(b)
        PROVE  /\ ProductLaw(amount, b) /\ QuotientLaw(amount, b)
               /\ ~amount.native => PriceLaw(amount, b) /\ QualityLaw(amount, b.native)
    <3>1. Canonical(b) BY AmountsCanonical
    <3>2. ProductLaw(amount, b) /\ QuotientLaw(amount, b)
      BY <2>3, <3>1, ProductsKeepTheLaw, QuotientsKeepTheLaw
    <3>3. ASSUME ~amount.native PROVE PriceLaw(amount, b) /\ QualityLaw(amount, b.native)
      <4>1. b.native \in BOOLEAN BY <3>1, Members2, Members
      <4>. QED BY <2>3, <3>1, <3>3, <4>1, PricesKeepTheLaw, QualitiesKeepTheLaw
    <3>. QED BY <3>2, <3>3
  <2>. QED BY <2>1, <2>2, <2>3, Zenon DEF Arithmetic
<1>. QED BY <1>1, AmountInvariant, PTL

\* Whatever the application computed, a reader of its JSON gets the amount, a
\* person who types what was printed gets it unless zeros before the point were
\* left out, formatting cuts what its options say, and currencies that JSON can
\* tell apart stay apart (to_text, parse_json, to_human, parse_human, Currency).
THEOREM TextHolds == Spec => []TextLaws
<1>1. TextLaws
  <2>1. ASSUME Canonical(amount) PROVE WireLaw(amount)
    BY <2>1, WireKeepsAmounts
  <2>2. ASSUME Canonical(amount), amount.offset <= 0
        PROVE  HumanLaw(amount) /\ \A f \in Formats : FormatLaw(amount, f)
    <3>1. HumanLaw(amount) BY <2>2, PeopleKeepAmounts
    <3>2. ASSUME NEW f \in Formats PROVE FormatLaw(amount, f)
      <4>1. f \in FormatOptions BY TextAssumption
      <4>. QED BY <2>2, <4>1, FormatsKeepTheLaw
    <3>. QED BY <3>1, <3>2
  <2>3. ASSUME NEW c \in Currencies PROVE CurrencyLaw(c)
    <3>1. c \in Nat \X Nat \X Nat \X Nat BY TextAssumption
    <3>. QED BY <3>1, CurrenciesKept
  <2>. QED BY <2>1, <2>2, <2>3 DEF TextLaws
<1>. QED BY <1>1, PTL

-----------------------------------------------------------------------------
(* Lengths and headers.                                                     *)

\* The bytes are those of b from p on.
Standing(bytes, b, p) ==
  /\ p + Len(bytes) - 1 <= Len(b)
  /\ \A i \in 1..Len(bytes) : b[p + i - 1] = bytes[i]

\* A length up to the largest that can be written, at any place of any buffer and
\* whatever follows it, is read as it was written, and the reader stands right
\* behind it (serialize_varint, parse_varint).
THEOREM LengthsReadBack ==
  ASSUME NEW b \in Seq(Int), NEW p \in Nat \ {0}, NEW n \in Nat, n <= 918744,
         Standing(Varint(n), b, p)
  PROVE  ReadVarint(b, p) = Got(p + Len(Varint(n)), n)
<1> DEFINE v == Varint(n)
<1>1. CASE n <= 192
  <2>1. v = <<n>> /\ Len(v) = 1 /\ v[1] = n
    BY <1>1, SMT DEF Varint
  <2>2. p <= Len(b) /\ b[p] = n
    BY <2>1, SMT DEF Standing
  <2>3. ReadVarint(b, p) = Got(p + 1, n)
    BY <1>1, <2>2, SMT DEF ReadVarint, Taken
  <2>. QED BY <2>1, <2>3
<1>2. CASE 192 < n /\ n <= 12480
  <2> DEFINE high == 193 + ((n - 193) \div 256)
             low == (n - 193) % 256
  <2>1. v = <<high, low>> /\ Len(v) = 2 /\ v[1] = high /\ v[2] = low
    BY <1>2, SMT DEF Varint
  <2>2. high \in 193..240 /\ low \in 0..255 /\ 193 + (high - 193) * 256 + low = n
    BY <1>2, SMTT(30)
  <2> HIDE DEF high, low
  <2>3. p + 1 <= Len(b) /\ b[p] = high /\ b[p + 1] = low
    BY <2>1, SMT DEF Standing
  <2>4. SubSeq(b, p + 1, p + 1 + 1 - 1)[1] = low
    BY <2>3, SMT
  <2>5. /\ ~(p > Len(b)) /\ p + 1 # 0 /\ ~(p + 1 + 1 - 1 > Len(b))
        /\ ~(b[p] <= 192) /\ b[p] <= 240
    BY <2>2, <2>3, SMT
  <2>6. ReadVarint(b, p) = Got(p + 1 + 1, 193 + (high - 193) * 256 + low)
    BY <2>3, <2>4, <2>5, SMTT(30) DEF ReadVarint, Taken
  <2>7. p + 1 + 1 = p + Len(v) BY <2>1, SMT
  <2>. QED BY <2>2, <2>6, <2>7, SMT
<1>3. CASE 12480 < n
  <2> DEFINE high == 241 + ((n - 12481) \div 65536)
             mid == ((n - 12481) \div 256) % 256
             low == (n - 12481) % 256
  <2>1. v = <<high, mid, low>> /\ Len(v) = 3 /\ v[1] = high /\ v[2] = mid /\ v[3] = low
    BY <1>3, SMT DEF Varint
  <2>2. /\ high \in Nat /\ 241 <= high /\ high <= 254 /\ mid \in Nat /\ low \in Nat
        /\ 12481 + (high - 241) * 65536 + mid * 256 + low = n
    <3> DEFINE m == n - 12481
               q == m \div 256
    <3>1. m \in Nat /\ m <= 906263 BY <1>3, SMT
    <3> HIDE DEF m
    <3>2. q \in Nat /\ m = 256 * q + (m % 256) /\ m % 256 \in Nat /\ m % 256 <= 255
      BY <3>1, LastByte, SMT
    <3>3. m \div 65536 = q \div 256
      BY <3>1, SMT
    <3> HIDE DEF q
    <3>4. /\ q \div 256 \in Nat /\ q = 256 * (q \div 256) + (q % 256)
          /\ q % 256 \in Nat /\ q % 256 <= 255
      BY <3>2, LastByte, SMT
    <3>5. PICK k \in Nat : k = q \div 256
      BY <3>4
    <3>6. high = 241 + k /\ mid = q % 256 /\ low = m % 256 /\ n = 12481 + m
      BY <3>3, <3>5, SMT DEF m, q
    <3>7. k <= 13
      BY <3>1, <3>2, <3>4, <3>5, SMT
    <3> HIDE DEF high, mid, low
    <3>8. q = 256 * k + mid /\ m = 256 * q + low /\ mid \in Nat /\ low \in Nat
      BY <3>2, <3>4, <3>5, <3>6
    <3>. QED BY <3>1, <3>2, <3>6, <3>7, <3>8, SMTT(30)
  <2> HIDE DEF high, mid, low
  <2>3. p + 2 <= Len(b) /\ b[p] = high /\ b[p + 1] = mid /\ b[p + 2] = low
    BY <2>1, SMTT(30) DEF Standing
  <2>4. /\ SubSeq(b, p + 1, p + 1 + 2 - 1)[1] = mid
        /\ SubSeq(b, p + 1, p + 1 + 2 - 1)[2] = low
    BY <2>3, SMT
  <2>5. /\ ~(p > Len(b)) /\ p + 1 # 0 /\ ~(p + 1 + 2 - 1 > Len(b))
        /\ ~(b[p] <= 192) /\ ~(b[p] <= 240) /\ b[p] <= 254
    BY <2>2, <2>3, SMT
  <2>6. ReadVarint(b, p) = Got(p + 1 + 2, 12481 + (high - 241) * 65536 + mid * 256 + low)
    BY <2>3, <2>4, <2>5, SMTT(30) DEF ReadVarint, Taken
  <2>7. p + 1 + 2 = p + Len(v) BY <2>1, SMT
  <2>. QED BY <2>2, <2>6, <2>7, SMT
<1>. QED BY <1>1, <1>2, <1>3, SMT

\* So is the header of a field, whatever its type and number (serialize, parse).
THEOREM HeadersReadBack ==
  ASSUME NEW b \in Seq(Int), NEW p \in Nat \ {0}, NEW type \in Nat, NEW number \in Nat,
         0 < type, type < 256, 0 < number, number < 256,
         Standing(Mark(type, number), b, p)
  PROVE  ReadMark(b, p) = Got(p + Len(Mark(type, number)), <<type, number>>)
<1> DEFINE m == Mark(type, number)
<1>1. CASE type < 16 /\ number < 16
  <2>1. Len(m) = 1 /\ m[1] = type * 16 + number
    BY <1>1 DEF Mark
  <2>2. p <= Len(b) /\ b[p] = type * 16 + number
    BY <2>1 DEF Standing
  <2>3. b[p] \div 16 = type /\ b[p] % 16 = number
    BY <1>1, <2>2
  <2>4. ReadMark(b, p) = Got(p + 1, <<type, number>>)
    BY <2>2, <2>3, SMTT(30) DEF ReadMark, Got
  <2>. QED BY <2>1, <2>4
<1>2. CASE type < 16 /\ number >= 16
  <2>1. Len(m) = 2 /\ m[1] = type * 16 /\ m[2] = number
    BY <1>2 DEF Mark
  <2>2. p + 1 <= Len(b) /\ b[p] = type * 16 /\ b[p + 1] = number
    BY <2>1 DEF Standing
  <2>3. b[p] \div 16 = type /\ b[p] % 16 = 0
    BY <1>2, <2>2
  <2>4. b[p] \div 16 > 0 /\ ~(b[p] % 16 > 0) /\ p + 1 <= Len(b) /\ p + 1 + 1 = p + 2
    BY <2>2, <2>3
  <2>5. ReadMark(b, p) = Got(p + 2, <<type, number>>)
    BY <2>2, <2>3, <2>4, SMTT(30) DEF ReadMark, Got
  <2>. QED BY <2>1, <2>5
<1>3. CASE type >= 16 /\ number < 16
  <2>1. Len(m) = 2 /\ m[1] = number /\ m[2] = type
    BY <1>3 DEF Mark
  <2>2. p + 1 <= Len(b) /\ b[p] = number /\ b[p + 1] = type
    BY <2>1 DEF Standing
  <2>3. b[p] \div 16 = 0 /\ b[p] % 16 = number
    BY <1>3, <2>2
  <2>4. ReadMark(b, p) = Got(p + 2, <<type, number>>)
    BY <2>2, <2>3, SMTT(30) DEF ReadMark, Got
  <2>. QED BY <2>1, <2>4
<1>4. CASE type >= 16 /\ number >= 16
  <2>1. Len(m) = 3 /\ m[1] = 0 /\ m[2] = type /\ m[3] = number
    BY <1>4 DEF Mark
  <2>2. p + 2 <= Len(b) /\ b[p] = 0 /\ b[p + 1] = type /\ b[p + 2] = number
    BY <2>1 DEF Standing
  <2>3. b[p] \div 16 = 0 /\ b[p] % 16 = 0
    BY <2>2
  <2>4. ReadMark(b, p) = Got(p + 3, <<type, number>>)
    BY <2>2, <2>3, SMTT(30) DEF ReadMark, Got
  <2>. QED BY <2>1, <2>4
<1>. QED BY <1>1, <1>2, <1>3, <1>4
=============================================================================
