---------------------------- MODULE TxComposerMC ----------------------------
(***************************************************************************)
(* A small world for TxComposer: mantissas of three digits, ten drops to   *)
(* the unit.                                                               *)
(***************************************************************************)
EXTENDS TxBytes

Drops(n, neg) == Amt(TRUE, n, 0, neg)
Tokens(value, offset, neg) == Amt(FALSE, value, offset, neg)

MCStarting == {Drops(1, FALSE), Drops(2500, FALSE), Tokens(100, -2, FALSE)}
MCOperands ==
  {Drops(0, FALSE), Drops(1, FALSE), Drops(7, TRUE), Drops(2500, FALSE), Drops(9000, FALSE), Drops(60000, FALSE),
   Tokens(0, -100, FALSE), Tokens(100, -2, FALSE), Tokens(500, -3, FALSE),
   Tokens(999, 0, FALSE), Tokens(333, -3, TRUE), Tokens(100, 1, FALSE),
   Tokens(101, -5, FALSE), Tokens(999, -4, TRUE)}
MCPrices == {Drops(2500, FALSE), Tokens(333, -3, TRUE)}
MCFormats ==
  {[precision |-> p, min |-> m, digits |-> d, skip |-> s, sep |-> s, width |-> 0] :
     p \in {None, 0, 1}, m \in {0, 2}, d \in {None, 1, 2}, s \in BOOLEAN}
  \cup {[precision |-> None, min |-> 0, digits |-> None, skip |-> FALSE,
         sep |-> TRUE, width |-> w] : w \in {1, 3}}

Usd == Iou(3)
Gold == <<1, 4, 1500, 0>>   \* at 1.5% a year
Odd == <<0, 20, 0, 0>>
MCCurrencies == {Native, CurrencyOne, Usd, Gold, Odd, Iou(XRP), <<1, 4, 1000, 0>>,
                 Iou(XPS), Iou(10), <<7, 7, 7, 7>>,
                 <<1, 4, 0, 0>>, <<1, 4, 1500, 2>>}
MCTraded == {Gold}

Id(n) == <<n, n, n, n>>
Alice == AccountJson(Id(1), "base58")
Bob == AccountJson(Id(2), "hex")
MCAccounts == {Alice, Bob}
MCIssuer == Id(3)
MCSecrets == {8}
MCKnownSecrets == [a \in MCAccounts |-> IF a = Alice THEN 7 ELSE NoSecret]
MCMaxFields ==
  [none |-> 3, Payment |-> 3, OfferCreate |-> 3, TrustSet |-> 2, AccountSet |-> 1,
   Claim |-> 3, AccountMerge |-> 1, Inflation |-> 1, OfferCancel |-> 1, SetRegularKey |-> 1]
MCRemotes ==
  {[trusted |-> FALSE, local_signing |-> TRUE, local_fee |-> TRUE],
   [trusted |-> TRUE, local_signing |-> FALSE, local_fee |-> FALSE],
   [trusted |-> FALSE, local_signing |-> FALSE, local_fee |-> TRUE]}
MCFeeLists == {<<>>, <<15, 10>>, <<20>>, <<30, 12, 40>>}

Price == MoneyJson(Money(Tokens(250, -2, FALSE), Odd, MCIssuer))
Hash1(n) == [i \in 1..W256 |-> n]
MCOptions ==
  [DestinationTag |-> {0}, SourceTag |-> {0, 7}, LastLedgerSequence |-> {65536},
   SendMax |-> {Price},
   TransferRate |-> {999}, InflationDest |-> {Bob}, SetAuthKey |-> {Alice},
   InvoiceID |-> {<<4>>, Hash1(5) \o <<6>>}]

Entry == [account |-> Bob, currency |-> CurrencyJson(Usd), issuer |-> Alice]
MCAssignments ==
  [Paths |-> {<<>>, <<Entry, [currency |-> CurrencyJson(Native)]>>,
              <<[currency |-> CurrencyJson(Iou(XRP)), non_native |-> TRUE]>>},
   Memos |-> {<<[Memo |-> [MemoData |-> [i \in 1..193 |-> 1]]]>>},
   EmailHash |-> {<<1, 2, 3>>}, BaseFee |-> {70000},
   TakerPaysCurrency |-> {Usd}, Hashes |-> {<<>>, <<Hash1(1), Hash1(2)>>},
   hash |-> {Hash1(9)}, Unknown |-> {0}, TransactionIndex |-> {16},
   TransactionResult |-> {"tecCLAIM"},
   AffectedNodes |-> {<<>>, <<[ModifiedNode |-> [LedgerEntryType |-> 97,
                                Memo |-> [MemoData |-> <<>>]]]>>}]
=============================================================================
