---------------------------- MODULE TxRefinement ----------------------------
(* TxManager implements TxLifecycle.  A transaction was sent if it has an ID; *)
(* the chain is the ledger without what the IDs also cover, the sequence and  *)
(* the fee a transaction was signed for.                                      *)
EXTENDS TxManager

OutcomeOf(t) == IF Final(t) THEN state[t] ELSE "open"
SentTxs      == {t \in Txs : ids[t] # {}}
Chain        == [i \in 1..Len(ledger) |-> ledger[i].tx]

Lifecycle == INSTANCE TxLifecycle WITH
  outcome <- [t \in Txs |-> OutcomeOf(t)],
  sent    <- SentTxs,
  reports <- callbacks,
  chain   <- Chain

\* Every behaviour of the manager, the network and the ledger is one that the
\* application was promised.
ImplementsLifecycle == Lifecycle!Spec
=============================================================================
