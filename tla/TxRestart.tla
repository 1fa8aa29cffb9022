----------------------------- MODULE TxRestart -----------------------------
(* TransactionManager with a storage: the process restarts and             *)
(* Remote.getPendingTransactions submits the saved transactions again.     *)
EXTENDS TxManager, SequencesExt

CONSTANT MaxRestarts   \* bound
ASSUME RestartAssumption == MaxRestarts \in Nat

VARIABLES
  restarts,
  savedFee   \* tx_json.Fee of what the storage holds of a transaction

restartVars == <<vars, restarts, savedFee>>

\* Every transaction in the queue has been saved: with its tx_json - sequence
\* and fee - and its submittedIDs.
Saved == pending

\* 'save' follows a new ID and a new state.  A sequence changes with the ID,
\* but a fee adjusted since then is not in the storage.
Save ==
  savedFee' = [t \in Txs |->
    IF ids'[t] # ids[t] \/ state'[t] # state[t] THEN fee'[t] ELSE savedFee[t]]

\* The process dies - it may, between any two events, or from an exception -
\* and comes back connected; what it has not saved is gone, the ledger and the
\* blobs on the network stay.  The saved transactions are submitted to a new
\* manager, which has to load the sequence first.
Restart(order) ==
  /\ restarts < MaxRestarts /\ restarts' = restarts + 1
  /\ Quiet \/ \E w \in due : Throws(w)
  /\ online' = TRUE /\ rejoin' = FALSE /\ history' = FALSE /\ drops' = drops
  /\ seqKnown' = FALSE /\ nextSeq' = 0 /\ loads' = 1
  /\ ready' = order /\ deferred' = <<>>
  /\ called' = called /\ registered' = registered \ Saved
  /\ state' = [t \in Txs |-> IF t \in Saved THEN "unsubmitted" ELSE state[t]]
  /\ pending' = {}
  /\ fee' = [t \in Txs |-> IF t \in Saved THEN savedFee[t] ELSE fee[t]]
  /\ attempts' = [t \in Txs |-> 0]
  /\ trap' = [t \in Txs |-> FALSE]
  /\ resub' = [t \in Txs |-> 0]
  /\ reqs' = {} /\ waits' = {} /\ due' = {} /\ fills' = {}
  /\ seqCache' = {} /\ idCache' = {}
  /\ outbox' = {} /\ notices' = {}
  /\ UNCHANGED <<callbacks, seq, ids, serverFee, seen, ledger, savedFee>>

RestartInit == Init /\ restarts = 0 /\ savedFee = [t \in Txs |-> NoTx]
RestartNext ==
  \/ Next /\ Save /\ UNCHANGED restarts
  \/ \E order \in SetToSeqs(Saved) : Restart(order)
RestartSpec == RestartInit /\ [][RestartNext]_restartVars
=============================================================================
