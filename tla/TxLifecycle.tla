---------------------------- MODULE TxLifecycle ----------------------------
(* What an application is promised of the transactions it submits for one    *)
(* account, whatever the servers answer and whenever the link drops: each is *)
(* open until it has an outcome, which is final and reported once; only what *)
(* was sent is applied, and the account pays for it at most once.            *)
(*                                                                           *)
(* A transaction reported as failed may be applied later: no failure the     *)
(* library reports rules that out, because an earlier submission may still   *)
(* be on the network.                                                        *)
EXTENDS Naturals, Sequences

CONSTANTS Txs, NoTx

VARIABLES
  outcome,  \* of each transaction
  sent,     \* transactions a server may have got
  reports,  \* how often an outcome was reported
  chain     \* the transaction at each consumed sequence, or NoTx

vars == <<outcome, sent, reports, chain>>

Applied(t) == \E i \in 1..Len(chain) : chain[i] = t

Init ==
  /\ outcome = [t \in Txs |-> "open"] /\ sent = {}
  /\ reports = [t \in Txs |-> 0]
  /\ chain = <<>>

\* The first submission.
Send(t) ==
  /\ outcome[t] = "open" /\ t \notin sent
  /\ sent' = sent \cup {t}
  /\ UNCHANGED <<outcome, reports, chain>>

\* It could not even be taken: nobody hears of it.
Refuse(t) ==
  /\ outcome[t] = "open" /\ t \notin sent
  /\ outcome' = [outcome EXCEPT ![t] = "failed"]
  /\ UNCHANGED <<sent, reports, chain>>

Fail(t) ==
  /\ outcome[t] = "open"
  /\ outcome' = [outcome EXCEPT ![t] = "failed"]
  /\ reports' = [reports EXCEPT ![t] = @ + 1]
  /\ UNCHANGED <<sent, chain>>

\* The transactions T are found in the ledger.
Validate(T) ==
  /\ \A t \in T : outcome[t] = "open" /\ Applied(t)
  /\ outcome' = [t \in Txs |-> IF t \in T THEN "validated" ELSE outcome[t]]
  /\ reports' = [t \in Txs |-> IF t \in T THEN reports[t] + 1 ELSE reports[t]]
  /\ UNCHANGED <<sent, chain>>

\* The account's next sequence is consumed: by one of the transactions sent
\* and not yet applied, or by a transaction of somebody else.
Consume(e) ==
  /\ e = NoTx \/ (e \in sent /\ ~Applied(e))
  /\ chain' = Append(chain, e)
  /\ UNCHANGED <<outcome, sent, reports>>

Next ==
  \/ \E t \in Txs : Send(t) \/ Refuse(t) \/ Fail(t)
  \/ \E T \in SUBSET Txs : Validate(T)
  \/ \E e \in Txs \cup {NoTx} : Consume(e)

Spec == Init /\ [][Next]_vars
=============================================================================
