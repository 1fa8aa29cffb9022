----------------------------- MODULE TxManager -----------------------------
(***************************************************************************)
(* Transaction submission for one account: TransactionManager, its         *)
(* TransactionQueue and the part of Transaction that they drive.           *)
(*                                                                         *)
(* The library is single threaded: one external event (a response, a       *)
(* notice, a ledger close, a timer, a user call) runs to completion before *)
(* the next.  An event is one action here; where the event makes the       *)
(* library run several listeners, one after the other, the listeners still *)
(* to run are in `ready' (submit calls) and `due' (resubmissions), and no  *)
(* other event happens until both are empty (Quiet).                       *)
(*                                                                         *)
(* The environment - the servers, the network and the ledger - is external *)
(* to the library: it may answer anything, apply any transaction blob it   *)
(* has seen, and lose what is in flight when the link drops.               *)
(***************************************************************************)
EXTENDS Integers, Sequences, FiniteSets

CONSTANTS
  Txs,          \* every Transaction object of the account
  FillTxs,      \* those made by _fillSequence (the rest are the user's)
  NoTx,         \* no transaction of ours
  Fees,         \* acceptable values of Transaction._computeFee
  TooHigh,      \* a fee above remote.max_fee
  ExplicitSeqs, \* sequences a user sets by hand (tx_json.Sequence)
  Codes,        \* the kinds of answer the servers give to submit
  NumServers,   \* servers a submit request is broadcast to
  MaxAttempts,  \* 10 in the code
  HistoryLimit, \* 100 in the code: entries of account_tx asked for
  MaxLedger,    \* bound: sequences the account consumes
  MaxLoads,     \* bound: account_info requests outstanding at once
  MaxDrops      \* bound: how often the link drops

\* engine_result classes, and the error responses `tooBusy' and any other.
AllCodes == {"tes", "failed", "tefPAST_SEQ", "telINSUF_FEE_P", "terRETRY",
             "rejected", "tooBusy", "error"}

ASSUME TxAssumption ==
  /\ FillTxs \subseteq Txs
  /\ NoTx \notin Txs
  /\ NoTx \notin Fees /\ TooHigh \notin Fees
  /\ ExplicitSeqs \subseteq Nat \ {0}
  /\ Codes \subseteq AllCodes
  /\ NumServers \in Nat \ {0}
  /\ MaxAttempts \in Nat /\ HistoryLimit \in Nat
  /\ MaxLedger \in Nat /\ MaxLoads \in Nat /\ MaxDrops \in Nat

VARIABLES
  \* the link to the servers, as the remote's events tell the manager
  online,     \* remote._connected
  rejoin,     \* once('connect', remoteReconnected) is registered
  history,    \* an account_tx request is outstanding
  drops,      \* bound counter
  \* sequence numbers
  seqKnown,   \* typeof _nextSequence === 'number'
  nextSeq,    \* _nextSequence
  loads,      \* outstanding plain _loadSequence calls
  \* submit calls
  called,     \* transactions whose submit() was called
  deferred,   \* once('sequence_loaded', submit) listeners, in order
  ready,      \* submit calls of the running event, in order
  registered, \* transactions whose manager listeners are attached
  \* transactions
  state,      \* Transaction.state
  pending,    \* TransactionQueue._queue
  seq,        \* tx_json.Sequence (0: undefined)
  fee,        \* tx_json.Fee
  ids,        \* submittedIDs
  attempts,   \* tx.attempts
  trap,       \* once('presubmit', error tejMaxFeeExceeded) is registered
  resub,      \* once('submitted') listeners left by resubmitTransactions
  callbacks,  \* how often the user's callback ran
  \* activities
  reqs,       \* submit requests whose handlers or timer are live
  waits,      \* _waitLedgers listeners
  due,        \* those of the running 'ledger_closed' event still to run
  fills,      \* _fillSequence calls
  \* received (validated) sequences and IDs
  seqCache, idCache,
  \* the environment
  serverFee,  \* what _computeFee returns now
  outbox,     \* blobs of deferred requests, sent on 'connect'
  seen,       \* blobs that reached the network
  ledger,     \* what consumed sequence 1, 2, ...
  notices     \* sequences whose validated-transaction notice is in flight

linkVars   == <<online, rejoin, history, drops>>
seqVars    == <<seqKnown, nextSeq, loads>>
callVars   == <<called, deferred, ready, registered>>
lifeVars   == <<state, pending, callbacks>>
txVars     == <<seq, fee, ids, attempts, trap>>
streamVars == <<reqs, waits, due, fills, resub>>
cacheVars  == <<seqCache, idCache>>
netVars    == <<serverFee, outbox, seen, ledger, notices>>
vars == <<linkVars, seqVars, callVars, lifeVars, txVars, streamVars,
          cacheVars, netVars>>

UserTxs  == Txs \ FillTxs
States   == {"unsubmitted", "submitted", "pending", "validated", "failed"}

\* A transaction ID: the hash covers the sequence and the fee.
Ids      == [tx : Txs, seq : Int, fee : Fees]
Foreign(n) == [tx |-> NoTx, seq |-> n, fee |-> NoTx]
Entries  == Ids \cup [tx : {NoTx}, seq : Nat, fee : {NoTx}]

Requests == [tx : Txs, n : Nat, id : Ids, left : Nat,
             timer : BOOLEAN, ok : BOOLEAN, err : BOOLEAN]
Waits    == [tx : Txs, n : Nat, src : {"ok", "err", "timeout", "fill"},
             left : 1..3]
Fills    == [tx : Txs, n : Nat, by : Txs \cup {NoTx}, seq : Int, left : Int]

Final(t) == state[t] \in {"validated", "failed"}
Quiet    == ready = <<>> /\ due = {}

FlagsOK ==
  /\ online \in BOOLEAN /\ rejoin \in BOOLEAN /\ history \in BOOLEAN
  /\ seqKnown \in BOOLEAN
CountersOK == drops \in Nat /\ nextSeq \in Int /\ loads \in Nat
CallsOK ==
  /\ called \subseteq Txs /\ registered \subseteq Txs
  /\ deferred \in Seq(Txs) /\ ready \in Seq(Txs)
LivesOK ==
  /\ state \in [Txs -> States] /\ pending \subseteq Txs
  /\ callbacks \in [Txs -> Nat]
TransactionsOK ==
  /\ seq \in [Txs -> Int] /\ fee \in [Txs -> Fees \cup {NoTx}]
  /\ ids \in [Txs -> SUBSET Ids] /\ attempts \in [Txs -> Nat]
  /\ trap \in [Txs -> BOOLEAN] /\ resub \in [Txs -> Nat]
StreamsOK ==
  /\ reqs \subseteq Requests /\ waits \subseteq Waits /\ due \subseteq Waits
  /\ fills \subseteq Fills
NetworkOK ==
  /\ serverFee \in Fees \cup {TooHigh}
  /\ outbox \subseteq Ids /\ seen \subseteq Ids
  /\ ledger \in Seq(Entries) /\ notices \subseteq 1..Len(ledger)
  /\ seqCache \subseteq 1..Len(ledger) /\ idCache \subseteq Entries

\* The values of the variables; what is known to be in the ledger, is.
TypeOK ==
  /\ FlagsOK /\ CountersOK /\ CallsOK /\ LivesOK /\ TransactionsOK
  /\ StreamsOK /\ NetworkOK

Init ==
  /\ online \in BOOLEAN /\ rejoin = FALSE
  /\ history = FALSE /\ drops = 0
  /\ seqKnown = FALSE /\ nextSeq = 0 /\ loads = 1
  /\ called = {} /\ registered = {} /\ deferred = <<>> /\ ready = <<>>
  /\ state = [t \in Txs |-> "unsubmitted"] /\ pending = {}
  /\ callbacks = [t \in Txs |-> 0]
  /\ seq = [t \in Txs |-> 0] /\ fee = [t \in Txs |-> NoTx]
  /\ ids = [t \in Txs |-> {}] /\ attempts = [t \in Txs |-> 0]
  /\ trap = [t \in Txs |-> FALSE] /\ resub = [t \in Txs |-> 0]
  /\ reqs = {} /\ waits = {} /\ due = {} /\ fills = {}
  /\ seqCache = {} /\ idCache = {}
  /\ serverFee \in Fees
  /\ outbox = {} /\ seen = {} /\ ledger = <<>> /\ notices = {}

-----------------------------------------------------------------------------
(* What the handlers share.                                                *)

\* (Definitions marked "slip" are plausible mistakes in the definition below
\* them; no specification uses them.  They show that a property can fail.)

\* Slip: the failed transaction stays in the queue.
FailKeepQueued(t) ==
  /\ state' = [state EXCEPT ![t] = "failed"]
  /\ pending' = pending
  /\ callbacks' = [callbacks EXCEPT ![t] = @ + 1]

\* emit('error'): finalize, leave the queue, run the user's callback.
Fail(t) ==
  /\ state' = [state EXCEPT ![t] = "failed"]
  /\ pending' = pending \ {t}
  /\ callbacks' = [callbacks EXCEPT ![t] = @ + 1]

\* Slip: only the first ID is kept.
TrackFirstId(t, id) ==
  ids' = IF ids[t] = {} THEN [ids EXCEPT ![t] = {id}] ELSE ids

\* addId.
TrackId(t, id) == ids' = [ids EXCEPT ![t] = @ \cup {id}]

\* _request, from submitIndex on: sign, track the ID, send (or defer until
\* 'connect') and start the timer.
Transmit(t, s, f, a) ==
  LET id == [tx |-> t, seq |-> s, fee |-> f] IN
  /\ seq' = [seq EXCEPT ![t] = s]
  /\ fee' = [fee EXCEPT ![t] = f]
  /\ TrackId(t, id)
  /\ attempts' = [attempts EXCEPT ![t] = a + 1]
  /\ reqs' = reqs \cup {[tx |-> t, n |-> a + 1, id |-> id,
                         left |-> NumServers, timer |-> TRUE,
                         ok |-> FALSE, err |-> FALSE]}
  /\ IF online THEN seen' = seen \cup {id} /\ UNCHANGED outbox
               ELSE outbox' = outbox \cup {id} /\ UNCHANGED seen

\* Slip: one ledger too few.
WaitingLess(r, source, k) ==
  [tx |-> r.tx, n |-> r.n, src |-> source, left |-> k - 1]

\* _resubmit(k, tx) with k > 0: wait for k ledgers to close.
Waiting(r, source, k) == [tx |-> r.tx, n |-> r.n, src |-> source, left |-> k]

\* A _fillSequence call of r, filling sequence s with g, k sequences to go.
Filling(r, g, s, k) == [tx |-> r.tx, n |-> r.n, by |-> g, seq |-> s, left |-> k]

\* emit('submitted'): the state, the listeners left by resubmitTransactions
\* (each reloads the sequence) and, for a fill, submitFill's callback: it
\* submits the next fill, or resubmits the filled transaction.
Submitted(r, newFills, newWaits) ==
  LET t     == r.tx
      mine  == {x \in fills : x.by = t}
      more  == {x \in mine : x.left > 1 /\ x.seq + 1 < seq[x.tx]}
      keep  == (fills \ mine) \cup newFills
  IN
  /\ loads + resub[t] <= MaxLoads
  /\ loads' = loads + resub[t]
  /\ resub' = [resub EXCEPT ![t] = 0]
  /\ waits' = waits \cup newWaits
                \cup {Waiting(x, "fill", 1) : x \in {y \in mine : y.left = 1}}
  /\ \/ more = {} /\ fills' = keep /\ UNCHANGED <<called, ready, seq>>
     \/ \E x \in more, g \in FillTxs \ called :
          /\ fills' = keep \cup {Filling(x, g, x.seq + 1, x.left - 1)}
          /\ called' = called \cup {g}
          /\ ready' = <<g>>
          /\ seq' = [seq EXCEPT ![g] = x.seq + 1]

\* The shared Request object has one 'success' and one 'error' listener, both
\* called once; any event on it clears the timer.
Answered(r, event) ==
  [tx |-> r.tx, n |-> r.n, id |-> r.id, left |-> r.left - 1, timer |-> FALSE,
   ok |-> r.ok \/ event = "success", err |-> r.err \/ event = "error"]

\* One of the servers answers r.
Answer(r, event) ==
  /\ Quiet /\ online
  /\ r.left > 0 /\ r.id \notin outbox
  /\ reqs' = (reqs \ {r})
               \cup (IF r.left = 1 THEN {} ELSE {Answered(r, event)})

Listening(r, event) == IF event = "success" THEN ~r.ok ELSE ~r.err

\* Slip: an answer is handled after the transaction is final.
HeardWhenFinal(r, event) ==
  /\ Answer(r, event)
  /\ Listening(r, event)

\* An answer that reaches `submitted' of a transaction still in progress.
Heard(r, event) ==
  /\ Answer(r, event)
  /\ Listening(r, event)
  /\ ~Final(r.tx)

\* Slip: recognise a validated transaction by its sequence.
IsSameSequence(t, id) == id.seq = seq[t]

\* getSubmission: any of the IDs the transaction was ever sent under.
IsSubmission(t, id) == id \in ids[t]

\* transactionReceived, for the sequences in S: note the sequence; a queued
\* transaction with that ID succeeds, an unknown ID is cached.
Received(S) ==
  LET mine == {t \in pending : \E i \in S : IsSubmission(t, ledger[i])} IN
  /\ state' = [t \in Txs |-> IF t \in mine THEN "validated" ELSE state[t]]
  /\ callbacks' = [t \in Txs |-> IF t \in mine THEN callbacks[t] + 1
                                               ELSE callbacks[t]]
  /\ pending' = pending \ mine
  /\ seqCache' = seqCache \cup S
  /\ idCache' = idCache \cup
       {ledger[i] : i \in {j \in S : \A t \in pending : ~IsSubmission(t, ledger[j])}}

\* Slip: take a new sequence on every resubmission.
NextAlways(s, n) == n = s + 1

\* resubmitTransaction: the first sequence from s on that no validated
\* transaction is known to have consumed.
NextFree(s, n) ==
  /\ n >= s /\ n \notin seqCache
  /\ \A k \in s..(n - 1) : k \in seqCache

-----------------------------------------------------------------------------
(* The user's calls.                                                       *)

\* Transaction.submit, with tx_json.Sequence unset (s = 0) or set by hand.
Submit(t, s) ==
  /\ Quiet
  /\ t \in UserTxs \ called
  /\ called' = called \cup {t}
  /\ seq' = [seq EXCEPT ![t] = s]
  /\ ready' = <<t>>
  /\ UNCHANGED <<linkVars, seqVars, deferred, registered, lifeVars, fee, ids,
                 attempts, trap, streamVars, cacheVars, netVars>>

\* Transaction.submit with a missing or invalid account: emit('error') before
\* the manager has attached the listeners that clean up and call back.
SubmitInvalid(t) ==
  /\ Quiet
  /\ t \in UserTxs \ called
  /\ called' = called \cup {t}
  /\ state' = [state EXCEPT ![t] = "failed"]
  /\ UNCHANGED <<linkVars, seqVars, deferred, ready, registered, pending,
                 callbacks, txVars, streamVars, cacheVars, netVars>>

\* Transaction.abort: the 'abort' listener is there once the manager has
\* taken the transaction.  Before that an abort changes nothing.
Abort(t) ==
  /\ Quiet
  /\ t \in UserTxs \cap registered
  /\ ~Final(t)
  /\ Fail(t)
  /\ UNCHANGED <<linkVars, seqVars, callVars, txVars, streamVars, cacheVars,
                 netVars>>

-----------------------------------------------------------------------------
(* TransactionManager.submit, for the first of the calls to run.           *)

\* The sequence is not known yet: defer.
SubmitDefer ==
  /\ ready # <<>> /\ ~seqKnown
  /\ deferred' = Append(deferred, Head(ready))
  /\ ready' = Tail(ready)
  /\ UNCHANGED <<linkVars, seqVars, called, registered, lifeVars, txVars,
                 streamVars, cacheVars, netVars>>

TakeSequence(t) == IF seq[t] = 0 THEN nextSeq ELSE seq[t]

\* _computeFee, f being the median of the connected servers: undefined
\* without any.
ComputedFee(f) == IF online THEN f ELSE NoTx

\* complete(): a Fee that is set (by a restored transaction) is kept.
TakeFee(t) == IF fee[t] = NoTx THEN ComputedFee(serverFee) ELSE fee[t]

\* complete() fails (no secret, no server, a fee over the maximum, ...): the
\* transaction never enters the queue.
SubmitIncomplete ==
  /\ ready # <<>> /\ seqKnown
  /\ LET t == Head(ready) IN
       /\ ~Final(t)
       /\ registered' = registered \cup {t}
       /\ seq' = [seq EXCEPT ![t] = TakeSequence(t)]
       /\ nextSeq' = (IF seq[t] = 0 THEN nextSeq + 1 ELSE nextSeq) - 1
       /\ Fail(t)
  /\ ready' = Tail(ready)
  /\ UNCHANGED <<linkVars, seqKnown, loads, called, deferred, fee, ids,
                 attempts, trap, streamVars, cacheVars, netVars>>

\* Enter the queue and send the first request.
SubmitSend ==
  /\ ready # <<>> /\ seqKnown
  /\ LET t == Head(ready) IN
       /\ ~Final(t) /\ TakeFee(t) \in Fees
       /\ registered' = registered \cup {t}
       /\ pending' = pending \cup {t}
       /\ nextSeq' = IF seq[t] = 0 THEN nextSeq + 1 ELSE nextSeq
       /\ Transmit(t, TakeSequence(t), TakeFee(t), 0)
  /\ ready' = Tail(ready)
  /\ UNCHANGED <<linkVars, seqKnown, loads, called, deferred, state, callbacks,
                 trap, waits, due, fills, resub, cacheVars, serverFee,
                 ledger, notices>>

-----------------------------------------------------------------------------
(* Answers to account_info.                                                *)

\* The sequences a server may answer: one the account has had, or one counting
\* the transactions it has applied to its open ledger.
AccountSeqs ==
  {v \in 1..(Len(ledger) + Cardinality(seen) + 1) :
     \A k \in (Len(ledger) + 1)..(v - 1) : \E id \in seen : id.seq = k}

\* A failed answer is asked again after three seconds: still outstanding.
SequenceLoaded(v) ==
  /\ Quiet /\ online /\ loads > 0
  /\ loads' = loads - 1
  /\ seqKnown' = TRUE /\ nextSeq' = v
  /\ ready' = deferred /\ deferred' = <<>>
  /\ UNCHANGED <<linkVars, called, registered, lifeVars, txVars, streamVars,
                 cacheVars, netVars>>

\* _fillSequence's own _loadSequence is answered: fill from v up to the
\* transaction's sequence, or nothing at all if v has reached it.
FillLoaded(x, v) ==
  /\ Quiet /\ online /\ x.by = NoTx
  /\ nextSeq' = v
  /\ \/ /\ v >= seq[x.tx]
        /\ fills' = fills \ {x}
        /\ UNCHANGED <<called, ready, seq>>
     \/ /\ v < seq[x.tx]
        /\ \E g \in FillTxs \ called :
             /\ fills' = (fills \ {x})
                           \cup {Filling(x, g, v, seq[x.tx] - v)}
             /\ called' = called \cup {g}
             /\ ready' = <<g>>
             /\ seq' = [seq EXCEPT ![g] = v]
  /\ UNCHANGED <<linkVars, seqKnown, loads, deferred, registered, lifeVars,
                 fee, ids, attempts, trap, reqs, waits, due, resub,
                 cacheVars, netVars>>

-----------------------------------------------------------------------------
(* Answers to submit requests: `submitted' and what it calls.              *)

\* Nobody listens any more, or the transaction is final.
AnswerIgnored(r, event) ==
  /\ Answer(r, event)
  /\ ~Listening(r, event) \/ Final(r.tx)
  /\ UNCHANGED <<linkVars, seqVars, callVars, lifeVars, txVars, waits, due,
                 fills, resub, cacheVars, netVars>>

respFrame == <<linkVars, seqKnown, deferred, registered, fee, ids, attempts,
               trap, due, cacheVars, netVars>>

\* setState('submitted'), once.
MarkSubmitted(t) ==
  state' = [state EXCEPT ![t] = IF @ = "unsubmitted" THEN "submitted" ELSE @]

\* tes: proposed; wait for the validated transaction.
AnswerProposed(r) ==
  /\ Heard(r, "success")
  /\ Submitted(r, {}, {})
  /\ state' = [state EXCEPT ![r.tx] = "pending"]
  /\ UNCHANGED <<respFrame, nextSeq, pending, callbacks>>

\* tec, ter and tef codes not treated below.
AnswerFailed(r) ==
  /\ Heard(r, "success")
  /\ Submitted(r, {}, {})
  /\ Fail(r.tx)
  /\ UNCHANGED <<respFrame, nextSeq>>

\* tefPAST_SEQ (k = 1) and telINSUF_FEE_P (k = 2): resubmit after k ledgers.
AnswerResubmit(r, k) ==
  /\ Heard(r, "success")
  /\ Submitted(r, {}, {Waiting(r, "ok", k)})
  /\ MarkSubmitted(r.tx)
  /\ UNCHANGED <<respFrame, nextSeq, pending, callbacks>>

\* An error response `tooBusy'.
AnswerTooBusy(r) ==
  /\ Heard(r, "error")
  /\ Submitted(r, {}, {Waiting(r, "err", 1)})
  /\ MarkSubmitted(r.tx)
  /\ UNCHANGED <<respFrame, nextSeq, pending, callbacks>>

\* terRETRY: fill the gap below the transaction's sequence first.
AnswerRetry(r) ==
  /\ Heard(r, "success")
  /\ Submitted(r, {Filling(r, NoTx, 0, 0)}, {})
  /\ MarkSubmitted(r.tx)
  /\ UNCHANGED <<respFrame, nextSeq, pending, callbacks>>

\* tem, other tel codes and other errors: the sequence was not consumed.
AnswerRejected(r, event) ==
  /\ Heard(r, event)
  /\ Submitted(r, {}, {})
  /\ nextSeq' = nextSeq - 1
  /\ Fail(r.tx)
  /\ UNCHANGED respFrame

\* Slip: the late answer is still listened to.
UnmutedRequest(r) ==
  reqs' = (reqs \ {r}) \cup
            {[tx |-> r.tx, n |-> r.n, id |-> r.id, left |-> r.left,
              timer |-> FALSE, ok |-> r.ok, err |-> r.err]}

\* The timer of r has expired: nothing it emits is heard any more.
MuteRequest(r) == reqs' = reqs \ {r}

\* Slip: a timeout is only reported.
NoTimeoutWaits(r) == {}

\* Resubmit three ledgers later, if connected.
TimeoutWaits(r) ==
  IF online /\ ~Final(r.tx) THEN {Waiting(r, "timeout", 3)} ELSE {}

\* The submission timer: later answers are muted; resubmit if connected.
Timeout(r) ==
  /\ Quiet /\ r.timer
  /\ MuteRequest(r)
  /\ waits' = waits \cup TimeoutWaits(r)
  /\ UNCHANGED <<linkVars, seqVars, callVars, lifeVars, txVars, due, fills,
                 resub, cacheVars, netVars>>

-----------------------------------------------------------------------------
(* Resubmission: a _waitLedgers listener whose last ledger has closed.     *)

\* Slip: resubmit whatever has become of the transaction.
NeverStopped(t) == FALSE

\* Nothing to do for a finalized transaction.
Stopped(t) == Final(t)

\* The resubmission is refused: too many attempts, or a fee over the maximum.
Refused(t) == attempts[t] > MaxAttempts \/ trap[t]

\* pending.findId(_idCache) looks the IDs up as properties of the LRU object
\* and so finds none; hence no branch on a cached ID.
Resubmit(w) ==
  /\ due' = due \ {w}
  /\ resub' = [resub EXCEPT ![w.tx] = @ + 1]
  /\ LET t == w.tx IN
       \/ /\ Stopped(t)
          /\ UNCHANGED <<lifeVars, txVars, reqs, outbox, seen>>
       \/ /\ ~Stopped(t)
          /\ \E s \in seq[t]..(seq[t] + MaxLedger) :
               /\ NextFree(seq[t], s)
               /\ IF Refused(t)
                  THEN /\ Fail(t)
                       /\ seq' = [seq EXCEPT ![t] = s]
                       /\ UNCHANGED <<fee, ids, attempts, trap,
                                      reqs, outbox, seen>>
                  ELSE /\ fee[t] # NoTx
                       /\ Transmit(t, s, fee[t], attempts[t])
                       /\ UNCHANGED <<lifeVars, trap>>
  /\ UNCHANGED <<linkVars, seqVars, callVars, waits, fills, cacheVars,
                 serverFee, ledger, notices>>

\* A resubmission of a transaction whose Fee is gone (LoadChanged): sign()
\* throws out of the 'ledger_closed' listener and nothing catches it.  The
\* process ends: w stays due, and no event follows.
Throws(w) == ~Stopped(w.tx) /\ ~Refused(w.tx) /\ fee[w.tx] = NoTx
Thrown == (\E w \in due : Throws(w)) /\ UNCHANGED vars

-----------------------------------------------------------------------------
(* The network.                                                            *)

\* A validated transaction arrives on the account's stream.
DeliverNotice(i) ==
  /\ Quiet /\ online
  /\ i \in notices
  /\ notices' = notices \ {i}
  /\ Received({i})
  /\ UNCHANGED <<linkVars, seqVars, callVars, txVars, streamVars,
                 serverFee, outbox, seen, ledger>>

\* What the next consumed sequence may hold.
Applicable == {id \in seen : id.seq = Len(ledger) + 1}
                \cup {Foreign(Len(ledger) + 1)}

\* 'ledger_closed' counts down the _waitLedgers listeners; the last count
\* resubmits.
Counted(w) == [tx |-> w.tx, n |-> w.n, src |-> w.src, left |-> w.left - 1]
CountDown ==
  /\ due' = {w \in waits : w.left = 1}
  /\ waits' = {Counted(w) : w \in {v \in waits : v.left > 1}}

\* A ledger closes, with at most one transaction of the account: the remote
\* emits 'ledger_closed' to the _waitLedgers listeners, if it is connected
\* (and to updatePendingStatus: module LedgerWatch).
LedgerClosed(new) ==
  /\ Quiet
  /\ ledger' = ledger \o new
  /\ notices' = IF online /\ new # <<>> THEN notices \cup {Len(ledger) + 1}
                                        ELSE notices
  /\ IF online THEN CountDown ELSE UNCHANGED <<due, waits>>
  /\ UNCHANGED <<linkVars, seqVars, callVars, lifeVars, seq, fee, ids,
                 attempts, trap, reqs, fills, resub, cacheVars, serverFee,
                 outbox, seen>>

\* _adjustFees on 'load_changed': a fee over the maximum leaves a trap.  The
\* status that changes the load may also put the last server offline, before
\* it is heard: the Fee of what is queued is then overwritten by undefined.
LoadChanged(f) ==
  /\ Quiet
  /\ f # serverFee
  /\ serverFee' = f
  /\ LET new == ComputedFee(f) IN
       /\ fee' = [t \in Txs |-> IF t \in pending /\ new # TooHigh THEN new
                                                               ELSE fee[t]]
       /\ trap' = [t \in Txs |-> trap[t] \/ (t \in pending /\ new = TooHigh)]
  /\ UNCHANGED <<linkVars, seqVars, callVars, lifeVars, seq, ids, attempts,
                 streamVars, cacheVars, outbox, seen, ledger, notices>>

\* What the timer can still do once no answer can come any more.
Orphaned(r) ==
  [tx |-> r.tx, n |-> r.n, id |-> r.id, left |-> 0, timer |-> TRUE,
   ok |-> r.ok, err |-> r.err]

\* The last server disconnects: what is in flight is lost, answers included;
\* timers run on, and so do the account_info calls between two tries.
Disconnect(kept, lostFills) ==
  /\ Quiet /\ online /\ drops < MaxDrops
  /\ drops' = drops + 1
  /\ online' = FALSE /\ rejoin' = TRUE
  /\ history' = FALSE
  /\ kept <= loads /\ loads' = kept
  /\ \A x \in lostFills : x.by = NoTx
  /\ fills' = fills \ lostFills
  /\ reqs' = {Orphaned(r) : r \in {q \in reqs : q.timer}}
  /\ notices' = {}
  /\ UNCHANGED <<seqKnown, nextSeq, callVars, lifeVars, txVars, waits, due,
                 resub, cacheVars, serverFee, outbox, seen, ledger>>

\* A server answers the subscribe request of a new connection: the remote
\* emits 'ledger_closed' although no ledger closed, and before 'connect'.
Subscribed ==
  /\ Quiet /\ ~online /\ waits # {}
  /\ CountDown
  /\ UNCHANGED <<linkVars, seqVars, callVars, lifeVars, txVars, reqs, fills,
                 resub, cacheVars, netVars>>

\* 'connect': deferred requests are sent and remoteReconnected asks for the
\* account's history.
Connect ==
  /\ Quiet /\ ~online
  /\ online' = TRUE /\ rejoin' = FALSE /\ history' = rejoin
  /\ seen' = seen \cup outbox /\ outbox' = {}
  /\ UNCHANGED <<drops, seqVars, callVars, lifeVars, txVars,
                 streamVars, cacheVars, serverFee, ledger, notices>>

\* What account_tx may return: nothing on an error, or the latest entries.
Histories == {{}, {i \in 1..Len(ledger) : i > Len(ledger) - HistoryLimit}}

\* account_tx is answered: process the history (none on error) and
\* reload the sequence.  _resubmit, called back with (null, sequence),
\* resubmits nothing: it looks for transactions in the array [sequence].
HistoryLoaded(S) ==
  /\ Quiet /\ online /\ history
  /\ loads < MaxLoads
  /\ history' = FALSE
  /\ loads' = loads + 1
  /\ Received(S)
  /\ UNCHANGED <<online, rejoin, drops, seqKnown, nextSeq, callVars, txVars,
                 streamVars, netVars>>

-----------------------------------------------------------------------------

UserCalls ==
  \/ \E t \in UserTxs : \/ \E s \in ExplicitSeqs \cup {0} : Submit(t, s)
                        \/ SubmitInvalid(t)
                        \/ Abort(t)

RunSubmits == SubmitDefer \/ SubmitIncomplete \/ SubmitSend
RunResubmits == ready = <<>> /\ \E w \in due : Resubmit(w)

Loaded ==
  \E v \in AccountSeqs :
    SequenceLoaded(v) \/ \E x \in fills : FillLoaded(x, v)

Answers ==
  \E r \in reqs :
    \/ Codes \ {"tooBusy", "error"} # {} /\ AnswerIgnored(r, "success")
    \/ Codes \cap {"tooBusy", "error"} # {} /\ AnswerIgnored(r, "error")
    \/ "tes" \in Codes /\ AnswerProposed(r)
    \/ "failed" \in Codes /\ AnswerFailed(r)
    \/ "tefPAST_SEQ" \in Codes /\ AnswerResubmit(r, 1)
    \/ "telINSUF_FEE_P" \in Codes /\ AnswerResubmit(r, 2)
    \/ "terRETRY" \in Codes /\ AnswerRetry(r)
    \/ "rejected" \in Codes /\ AnswerRejected(r, "success")
    \/ "tooBusy" \in Codes /\ AnswerTooBusy(r)
    \/ "error" \in Codes /\ AnswerRejected(r, "error")

Timeouts == \E r \in reqs : Timeout(r)
Notices  == \E i \in notices : DeliverNotice(i)

LedgerCloses ==
  \/ LedgerClosed(<<>>)
  \/ /\ Len(ledger) < MaxLedger
     /\ \E e \in Applicable : LedgerClosed(<<e>>)

LinkChanges ==
  \/ \E kept \in 0..loads, lostFills \in SUBSET fills :
       Disconnect(kept, lostFills)
  \/ Subscribed
  \/ Connect
  \/ \E S \in Histories : HistoryLoaded(S)

Loads == \E f \in Fees \cup {TooHigh} : LoadChanged(f)

Next == \/ UserCalls \/ RunSubmits \/ RunResubmits \/ Thrown \/ Loaded \/ Answers
        \/ Timeouts \/ Notices \/ LedgerCloses \/ LinkChanges \/ Loads

Spec == Init /\ [][Next]_vars

(* What the runtime and a live network provide: listeners of a running      *)
(* event run, timers fire, ledgers close, the link comes back, and the      *)
(* sequence and history requests of a connected client are answered.        *)
(* Answers to submit requests and notices may be missing for ever.          *)
Fairness ==
  WF_vars(\/ Timeouts \/ LedgerCloses \/ Connect \/ RunSubmits \/ RunResubmits
          \/ \E v \in AccountSeqs : SequenceLoaded(v))

FairSpec == Spec /\ Fairness

-----------------------------------------------------------------------------
(* Properties.                                                             *)

\* A transaction is applied to the ledger at most once, however often it is
\* signed again under another sequence or fee and resubmitted.
AtMostOnce ==
  \A i, j \in 1..Len(ledger) :
    ledger[i].tx # NoTx /\ ledger[i].tx = ledger[j].tx => i = j

\* "ALL transactionIDs sent over network are tracked" (requestTimeout): a blob
\* that may be applied is known to the transaction it came from.
IdsTracked ==
  \A id \in seen \cup outbox : id \in ids[id.tx]

\* 'success' is reported of a transaction only if the ledger holds it.
SuccessIsApplied ==
  \A t \in Txs : state[t] = "validated" =>
    \E i \in 1..Len(ledger) : ledger[i].tx = t

\* The user's callback runs once for a transaction the manager has taken and
\* finalized, and never before that.
ReportedOnce ==
  \A t \in Txs :
    callbacks[t] = IF Final(t) /\ t \in registered THEN 1 ELSE 0

\* The queue holds the transactions that were sent and are not final: it
\* neither loses one nor keeps a finished one.
QueueIsLive ==
  pending = {t \in Txs : ids[t] # {} /\ ~Final(t)}

\* Once the client knows that a sequence was consumed by a transaction of its
\* own, under whichever ID, that transaction is final.
HeardIsFinal ==
  \A i \in seqCache : ledger[i].tx # NoTx => Final(ledger[i].tx)

\* With one server a transaction never has two resubmission streams: at most
\* one live request, wait or fill (the worry spelled out in requestTimeout).
Streams(t) == Cardinality({r \in reqs : r.tx = t})
                + Cardinality({w \in waits \cup due : w.tx = t})
                + Cardinality({x \in fills : x.tx = t})
SingleStream == \A t \in Txs : Final(t) \/ Streams(t) <= 1

\* "Finalized (e.g. aborted) transactions must stop all activity": a final
\* transaction keeps its outcome and is never signed or sent again.
FinalIsQuiet ==
  [][\A t \in Txs : Final(t) =>
       /\ state'[t] = state[t]
       /\ ids'[t] = ids[t] /\ attempts'[t] = attempts[t]]_vars

\* While the link has not dropped, every transaction in the queue ends, is proposed to
\* the network by a server, or waits for a fill: none is forgotten.
Resolves ==
  \A t \in Txs :
    t \in pending ~> \/ Final(t) \/ state[t] = "pending"
                     \/ \E x \in fills : x.tx = t
                     \/ drops > 0
=============================================================================
