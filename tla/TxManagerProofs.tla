-------------------------- MODULE TxManagerProofs --------------------------
(* Safety of TxManager: its types, and that a transaction is applied at most *)
(* once, reported once and truthfully, and left alone when final - for every *)
(* number of transactions, fees, servers, attempts and ledgers.  Then, that  *)
(* it implements TxLifecycle, and what of its safety is left when the        *)
(* process restarts from its storage.                                        *)
EXTENDS TxRefinement, TxRestart, FiniteSetTheorems, TLAPS

(*************************************************************************)
(* Types.                                                                *)
(*************************************************************************)

(* With the types goes what the invariants below need of every activity:    *)
(* whatever works on a transaction - a request, a wait, a fill - works on    *)
(* one that was sent.                                                       *)
Sent(t) == ids[t] # {}
StreamsSent ==
  /\ \A r \in reqs : Sent(r.tx)
  /\ \A w \in waits \cup due : Sent(w.tx)
  /\ \A x \in fills : Sent(x.tx)

TypeInv == TypeOK /\ StreamsSent

LEMMA TypeInit == Init => TypeInv
<1> SUFFICES ASSUME Init PROVE TypeInv
  OBVIOUS
<1> USE TxAssumption DEF Init
<1>1. FlagsOK BY DEF FlagsOK
<1>2. CountersOK BY DEF CountersOK
<1>3. CallsOK BY DEF CallsOK
<1>4. LivesOK BY DEF LivesOK, States
<1>5. TransactionsOK BY DEF TransactionsOK
<1>6. StreamsOK BY DEF StreamsOK
<1>7. NetworkOK BY DEF NetworkOK
<1>8. StreamsSent BY DEF StreamsSent, Sent
<1>. QED BY <1>1, <1>2, <1>3, <1>4, <1>5, <1>6, <1>7, <1>8
         DEF TypeInv, TypeOK

-----------------------------------------------------------------------------
(* The user's calls.                                                        *)

LEMMA SubmitType ==
  ASSUME TypeInv, NEW t \in UserTxs, NEW s \in ExplicitSeqs \cup {0},
         Submit(t, s)
  PROVE  TypeInv'
<1> USE DEF TypeInv, TypeOK
<1> t \in Txs BY DEF UserTxs
<1>1. UNCHANGED <<linkVars, seqVars, lifeVars, streamVars, cacheVars, netVars,
                  deferred, registered, fee, ids, attempts, trap>>
  BY DEF Submit
<1>2. FlagsOK' /\ CountersOK' /\ LivesOK' /\ StreamsOK' /\ NetworkOK'
  BY <1>1 DEF FlagsOK, CountersOK, LivesOK, StreamsOK, NetworkOK,
              linkVars, seqVars, lifeVars, streamVars, cacheVars, netVars
<1>3. CallsOK' BY <1>1 DEF CallsOK, Submit
<1>4. TransactionsOK'
  BY <1>1, TxAssumption DEF TransactionsOK, streamVars, Submit
<1>5. StreamsSent'
  BY <1>1 DEF StreamsSent, Sent, streamVars
<1>. QED BY <1>2, <1>3, <1>4, <1>5

LEMMA SubmitInvalidType ==
  ASSUME TypeInv, NEW t \in UserTxs, SubmitInvalid(t)
  PROVE  TypeInv'
<1> USE DEF TypeInv, TypeOK
<1> t \in Txs BY DEF UserTxs
<1>1. UNCHANGED <<linkVars, seqVars, deferred, ready, registered, pending,
                  callbacks, txVars, streamVars, cacheVars, netVars>>
  BY DEF SubmitInvalid
<1>2. FlagsOK' /\ CountersOK' /\ TransactionsOK' /\ StreamsOK' /\ NetworkOK'
  BY <1>1 DEF FlagsOK, CountersOK, TransactionsOK, StreamsOK, NetworkOK,
              linkVars, seqVars, txVars, streamVars, cacheVars, netVars
<1>3. CallsOK' BY <1>1 DEF CallsOK, SubmitInvalid
<1>4. LivesOK' BY <1>1 DEF LivesOK, States, SubmitInvalid
<1>5. StreamsSent'
  BY <1>1 DEF StreamsSent, Sent, txVars, streamVars
<1>. QED BY <1>2, <1>3, <1>4, <1>5

\* emit('error') keeps the types of the transaction's life.
LEMMA FailType ==
  ASSUME LivesOK, NEW t \in Txs, Fail(t)
  PROVE  LivesOK'
BY DEF LivesOK, States, Fail

LEMMA AbortType ==
  ASSUME TypeInv, NEW t \in UserTxs, Abort(t)
  PROVE  TypeInv'
<1> USE DEF TypeInv, TypeOK
<1> t \in Txs BY DEF UserTxs
<1>1. UNCHANGED <<linkVars, seqVars, callVars, txVars, streamVars, cacheVars,
                  netVars>>
  BY DEF Abort
<1>2. FlagsOK' /\ CountersOK' /\ CallsOK' /\ TransactionsOK' /\ StreamsOK'
        /\ NetworkOK'
  BY <1>1 DEF FlagsOK, CountersOK, CallsOK, TransactionsOK, StreamsOK,
              NetworkOK, linkVars, seqVars, callVars, txVars, streamVars,
              cacheVars, netVars
<1>3. LivesOK' BY FailType DEF Abort
<1>4. StreamsSent'
  BY <1>1 DEF StreamsSent, Sent, txVars, streamVars
<1>. QED BY <1>2, <1>3, <1>4

-----------------------------------------------------------------------------
(* The manager's submit.                                                    *)

\* The first call to run is a transaction's; the rest stays a sequence.
LEMMA ReadyType ==
  ASSUME CallsOK, ready # <<>>
  PROVE  Head(ready) \in Txs /\ Tail(ready) \in Seq(Txs)
BY DEF CallsOK

LEMMA SubmitDeferType ==
  ASSUME TypeInv, SubmitDefer
  PROVE  TypeInv'
<1> USE DEF TypeInv, TypeOK
<1>1. UNCHANGED <<linkVars, seqVars, called, registered, lifeVars, txVars,
                  streamVars, cacheVars, netVars>>
  BY DEF SubmitDefer
<1>2. FlagsOK' /\ CountersOK' /\ LivesOK' /\ TransactionsOK' /\ StreamsOK'
        /\ NetworkOK'
  BY <1>1 DEF FlagsOK, CountersOK, LivesOK, TransactionsOK, StreamsOK,
              NetworkOK, linkVars, seqVars, lifeVars, txVars, streamVars,
              cacheVars, netVars
<1>3. CallsOK' BY <1>1, ReadyType DEF CallsOK, SubmitDefer
<1>4. StreamsSent'
  BY <1>1 DEF StreamsSent, Sent, txVars, streamVars
<1>. QED BY <1>2, <1>3, <1>4

LEMMA SubmitIncompleteType ==
  ASSUME TypeInv, SubmitIncomplete
  PROVE  TypeInv'
<1> DEFINE t == Head(ready)
<1> USE DEF TypeInv, TypeOK
<1>1. UNCHANGED <<linkVars, seqKnown, loads, called, deferred, fee, ids,
                  attempts, trap, streamVars, cacheVars, netVars>>
  BY DEF SubmitIncomplete
<1>2. t \in Txs /\ Tail(ready) \in Seq(Txs)
  BY ReadyType DEF SubmitIncomplete
<1>3. FlagsOK' /\ StreamsOK' /\ NetworkOK'
  BY <1>1 DEF FlagsOK, StreamsOK, NetworkOK, linkVars, streamVars, cacheVars,
              netVars
<1>4. nextSeq \in Int /\ nextSeq' \in Int
  BY DEF CountersOK, SubmitIncomplete
<1>5. CountersOK' BY <1>1, <1>4 DEF CountersOK, linkVars
<1>6. CallsOK' BY <1>1, <1>2 DEF CallsOK, SubmitIncomplete
<1>7. LivesOK' BY <1>1, <1>2, FailType DEF SubmitIncomplete
<1>8. TransactionsOK'
  BY <1>1, <1>2, <1>4
  DEF TransactionsOK, streamVars, SubmitIncomplete, TakeSequence
<1>9. StreamsSent'
  BY <1>1 DEF StreamsSent, Sent, streamVars
<1>. QED BY <1>3, <1>5, <1>6, <1>7, <1>8, <1>9

\* Signing and sending keeps the types of what it touches, and a transaction
\* that was sent stays so.
LEMMA TransmitType ==
  ASSUME TypeInv, NEW t \in Txs, NEW s \in Int, NEW f \in Fees, NEW a \in Nat,
         Transmit(t, s, f, a)
  PROVE  /\ seq' \in [Txs -> Int] /\ fee' \in [Txs -> Fees \cup {NoTx}]
         /\ ids' \in [Txs -> SUBSET Ids] /\ attempts' \in [Txs -> Nat]
         /\ reqs' \subseteq Requests
         /\ outbox' \subseteq Ids /\ seen' \subseteq Ids
         /\ \A r \in reqs' : Sent(r.tx)'
         /\ \A u \in Txs : Sent(u) => Sent(u)'
<1> DEFINE id == [tx |-> t, seq |-> s, fee |-> f]
<1> USE DEF TypeInv, TypeOK
<1>1. id \in Ids BY DEF Ids
<1>2. /\ seq' \in [Txs -> Int] /\ fee' \in [Txs -> Fees \cup {NoTx}]
      /\ attempts' \in [Txs -> Nat]
  BY DEF TransactionsOK, Transmit
<1>3. ids' = [ids EXCEPT ![t] = @ \cup {id}]
  BY DEF Transmit, TrackId
<1>4. ids' \in [Txs -> SUBSET Ids] BY <1>1, <1>3 DEF TransactionsOK
<1>5. \A u \in Txs : Sent(u) => Sent(u)'
  BY <1>3 DEF Sent, TransactionsOK
<1>6. Sent(t)' BY <1>3 DEF Sent, TransactionsOK
<1> DEFINE r == [tx |-> t, n |-> a + 1, id |-> id, left |-> NumServers,
                 timer |-> TRUE, ok |-> FALSE, err |-> FALSE]
<1>8. reqs' = reqs \cup {r} BY DEF Transmit
<1>9. a + 1 \in Nat /\ NumServers \in Nat BY TxAssumption
<1>10. r \in Requests BY <1>1, <1>9 DEF Requests
<1>11. reqs' \subseteq Requests BY <1>8, <1>10 DEF StreamsOK
<1>12. \A q \in reqs' : Sent(q.tx)'
  BY <1>5, <1>6, <1>8, <1>11 DEF StreamsSent, StreamsOK, Requests
<1>13. outbox' \subseteq Ids /\ seen' \subseteq Ids
  BY <1>1 DEF NetworkOK, Transmit
<1>. QED BY <1>2, <1>4, <1>5, <1>11, <1>12, <1>13

LEMMA SubmitSendType ==
  ASSUME TypeInv, SubmitSend
  PROVE  TypeInv'
<1> DEFINE t == Head(ready)
<1> USE DEF TypeInv, TypeOK
<1>1. UNCHANGED <<linkVars, seqKnown, loads, called, deferred, state,
                  callbacks, trap, waits, due, fills, resub, cacheVars,
                  serverFee, ledger, notices>>
  BY DEF SubmitSend
<1>2. t \in Txs /\ Tail(ready) \in Seq(Txs)
  BY ReadyType DEF SubmitSend
<1>3. FlagsOK' BY <1>1 DEF FlagsOK, linkVars
<1>4. nextSeq \in Int /\ nextSeq' \in Int
  BY DEF CountersOK, SubmitSend
<1>5. CountersOK' BY <1>1, <1>4 DEF CountersOK, linkVars
<1>6. CallsOK' BY <1>1, <1>2 DEF CallsOK, SubmitSend
<1>7. LivesOK' BY <1>1, <1>2 DEF LivesOK, SubmitSend
<1>8. TakeSequence(t) \in Int
  BY <1>2, <1>4 DEF TransactionsOK, TakeSequence
<1>9. TakeFee(t) \in Fees /\ Transmit(t, TakeSequence(t), TakeFee(t), 0)
  BY DEF SubmitSend
<1> HIDE DEF TypeInv, TypeOK
<1>10. /\ seq' \in [Txs -> Int] /\ fee' \in [Txs -> Fees \cup {NoTx}]
       /\ ids' \in [Txs -> SUBSET Ids] /\ attempts' \in [Txs -> Nat]
       /\ reqs' \subseteq Requests
       /\ outbox' \subseteq Ids /\ seen' \subseteq Ids
       /\ \A r \in reqs' : Sent(r.tx)'
       /\ \A u \in Txs : Sent(u) => Sent(u)'
  BY <1>2, <1>8, <1>9, TransmitType
<1> USE DEF TypeInv, TypeOK
<1>11. TransactionsOK' BY <1>1, <1>10 DEF TransactionsOK
<1>12. StreamsOK' BY <1>1, <1>10 DEF StreamsOK
<1>13. NetworkOK' BY <1>1, <1>10 DEF NetworkOK, cacheVars
<1>14. StreamsSent'
  BY <1>1, <1>10 DEF StreamsSent, StreamsOK, Requests, Waits, Fills
<1>. QED BY <1>3, <1>5, <1>6, <1>7, <1>10, <1>11, <1>12, <1>13, <1>14

-----------------------------------------------------------------------------
(* Answers to account_info.                                                 *)

LEMMA SequenceLoadedType ==
  ASSUME TypeInv, NEW v \in AccountSeqs, SequenceLoaded(v)
  PROVE  TypeInv'
<1> USE DEF TypeInv, TypeOK
<1>1. UNCHANGED <<linkVars, called, registered, lifeVars, txVars, streamVars,
                  cacheVars, netVars>>
  BY DEF SequenceLoaded
<1>2. LivesOK' /\ TransactionsOK' /\ StreamsOK' /\ NetworkOK'
  BY <1>1 DEF LivesOK, TransactionsOK, StreamsOK, NetworkOK, lifeVars,
              txVars, streamVars, cacheVars, netVars
<1>3. FlagsOK'
  <2>1. seqKnown' = TRUE BY DEF SequenceLoaded
  <2>. QED BY <1>1, <2>1 DEF FlagsOK, linkVars
<1>4. CountersOK'
  <2>1. v \in Int BY DEF AccountSeqs
  <2>. QED BY <1>1, <2>1 DEF CountersOK, SequenceLoaded, linkVars
<1>5. CallsOK' BY <1>1 DEF CallsOK, SequenceLoaded
<1>6. StreamsSent'
  BY <1>1 DEF StreamsSent, Sent, txVars, streamVars
<1>. QED BY <1>2, <1>3, <1>4, <1>5, <1>6

\* A record of the filling kind is well typed.
LEMMA FillingType ==
  ASSUME NEW x, x.tx \in Txs, x.n \in Nat,
         NEW g \in Txs \cup {NoTx}, NEW s \in Int, NEW k \in Int
  PROVE  /\ Filling(x, g, s, k) \in Fills
         /\ Filling(x, g, s, k).tx = x.tx
BY DEF Filling, Fills

LEMMA FillLoadedType ==
  ASSUME TypeInv, NEW v \in AccountSeqs, NEW x \in fills, FillLoaded(x, v)
  PROVE  TypeInv'
<1> USE DEF TypeInv, TypeOK
<1>1. UNCHANGED <<linkVars, seqKnown, loads, deferred, registered, lifeVars,
                  fee, ids, attempts, trap, reqs, waits, due, resub,
                  cacheVars, netVars>>
  BY DEF FillLoaded
<1>2. x.tx \in Txs /\ x.n \in Nat BY DEF StreamsOK, Fills
<1>3. v \in Int BY DEF AccountSeqs
<1>4. seq[x.tx] \in Int BY <1>2 DEF TransactionsOK
<1>5. FlagsOK' /\ LivesOK' /\ NetworkOK'
  BY <1>1 DEF FlagsOK, LivesOK, NetworkOK, linkVars, lifeVars, cacheVars,
              netVars
<1>6. CountersOK' BY <1>1, <1>3 DEF CountersOK, FillLoaded, linkVars
<1>7. CallsOK' /\ TransactionsOK' /\ fills' \subseteq Fills
        /\ \A y \in fills' : Sent(y.tx)
  <2>1. CASE UNCHANGED <<called, ready, seq>> /\ fills' = fills \ {x}
    BY <1>1, <2>1 DEF CallsOK, TransactionsOK, StreamsOK, StreamsSent
  <2>2. CASE \E g \in FillTxs \ called :
               /\ fills' = (fills \ {x})
                             \cup {Filling(x, g, v, seq[x.tx] - v)}
               /\ called' = called \cup {g}
               /\ ready' = <<g>>
               /\ seq' = [seq EXCEPT ![g] = v]
    <3>1. PICK g \in FillTxs \ called :
               /\ fills' = (fills \ {x})
                             \cup {Filling(x, g, v, seq[x.tx] - v)}
               /\ called' = called \cup {g}
               /\ ready' = <<g>>
               /\ seq' = [seq EXCEPT ![g] = v]
      BY <2>2
    <3>2. g \in Txs BY TxAssumption
    <3>3. CallsOK' BY <1>1, <3>1, <3>2 DEF CallsOK
    <3>4. TransactionsOK' BY <1>1, <1>3, <3>1, <3>2 DEF TransactionsOK
    <3>5. seq[x.tx] - v \in Int BY <1>3, <1>4
    <3>6. /\ Filling(x, g, v, seq[x.tx] - v) \in Fills
          /\ Filling(x, g, v, seq[x.tx] - v).tx = x.tx
      BY <1>2, <1>3, <3>2, <3>5, FillingType
    <3>. QED BY <3>1, <3>3, <3>4, <3>6 DEF StreamsOK, StreamsSent
  <2>. QED BY <2>1, <2>2 DEF FillLoaded
<1>8. StreamsOK' BY <1>1, <1>7 DEF StreamsOK
<1>9. StreamsSent'
  BY <1>1, <1>7 DEF StreamsSent, Sent
<1>. QED BY <1>5, <1>6, <1>7, <1>8, <1>9

-----------------------------------------------------------------------------
(* Answers to submit requests.                                              *)

\* An answer leaves well-typed requests, all of transactions that were sent.
LEMMA AnswerType ==
  ASSUME TypeInv, NEW r \in reqs, NEW event, Answer(r, event)
  PROVE  /\ reqs' \subseteq Requests
         /\ \A q \in reqs' : Sent(q.tx)
<1> USE DEF TypeInv, TypeOK
<1>1. r \in Requests BY DEF StreamsOK
<1>2. CASE r.left = 1
  BY <1>1, <1>2 DEF Answer, StreamsOK, StreamsSent
<1>3. CASE r.left # 1
  <2>1. r.left \in Nat /\ r.left > 0 BY <1>1 DEF Requests, Answer
  <2>2. r.left - 1 \in Nat BY <1>3, <2>1
  <2>3. (r.ok \/ event = "success") \in BOOLEAN
          /\ (r.err \/ event = "error") \in BOOLEAN
    OBVIOUS
  <2>4. Answered(r, event) \in Requests /\ Answered(r, event).tx = r.tx
    BY <1>1, <2>2, <2>3 DEF Requests, Answered
  <2>5. reqs' = (reqs \ {r}) \cup {Answered(r, event)}
    BY <1>3 DEF Answer
  <2>. QED BY <2>4, <2>5 DEF StreamsOK, StreamsSent
<1>. QED BY <1>2, <1>3

\* A wait of a well-typed stream is well typed.
LEMMA WaitingType ==
  ASSUME NEW x, x.tx \in Txs, x.n \in Nat,
         NEW source \in {"ok", "err", "timeout", "fill"}, NEW k \in 1..3
  PROVE  Waiting(x, source, k) \in Waits /\ Waiting(x, source, k).tx = x.tx
BY DEF Waiting, Waits

\* What every handled answer does: `submitted' runs its listeners.
LEMMA SubmittedType ==
  ASSUME TypeInv, NEW r \in reqs, NEW event, Heard(r, event),
         NEW newFills \in SUBSET Fills, \A x \in newFills : Sent(x.tx),
         NEW newWaits \in SUBSET Waits, \A w \in newWaits : Sent(w.tx),
         Submitted(r, newFills, newWaits),
         UNCHANGED respFrame
  PROVE  /\ FlagsOK' /\ CallsOK' /\ TransactionsOK' /\ StreamsOK' /\ NetworkOK'
         /\ StreamsSent'
         /\ drops' \in Nat /\ loads' \in Nat
<1> DEFINE t    == r.tx
           mine == {x \in fills : x.by = t}
           more == {x \in mine : x.left > 1 /\ x.seq + 1 < seq[x.tx]}
           keep == (fills \ mine) \cup newFills
<1>1. UNCHANGED <<linkVars, seqKnown, deferred, registered, fee, ids,
                  attempts, trap, due, cacheVars, netVars>>
  BY DEF respFrame
<1> USE DEF TypeInv, TypeOK
<1>2. t \in Txs BY DEF StreamsOK, Requests
<1>3. reqs' \subseteq Requests /\ \A q \in reqs' : Sent(q.tx)
  BY AnswerType DEF Heard
<1>4. FlagsOK' /\ NetworkOK'
  BY <1>1 DEF FlagsOK, NetworkOK, linkVars, cacheVars, netVars
<1>5. loads' \in Nat /\ resub' \in [Txs -> Nat] /\ drops' \in Nat
  BY <1>1, <1>2 DEF CountersOK, TransactionsOK, Submitted, linkVars
<1>6. waits' \subseteq Waits /\ \A w \in waits' : Sent(w.tx)
  <2>1. waits' = waits \cup newWaits
                   \cup {Waiting(x, "fill", 1) : x \in {y \in mine : y.left = 1}}
    BY DEF Submitted
  <2>2. \A x \in fills : /\ Waiting(x, "fill", 1) \in Waits
                         /\ Waiting(x, "fill", 1).tx = x.tx
    BY WaitingType DEF StreamsOK, Fills
  <2>. QED BY <2>1, <2>2 DEF StreamsOK, StreamsSent
<1>7. /\ CallsOK' /\ seq' \in [Txs -> Int]
      /\ fills' \subseteq Fills /\ \A x \in fills' : Sent(x.tx)
  <2>1. CASE fills' = keep /\ UNCHANGED <<called, ready, seq>>
    BY <1>1, <2>1 DEF CallsOK, TransactionsOK, StreamsOK, StreamsSent
  <2>2. CASE \E x \in more, g \in FillTxs \ called :
               /\ fills' = keep \cup {Filling(x, g, x.seq + 1, x.left - 1)}
               /\ called' = called \cup {g}
               /\ ready' = <<g>>
               /\ seq' = [seq EXCEPT ![g] = x.seq + 1]
    <3>1. PICK x \in more, g \in FillTxs \ called :
               /\ fills' = keep \cup {Filling(x, g, x.seq + 1, x.left - 1)}
               /\ called' = called \cup {g}
               /\ ready' = <<g>>
               /\ seq' = [seq EXCEPT ![g] = x.seq + 1]
      BY <2>2
    <3>2. g \in Txs BY TxAssumption
    <3>3. x \in fills /\ x.tx \in Txs /\ x.n \in Nat
            /\ x.seq \in Int /\ x.left \in Int
      BY DEF StreamsOK, Fills
    <3>4. x.seq + 1 \in Int /\ x.left - 1 \in Int BY <3>3
    <3>5. CallsOK' BY <1>1, <3>1, <3>2 DEF CallsOK
    <3>6. seq' \in [Txs -> Int] BY <3>1, <3>4 DEF TransactionsOK
    <3>7. /\ Filling(x, g, x.seq + 1, x.left - 1) \in Fills
          /\ Filling(x, g, x.seq + 1, x.left - 1).tx = x.tx
      BY <3>2, <3>3, <3>4, FillingType
    <3>. QED BY <3>1, <3>3, <3>5, <3>6, <3>7 DEF StreamsOK, StreamsSent
  <2>. QED BY <2>1, <2>2 DEF Submitted
<1>8. TransactionsOK' BY <1>1, <1>5, <1>7 DEF TransactionsOK
<1>9. StreamsOK' BY <1>1, <1>3, <1>6, <1>7 DEF StreamsOK
<1>10. StreamsSent'
  BY <1>1, <1>3, <1>6, <1>7 DEF StreamsSent, Sent
<1>. QED BY <1>4, <1>5, <1>7, <1>8, <1>9, <1>10

LEMMA AnswerIgnoredType ==
  ASSUME TypeInv, NEW r \in reqs, NEW event, AnswerIgnored(r, event)
  PROVE  TypeInv'
<1>1. UNCHANGED <<linkVars, seqVars, callVars, lifeVars, txVars, waits, due,
                  fills, resub, cacheVars, netVars>>
  BY DEF AnswerIgnored
<1>2. reqs' \subseteq Requests /\ \A q \in reqs' : Sent(q.tx)
  BY AnswerType DEF AnswerIgnored
<1> USE DEF TypeInv, TypeOK
<1>3. FlagsOK' /\ CountersOK' /\ CallsOK' /\ LivesOK' /\ TransactionsOK'
        /\ NetworkOK'
  BY <1>1 DEF FlagsOK, CountersOK, CallsOK, LivesOK, TransactionsOK, NetworkOK,
              linkVars, seqVars, callVars, lifeVars, txVars, cacheVars, netVars
<1>4. StreamsOK' BY <1>1, <1>2 DEF StreamsOK
<1>5. StreamsSent'
  BY <1>1, <1>2 DEF StreamsSent, Sent, txVars
<1>. QED BY <1>3, <1>4, <1>5

\* The transaction of a request is one, and was sent; its state stays typed.
LEMMA StreamTx ==
  ASSUME TypeInv, NEW r \in reqs
  PROVE  r.tx \in Txs /\ r.n \in Nat /\ Sent(r.tx)
BY DEF TypeInv, TypeOK, StreamsOK, Requests, StreamsSent

LEMMA MarkSubmittedType ==
  ASSUME LivesOK, NEW t \in Txs, MarkSubmitted(t),
         UNCHANGED <<pending, callbacks>>
  PROVE  LivesOK'
BY DEF LivesOK, States, MarkSubmitted

LEMMA AnswersType ==
  ASSUME TypeInv, NEW r \in reqs,
         \/ AnswerProposed(r)
         \/ AnswerFailed(r)
         \/ \E k \in {1, 2} : AnswerResubmit(r, k)
         \/ AnswerRetry(r)
         \/ \E event \in {"success", "error"} : AnswerRejected(r, event)
         \/ AnswerTooBusy(r)
  PROVE  TypeInv'
<1>1. r.tx \in Txs /\ r.n \in Nat /\ Sent(r.tx) BY StreamTx
<1>2. /\ Filling(r, NoTx, 0, 0) \in Fills
      /\ Filling(r, NoTx, 0, 0).tx = r.tx
  BY <1>1 DEF Filling, Fills
<1>3. LivesOK /\ CountersOK BY DEF TypeInv, TypeOK
<1>4. /\ FlagsOK' /\ CallsOK' /\ TransactionsOK' /\ StreamsOK' /\ NetworkOK'
      /\ StreamsSent'
      /\ drops' \in Nat /\ loads' \in Nat
      /\ CountersOK' /\ LivesOK'
  <2>1. CASE AnswerProposed(r)
    <3>1. LivesOK'
      BY <1>1, <1>3, <2>1 DEF AnswerProposed, LivesOK, States, respFrame
    <3>. QED BY <2>1, <3>1, <1>3, SubmittedType DEF AnswerProposed, CountersOK
  <2>2. CASE AnswerFailed(r)
    <3>1. LivesOK'
      BY <1>1, <1>3, <2>2, FailType DEF AnswerFailed, respFrame
    <3>. QED BY <2>2, <3>1, <1>3, SubmittedType DEF AnswerFailed, CountersOK
  <2>3. CASE \E k \in {1, 2} : AnswerResubmit(r, k)
    <3>1. PICK k \in {1, 2} : AnswerResubmit(r, k) BY <2>3
    <3>2. LivesOK'
      BY <1>1, <1>3, <3>1, MarkSubmittedType DEF AnswerResubmit, respFrame
    <3>3. Waiting(r, "ok", k) \in Waits /\ Waiting(r, "ok", k).tx = r.tx
      BY <1>1, WaitingType
    <3>. QED BY <3>1, <3>2, <3>3, <1>1, <1>3, SubmittedType
             DEF AnswerResubmit, CountersOK
  <2>4. CASE AnswerRetry(r)
    <3>1. LivesOK'
      BY <1>1, <1>3, <2>4, MarkSubmittedType DEF AnswerRetry, respFrame
    <3>. QED BY <2>4, <3>1, <1>1, <1>2, <1>3, SubmittedType
             DEF AnswerRetry, CountersOK
  <2>5. CASE \E event \in {"success", "error"} : AnswerRejected(r, event)
    <3>1. PICK event \in {"success", "error"} : AnswerRejected(r, event)
      BY <2>5
    <3>2. LivesOK'
      BY <1>1, <1>3, <3>1, FailType DEF AnswerRejected, respFrame
    <3>3. nextSeq' \in Int BY <1>3, <3>1 DEF AnswerRejected, CountersOK
    <3>. QED BY <3>1, <3>2, <3>3, SubmittedType DEF AnswerRejected, CountersOK
  <2>6. CASE AnswerTooBusy(r)
    <3>1. LivesOK'
      BY <1>1, <1>3, <2>6, MarkSubmittedType DEF AnswerTooBusy, respFrame
    <3>2. Waiting(r, "err", 1) \in Waits /\ Waiting(r, "err", 1).tx = r.tx
      BY <1>1, WaitingType
    <3>. QED BY <2>6, <3>1, <3>2, <1>1, <1>3, SubmittedType
             DEF AnswerTooBusy, CountersOK
  <2>. QED BY <2>1, <2>2, <2>3, <2>4, <2>5, <2>6
<1>. QED BY <1>4 DEF TypeInv, TypeOK

-----------------------------------------------------------------------------
(* Timers and resubmission.                                                 *)

LEMMA TimeoutType ==
  ASSUME TypeInv, NEW r \in reqs, Timeout(r)
  PROVE  TypeInv'
<1>1. UNCHANGED <<linkVars, seqVars, callVars, lifeVars, txVars, due, fills,
                  resub, cacheVars, netVars>>
  BY DEF Timeout
<1>2. r.tx \in Txs /\ r.n \in Nat /\ Sent(r.tx) BY StreamTx
<1>3. Waiting(r, "timeout", 3) \in Waits /\ Waiting(r, "timeout", 3).tx = r.tx
  BY <1>2, WaitingType
<1> USE DEF TypeInv, TypeOK
<1>4. waits' \subseteq Waits /\ \A w \in waits' : Sent(w.tx)
  BY <1>2, <1>3 DEF Timeout, TimeoutWaits, StreamsOK, StreamsSent
<1>5. reqs' \subseteq reqs BY DEF Timeout, MuteRequest
<1>6. FlagsOK' /\ CountersOK' /\ CallsOK' /\ LivesOK' /\ TransactionsOK'
        /\ NetworkOK'
  BY <1>1 DEF FlagsOK, CountersOK, CallsOK, LivesOK, TransactionsOK, NetworkOK,
              linkVars, seqVars, callVars, lifeVars, txVars, cacheVars, netVars
<1>7. StreamsOK' BY <1>1, <1>4, <1>5 DEF StreamsOK
<1>8. StreamsSent'
  BY <1>1, <1>4, <1>5 DEF StreamsSent, Sent, txVars
<1>. QED BY <1>6, <1>7, <1>8

LEMMA ResubmitType ==
  ASSUME TypeInv, NEW w \in due, Resubmit(w)
  PROVE  TypeInv'
<1> DEFINE t == w.tx
<1>1. UNCHANGED <<linkVars, seqVars, callVars, waits, fills, cacheVars,
                  serverFee, ledger, notices>> /\ due' = due \ {w}
  BY DEF Resubmit
<1>2. t \in Txs /\ Sent(t)
  BY DEF TypeInv, TypeOK, StreamsOK, Waits, StreamsSent
<1>3. FlagsOK' /\ CountersOK' /\ CallsOK'
  BY <1>1 DEF TypeInv, TypeOK, FlagsOK, CountersOK, CallsOK, linkVars, seqVars,
              callVars
<1>4. /\ LivesOK' /\ TransactionsOK'
      /\ reqs' \subseteq Requests /\ outbox' \subseteq Ids /\ seen' \subseteq Ids
      /\ \A r \in reqs' : Sent(r.tx)'
      /\ \A u \in Txs : Sent(u) => Sent(u)'
  <2>0. resub' \in [Txs -> Nat]
    <3>1. resub' = [resub EXCEPT ![t] = @ + 1] BY DEF Resubmit
    <3>2. resub \in [Txs -> Nat] BY DEF TypeInv, TypeOK, TransactionsOK
    <3>. QED BY <1>2, <3>1, <3>2
  <2>1. CASE UNCHANGED <<lifeVars, txVars, reqs, outbox, seen>>
    BY <1>1, <2>0, <2>1 DEF TypeInv, TypeOK, LivesOK, TransactionsOK,
       StreamsOK, NetworkOK, lifeVars, txVars, StreamsSent, Sent
  <2>2. CASE \E s \in seq[t]..(seq[t] + MaxLedger) :
               /\ Fail(t)
               /\ seq' = [seq EXCEPT ![t] = s]
               /\ UNCHANGED <<fee, ids, attempts, trap, reqs, outbox, seen>>
    <3>1. PICK s \in seq[t]..(seq[t] + MaxLedger) :
                  /\ Fail(t)
                  /\ seq' = [seq EXCEPT ![t] = s]
                  /\ UNCHANGED <<fee, ids, attempts, trap, reqs, outbox, seen>>
      BY <2>2
    <3>2. LivesOK' BY <1>1, <1>2, <3>1, FailType DEF TypeInv, TypeOK
    <3>3. TransactionsOK'
      BY <1>2, <2>0, <3>1 DEF TypeInv, TypeOK, TransactionsOK
    <3>. QED
      BY <3>1, <3>2, <3>3
      DEF TypeInv, TypeOK, StreamsOK, NetworkOK, StreamsSent, Sent
  <2>3. CASE \E s \in seq[t]..(seq[t] + MaxLedger) :
               /\ fee[t] # NoTx
               /\ Transmit(t, s, fee[t], attempts[t])
               /\ UNCHANGED <<lifeVars, trap>>
    <3>1. PICK s \in seq[t]..(seq[t] + MaxLedger) :
                  /\ fee[t] # NoTx
                  /\ Transmit(t, s, fee[t], attempts[t])
                  /\ UNCHANGED <<lifeVars, trap>>
      BY <2>3
    <3>2. LivesOK' BY <1>1, <3>1 DEF TypeInv, TypeOK, LivesOK, lifeVars
    <3>3. fee[t] \in Fees /\ attempts[t] \in Nat
      BY <1>2, <3>1 DEF TypeInv, TypeOK, TransactionsOK
    <3>4. s \in Int
      BY <1>2, TxAssumption DEF TypeInv, TypeOK, TransactionsOK
    <3>5. /\ seq' \in [Txs -> Int] /\ fee' \in [Txs -> Fees \cup {NoTx}]
          /\ ids' \in [Txs -> SUBSET Ids] /\ attempts' \in [Txs -> Nat]
          /\ reqs' \subseteq Requests
          /\ outbox' \subseteq Ids /\ seen' \subseteq Ids
          /\ \A r \in reqs' : Sent(r.tx)'
          /\ \A u \in Txs : Sent(u) => Sent(u)'
      BY <1>2, <3>1, <3>3, <3>4, TransmitType
    <3>6. TransactionsOK'
      BY <2>0, <3>1, <3>5 DEF TypeInv, TypeOK, TransactionsOK
    <3>. QED BY <3>2, <3>5, <3>6
  <2>. QED BY <2>1, <2>2, <2>3 DEF Resubmit
<1>5. StreamsOK' BY <1>1, <1>4 DEF TypeInv, TypeOK, StreamsOK, TransactionsOK
<1>6. NetworkOK' BY <1>1, <1>4 DEF TypeInv, TypeOK, NetworkOK, cacheVars
<1>7. StreamsSent'
  BY <1>1, <1>4 DEF TypeInv, TypeOK, StreamsSent, StreamsOK, Waits, Fills
<1>. QED BY <1>3, <1>4, <1>5, <1>6, <1>7 DEF TypeInv, TypeOK

-----------------------------------------------------------------------------
(* The network.                                                             *)

\* Validated transactions, from the stream or the history.
LEMMA ReceivedType ==
  ASSUME TypeInv, NEW S \in SUBSET (1..Len(ledger)), Received(S),
         UNCHANGED <<txVars, streamVars, serverFee, outbox, seen, ledger>>,
         notices' \subseteq notices
  PROVE  LivesOK' /\ TransactionsOK' /\ StreamsOK' /\ NetworkOK'
           /\ StreamsSent'
<1> USE DEF TypeInv, TypeOK
<1>1. LivesOK' BY DEF LivesOK, States, Received
<1>2. TransactionsOK' /\ StreamsOK' /\ StreamsSent'
  BY DEF TransactionsOK, StreamsOK, StreamsSent, Sent, txVars,
         streamVars
<1>3. \A i \in S : ledger[i] \in Entries BY DEF NetworkOK
<1>4. idCache' \subseteq Entries BY <1>3 DEF NetworkOK, Received
<1>5. seqCache' \subseteq 1..Len(ledger) BY DEF NetworkOK, Received
<1>6. NetworkOK' BY <1>4, <1>5 DEF NetworkOK
<1>. QED BY <1>1, <1>2, <1>6

LEMMA DeliverNoticeType ==
  ASSUME TypeInv, NEW i \in notices, DeliverNotice(i)
  PROVE  TypeInv'
<1>1. /\ UNCHANGED <<linkVars, seqVars, callVars>>
      /\ UNCHANGED <<txVars, streamVars, serverFee, outbox, seen, ledger>>
      /\ notices' \subseteq notices /\ Received({i})
  BY DEF DeliverNotice
<1>2. {i} \in SUBSET (1..Len(ledger)) BY DEF TypeInv, TypeOK, NetworkOK
<1>3. LivesOK' /\ TransactionsOK' /\ StreamsOK' /\ NetworkOK'
           /\ StreamsSent'
  BY <1>1, <1>2, ReceivedType
<1>4. FlagsOK' /\ CountersOK' /\ CallsOK'
  BY <1>1 DEF TypeInv, TypeOK, FlagsOK, CountersOK, CallsOK, linkVars, seqVars,
              callVars
<1>. QED BY <1>3, <1>4 DEF TypeInv, TypeOK

LEMMA HistoriesType ==
  ASSUME NEW S \in Histories PROVE S \in SUBSET (1..Len(ledger))
BY DEF Histories

LEMMA HistoryLoadedType ==
  ASSUME TypeInv, NEW S \in Histories, HistoryLoaded(S)
  PROVE  TypeInv'
<1>1. /\ UNCHANGED <<online, rejoin, drops, seqKnown, nextSeq, callVars>>
      /\ UNCHANGED <<txVars, streamVars, serverFee, outbox, seen, ledger>>
      /\ notices' \subseteq notices /\ Received(S)
      /\ loads' = loads + 1
  BY DEF HistoryLoaded, netVars
<1>2. S \in SUBSET (1..Len(ledger)) BY HistoriesType
<1>3. LivesOK' /\ TransactionsOK' /\ StreamsOK' /\ NetworkOK'
           /\ StreamsSent'
  BY <1>1, <1>2, ReceivedType
<1>4. history' = FALSE BY DEF HistoryLoaded
<1>5. FlagsOK' BY <1>1, <1>4 DEF TypeInv, TypeOK, FlagsOK
<1>6. CountersOK' /\ CallsOK'
  BY <1>1 DEF TypeInv, TypeOK, CountersOK, CallsOK, callVars
<1>. QED BY <1>3, <1>5, <1>6 DEF TypeInv, TypeOK

\* A closing ledger is one step nearer to what its listeners wait for.
LEMMA CountDownType ==
  ASSUME TypeInv, CountDown
  PROVE  /\ waits' \subseteq Waits /\ due' \subseteq Waits
         /\ \A w \in waits' \cup due' : Sent(w.tx)
<1> USE DEF TypeInv, TypeOK
<1>1. \A w \in waits : w.left > 1 =>
          Counted(w) \in Waits /\ Counted(w).tx = w.tx
  BY DEF StreamsOK, Waits, Counted
<1>. QED BY <1>1 DEF CountDown, StreamsOK, StreamsSent

\* What may be applied next is an entry.
LEMMA LedgerClosedType ==
  ASSUME TypeInv, NEW new, new = <<>> \/ \E e \in Entries : new = <<e>>,
         LedgerClosed(new)
  PROVE  TypeInv'
<1>1. UNCHANGED <<linkVars, seqVars, callVars, lifeVars, seq, fee, ids,
                  attempts, trap, reqs, fills, resub, cacheVars, serverFee,
                  outbox, seen>>
  BY DEF LedgerClosed
<1>2. /\ waits' \subseteq Waits /\ due' \subseteq Waits
      /\ \A w \in waits' \cup due' : Sent(w.tx)
  <2>1. CASE online BY <2>1, CountDownType DEF LedgerClosed
  <2>2. CASE ~online
    BY <2>2 DEF LedgerClosed, TypeInv, TypeOK, StreamsOK, StreamsSent
  <2>. QED BY <2>1, <2>2
<1> USE DEF TypeInv, TypeOK
<1>3. FlagsOK' /\ CountersOK' /\ CallsOK' /\ LivesOK' /\ TransactionsOK'
  BY <1>1 DEF FlagsOK, CountersOK, CallsOK, LivesOK, TransactionsOK,
              linkVars, seqVars, callVars, lifeVars
<1>4. StreamsOK' BY <1>1, <1>2 DEF StreamsOK
<1>5. StreamsSent'
  BY <1>1, <1>2 DEF StreamsSent, Sent
<1>6. /\ ledger' \in Seq(Entries) /\ Len(ledger) \in Nat
      /\ Len(ledger') = IF new = <<>> THEN Len(ledger) ELSE Len(ledger) + 1
  <2>1. ledger \in Seq(Entries) /\ ledger' = ledger \o new
    BY DEF LedgerClosed, NetworkOK
  <2>2. CASE new = <<>> BY <2>1, <2>2
  <2>3. ASSUME NEW e \in Entries, new = <<e>>
        PROVE  /\ ledger' \in Seq(Entries) /\ new # <<>>
               /\ Len(ledger) \in Nat /\ Len(ledger') = Len(ledger) + 1
    BY <2>1, <2>3
  <2>. QED BY <2>2, <2>3
<1>7. notices' \subseteq 1..Len(ledger')
  <2>1. CASE new = <<>>
    BY <1>6, <2>1 DEF LedgerClosed, NetworkOK
  <2>2. CASE new # <<>>
    <3>1. Len(ledger') = Len(ledger) + 1 BY <1>6, <2>2
    <3>2. notices' \subseteq notices \cup {Len(ledger) + 1} BY DEF LedgerClosed
    <3>. QED BY <3>1, <3>2 DEF NetworkOK
  <2>. QED BY <2>1, <2>2
<1>8. seqCache' \subseteq 1..Len(ledger')
  BY <1>1, <1>6 DEF NetworkOK, cacheVars
<1>9. NetworkOK' BY <1>1, <1>6, <1>7, <1>8 DEF NetworkOK, cacheVars
<1>. QED BY <1>3, <1>4, <1>5, <1>9

LEMMA ApplicableType ==
  ASSUME TypeInv
  PROVE  Applicable \subseteq Entries
<1>1. Foreign(Len(ledger) + 1) \in Entries
  BY DEF TypeInv, TypeOK, NetworkOK, Foreign, Entries
<1>. QED BY <1>1 DEF TypeInv, TypeOK, NetworkOK, Applicable, Entries

LEMMA LoadChangedType ==
  ASSUME TypeInv, NEW f \in Fees \cup {TooHigh}, LoadChanged(f)
  PROVE  TypeInv'
<1>1. UNCHANGED <<linkVars, seqVars, callVars, lifeVars, seq, ids, attempts,
                  streamVars, cacheVars, outbox, seen, ledger, notices>>
  BY DEF LoadChanged
<1> USE DEF TypeInv, TypeOK
<1>2. FlagsOK' /\ CountersOK' /\ CallsOK' /\ LivesOK' /\ StreamsOK'
        /\ StreamsSent'
  BY <1>1 DEF FlagsOK, CountersOK, CallsOK, LivesOK, StreamsOK, StreamsSent,
              Sent, linkVars, seqVars, callVars, lifeVars, streamVars
<1>3. NetworkOK' BY <1>1 DEF NetworkOK, LoadChanged, cacheVars
<1>4. fee' \in [Txs -> Fees \cup {NoTx}]
  BY <1>1 DEF LoadChanged, ComputedFee, TransactionsOK
<1>5. trap' \in [Txs -> BOOLEAN]
  BY DEF LoadChanged, TransactionsOK
<1>6. TransactionsOK' BY <1>1, <1>4, <1>5 DEF TransactionsOK, streamVars
<1>. QED BY <1>2, <1>3, <1>4, <1>6

LEMMA DisconnectType ==
  ASSUME TypeInv, NEW kept \in 0..loads, NEW lostFills \in SUBSET fills,
         Disconnect(kept, lostFills)
  PROVE  TypeInv'
<1>1. UNCHANGED <<seqKnown, nextSeq, callVars, lifeVars, txVars, waits, due,
                  resub, cacheVars, serverFee, outbox, seen, ledger>>
  BY DEF Disconnect
<1> USE DEF TypeInv, TypeOK
<1>2. CallsOK' /\ LivesOK' /\ TransactionsOK'
  BY <1>1 DEF CallsOK, LivesOK, TransactionsOK, callVars, lifeVars, txVars
<1>3. FlagsOK'
  <2>1. online' = FALSE /\ rejoin' = TRUE /\ history' = FALSE
    BY DEF Disconnect
  <2>. QED BY <1>1, <2>1 DEF FlagsOK
<1>4. CountersOK' BY <1>1 DEF CountersOK, Disconnect
<1>5. fills' \subseteq fills BY DEF Disconnect
<1>6. \A r \in reqs : Orphaned(r) \in Requests /\ Orphaned(r).tx = r.tx
  BY DEF StreamsOK, Requests, Orphaned
<1>7. reqs' \subseteq Requests /\ \A r \in reqs' : Sent(r.tx)
  BY <1>6 DEF Disconnect, StreamsSent
<1>8. StreamsOK' BY <1>1, <1>5, <1>7 DEF StreamsOK
<1>9. StreamsSent'
  BY <1>1, <1>5, <1>7 DEF StreamsSent, Sent, txVars
<1>10. notices' = {} BY DEF Disconnect
<1>11. NetworkOK' BY <1>1, <1>10 DEF NetworkOK, cacheVars
<1>. QED BY <1>2, <1>3, <1>4, <1>8, <1>9, <1>11

LEMMA SubscribedType ==
  ASSUME TypeInv, Subscribed
  PROVE  TypeInv'
<1>1. UNCHANGED <<linkVars, seqVars, callVars, lifeVars, txVars, reqs, fills,
                  resub, cacheVars, netVars>> /\ CountDown
  BY DEF Subscribed
<1>2. /\ waits' \subseteq Waits /\ due' \subseteq Waits
      /\ \A w \in waits' \cup due' : Sent(w.tx)
  BY <1>1, CountDownType
<1> USE DEF TypeInv, TypeOK
<1>3. FlagsOK' /\ CountersOK' /\ CallsOK' /\ LivesOK' /\ TransactionsOK'
        /\ NetworkOK'
  BY <1>1 DEF FlagsOK, CountersOK, CallsOK, LivesOK, TransactionsOK, NetworkOK,
              linkVars, seqVars, callVars, lifeVars, txVars, cacheVars, netVars
<1>4. StreamsOK' BY <1>1, <1>2 DEF StreamsOK
<1>5. StreamsSent'
  BY <1>1, <1>2 DEF StreamsSent, Sent, txVars
<1>. QED BY <1>3, <1>4, <1>5

LEMMA ConnectType ==
  ASSUME TypeInv, Connect
  PROVE  TypeInv'
<1>1. UNCHANGED <<drops, seqVars, callVars, lifeVars, txVars, streamVars,
                  cacheVars, serverFee, ledger, notices>>
  BY DEF Connect
<1> USE DEF TypeInv, TypeOK
<1>2. online' = TRUE /\ rejoin' = FALSE /\ history' = rejoin BY DEF Connect
<1>3. FlagsOK' BY <1>1, <1>2 DEF FlagsOK, seqVars
<1>4. CountersOK' /\ CallsOK' /\ LivesOK' /\ TransactionsOK' /\ StreamsOK'
  BY <1>1 DEF CountersOK, CallsOK, LivesOK, TransactionsOK, StreamsOK, seqVars,
              callVars, lifeVars, txVars, streamVars
<1>5. NetworkOK' BY <1>1 DEF NetworkOK, Connect, cacheVars
<1>6. StreamsSent'
  BY <1>1 DEF StreamsSent, Sent, txVars, streamVars
<1>. QED BY <1>3, <1>4, <1>5, <1>6

-----------------------------------------------------------------------------
(* The invariant.                                                           *)

LEMMA TypeStutter ==
  ASSUME TypeInv, UNCHANGED vars
  PROVE  TypeInv'
BY DEF TypeInv, TypeOK, FlagsOK, CountersOK, CallsOK, LivesOK, TransactionsOK,
       StreamsOK, NetworkOK, StreamsSent, Sent, vars, linkVars,
       seqVars, callVars, lifeVars, txVars, streamVars, cacheVars, netVars

\* The process that a resubmission without a Fee ends does nothing more.
LEMMA ThrownStutters ==
  ASSUME Thrown PROVE UNCHANGED vars
BY DEF Thrown

LEMMA TypeNext ==
  ASSUME TypeInv, Next
  PROVE  TypeInv'
<1>1. CASE UserCalls
  BY <1>1, SubmitType, SubmitInvalidType, AbortType DEF UserCalls
<1>2. CASE RunSubmits
  BY <1>2, SubmitDeferType, SubmitIncompleteType, SubmitSendType
  DEF RunSubmits
<1>3. CASE RunResubmits BY <1>3, ResubmitType DEF RunResubmits
<1>4. CASE Loaded BY <1>4, SequenceLoadedType, FillLoadedType DEF Loaded
<1>5. CASE Answers BY <1>5, AnswersType, AnswerIgnoredType DEF Answers
<1>6. CASE Timeouts BY <1>6, TimeoutType DEF Timeouts
<1>7. CASE Notices BY <1>7, DeliverNoticeType DEF Notices
<1>8. CASE LedgerCloses
  <2>1. CASE LedgerClosed(<<>>) BY <2>1, LedgerClosedType
  <2>2. ASSUME NEW e \in Applicable, LedgerClosed(<<e>>)
        PROVE  TypeInv'
    <3>1. e \in Entries BY ApplicableType
    <3>. QED BY <2>2, <3>1, LedgerClosedType
  <2>. QED BY <1>8, <2>1, <2>2 DEF LedgerCloses
<1>9. CASE LinkChanges
  BY <1>9, DisconnectType, SubscribedType, ConnectType, HistoryLoadedType
  DEF LinkChanges
<1>10. CASE Loads BY <1>10, LoadChangedType DEF Loads
<1>11. CASE Thrown BY <1>11, ThrownStutters, TypeStutter
<1>. QED BY <1>1, <1>2, <1>3, <1>4, <1>5, <1>6, <1>7, <1>8, <1>9, <1>10, <1>11
         DEF Next

LEMMA TypeInvariant == Spec => []TypeInv
<1>1. TypeInv /\ [Next]_vars => TypeInv' BY TypeNext, TypeStutter
<1>. QED BY <1>1, TypeInit, PTL DEF Spec

\* Every value stays in its range, for any number of transactions, fees,
\* servers and ledgers: nothing is signed without a fee or a sequence, no listener
\* waits for a count it cannot reach, and no notice or cached sequence names a
\* sequence the account has not consumed.
THEOREM TypeCorrect == Spec => []TypeOK
<1>1. TypeInv => TypeOK BY DEF TypeInv
<1>. QED BY <1>1, TypeInvariant, PTL

(*************************************************************************)
(* At most once, once and truthfully.                                    *)
(*************************************************************************)

(* The inductive invariant.  AtMostOnce needs to know why a transaction that *)
(* moved to a new sequence cannot be applied under an old one: the old one   *)
(* was consumed by another transaction (Superseded).  Moving is sound because *)
(* the transaction would be final had it consumed the sequence itself        *)
(* (HeardIsFinal), which holds because the queue knows every ID that was sent *)
(* (IdsTracked, QueueIsLive).                                                *)

\* The submit calls still to run are those of transactions not yet taken, each
\* once; a transaction nobody called submit for is as it was made.
Distinct(s) == \A i, j \in 1..Len(s) : s[i] = s[j] => i = j
CallsOrdered ==
  /\ registered \subseteq called
  /\ \A i \in 1..Len(ready) : ready[i] \in called \ registered
  /\ \A i \in 1..Len(deferred) : deferred[i] \in called \ registered
  /\ Distinct(ready) /\ Distinct(deferred)
  /\ \A i \in 1..Len(ready), j \in 1..Len(deferred) : ready[i] # deferred[j]
  /\ \A t \in Txs \ called : ~Final(t)

\* Only transactions the manager has taken are sent.
TakenBeforeSent == \A t \in Txs : t \notin registered => ids[t] = {}

\* An ID under another sequence than the current one can not be applied: that
\* sequence was consumed by another transaction.
Superseded ==
  \A t \in Txs : \A id \in ids[t] :
    /\ id.tx = t
    /\ \/ id.seq = seq[t]
       \/ id.seq \in seqCache /\ ledger[id.seq].tx # t

\* The ledger holds blobs it was sent, each at its sequence.
LedgerFaithful ==
  \A i \in 1..Len(ledger) :
    ledger[i].seq = i /\ (ledger[i].tx # NoTx => ledger[i] \in seen)

Blobs == TakenBeforeSent /\ Superseded /\ LedgerFaithful /\ IdsTracked
           /\ AtMostOnce
Outcomes == QueueIsLive /\ HeardIsFinal /\ SuccessIsApplied /\ ReportedOnce

SafetyInv == TypeInv /\ CallsOrdered /\ Blobs /\ Outcomes

LEMMA SafetyInit == Init => SafetyInv
<1> SUFFICES ASSUME Init PROVE SafetyInv
  OBVIOUS
<1>1. TypeInv BY TypeInit
<1> USE DEF Init
<1>2. CallsOrdered BY DEF CallsOrdered, Distinct, Final
<1>3. TakenBeforeSent /\ Superseded BY DEF TakenBeforeSent, Superseded
<1>4. LedgerFaithful /\ IdsTracked /\ AtMostOnce
  BY DEF LedgerFaithful, IdsTracked, AtMostOnce
<1>5. QueueIsLive /\ HeardIsFinal /\ SuccessIsApplied /\ ReportedOnce
  BY DEF QueueIsLive, HeardIsFinal, SuccessIsApplied, ReportedOnce, Final
<1>. QED BY <1>1, <1>2, <1>3, <1>4, <1>5 DEF SafetyInv, Blobs, Outcomes

-----------------------------------------------------------------------------
(* Steps that leave a part of the invariant alone.                           *)

LEMMA BlobsFrame ==
  ASSUME Blobs, UNCHANGED <<seq, ids, registered, seqCache, outbox, seen, ledger>>
  PROVE  Blobs'
BY DEF Blobs, TakenBeforeSent, Superseded, LedgerFaithful, IdsTracked,
       AtMostOnce

LEMMA OutcomesFrame ==
  ASSUME Outcomes,
         UNCHANGED <<state, pending, callbacks, ids, registered, seqCache,
                     ledger>>
  PROVE  Outcomes'
BY DEF Outcomes, QueueIsLive, HeardIsFinal, SuccessIsApplied, ReportedOnce,
       Final

LEMMA CallsFrame ==
  ASSUME CallsOrdered, UNCHANGED <<called, deferred, ready, registered>>,
         \A t \in Txs \ called : state'[t] = state[t]
  PROVE  CallsOrdered'
BY DEF CallsOrdered, Distinct, Final

\* Calls that begin: the event's only submit call is that of a transaction
\* nobody submitted before.
LEMMA CallBegins ==
  ASSUME CallsOrdered, TypeOK, NEW t \in Txs \ called,
         called' = called \cup {t}, ready' = <<t>>,
         UNCHANGED <<deferred, registered>>,
         \A u \in Txs \ called : state'[u] = state[u]
  PROVE  CallsOrdered'
BY DEF CallsOrdered, Distinct, Final, TypeOK, CallsOK

\* Setting the sequence of transactions that were never sent.
LEMMA SetSequence ==
  ASSUME Blobs, UNCHANGED <<ids, registered, seqCache, outbox, seen, ledger>>,
         \A t \in Txs : ids[t] # {} => seq'[t] = seq[t]
  PROVE  Blobs'
<1> USE DEF Blobs
<1>1. Superseded' BY DEF Superseded
<1>2. TakenBeforeSent' /\ LedgerFaithful' /\ IdsTracked' /\ AtMostOnce'
  BY DEF TakenBeforeSent, LedgerFaithful, IdsTracked, AtMostOnce
<1>. QED BY <1>1, <1>2

\* What the ledger holds is one of our transactions or foreign.
LEMMA LedgerTxs ==
  ASSUME TypeOK
  PROVE  /\ \A i \in 1..Len(ledger) : ledger[i].tx \in Txs \cup {NoTx}
         /\ seqCache \subseteq 1..Len(ledger)
<1>1. \A i \in 1..Len(ledger) : ledger[i] \in Entries
  BY DEF TypeOK, NetworkOK
<1>. QED BY <1>1 DEF TypeOK, NetworkOK, Entries, Ids

\* A transaction fails: it leaves the queue and is reported, once.
LEMMA FailOutcomes ==
  ASSUME TypeOK, Outcomes, TakenBeforeSent,
         NEW t \in Txs, ~Final(t), Fail(t),
         UNCHANGED <<ids, seqCache, ledger>>,
         registered' = registered \cup {t}
  PROVE  Outcomes'
<1> USE DEF Outcomes, TypeOK, LivesOK
<1>1. state' = [state EXCEPT ![t] = "failed"] /\ pending' = pending \ {t}
        /\ callbacks' = [callbacks EXCEPT ![t] = @ + 1]
  BY DEF Fail
<1>2. \A u \in Txs : Final(u)' <=> (Final(u) \/ u = t)
  BY <1>1 DEF Final
<1>3. QueueIsLive' BY <1>1, <1>2 DEF QueueIsLive
<1>4. HeardIsFinal' BY <1>2, LedgerTxs DEF HeardIsFinal
<1>5. SuccessIsApplied' BY <1>1 DEF SuccessIsApplied
<1>6. ReportedOnce' BY <1>1, <1>2 DEF ReportedOnce
<1>. QED BY <1>3, <1>4, <1>5, <1>6

\* A transaction makes progress without becoming final.
LEMMA ProgressOutcomes ==
  ASSUME TypeOK, Outcomes, UNCHANGED <<pending, callbacks, ids, seqCache,
                                       registered, ledger>>,
         \A t \in Txs : Final(t) \/ Final(t)' => state'[t] = state[t]
  PROVE  Outcomes'
<1> USE DEF Outcomes
<1>1. \A t \in Txs : Final(t)' <=> Final(t) BY DEF Final
<1>2. QueueIsLive' BY <1>1 DEF QueueIsLive
<1>3. HeardIsFinal' BY <1>1, LedgerTxs DEF HeardIsFinal
<1>4. SuccessIsApplied' BY <1>1 DEF SuccessIsApplied, Final
<1>5. ReportedOnce' BY <1>1 DEF ReportedOnce
<1>. QED BY <1>2, <1>3, <1>4, <1>5

\* Sending under sequence s, if the transaction cannot be applied under any
\* other sequence it was sent with.
LEMMA TransmitBlobs ==
  ASSUME TypeOK, Blobs,
         NEW t \in Txs, NEW s \in Int, NEW f \in Fees, NEW a \in Nat,
         Transmit(t, s, f, a), UNCHANGED <<seqCache, ledger>>,
         registered' = registered \cup {t},
         \A id \in ids[t] :
           id.seq = s \/ (id.seq \in seqCache /\ ledger[id.seq].tx # t)
  PROVE  Blobs' /\ ids'[t] # {} /\ \A u \in Txs \ {t} : ids'[u] = ids[u]
<1> DEFINE new == [tx |-> t, seq |-> s, fee |-> f]
<1> USE DEF Blobs, TypeOK, TransactionsOK
<1>1. /\ ids' = [ids EXCEPT ![t] = @ \cup {new}]
      /\ seq' = [seq EXCEPT ![t] = s]
      /\ seen' \cup outbox' = seen \cup outbox \cup {new}
      /\ seen \subseteq seen'
  BY DEF Transmit, TrackId
<1>2. ids'[t] = ids[t] \cup {new} /\ \A u \in Txs \ {t} : ids'[u] = ids[u]
  BY <1>1
<1>3. TakenBeforeSent' BY <1>2 DEF TakenBeforeSent
<1>4. Superseded' BY <1>1, <1>2 DEF Superseded
<1>5. LedgerFaithful' BY <1>1 DEF LedgerFaithful
<1>6. IdsTracked'
  <2>1. \A id \in seen \cup outbox : id.tx \in Txs
    BY DEF NetworkOK, Ids
  <2>. QED BY <1>1, <1>2, <2>1 DEF IdsTracked
<1>7. AtMostOnce' BY DEF AtMostOnce
<1>. QED BY <1>2, <1>3, <1>4, <1>5, <1>6, <1>7

\* The outcomes are those of before the sending, for a queued transaction.
LEMMA TransmitOutcomes ==
  ASSUME TypeOK, Outcomes,
         NEW t \in Txs, ~Final(t), ids'[t] # {},
         \A u \in Txs \ {t} : ids'[u] = ids[u],
         UNCHANGED <<state, callbacks, seqCache, ledger>>,
         pending' = pending \cup {t}, registered' = registered \cup {t}
  PROVE  Outcomes'
<1> USE DEF Outcomes
<1>1. QueueIsLive' BY DEF QueueIsLive, Final
<1>2. HeardIsFinal' BY DEF HeardIsFinal, Final
<1>3. SuccessIsApplied' BY DEF SuccessIsApplied
<1>4. ReportedOnce' BY DEF ReportedOnce, Final
<1>. QED BY <1>1, <1>2, <1>3, <1>4

\* Validated transactions: what was applied is in the queue or final.
LEMMA ReceivedSafety ==
  ASSUME SafetyInv, NEW S \in SUBSET (1..Len(ledger)), Received(S),
         UNCHANGED <<callVars, txVars, outbox, seen, ledger>>
  PROVE  CallsOrdered' /\ Blobs' /\ Outcomes'
<1> DEFINE mine == {t \in pending : \E i \in S : ledger[i] \in ids[t]}
<1> USE DEF SafetyInv, Blobs, Outcomes, TypeInv
<1>1. /\ state' = [t \in Txs |-> IF t \in mine THEN "validated" ELSE state[t]]
      /\ callbacks' = [t \in Txs |-> IF t \in mine THEN callbacks[t] + 1
                                                   ELSE callbacks[t]]
      /\ pending' = pending \ mine /\ seqCache' = seqCache \cup S
  BY DEF Received, IsSubmission
<1>2. mine \subseteq pending /\ pending \subseteq Txs
  BY DEF TypeOK, LivesOK
<1>3. \A t \in mine : ~Final(t) /\ t \in registered
  BY <1>2 DEF QueueIsLive, TakenBeforeSent
<1>4. \A t \in Txs : Final(t)' <=> (Final(t) \/ t \in mine)
  BY <1>1 DEF Final
<1>5. CallsOrdered'
  <2>1. \A t \in Txs \ called : state'[t] = state[t]
    BY <1>1, <1>3 DEF CallsOrdered
  <2>. QED BY <2>1, CallsFrame DEF callVars
<1>6. Blobs'
  <2>1. UNCHANGED <<seq, ids, registered, outbox, seen, ledger>>
    BY DEF callVars, txVars
  <2>2. Superseded' BY <1>1, <2>1 DEF Superseded
  <2>. QED
    BY <2>1, <2>2 DEF TakenBeforeSent, LedgerFaithful, IdsTracked, AtMostOnce
<1>7. QueueIsLive' BY <1>1, <1>2, <1>4 DEF QueueIsLive, txVars
<1>8. HeardIsFinal'
  <2> SUFFICES ASSUME NEW i \in seqCache', ledger[i].tx # NoTx
               PROVE  state'[ledger[i].tx] \in {"validated", "failed"}
    BY DEF HeardIsFinal, Final
  <2> DEFINE t == ledger[i].tx
  <2>1. i \in 1..Len(ledger) /\ t \in Txs
    BY <1>1, LedgerTxs
  <2>2. CASE i \in seqCache BY <1>4, <2>1, <2>2 DEF HeardIsFinal, Final
  <2>3. CASE i \in S
    <3>1. ledger[i] \in ids[t] BY <2>1 DEF LedgerFaithful, IdsTracked
    <3>2. t \in pending \/ Final(t) BY <2>1, <3>1 DEF QueueIsLive
    <3>. QED BY <1>4, <2>1, <2>3, <3>1, <3>2 DEF Final
  <2>. QED BY <1>1, <2>2, <2>3
<1>9. SuccessIsApplied'
  <2> SUFFICES ASSUME NEW t \in Txs, state'[t] = "validated"
               PROVE  \E i \in 1..Len(ledger') : ledger'[i].tx = t
    BY DEF SuccessIsApplied
  <2>1. ledger' = ledger OBVIOUS
  <2>2. CASE t \in mine
    <3>1. PICK i \in S : ledger[i] \in ids[t] BY <2>2
    <3>2. ledger[i].tx = t BY <3>1 DEF Superseded
    <3>. QED BY <2>1, <3>1, <3>2
  <2>3. CASE t \notin mine BY <1>1, <2>1, <2>3 DEF SuccessIsApplied
  <2>. QED BY <2>2, <2>3
<1>10. ReportedOnce'
  <2>1. registered' = registered BY DEF callVars
  <2>. QED BY <1>1, <1>3, <1>4, <2>1 DEF ReportedOnce
<1>. QED BY <1>5, <1>6, <1>7, <1>8, <1>9, <1>10

\* The ledger grows by one blob, valid under its next sequence.
LEMMA LedgerGrows ==
  ASSUME SafetyInv, NEW e \in Applicable, ledger' = Append(ledger, e),
         UNCHANGED <<seq, ids, registered, seqCache, outbox, seen,
                     state, pending, callbacks>>
  PROVE  Blobs' /\ Outcomes'
<1> DEFINE n == Len(ledger)
<1> USE DEF SafetyInv, Blobs, Outcomes, TypeInv
<1>1. ledger \in Seq(Entries) /\ seqCache \subseteq 1..n
  BY DEF TypeOK, NetworkOK
<1>2. /\ Len(ledger') = n + 1 /\ n \in Nat /\ ledger'[n + 1] = e
      /\ \A i \in 1..n : ledger'[i] = ledger[i]
  BY <1>1, ApplicableType
<1>3. e.seq = n + 1 /\ (e.tx = NoTx \/ e \in seen)
  BY DEF Applicable, Foreign
<1>4. TakenBeforeSent' /\ IdsTracked'
  BY DEF TakenBeforeSent, IdsTracked
<1>5. Superseded'
  <2>1. \A i \in seqCache : ledger'[i] = ledger[i] BY <1>1, <1>2
  <2>2. seqCache' = seqCache /\ seq' = seq /\ ids' = ids OBVIOUS
  <2>. HIDE DEF SafetyInv, Blobs, Outcomes, TypeInv
  <2>3. Superseded BY DEF SafetyInv, Blobs
  <2>. QED BY ONLY <2>1, <2>2, <2>3 DEF Superseded
<1>6. LedgerFaithful' BY <1>2, <1>3 DEF LedgerFaithful
<1>7. AtMostOnce'
  <2>1. ASSUME NEW i \in 1..n, e.tx # NoTx, ledger[i].tx = e.tx
        PROVE  FALSE
    <3> DEFINE t == e.tx
    <3>1. e \in seen /\ t \in Txs /\ e \in ids[t]
      BY <1>3, <2>1 DEF TypeOK, NetworkOK, Ids, IdsTracked
    <3>2. e.seq = seq[t] BY <1>1, <1>2, <1>3, <3>1 DEF Superseded
    <3>3. ledger[i] \in ids[t] /\ ledger[i].seq = i
      BY <2>1 DEF LedgerFaithful, IdsTracked
    <3>4. ledger[i].seq # seq[t] BY <1>2, <1>3, <3>2, <3>3
    <3>. QED BY <2>1, <3>1, <3>3, <3>4 DEF Superseded
  <2>. QED BY <1>2, <2>1 DEF AtMostOnce
<1>8. QueueIsLive' /\ ReportedOnce'
  BY DEF QueueIsLive, ReportedOnce, Final
<1>9. HeardIsFinal' BY <1>1, <1>2 DEF HeardIsFinal, Final
<1>10. SuccessIsApplied' BY <1>2 DEF SuccessIsApplied
<1>. QED BY <1>4, <1>5, <1>6, <1>7, <1>8, <1>9, <1>10

-----------------------------------------------------------------------------
(* One lemma per action that touches what the invariant is about.            *)

LEMMA SubmitSafety ==
  ASSUME SafetyInv, NEW t \in UserTxs, NEW s, Submit(t, s)
  PROVE  CallsOrdered' /\ Blobs' /\ Outcomes'
<1> USE DEF SafetyInv, TypeInv
<1>1. /\ t \in Txs \ called /\ called' = called \cup {t} /\ ready' = <<t>>
      /\ seq' = [seq EXCEPT ![t] = s]
      /\ UNCHANGED <<deferred, registered, state, pending, callbacks, ids,
                     seqCache, outbox, seen, ledger>>
  BY DEF Submit, UserTxs, lifeVars, cacheVars, netVars
<1>2. CallsOrdered' BY <1>1, CallBegins
<1>3. ids[t] = {} BY <1>1 DEF CallsOrdered, Blobs, TakenBeforeSent
<1>4. \A u \in Txs : ids[u] # {} => seq'[u] = seq[u]
  BY <1>1, <1>3 DEF TypeOK, TransactionsOK
<1>5. Blobs' BY <1>1, <1>4, SetSequence
<1>6. Outcomes' BY <1>1, OutcomesFrame
<1>. QED BY <1>2, <1>5, <1>6

LEMMA SubmitInvalidSafety ==
  ASSUME SafetyInv, NEW t \in UserTxs, SubmitInvalid(t)
  PROVE  CallsOrdered' /\ Blobs' /\ Outcomes'
<1> USE DEF SafetyInv, TypeInv
<1>1. /\ t \in Txs \ called /\ called' = called \cup {t}
      /\ state' = [state EXCEPT ![t] = "failed"]
      /\ UNCHANGED <<ready, deferred, registered, pending, callbacks, seq, ids,
                     seqCache, outbox, seen, ledger>>
  BY DEF SubmitInvalid, UserTxs, txVars, cacheVars, netVars
<1>2. ids[t] = {} /\ t \notin registered
  BY <1>1 DEF CallsOrdered, Blobs, TakenBeforeSent
<1>3. /\ state'[t] = "failed" /\ \A u \in Txs \ {t} : state'[u] = state[u]
      /\ \A u \in Txs : Final(u)' <=> (Final(u) \/ u = t)
  BY <1>1 DEF TypeOK, LivesOK, Final
<1>4. CallsOrdered'
  BY <1>1, <1>3 DEF CallsOrdered, Distinct
<1>5. Blobs' BY <1>1, BlobsFrame
<1>6. QueueIsLive' BY <1>1, <1>2, <1>3 DEF Outcomes, QueueIsLive
<1>7. HeardIsFinal' BY <1>1, <1>3, LedgerTxs DEF Outcomes, HeardIsFinal
<1>8. SuccessIsApplied' BY <1>1, <1>3 DEF Outcomes, SuccessIsApplied
<1>9. ReportedOnce' BY <1>1, <1>2, <1>3 DEF Outcomes, ReportedOnce
<1>. QED BY <1>4, <1>5, <1>6, <1>7, <1>8, <1>9 DEF Outcomes

\* A transaction the manager has taken fails.
LEMMA TakenFails ==
  ASSUME SafetyInv, NEW t \in registered, ~Final(t), Fail(t),
         UNCHANGED <<registered, ids, seqCache, ledger>>
  PROVE  Outcomes' /\ \A u \in Txs \ called : state'[u] = state[u]
<1> USE DEF SafetyInv, TypeInv
<1>1. t \in Txs /\ t \in called
  BY DEF CallsOrdered, TypeOK, CallsOK
<1>2. Outcomes' BY <1>1, FailOutcomes DEF Blobs
<1>3. \A u \in Txs \ called : state'[u] = state[u]
  BY <1>1 DEF Fail, TypeOK, LivesOK
<1>. QED BY <1>2, <1>3

LEMMA AbortSafety ==
  ASSUME SafetyInv, NEW t \in UserTxs, Abort(t)
  PROVE  CallsOrdered' /\ Blobs' /\ Outcomes'
<1> USE DEF SafetyInv
<1>1. UNCHANGED <<called, deferred, ready, registered, seq, ids, seqCache,
                  outbox, seen, ledger>>
  BY DEF Abort, callVars, txVars, cacheVars, netVars
<1>2. Blobs' BY <1>1, BlobsFrame
<1>3. Outcomes' /\ \A u \in Txs \ called : state'[u] = state[u]
  BY <1>1, TakenFails DEF Abort
<1>. QED BY <1>1, <1>2, <1>3, CallsFrame

LEMMA SubmitDeferSafety ==
  ASSUME SafetyInv, SubmitDefer
  PROVE  CallsOrdered' /\ Blobs' /\ Outcomes'
<1> USE DEF SafetyInv, TypeInv
<1>1. UNCHANGED <<called, registered, state, pending, callbacks, seq, ids,
                  seqCache, outbox, seen, ledger>>
  BY DEF SubmitDefer, lifeVars, txVars, cacheVars, netVars
<1>2. Blobs' /\ Outcomes' BY <1>1, BlobsFrame, OutcomesFrame
<1> DEFINE n == Len(deferred)
<1>3. /\ ready \in Seq(Txs) /\ deferred \in Seq(Txs) /\ n \in Nat
      /\ ready # <<>> /\ ready' = Tail(ready)
      /\ deferred' = Append(deferred, ready[1])
  BY DEF TypeOK, CallsOK, SubmitDefer
<1>4. /\ Len(deferred') = n + 1 /\ deferred'[n + 1] = ready[1]
      /\ \A i \in 1..n : deferred'[i] = deferred[i]
      /\ Len(ready) \in Nat \ {0}
      /\ Len(ready') = Len(ready) - 1
      /\ \A i \in 1..Len(ready') : ready'[i] = ready[i + 1]
  BY <1>3
<1>5. CallsOrdered' BY <1>1, <1>3, <1>4 DEF CallsOrdered, Distinct, Final
<1>. QED BY <1>2, <1>5

\* The manager takes the transaction of the first call.
LEMMA TakeFirst ==
  ASSUME SafetyInv, ready # <<>>, ready' = Tail(ready),
         registered' = registered \cup {Head(ready)},
         UNCHANGED <<called, deferred>>,
         \A t \in Txs \ called : state'[t] = state[t]
  PROVE  CallsOrdered'
<1>1. /\ ready \in Seq(Txs) /\ Len(ready) \in Nat \ {0}
      /\ Head(ready) = ready[1] /\ Len(ready') = Len(ready) - 1
      /\ \A i \in 1..Len(ready') : ready'[i] = ready[i + 1]
  BY DEF SafetyInv, TypeInv, TypeOK, CallsOK
<1>. QED BY <1>1 DEF SafetyInv, CallsOrdered, Distinct, Final

LEMMA FirstUnsent ==
  ASSUME SafetyInv, ready # <<>>
  PROVE  Head(ready) \in called \ registered /\ Head(ready) \in Txs
           /\ ids[Head(ready)] = {}
<1>1. ready \in Seq(Txs) /\ Len(ready) \in Nat \ {0} /\ Head(ready) = ready[1]
  BY DEF SafetyInv, TypeInv, TypeOK, CallsOK
<1>. QED BY <1>1 DEF SafetyInv, CallsOrdered, Blobs, TakenBeforeSent

LEMMA SubmitIncompleteSafety ==
  ASSUME SafetyInv, SubmitIncomplete
  PROVE  CallsOrdered' /\ Blobs' /\ Outcomes'
<1> DEFINE t == Head(ready)
<1> USE DEF SafetyInv, TypeInv
<1>1. /\ UNCHANGED <<called, deferred, ids, seqCache, outbox, seen, ledger>>
      /\ ready # <<>> /\ ready' = Tail(ready)
      /\ registered' = registered \cup {t} /\ ~Final(t) /\ Fail(t)
      /\ seq' = [seq EXCEPT ![t] = TakeSequence(t)]
  BY DEF SubmitIncomplete, cacheVars, netVars
<1>2. t \in called \ registered /\ t \in Txs /\ ids[t] = {}
  BY <1>1, FirstUnsent
<1>3. \A u \in Txs \ {t} : state'[u] = state[u] /\ seq'[u] = seq[u]
  BY <1>1 DEF Fail, TypeOK, LivesOK, TransactionsOK
<1>4. CallsOrdered' BY <1>1, <1>2, <1>3, TakeFirst
<1>5. Outcomes' BY <1>1, <1>2, FailOutcomes DEF Blobs
<1>6. Blobs'
  <2> USE DEF Blobs
  <2>1. TakenBeforeSent' BY <1>1 DEF TakenBeforeSent
  <2>2. Superseded' BY <1>1, <1>2, <1>3 DEF Superseded
  <2>3. LedgerFaithful' /\ IdsTracked' /\ AtMostOnce'
    BY <1>1 DEF LedgerFaithful, IdsTracked, AtMostOnce
  <2>. QED BY <2>1, <2>2, <2>3
<1>. QED BY <1>4, <1>5, <1>6

LEMMA SubmitSendSafety ==
  ASSUME SafetyInv, SubmitSend
  PROVE  CallsOrdered' /\ Blobs' /\ Outcomes'
<1> DEFINE t == Head(ready)
<1> USE DEF SafetyInv, TypeInv
<1>1. /\ UNCHANGED <<called, deferred, state, callbacks, seqCache, ledger>>
      /\ ready # <<>> /\ ready' = Tail(ready)
      /\ registered' = registered \cup {t} /\ ~Final(t)
      /\ pending' = pending \cup {t} /\ TakeFee(t) \in Fees
      /\ Transmit(t, TakeSequence(t), TakeFee(t), 0)
  BY DEF SubmitSend, cacheVars
<1>2. t \in Txs /\ ids[t] = {} BY <1>1, FirstUnsent
<1>3. TakeSequence(t) \in Int
  BY <1>2 DEF TypeOK, TransactionsOK, CountersOK, TakeSequence
<1>4. Blobs' /\ ids'[t] # {} /\ \A u \in Txs \ {t} : ids'[u] = ids[u]
  BY <1>1, <1>2, <1>3, TransmitBlobs
<1>5. Outcomes' BY <1>1, <1>2, <1>4, TransmitOutcomes
<1>6. CallsOrdered' BY <1>1, TakeFirst
<1>. QED BY <1>4, <1>5, <1>6

LEMMA SequenceLoadedSafety ==
  ASSUME SafetyInv, NEW v, SequenceLoaded(v)
  PROVE  CallsOrdered' /\ Blobs' /\ Outcomes'
<1> USE DEF SafetyInv
<1>1. /\ UNCHANGED <<called, registered, state, pending, callbacks, seq, ids,
                     seqCache, outbox, seen, ledger>>
      /\ ready' = deferred /\ deferred' = <<>>
  BY DEF SequenceLoaded, lifeVars, txVars, cacheVars, netVars
<1>2. Blobs' /\ Outcomes' BY <1>1, BlobsFrame, OutcomesFrame
<1>3. CallsOrdered' BY <1>1 DEF CallsOrdered, Distinct, Final
<1>. QED BY <1>2, <1>3

\* A new fill is called and given its sequence.
LEMMA FillBegins ==
  ASSUME SafetyInv, NEW g \in FillTxs \ called, NEW s,
         called' = called \cup {g}, ready' = <<g>>,
         seq' = [seq EXCEPT ![g] = s],
         UNCHANGED <<deferred, registered, ids, seqCache, outbox, seen,
                     ledger>>,
         \A u \in Txs \ called : state'[u] = state[u]
  PROVE  CallsOrdered' /\ Blobs'
<1> USE DEF SafetyInv, TypeInv
<1>1. g \in Txs \ called BY TxAssumption
<1>2. CallsOrdered' BY <1>1, CallBegins
<1>3. ids[g] = {} BY <1>1 DEF CallsOrdered, Blobs, TakenBeforeSent
<1>4. \A u \in Txs : ids[u] # {} => seq'[u] = seq[u]
  BY <1>1, <1>3 DEF TypeOK, TransactionsOK
<1>5. Blobs' BY <1>4, SetSequence
<1>. QED BY <1>2, <1>5

LEMMA FillLoadedSafety ==
  ASSUME SafetyInv, NEW v, NEW x \in fills, FillLoaded(x, v)
  PROVE  CallsOrdered' /\ Blobs' /\ Outcomes'
<1> USE DEF SafetyInv
<1>1. UNCHANGED <<deferred, registered, state, pending, callbacks, ids,
                  seqCache, outbox, seen, ledger>>
  BY DEF FillLoaded, lifeVars, cacheVars, netVars
<1>2. Outcomes' BY <1>1, OutcomesFrame
<1>3. CASE UNCHANGED <<called, ready, seq>>
  BY <1>1, <1>2, <1>3, CallsFrame, BlobsFrame
<1>4. CASE \E g \in FillTxs \ called :
             /\ called' = called \cup {g} /\ ready' = <<g>>
             /\ seq' = [seq EXCEPT ![g] = v]
  BY <1>1, <1>2, <1>4, FillBegins
<1>. QED BY <1>3, <1>4 DEF FillLoaded

\* What works on a transaction works on one that the manager has taken.
LEMMA StreamTaken ==
  ASSUME SafetyInv, NEW t \in Txs, Sent(t)
  PROVE  t \in registered /\ t \in called
BY DEF SafetyInv, Blobs, TakenBeforeSent, Sent, CallsOrdered

\* `submitted' runs its listeners: at most a fill begins.
LEMMA SubmittedSafety ==
  ASSUME SafetyInv, NEW r \in reqs, NEW F, NEW W, Submitted(r, F, W),
         UNCHANGED respFrame,
         \A u \in Txs \ called : state'[u] = state[u]
  PROVE  CallsOrdered' /\ Blobs'
<1>1. UNCHANGED <<deferred, registered, ids, seqCache, outbox, seen, ledger>>
  BY DEF respFrame, cacheVars, netVars
<1> USE DEF SafetyInv
<1>2. CASE UNCHANGED <<called, ready, seq>>
  BY <1>1, <1>2, CallsFrame, BlobsFrame
<1>3. CASE \E g \in FillTxs \ called : \E s :
             /\ called' = called \cup {g} /\ ready' = <<g>>
             /\ seq' = [seq EXCEPT ![g] = s]
  BY <1>1, <1>3, FillBegins
<1>. QED BY <1>2, <1>3 DEF Submitted

LEMMA AnswersSafety ==
  ASSUME SafetyInv, NEW r \in reqs,
         \/ AnswerProposed(r)
         \/ AnswerFailed(r)
         \/ \E k \in {1, 2} : AnswerResubmit(r, k)
         \/ AnswerRetry(r)
         \/ \E event \in {"success", "error"} : AnswerRejected(r, event)
         \/ AnswerTooBusy(r)
  PROVE  CallsOrdered' /\ Blobs' /\ Outcomes'
<1> DEFINE t == r.tx
<1>1. t \in Txs /\ t \in called /\ t \in registered
  BY StreamTx, StreamTaken DEF SafetyInv
<1>2. ~Final(t)
  BY DEF AnswerProposed, AnswerFailed, AnswerResubmit, AnswerRetry,
         AnswerRejected, AnswerTooBusy, Heard
<1>3. UNCHANGED respFrame /\ \E F, W : Submitted(r, F, W)
  BY DEF AnswerProposed, AnswerFailed, AnswerResubmit, AnswerRetry,
         AnswerRejected, AnswerTooBusy
<1>4. UNCHANGED <<registered, ids, seqCache, ledger>>
  BY <1>3 DEF respFrame, cacheVars, netVars
<1>5. Outcomes' /\ \A u \in Txs \ called : state'[u] = state[u]
  <2>1. CASE AnswerFailed(r)
               \/ \E event \in {"success", "error"} : AnswerRejected(r, event)
    <3>1. Fail(t) BY <2>1 DEF AnswerFailed, AnswerRejected
    <3>. QED BY <1>1, <1>2, <1>4, <3>1, TakenFails
  <2>2. CASE /\ \E new \in States \ {"validated", "failed"} :
                  state' = [state EXCEPT ![t] = new]
             /\ UNCHANGED <<pending, callbacks>>
    <3>1. /\ \A u \in Txs \ {t} : state'[u] = state[u]
          /\ state'[t] \notin {"validated", "failed"}
      BY <1>1, <2>2 DEF SafetyInv, TypeInv, TypeOK, LivesOK
    <3>2. \A u \in Txs : Final(u) \/ Final(u)' => state'[u] = state[u]
      BY <1>2, <3>1 DEF Final
    <3>. QED BY <1>1, <1>4, <2>2, <3>1, <3>2, ProgressOutcomes
             DEF SafetyInv, TypeInv
  <2>3. CASE \/ AnswerProposed(r)
             \/ \E k \in {1, 2} : AnswerResubmit(r, k)
             \/ AnswerRetry(r)
             \/ AnswerTooBusy(r)
    <3>1. UNCHANGED <<pending, callbacks>>
      BY <2>3 DEF AnswerProposed, AnswerResubmit, AnswerRetry, AnswerTooBusy
    <3>2. state' = [state EXCEPT ![t] = "pending"] \/ MarkSubmitted(t)
      BY <2>3 DEF AnswerProposed, AnswerResubmit, AnswerRetry, AnswerTooBusy
    <3>3. state[t] \in States
      BY <1>1 DEF SafetyInv, TypeInv, TypeOK, LivesOK
    <3>4. \E new \in States \ {"validated", "failed"} :
            state' = [state EXCEPT ![t] = new]
      <4>1. CASE state' = [state EXCEPT ![t] = "pending"]
        BY <4>1 DEF States
      <4>2. CASE MarkSubmitted(t)
        <5>1. state' = [state EXCEPT ![t] = IF state[t] = "unsubmitted"
                                            THEN "submitted" ELSE state[t]]
          BY <4>2 DEF MarkSubmitted
        <5>. QED BY <1>2, <3>3, <5>1 DEF States, Final
      <4>. QED BY <3>2, <4>1, <4>2
    <3>. QED BY <2>2, <3>1, <3>4
  <2>. QED BY <2>1, <2>3
<1>6. CallsOrdered' /\ Blobs' BY <1>3, <1>5, SubmittedSafety
<1>. QED BY <1>5, <1>6

\* The heart of AtMostOnce: a transaction that is not final leaves only
\* sequences consumed by others, for it would have been told of its own.
LEMMA MovesSafely ==
  ASSUME SafetyInv, NEW t \in Txs, ~Final(t), NEW s \in Int,
         NextFree(seq[t], s)
  PROVE  \A id \in ids[t] :
           id.seq = s \/ (id.seq \in seqCache /\ ledger[id.seq].tx # t)
<1> SUFFICES ASSUME NEW id \in ids[t], id.seq # s
             PROVE  id.seq \in seqCache /\ ledger[id.seq].tx # t
  OBVIOUS
<1> USE DEF SafetyInv, Blobs, Outcomes
<1>1. CASE id.seq = seq[t]
  <2>1. seq[t] \in Int BY DEF TypeInv, TypeOK, TransactionsOK
  <2>2. seq[t] \in seq[t]..(s - 1) BY <1>1, <2>1 DEF NextFree
  <2>3. seq[t] \in seqCache BY <2>2 DEF NextFree
  <2>4. ledger[seq[t]].tx # t
    BY <2>3, TxAssumption DEF HeardIsFinal
  <2>. QED BY <1>1, <2>3, <2>4
<1>2. CASE id.seq # seq[t] BY <1>2 DEF Superseded
<1>. QED BY <1>1, <1>2

LEMMA ResubmitSafety ==
  ASSUME SafetyInv, NEW w \in due, Resubmit(w)
  PROVE  CallsOrdered' /\ Blobs' /\ Outcomes'
<1> DEFINE t == w.tx
<1>1. t \in Txs /\ Sent(t)
  BY DEF SafetyInv, TypeInv, TypeOK, StreamsOK, Waits, StreamsSent
<1>2. t \in registered /\ t \in called BY <1>1, StreamTaken
<1>3. UNCHANGED <<called, deferred, ready, registered, seqCache, ledger>>
  BY DEF Resubmit, callVars, cacheVars
<1>4. CASE UNCHANGED <<lifeVars, txVars, reqs, outbox, seen>>
  BY <1>3, <1>4, CallsFrame, BlobsFrame, OutcomesFrame
  DEF SafetyInv, lifeVars, txVars
<1>5. CASE ~Final(t) /\ \E s \in seq[t]..(seq[t] + MaxLedger) :
             /\ NextFree(seq[t], s)
             /\ Fail(t)
             /\ seq' = [seq EXCEPT ![t] = s]
             /\ UNCHANGED <<ids, outbox, seen>>
  <2>1. PICK s \in seq[t]..(seq[t] + MaxLedger) :
             /\ NextFree(seq[t], s)
             /\ Fail(t)
             /\ seq' = [seq EXCEPT ![t] = s]
             /\ UNCHANGED <<ids, outbox, seen>>
    BY <1>5
  <2>2. Outcomes' /\ \A u \in Txs \ called : state'[u] = state[u]
    BY <1>2, <1>3, <1>5, <2>1, TakenFails
  <2>3. CallsOrdered' BY <1>3, <2>2, CallsFrame DEF SafetyInv
  <2>4. \A id \in ids[t] :
          id.seq = s \/ (id.seq \in seqCache /\ ledger[id.seq].tx # t)
    BY <1>1, <1>5, <2>1, MovesSafely
  <2>5. seq'[t] = s /\ \A u \in Txs \ {t} : seq'[u] = seq[u]
    BY <1>1, <2>1 DEF SafetyInv, TypeInv, TypeOK, TransactionsOK
  <2>6. Superseded'
    BY <1>3, <2>1, <2>4, <2>5 DEF SafetyInv, Blobs, Superseded
  <2>7. TakenBeforeSent' /\ LedgerFaithful' /\ IdsTracked' /\ AtMostOnce'
    BY <1>3, <2>1 DEF SafetyInv, Blobs, TakenBeforeSent, LedgerFaithful,
                      IdsTracked, AtMostOnce
  <2>. QED BY <2>2, <2>3, <2>6, <2>7 DEF Blobs
<1>6. CASE ~Final(t) /\ \E s \in seq[t]..(seq[t] + MaxLedger) :
             /\ NextFree(seq[t], s) /\ fee[t] # NoTx
             /\ Transmit(t, s, fee[t], attempts[t])
             /\ UNCHANGED <<lifeVars, trap>>
  <2>1. PICK s \in seq[t]..(seq[t] + MaxLedger) :
             /\ NextFree(seq[t], s) /\ fee[t] # NoTx
             /\ Transmit(t, s, fee[t], attempts[t])
             /\ UNCHANGED <<lifeVars, trap>>
    BY <1>6
  <2>2. fee[t] \in Fees /\ attempts[t] \in Nat /\ s \in Int
    BY <1>1, <2>1, TxAssumption
    DEF SafetyInv, TypeInv, TypeOK, TransactionsOK
  <2>3. UNCHANGED <<state, pending, callbacks>> BY <2>1 DEF lifeVars
  <2>4. \A id \in ids[t] :
          id.seq = s \/ (id.seq \in seqCache /\ ledger[id.seq].tx # t)
    BY <1>1, <1>6, <2>1, MovesSafely
  <2>5. registered' = registered \cup {t} BY <1>2, <1>3
  <2>6. Blobs' /\ ids'[t] # {} /\ \A u \in Txs \ {t} : ids'[u] = ids[u]
    BY <1>1, <1>3, <2>1, <2>2, <2>4, <2>5, TransmitBlobs
    DEF SafetyInv, TypeInv
  <2>7. pending' = pending \cup {t}
    BY <1>1, <1>6, <2>3 DEF SafetyInv, Outcomes, QueueIsLive, Sent
  <2>8. Outcomes'
    BY <1>1, <1>3, <1>6, <2>3, <2>5, <2>6, <2>7, TransmitOutcomes
    DEF SafetyInv, TypeInv
  <2>9. CallsOrdered' BY <1>3, <2>3, CallsFrame DEF SafetyInv
  <2>. QED BY <2>6, <2>8, <2>9
<1>. QED BY <1>4, <1>5, <1>6 DEF Resubmit, Stopped

\* The other steps leave the calls, the blobs and the outcomes alone.
LEMMA OtherSafety ==
  ASSUME SafetyInv,
         \/ \E r \in reqs : Timeout(r) \/ \E event : AnswerIgnored(r, event)
         \/ \E f : LoadChanged(f)
         \/ \E kept, lostFills : Disconnect(kept, lostFills)
         \/ Subscribed
         \/ LedgerClosed(<<>>)
         \/ UNCHANGED vars
  PROVE  CallsOrdered' /\ Blobs' /\ Outcomes'
<1>1. UNCHANGED <<called, deferred, ready, registered, state, pending,
                  callbacks, seq, ids, seqCache, outbox, seen>>
  BY DEF Timeout, AnswerIgnored, LoadChanged, Disconnect, Subscribed,
         LedgerClosed, vars, callVars, lifeVars, txVars, cacheVars, netVars
<1>2. ledger' = ledger
  <2>1. CASE LedgerClosed(<<>>)
    <3>1. ledger \in Seq(Entries) /\ ledger' = ledger \o <<>>
      BY <2>1 DEF SafetyInv, TypeInv, TypeOK, NetworkOK, LedgerClosed
    <3>. QED BY <3>1
  <2>2. CASE ~LedgerClosed(<<>>)
    BY <2>2 DEF Timeout, AnswerIgnored, LoadChanged, Disconnect, Subscribed,
                vars, netVars
  <2>. QED BY <2>1, <2>2
<1>. QED BY <1>1, <1>2, CallsFrame, BlobsFrame, OutcomesFrame DEF SafetyInv

LEMMA ConnectSafety ==
  ASSUME SafetyInv, Connect
  PROVE  CallsOrdered' /\ Blobs' /\ Outcomes'
<1>1. UNCHANGED <<called, deferred, ready, registered, state, pending,
                  callbacks, seq, ids, seqCache, ledger>>
        /\ seen' = seen \cup outbox /\ outbox' = {}
  BY DEF Connect, callVars, lifeVars, txVars, cacheVars
<1>2. Blobs'
  BY <1>1 DEF SafetyInv, Blobs, TakenBeforeSent, Superseded, LedgerFaithful,
              IdsTracked, AtMostOnce
<1>. QED BY <1>1, <1>2, CallsFrame, OutcomesFrame DEF SafetyInv

LEMMA LedgerGrowsSafety ==
  ASSUME SafetyInv, NEW e \in Applicable, LedgerClosed(<<e>>)
  PROVE  CallsOrdered' /\ Blobs' /\ Outcomes'
<1>1. UNCHANGED <<called, deferred, ready, registered, state, pending,
                  callbacks, seq, ids, seqCache, outbox, seen>>
  BY DEF LedgerClosed, callVars, lifeVars, cacheVars
<1>2. ledger' = Append(ledger, e)
  <2>1. ledger \in Seq(Entries) /\ e \in Entries
    BY ApplicableType DEF SafetyInv, TypeInv, TypeOK, NetworkOK
  <2>2. ledger' = ledger \o <<e>> BY DEF LedgerClosed
  <2>. QED BY <2>1, <2>2
<1>. QED BY <1>1, <1>2, LedgerGrows, CallsFrame DEF SafetyInv

LEMMA NoticesSafety ==
  ASSUME SafetyInv,
         \/ \E i \in notices : DeliverNotice(i)
         \/ \E S \in Histories : HistoryLoaded(S)
  PROVE  CallsOrdered' /\ Blobs' /\ Outcomes'
<1>1. \E S \in SUBSET (1..Len(ledger)) : Received(S)
  <2>1. notices \subseteq 1..Len(ledger)
    BY DEF SafetyInv, TypeInv, TypeOK, NetworkOK
  <2>. QED BY <2>1, HistoriesType DEF DeliverNotice, HistoryLoaded
<1>2. UNCHANGED <<callVars, txVars, outbox, seen, ledger>>
  BY DEF DeliverNotice, HistoryLoaded, netVars
<1>. QED BY <1>1, <1>2, ReceivedSafety

-----------------------------------------------------------------------------
(* The theorems.                                                             *)

LEMMA SafetyNext ==
  ASSUME SafetyInv, [Next]_vars
  PROVE  SafetyInv'
<1>1. TypeInv' BY TypeNext, TypeStutter DEF SafetyInv
<1>2. CallsOrdered' /\ Blobs' /\ Outcomes'
  <2>1. CASE UserCalls
    BY <2>1, SubmitSafety, SubmitInvalidSafety, AbortSafety DEF UserCalls
  <2>2. CASE RunSubmits
    BY <2>2, SubmitDeferSafety, SubmitIncompleteSafety, SubmitSendSafety
    DEF RunSubmits
  <2>3. CASE RunResubmits BY <2>3, ResubmitSafety DEF RunResubmits
  <2>4. CASE Loaded BY <2>4, SequenceLoadedSafety, FillLoadedSafety DEF Loaded
  <2>5. CASE Answers BY <2>5, AnswersSafety, OtherSafety DEF Answers
  <2>6. CASE Timeouts BY <2>6, OtherSafety DEF Timeouts
  <2>7. CASE Notices BY <2>7, NoticesSafety DEF Notices
  <2>8. CASE LedgerCloses
    BY <2>8, OtherSafety, LedgerGrowsSafety DEF LedgerCloses
  <2>9. CASE LinkChanges
    BY <2>9, OtherSafety, ConnectSafety, NoticesSafety DEF LinkChanges
  <2>10. CASE Loads BY <2>10, OtherSafety DEF Loads
  <2>11. CASE UNCHANGED vars BY <2>11, OtherSafety
  <2>. QED BY <2>1, <2>2, <2>3, <2>4, <2>5, <2>6, <2>7, <2>8, <2>9, <2>10, <2>11,
           ThrownStutters
           DEF Next
<1>. QED BY <1>1, <1>2 DEF SafetyInv

LEMMA SafetyInvariant == Spec => []SafetyInv
<1>1. SafetyInv /\ [Next]_vars => SafetyInv' BY SafetyNext
<1>. QED BY <1>1, SafetyInit, PTL DEF Spec

\* However often a transaction is signed again and resubmitted, the account
\* pays for it at most once.
THEOREM AppliedAtMostOnce == Spec => []AtMostOnce
<1>1. SafetyInv => AtMostOnce BY DEF SafetyInv, Blobs
<1>. QED BY <1>1, SafetyInvariant, PTL

\* Every blob that may still be applied is known to its transaction, so that
\* its validation will be recognised.
THEOREM EveryIdIsTracked == Spec => []IdsTracked
<1>1. SafetyInv => IdsTracked BY DEF SafetyInv, Blobs
<1>. QED BY <1>1, SafetyInvariant, PTL

\* A transaction whose sequence the client has seen consumed is final.
THEOREM WhatIsHeardIsFinal == Spec => []HeardIsFinal
<1>1. SafetyInv => HeardIsFinal BY DEF SafetyInv, Outcomes
<1>. QED BY <1>1, SafetyInvariant, PTL

\* 'success' is never reported of a transaction the ledger does not hold.
THEOREM SuccessIsTrue == Spec => []SuccessIsApplied
<1>1. SafetyInv => SuccessIsApplied BY DEF SafetyInv, Outcomes
<1>. QED BY <1>1, SafetyInvariant, PTL

\* The user's callback runs exactly once for a taken, finalized transaction.
THEOREM CallbackRunsOnce == Spec => []ReportedOnce
<1>1. SafetyInv => ReportedOnce BY DEF SafetyInv, Outcomes
<1>. QED BY <1>1, SafetyInvariant, PTL

\* The queue is exactly the set of sent transactions still in progress.
THEOREM QueueHoldsTheLive == Spec => []QueueIsLive
<1>1. SafetyInv => QueueIsLive BY DEF SafetyInv, Outcomes
<1>. QED BY <1>1, SafetyInvariant, PTL

-----------------------------------------------------------------------------
(* Final transactions are left alone: an action property, so one step of the *)
(* specification from a state of the invariant.                              *)

LEMMA FailSpares ==
  ASSUME TypeOK, NEW t \in Txs, Final(t), NEW u \in Txs, ~Final(u), Fail(u)
  PROVE  state'[t] = state[t]
BY DEF TypeOK, LivesOK, Fail

LEMMA TransmitSpares ==
  ASSUME TypeOK, NEW t \in Txs, NEW u \in Txs, u # t,
         NEW s, NEW f, NEW a, Transmit(u, s, f, a)
  PROVE  ids'[t] = ids[t] /\ attempts'[t] = attempts[t]
BY DEF TypeOK, TransactionsOK, Transmit, TrackId

LEMMA FinalStep ==
  ASSUME SafetyInv, [Next]_vars, NEW t \in Txs, Final(t)
  PROVE  /\ state'[t] = state[t]
         /\ ids'[t] = ids[t] /\ attempts'[t] = attempts[t]
<1> USE DEF SafetyInv, TypeInv
<1>1. CASE UserCalls
  <2>1. UNCHANGED <<ids, attempts>>
    BY <1>1 DEF UserCalls, Submit, SubmitInvalid, Abort, txVars
  <2>2. CASE \E u \in UserTxs, s \in ExplicitSeqs \cup {0} : Submit(u, s)
    BY <2>1, <2>2 DEF Submit, lifeVars
  <2>3. ASSUME NEW u \in UserTxs, SubmitInvalid(u)
        PROVE  state'[t] = state[t]
    <3>1. u \in Txs \ called BY <2>3 DEF SubmitInvalid, UserTxs
    <3>2. u # t BY <3>1 DEF CallsOrdered
    <3>. QED BY <2>3, <3>2 DEF SubmitInvalid, TypeOK, LivesOK
  <2>4. ASSUME NEW u \in UserTxs, Abort(u)
        PROVE  state'[t] = state[t]
    BY <2>4, FailSpares DEF Abort, UserTxs
  <2>. QED BY <1>1, <2>1, <2>2, <2>3, <2>4 DEF UserCalls
<1>2. CASE RunSubmits
  <2>1. CASE SubmitDefer BY <2>1 DEF SubmitDefer, lifeVars, txVars
  <2>2. CASE SubmitIncomplete
    <3>1. Head(ready) \in Txs BY <2>2, FirstUnsent DEF SubmitIncomplete
    <3>. QED BY <2>2, <3>1, FailSpares DEF SubmitIncomplete
  <2>3. CASE SubmitSend
    <3>1. Head(ready) \in Txs BY <2>3, FirstUnsent DEF SubmitSend
    <3>2. Head(ready) # t BY <2>3 DEF SubmitSend
    <3>. QED BY <2>3, <3>1, <3>2, TransmitSpares DEF SubmitSend
  <2>. QED BY <1>2, <2>1, <2>2, <2>3 DEF RunSubmits
<1>3. CASE RunResubmits
  <2>1. PICK w \in due : Resubmit(w) BY <1>3 DEF RunResubmits
  <2>2. w.tx \in Txs BY DEF TypeOK, StreamsOK, Waits
  <2>3. CASE UNCHANGED <<lifeVars, txVars>> BY <2>3 DEF lifeVars, txVars
  <2>4. CASE ~Final(w.tx) /\ Fail(w.tx) /\ UNCHANGED <<ids, attempts>>
    BY <2>2, <2>4, FailSpares
  <2>5. CASE ~Final(w.tx) /\ UNCHANGED lifeVars
               /\ \E s, f, a : Transmit(w.tx, s, f, a)
    <3>1. w.tx # t BY <2>5
    <3>. QED BY <2>2, <2>5, <3>1, TransmitSpares DEF lifeVars
  <2>. QED BY <2>1, <2>3, <2>4, <2>5 DEF Resubmit, Stopped
<1>4. CASE Loaded
  BY <1>4 DEF Loaded, SequenceLoaded, FillLoaded, lifeVars, txVars
<1>5. CASE Answers
  <2>1. UNCHANGED <<ids, attempts>>
    BY <1>5 DEF Answers, AnswerIgnored, AnswerProposed, AnswerFailed,
       AnswerResubmit, AnswerRetry, AnswerRejected, AnswerTooBusy, respFrame,
       txVars
  <2>2. CASE UNCHANGED state BY <2>1, <2>2
  <2>3. CASE \E r \in reqs : /\ ~Final(r.tx)
                             /\ \/ Fail(r.tx)
                                \/ state' = [state EXCEPT ![r.tx] = "pending"]
                                \/ MarkSubmitted(r.tx)
    <3>1. PICK r \in reqs : /\ ~Final(r.tx)
                            /\ \/ Fail(r.tx)
                               \/ state' = [state EXCEPT ![r.tx] = "pending"]
                               \/ MarkSubmitted(r.tx)
      BY <2>3
    <3>2. r.tx \in Txs /\ r.tx # t BY <3>1, StreamTx
    <3>. QED BY <2>1, <3>1, <3>2 DEF Fail, MarkSubmitted, TypeOK, LivesOK
  <2>. QED BY <1>5, <2>2, <2>3
       DEF Answers, AnswerIgnored, AnswerProposed, AnswerFailed,
           AnswerResubmit, AnswerRetry, AnswerRejected, AnswerTooBusy, Heard,
           lifeVars
<1>6. CASE Notices \/ \E S \in Histories : HistoryLoaded(S)
  <2>1. UNCHANGED <<ids, attempts>> /\ \E S : Received(S)
    BY <1>6 DEF Notices, DeliverNotice, HistoryLoaded, txVars
  <2>2. t \notin pending BY DEF Outcomes, QueueIsLive
  <2>. QED BY <2>1, <2>2 DEF Received
<1>7. CASE \/ Timeouts \/ LedgerCloses \/ Loads \/ Subscribed \/ Connect
           \/ \E kept \in 0..loads, lostFills \in SUBSET fills :
                Disconnect(kept, lostFills)
           \/ UNCHANGED vars
  BY <1>7 DEF Timeouts, Timeout, LedgerCloses, LedgerClosed, Loads,
     LoadChanged, Subscribed, Connect, Disconnect, vars, lifeVars, txVars
<1>. QED BY <1>1, <1>2, <1>3, <1>4, <1>5, <1>6, <1>7, ThrownStutters
         DEF Next, LinkChanges

\* "Finalized (e.g. aborted) transactions must stop all activity": no step
\* changes the outcome of a final transaction, signs it or sends it again.
THEOREM FinalStaysQuiet == Spec => FinalIsQuiet
<1>1. SafetyInv /\ [Next]_vars =>
        [\A t \in Txs : Final(t) =>
           /\ state'[t] = state[t]
           /\ ids'[t] = ids[t] /\ attempts'[t] = attempts[t]]_vars
  BY FinalStep
<1>. QED BY <1>1, SafetyInvariant, PTL DEF Spec, FinalIsQuiet

-----------------------------------------------------------------------------
(* With one server, the worry spelled out in requestTimeout: two streams that *)
(* resubmit the same transaction.                                             *)

\* Of the requests, waits, running resubmissions and fills, at most one works
\* on t.
None(S, t) == \A a \in S : a.tx # t
AtMostOneOf(S, t) == \A a, b \in S : a.tx = t /\ b.tx = t => a = b
OneStream(t) ==
  \/ AtMostOneOf(reqs, t) /\ None(waits, t) /\ None(due, t) /\ None(fills, t)
  \/ None(reqs, t) /\ AtMostOneOf(waits, t) /\ None(due, t) /\ None(fills, t)
  \/ None(reqs, t) /\ None(waits, t) /\ AtMostOneOf(due, t) /\ None(fills, t)
  \/ None(reqs, t) /\ None(waits, t) /\ None(due, t) /\ AtMostOneOf(fills, t)

\* One server answers a request once.
AnsweredOnce == \A r \in reqs : r.left =< 1

StreamInv == AnsweredOnce /\ \A t \in Txs : ~Final(t) => OneStream(t)

LEMMA StreamFrame ==
  ASSUME StreamInv, UNCHANGED <<reqs, waits, due, fills>>,
         NEW t \in Txs, ~Final(t)
  PROVE  OneStream(t)'
BY DEF StreamInv, OneStream, None, AtMostOneOf

\* The first request of a transaction is its first stream.
LEMMA SubmitSendStreams ==
  ASSUME NumServers = 1, SafetyInv, StreamInv, SubmitSend, NEW t \in Txs, ~Final(t)
  PROVE  OneStream(t)'
<1> DEFINE u == Head(ready)
<1>1. PICK q : q.tx = u /\ reqs' = reqs \cup {q}
  BY DEF SubmitSend, Transmit
<1>2. UNCHANGED <<waits, due, fills>> BY DEF SubmitSend
<1>3. None(reqs, u) /\ None(waits, u) /\ None(due, u) /\ None(fills, u)
  BY FirstUnsent DEF SubmitSend, SafetyInv, TypeInv, StreamsSent, Sent, None
<1>4. OneStream(t) BY DEF StreamInv
<1>5. CASE t = u BY <1>1, <1>2, <1>3, <1>5 DEF OneStream, None, AtMostOneOf
<1>6. CASE t # u BY <1>1, <1>2, <1>4, <1>6 DEF OneStream, None, AtMostOneOf
<1>. QED BY <1>5, <1>6

\* A running resubmission ends in a request or not at all.
LEMMA ResubmitStreams ==
  ASSUME NumServers = 1, SafetyInv, StreamInv, NEW w \in due, Resubmit(w),
         NEW t \in Txs, ~Final(t)
  PROVE  OneStream(t)'
<1>1. due' = due \ {w} /\ UNCHANGED <<waits, fills>> BY DEF Resubmit
<1>2. OneStream(t) BY DEF StreamInv
<1>3. CASE reqs' = reqs
  BY <1>1, <1>2, <1>3 DEF OneStream, None, AtMostOneOf
<1>4. CASE \E q : q.tx = w.tx /\ reqs' = reqs \cup {q}
  <2>1. PICK q : q.tx = w.tx /\ reqs' = reqs \cup {q} BY <1>4
  <2>2. CASE t = w.tx
    BY <1>1, <1>2, <2>1, <2>2 DEF OneStream, None, AtMostOneOf
  <2>3. CASE t # w.tx
    BY <1>1, <1>2, <2>1, <2>3 DEF OneStream, None, AtMostOneOf
  <2>. QED BY <2>2, <2>3
<1>. QED BY <1>3, <1>4 DEF Resubmit, Transmit

\* The only answer to a request ends its stream.
LEMMA AnswerEnds ==
  ASSUME StreamInv, TypeOK, NEW r \in reqs, NEW event, Answer(r, event)
  PROVE  reqs' = reqs \ {r}
<1>1. r.left = 1 BY DEF Answer, StreamInv, AnsweredOnce, TypeOK, StreamsOK, Requests
<1>. QED BY <1>1 DEF Answer

\* `submitted' starts what it is told to start, and carries on the streams of
\* the transactions that r's transaction fills for.
LEMMA SubmittedStreams ==
  ASSUME SafetyInv, StreamInv, NEW r \in reqs, reqs' = reqs \ {r}, due' = due,
         NEW newFills, NEW newWaits, Submitted(r, newFills, newWaits),
         NEW new, new.tx = r.tx,
         newFills \cup newWaits \subseteq {new}, newFills = {} \/ newWaits = {},
         NEW t \in Txs, ~Final(t)
  PROVE  OneStream(t)'
<1> DEFINE mine == {x \in fills : x.by = r.tx}
           last == {x \in mine : x.left = 1}
<1>1. waits' = waits \cup newWaits \cup {Waiting(x, "fill", 1) : x \in last}
  BY DEF Submitted
<1>2. \E more \in SUBSET {x \in mine : x.left > 1} :
        \/ more = {} /\ fills' = (fills \ mine) \cup newFills
        \/ \E x \in more, g \in FillTxs :
             fills' = (fills \ mine) \cup newFills
                        \cup {Filling(x, g, x.seq + 1, x.left - 1)}
  BY DEF Submitted
<1>3. \E x0 : \A x \in fills' :
        \/ x \in fills \ mine \/ x \in newFills
        \/ x = x0 /\ \E y \in mine : y.left > 1 /\ x.tx = y.tx
  <2>1. CASE fills' = (fills \ mine) \cup newFills BY <2>1
  <2>2. CASE \E x \in mine, g \in FillTxs :
               /\ x.left > 1
               /\ fills' = (fills \ mine) \cup newFills
                             \cup {Filling(x, g, x.seq + 1, x.left - 1)}
    BY <2>2 DEF Filling
  <2>. QED BY <1>2, <2>1, <2>2
<1>4. PICK x0 : \A x \in fills' :
        \/ x \in fills \ mine \/ x \in newFills
        \/ x = x0 /\ \E y \in mine : y.left > 1 /\ x.tx = y.tx
  BY <1>3
<1>5. \A w \in waits' : \/ w \in waits \/ w \in newWaits
                        \/ \E y \in last : w = Waiting(y, "fill", 1)
  BY <1>1
<1>6. OneStream(t) BY DEF StreamInv
<1>7. \A y : Waiting(y, "fill", 1).tx = y.tx BY DEF Waiting
<1>8. CASE t = r.tx
  <2>1. /\ None(waits, t) /\ None(due, t) /\ None(fills, t) /\ AtMostOneOf(reqs, t)
    BY <1>6, <1>8 DEF OneStream, None
  <2>2. None(reqs', t) /\ None(due', t) BY <1>8, <2>1 DEF None, AtMostOneOf
  <2>3. \A x \in fills' : x.tx = t => x \in newFills BY <1>4, <2>1 DEF None
  <2>4. \A w \in waits' : w.tx = t => w \in newWaits BY <1>5, <1>7, <2>1 DEF None
  <2>. QED BY <2>2, <2>3, <2>4 DEF OneStream, None, AtMostOneOf
<1>9. CASE t # r.tx
  <2>1. /\ None(reqs, t) => None(reqs', t)
        /\ AtMostOneOf(reqs, t) => AtMostOneOf(reqs', t)
        /\ None(due, t) => None(due', t)
        /\ AtMostOneOf(due, t) => AtMostOneOf(due', t)
    BY DEF None, AtMostOneOf
  <2>2. CASE None(fills, t)
    <3>1. None(fills', t) BY <1>4, <1>9, <2>2 DEF None
    <3>2. \A w \in waits' : w.tx = t => w \in waits
      BY <1>5, <1>7, <1>9, <2>2 DEF None
    <3>. QED BY <1>6, <2>1, <3>1, <3>2 DEF OneStream, None, AtMostOneOf
  <2>3. CASE \E x \in fills : x.tx = t
    <3>1. PICK x \in fills : x.tx = t BY <2>3
    <3>2. /\ None(reqs, t) /\ None(waits, t) /\ None(due, t)
          /\ \A y \in fills : y.tx = t => y = x
      BY <1>6, <3>1 DEF OneStream, None, AtMostOneOf
    <3>3. \A y \in mine : y.tx = t => y = x BY <3>2
    <3>4. CASE x \in last
      <4>1. None(fills', t) BY <1>4, <1>9, <3>2, <3>4 DEF None
      <4>2. \A w \in waits' : w.tx = t => w = Waiting(x, "fill", 1)
        BY <1>5, <1>7, <1>9, <3>2 DEF None
      <4>. QED BY <2>1, <3>2, <4>1, <4>2 DEF OneStream, AtMostOneOf
    <3>5. CASE x \notin last
      <4>1. None(waits', t) BY <1>5, <1>7, <1>9, <3>2, <3>5 DEF None
      <4>2. AtMostOneOf(fills', t)
        <5>1. CASE x \in mine
          <6>1. \A y \in fills' : y.tx = t => y = x0 BY <1>4, <1>9, <3>2, <5>1
          <6>. QED BY <6>1 DEF AtMostOneOf
        <5>2. CASE x \notin mine
          <6>1. \A y \in fills' : y.tx = t => y = x BY <1>4, <1>9, <3>2, <3>3, <5>2
          <6>. QED BY <6>1 DEF AtMostOneOf
        <5>. QED BY <5>1, <5>2
      <4>. QED BY <2>1, <3>2, <4>1, <4>2 DEF OneStream
    <3>. QED BY <3>4, <3>5
  <2>. QED BY <2>2, <2>3 DEF None
<1>. QED BY <1>8, <1>9

LEMMA AnswersStreams ==
  ASSUME SafetyInv, StreamInv, Answers, NEW t \in Txs, ~Final(t)
  PROVE  OneStream(t)'
<1>1. PICK r \in reqs :
        \/ \E event : AnswerIgnored(r, event)
        \/ AnswerProposed(r) \/ AnswerFailed(r) \/ AnswerRetry(r) \/ AnswerTooBusy(r)
        \/ \E k \in {1, 2} : AnswerResubmit(r, k)
        \/ \E event : AnswerRejected(r, event)
  BY DEF Answers
<1>2. \E event : Answer(r, event)
  BY <1>1 DEF AnswerIgnored, AnswerProposed, AnswerFailed, AnswerRetry,
              AnswerTooBusy, AnswerResubmit, AnswerRejected, Heard
<1>3. reqs' = reqs \ {r}
  BY <1>2, AnswerEnds DEF SafetyInv, TypeInv
<1>4. CASE \E event : AnswerIgnored(r, event)
  <2>1. UNCHANGED <<waits, due, fills>> BY <1>4 DEF AnswerIgnored
  <2>. QED BY <1>3, <2>1 DEF StreamInv, OneStream, None, AtMostOneOf
<1>5. CASE AnswerProposed(r) \/ AnswerFailed(r) \/ \E event : AnswerRejected(r, event)
  <2>1. Submitted(r, {}, {}) /\ due' = due
    BY <1>5 DEF AnswerProposed, AnswerFailed, AnswerRejected, respFrame
  <2>. QED BY <1>3, <2>1, SubmittedStreams
<1>6. CASE AnswerTooBusy(r) \/ \E k \in {1, 2} : AnswerResubmit(r, k)
  <2>1. PICK src, k : Submitted(r, {}, {Waiting(r, src, k)}) /\ due' = due
    BY <1>6 DEF AnswerTooBusy, AnswerResubmit, respFrame
  <2>2. Waiting(r, src, k).tx = r.tx BY DEF Waiting
  <2>. QED BY <1>3, <2>1, <2>2, SubmittedStreams
<1>7. CASE AnswerRetry(r)
  <2>1. Submitted(r, {Filling(r, NoTx, 0, 0)}, {}) /\ due' = due
    BY <1>7 DEF AnswerRetry, respFrame
  <2>2. Filling(r, NoTx, 0, 0).tx = r.tx BY DEF Filling
  <2>. QED BY <1>3, <2>1, <2>2, SubmittedStreams
<1>. QED BY <1>1, <1>4, <1>5, <1>6, <1>7

\* An expired timer turns a request into a wait.
LEMMA TimeoutStreams ==
  ASSUME StreamInv, NEW r \in reqs, Timeout(r), NEW t \in Txs, ~Final(t)
  PROVE  OneStream(t)'
<1>1. /\ reqs' = reqs \ {r} /\ UNCHANGED <<due, fills>>
      /\ waits' \subseteq waits \cup {Waiting(r, "timeout", 3)}
      /\ waits \subseteq waits'
  BY DEF Timeout, MuteRequest, TimeoutWaits
<1>2. Waiting(r, "timeout", 3).tx = r.tx BY DEF Waiting
<1>3. OneStream(t) BY DEF StreamInv
<1>4. CASE t = r.tx
  <2>1. None(waits, t) /\ None(due, t) /\ None(fills, t) /\ AtMostOneOf(reqs, t)
    BY <1>3, <1>4 DEF OneStream, None
  <2>2. None(reqs', t) /\ None(due', t) /\ None(fills', t)
    BY <1>1, <1>4, <2>1 DEF None, AtMostOneOf
  <2>3. AtMostOneOf(waits', t) BY <1>1, <2>1 DEF None, AtMostOneOf
  <2>. QED BY <2>2, <2>3 DEF OneStream
<1>5. CASE t # r.tx
  BY <1>1, <1>2, <1>3, <1>5 DEF OneStream, None, AtMostOneOf
<1>. QED BY <1>4, <1>5

\* A wait counts down, or becomes a running resubmission.
LEMMA CountDownStreams ==
  ASSUME StreamInv, due = {}, CountDown, UNCHANGED <<reqs, fills>>,
         NEW t \in Txs, ~Final(t)
  PROVE  OneStream(t)'
<1>1. OneStream(t) BY DEF StreamInv
<1>2. \A w \in due' : w \in waits /\ w.left = 1 BY DEF CountDown
<1>3. \A w \in waits' : \E v \in waits : v.left > 1 /\ w = Counted(v)
  BY DEF CountDown
<1>4. \A v : Counted(v).tx = v.tx BY DEF Counted
<1>5. CASE None(waits, t)
  <2>1. None(waits', t) /\ None(due', t) BY <1>2, <1>3, <1>4, <1>5 DEF None
  <2>. QED BY <1>1, <2>1 DEF OneStream, None, AtMostOneOf
<1>6. CASE \E v \in waits : v.tx = t
  <2>1. PICK v \in waits : v.tx = t BY <1>6
  <2>2. None(reqs, t) /\ None(fills, t) /\ \A w \in waits : w.tx = t => w = v
    BY <1>1, <2>1 DEF OneStream, None, AtMostOneOf
  <2>3. None(reqs', t) /\ None(fills', t) BY <2>2 DEF None
  <2>4. CASE v.left = 1
    <3>1. None(waits', t) BY <1>3, <1>4, <2>2, <2>4 DEF None
    <3>2. AtMostOneOf(due', t) BY <1>2, <2>2 DEF AtMostOneOf
    <3>. QED BY <2>3, <3>1, <3>2 DEF OneStream
  <2>5. CASE v.left # 1
    <3>1. None(due', t) BY <1>2, <2>2, <2>5 DEF None
    <3>2. \A w \in waits' : w.tx = t => w = Counted(v) BY <1>3, <1>4, <2>2
    <3>3. AtMostOneOf(waits', t) BY <3>2 DEF AtMostOneOf
    <3>. QED BY <2>3, <3>1, <3>3 DEF OneStream
  <2>. QED BY <2>4, <2>5
<1>. QED BY <1>5, <1>6 DEF None

\* A fill goes on with its first transaction, or is given up.
LEMMA FillLoadedStreams ==
  ASSUME StreamInv, NEW x \in fills, NEW v, FillLoaded(x, v), NEW t \in Txs, ~Final(t)
  PROVE  OneStream(t)'
<1>1. UNCHANGED <<reqs, waits, due>> BY DEF FillLoaded
<1>2. \E y : /\ y.tx = x.tx /\ fills' \subseteq (fills \ {x}) \cup {y}
  BY DEF FillLoaded, Filling
<1>. QED BY <1>1, <1>2 DEF StreamInv, OneStream, None, AtMostOneOf

\* Only timers and waits survive a lost link.
LEMMA DisconnectStreams ==
  ASSUME StreamInv, NEW kept, NEW lostFills, Disconnect(kept, lostFills),
         NEW t \in Txs, ~Final(t)
  PROVE  OneStream(t)'
<1>1. /\ reqs' = {Orphaned(r) : r \in {q \in reqs : q.timer}}
      /\ fills' \subseteq fills /\ UNCHANGED <<waits, due>>
  BY DEF Disconnect
<1>2. \A r \in reqs' : \E q \in reqs : r = Orphaned(q) BY <1>1
<1>3. \A q : Orphaned(q).tx = q.tx BY DEF Orphaned
<1>4. None(reqs, t) => None(reqs', t) BY <1>2, <1>3 DEF None
<1>5. AtMostOneOf(reqs, t) => AtMostOneOf(reqs', t)
  BY <1>2, <1>3 DEF AtMostOneOf
<1>. QED BY <1>1, <1>4, <1>5 DEF StreamInv, OneStream, None, AtMostOneOf

LEMMA AnsweredOnceNext ==
  ASSUME NumServers = 1, TypeOK, AnsweredOnce, [Next]_vars
  PROVE  AnsweredOnce'
<1> USE DEF AnsweredOnce
<1>1. \A r \in reqs : r.left \in Nat BY DEF TypeOK, StreamsOK, Requests
<1>2. CASE RunSubmits
  BY <1>2 DEF RunSubmits, SubmitSend, SubmitDefer, SubmitIncomplete, Transmit,
              streamVars
<1>3. CASE RunResubmits
  <2>1. PICK w \in due : Resubmit(w) BY <1>3 DEF RunResubmits
  <2>2. reqs' = reqs \/ \E q : q.left = NumServers /\ reqs' = reqs \cup {q}
    BY <2>1 DEF Resubmit, Transmit
  <2>. QED BY <2>2
<1>4. CASE Answers
  <2>1. PICK r \in reqs : \E event : Answer(r, event)
    BY <1>4 DEF Answers, AnswerIgnored, AnswerProposed, AnswerFailed, AnswerRetry,
                AnswerTooBusy, AnswerResubmit, AnswerRejected, Heard
  <2>2. \A event : Answered(r, event).left = r.left - 1 BY DEF Answered
  <2>. QED BY <1>1, <2>1, <2>2 DEF Answer
<1>5. CASE Timeouts BY <1>5 DEF Timeouts, Timeout, MuteRequest
<1>6. CASE \E kept \in 0..loads, lostFills \in SUBSET fills : Disconnect(kept, lostFills)
  BY <1>6 DEF Disconnect, Orphaned
<1>7. CASE \/ UserCalls \/ Loaded \/ Notices \/ LedgerCloses \/ Loads \/ Subscribed
           \/ Connect \/ \E S \in Histories : HistoryLoaded(S)
           \/ UNCHANGED vars
  <2>1. reqs' = reqs
    BY <1>7 DEF UserCalls, Submit, SubmitInvalid, Abort, Loaded, SequenceLoaded,
       FillLoaded, Notices, DeliverNotice, LedgerCloses, LedgerClosed, Loads,
       LoadChanged, Subscribed, Connect, HistoryLoaded, vars, streamVars
  <2>. QED BY <2>1
<1>. QED BY <1>2, <1>3, <1>4, <1>5, <1>6, <1>7, ThrownStutters
         DEF Next, LinkChanges

LEMMA StreamNext ==
  ASSUME NumServers = 1, SafetyInv, StreamInv, [Next]_vars
  PROVE  StreamInv'
<1>1. ASSUME NEW t \in Txs, ~Final(t) PROVE OneStream(t)'
  <2>1. CASE RunSubmits
    <3>1. CASE SubmitSend BY <1>1, <3>1, SubmitSendStreams
    <3>2. CASE SubmitDefer \/ SubmitIncomplete
      <4>1. UNCHANGED <<reqs, waits, due, fills>>
        BY <3>2 DEF SubmitDefer, SubmitIncomplete, streamVars
      <4>. QED BY <1>1, <4>1, StreamFrame
    <3>. QED BY <2>1, <3>1, <3>2 DEF RunSubmits
  <2>2. CASE RunResubmits BY <1>1, <2>2, ResubmitStreams DEF RunResubmits
  <2>3. CASE Loaded
    <3>1. CASE \E v \in AccountSeqs : SequenceLoaded(v)
      <4>1. UNCHANGED <<reqs, waits, due, fills>>
        BY <3>1 DEF SequenceLoaded, streamVars
      <4>. QED BY <1>1, <4>1, StreamFrame
    <3>2. CASE \E v \in AccountSeqs : \E x \in fills : FillLoaded(x, v)
      BY <1>1, <3>2, FillLoadedStreams
    <3>. QED BY <2>3, <3>1, <3>2 DEF Loaded
  <2>4. CASE Answers BY <1>1, <2>4, AnswersStreams
  <2>5. CASE Timeouts BY <1>1, <2>5, TimeoutStreams DEF Timeouts
  <2>6. CASE LedgerCloses
    <3>1. PICK new : LedgerClosed(new) BY <2>6 DEF LedgerCloses
    <3>2. due = {} /\ UNCHANGED <<reqs, fills>> BY <3>1 DEF LedgerClosed, Quiet
    <3>3. CASE online BY <1>1, <3>1, <3>2, <3>3, CountDownStreams DEF LedgerClosed
    <3>4. CASE ~online BY <1>1, <3>1, <3>2, <3>4, StreamFrame DEF LedgerClosed
    <3>. QED BY <3>3, <3>4
  <2>7. CASE LinkChanges
    <3>1. CASE \E kept \in 0..loads, lostFills \in SUBSET fills :
                 Disconnect(kept, lostFills)
      BY <1>1, <3>1, DisconnectStreams
    <3>2. CASE Subscribed
      <4>1. due = {} /\ CountDown /\ UNCHANGED <<reqs, fills>>
        BY <3>2 DEF Subscribed, Quiet
      <4>. QED BY <1>1, <4>1, CountDownStreams
    <3>3. CASE Connect \/ \E S \in Histories : HistoryLoaded(S)
      <4>1. UNCHANGED <<reqs, waits, due, fills>>
        BY <3>3 DEF Connect, HistoryLoaded, streamVars
      <4>. QED BY <1>1, <4>1, StreamFrame
    <3>. QED BY <2>7, <3>1, <3>2, <3>3 DEF LinkChanges
  <2>8. CASE UserCalls \/ Notices \/ Loads \/ UNCHANGED vars
    <3>1. UNCHANGED <<reqs, waits, due, fills>>
      BY <2>8 DEF UserCalls, Submit, SubmitInvalid, Abort, Notices, DeliverNotice,
                  Loads, LoadChanged, vars, streamVars
    <3>. QED BY <1>1, <3>1, StreamFrame
  <2>. QED BY <2>1, <2>2, <2>3, <2>4, <2>5, <2>6, <2>7, <2>8, ThrownStutters
           DEF Next
<1>2. AnsweredOnce' BY AnsweredOnceNext DEF SafetyInv, TypeInv, StreamInv
<1>3. \A t \in Txs : ~Final(t)' => ~Final(t) BY FinalStep DEF Final
<1>. QED BY <1>1, <1>2, <1>3 DEF StreamInv

LEMMA AtMostOne ==
  ASSUME NEW S, \A a, b \in S : a = b
  PROVE  Cardinality(S) \in {0, 1}
<1>1. CASE S = {} BY <1>1, FS_EmptySet
<1>2. CASE S # {}
  <2>1. PICK a : a \in S BY <1>2
  <2>2. S = {a} BY <2>1
  <2>. QED BY <2>2, FS_Singleton
<1>. QED BY <1>1, <1>2

\* With one server no order of answers, timeouts, lost links and fills makes a
\* second stream of a transaction in progress.
THEOREM OneStreamEach == ASSUME NumServers = 1 PROVE Spec => []SingleStream
<1>1. Init => StreamInv BY DEF Init, StreamInv, AnsweredOnce, OneStream, None, AtMostOneOf
<1>2. SafetyInv /\ StreamInv /\ [Next]_vars => StreamInv' BY StreamNext
<1>3. StreamInv => SingleStream
  <2> SUFFICES ASSUME NEW t \in Txs, OneStream(t) PROVE Streams(t) =< 1
    BY DEF StreamInv, SingleStream
  <2> DEFINE R == {r \in reqs : r.tx = t}
             W == {w \in waits \cup due : w.tx = t}
             X == {x \in fills : x.tx = t}
  <2>1. \/ (\A a, b \in R : a = b) /\ W = {} /\ X = {}
        \/ R = {} /\ (\A a, b \in W : a = b) /\ X = {}
        \/ R = {} /\ W = {} /\ (\A a, b \in X : a = b)
    BY DEF OneStream, None, AtMostOneOf
  <2> HIDE DEF R, W, X
  <2>2. Cardinality(R) + Cardinality(W) + Cardinality(X) =< 1
    BY <2>1, AtMostOne, FS_EmptySet
  <2>. QED BY <2>2 DEF Streams, R, W, X
<1>. QED BY <1>1, <1>2, <1>3, SafetyInvariant, PTL DEF Spec

(*************************************************************************)
(* The refinement: TxManager implements TxLifecycle.                     *)
(*************************************************************************)

LEMMA InitMaps == Init => Lifecycle!Init
<1> SUFFICES ASSUME Init PROVE Lifecycle!Init
  OBVIOUS
<1>1. \A t \in Txs : OutcomeOf(t) = "open" BY DEF Init, OutcomeOf, Final
<1>2. SentTxs = {} BY DEF Init, SentTxs
<1>3. Chain = <<>> BY DEF Init, Chain
<1>. QED BY <1>1, <1>2, <1>3 DEF Init, Lifecycle!Init

-----------------------------------------------------------------------------
(* What each kind of step is at the abstract level.                           *)

LEMMA Stutters ==
  ASSUME UNCHANGED <<ids, callbacks, ledger>>,
         \A t \in Txs : Final(t) \/ Final(t)' => state'[t] = state[t]
  PROVE  UNCHANGED Lifecycle!vars
<1>1. \A t \in Txs : OutcomeOf(t)' = OutcomeOf(t) BY DEF OutcomeOf, Final
<1>2. SentTxs' = SentTxs /\ Chain' = Chain BY DEF SentTxs, Chain
<1>. QED BY <1>1, <1>2 DEF Lifecycle!vars

LEMMA Fails ==
  ASSUME TypeOK, NEW u \in Txs, ~Final(u), Fail(u), UNCHANGED <<ids, ledger>>
  PROVE  Lifecycle!Next
<1> DEFINE outcome == [t \in Txs |-> OutcomeOf(t)]
<1>1. /\ state' = [state EXCEPT ![u] = "failed"]
      /\ callbacks' = [callbacks EXCEPT ![u] = @ + 1]
  BY DEF Fail
<1>2. outcome[u] = "open" BY DEF OutcomeOf
<1>3. outcome' = [outcome EXCEPT ![u] = "failed"]
  BY <1>1 DEF OutcomeOf, Final, TypeOK, LivesOK
<1>4. SentTxs' = SentTxs /\ Chain' = Chain BY DEF SentTxs, Chain
<1>5. Lifecycle!Fail(u) BY <1>1, <1>2, <1>3, <1>4 DEF Lifecycle!Fail
<1>. QED BY <1>5 DEF Lifecycle!Next

LEMMA Refuses ==
  ASSUME TypeOK, NEW u \in Txs, ~Final(u), ids[u] = {},
         state' = [state EXCEPT ![u] = "failed"],
         UNCHANGED <<ids, callbacks, ledger>>
  PROVE  Lifecycle!Next
<1> DEFINE outcome == [t \in Txs |-> OutcomeOf(t)]
<1>1. outcome[u] = "open" /\ u \notin SentTxs BY DEF OutcomeOf, SentTxs
<1>2. outcome' = [outcome EXCEPT ![u] = "failed"]
  BY DEF OutcomeOf, Final, TypeOK, LivesOK
<1>3. SentTxs' = SentTxs /\ Chain' = Chain BY DEF SentTxs, Chain
<1>4. Lifecycle!Refuse(u) BY <1>1, <1>2, <1>3 DEF Lifecycle!Refuse
<1>. QED BY <1>4 DEF Lifecycle!Next

\* Sending a transaction: the first time, or again.
LEMMA Sends ==
  ASSUME TypeOK, NEW u \in Txs, ~Final(u),
         NEW s, NEW f, NEW a, Transmit(u, s, f, a),
         UNCHANGED <<state, callbacks, ledger>>
  PROVE  Lifecycle!Next \/ UNCHANGED Lifecycle!vars
<1> DEFINE outcome == [t \in Txs |-> OutcomeOf(t)]
<1>1. ids'[u] # {} /\ \A t \in Txs \ {u} : ids'[t] = ids[t]
  BY DEF Transmit, TrackId, TypeOK, TransactionsOK
<1>2. SentTxs' = SentTxs \cup {u} BY <1>1 DEF SentTxs
<1>3. outcome' = outcome /\ Chain' = Chain BY DEF OutcomeOf, Final, Chain
<1>4. CASE ids[u] = {}
  <2>1. outcome[u] = "open" /\ u \notin SentTxs BY <1>4 DEF OutcomeOf, SentTxs
  <2>2. Lifecycle!Send(u) BY <1>2, <1>3, <2>1 DEF Lifecycle!Send
  <2>. QED BY <2>2 DEF Lifecycle!Next
<1>5. CASE ids[u] # {}
  <2>1. SentTxs' = SentTxs BY <1>2, <1>5 DEF SentTxs
  <2>. QED BY <1>3, <2>1 DEF Lifecycle!vars
<1>. QED BY <1>4, <1>5

\* Validated transactions: those of them that were in the queue succeed.
LEMMA Validates ==
  ASSUME SafetyInv, NEW S \in SUBSET (1..Len(ledger)), Received(S),
         UNCHANGED <<ids, ledger>>
  PROVE  Lifecycle!Next
<1> DEFINE mine == {t \in pending : \E i \in S : ledger[i] \in ids[t]}
           outcome == [t \in Txs |-> OutcomeOf(t)]
<1> USE DEF SafetyInv, TypeInv
<1>1. /\ state' = [t \in Txs |-> IF t \in mine THEN "validated" ELSE state[t]]
      /\ callbacks' = [t \in Txs |-> IF t \in mine THEN callbacks[t] + 1
                                                   ELSE callbacks[t]]
  BY DEF Received, IsSubmission
<1>2. mine \in SUBSET Txs /\ \A t \in mine : ~Final(t)
  BY DEF TypeOK, LivesOK, Outcomes, QueueIsLive
<1>3. \A t \in mine : outcome[t] = "open" BY <1>2 DEF OutcomeOf
<1>4. ASSUME NEW t \in mine
      PROVE  Lifecycle!Applied(t)
  <2>1. PICK i \in S : ledger[i] \in ids[t] OBVIOUS
  <2>2. ledger[i].tx = t /\ i \in 1..Len(ledger)
    BY <1>2, <2>1 DEF Blobs, Superseded
  <2>3. Len(ledger) \in Nat BY DEF TypeOK, NetworkOK
  <2>4. Chain[i] = t /\ i \in 1..Len(Chain) BY <2>2, <2>3 DEF Chain
  <2>. QED BY <2>4 DEF Lifecycle!Applied
<1>5. outcome' = [t \in Txs |-> IF t \in mine THEN "validated" ELSE outcome[t]]
  BY <1>1 DEF OutcomeOf, Final
<1>6. SentTxs' = SentTxs /\ Chain' = Chain BY DEF SentTxs, Chain
<1>7. Lifecycle!Validate(mine)
  BY <1>1, <1>3, <1>4, <1>5, <1>6 DEF Lifecycle!Validate
<1>. QED BY <1>2, <1>7 DEF Lifecycle!Next

\* The ledger grows by a transaction that was sent and not yet applied.
LEMMA Consumes ==
  ASSUME SafetyInv, SafetyInv', NEW e \in Applicable, LedgerClosed(<<e>>)
  PROVE  Lifecycle!Next
<1> DEFINE n == Len(ledger)
<1>1. UNCHANGED <<state, ids, callbacks>> BY DEF LedgerClosed, lifeVars
<1>2. /\ ledger \in Seq(Entries) /\ e \in Entries /\ n \in Nat
      /\ ledger' = ledger \o <<e>>
  BY ApplicableType DEF SafetyInv, TypeInv, TypeOK, NetworkOK, LedgerClosed
<1>3. /\ Len(ledger') = n + 1 /\ ledger'[n + 1] = e
      /\ \A i \in 1..n : ledger'[i] = ledger[i]
  BY <1>2
<1>4. [t \in Txs |-> OutcomeOf(t)]' = [t \in Txs |-> OutcomeOf(t)]
        /\ SentTxs' = SentTxs
  BY <1>1 DEF OutcomeOf, Final, SentTxs
<1>5. Chain' = Append(Chain, e.tx)
  <2>1. e.tx \in Txs \cup {NoTx} /\ \A i \in 1..n : ledger[i].tx \in Txs \cup {NoTx}
    BY <1>2, LedgerTxs DEF SafetyInv, TypeInv, Entries, Ids
  <2>2. Chain \in Seq(Txs \cup {NoTx}) /\ Len(Chain) = n
    BY <1>2, <2>1 DEF Chain
  <2>3. Append(Chain, e.tx) =
          [i \in 1..(n + 1) |-> IF i = n + 1 THEN e.tx ELSE Chain[i]]
    BY <1>2, <2>1, <2>2
  <2>4. Chain' = [i \in 1..(n + 1) |-> ledger'[i].tx] BY <1>3 DEF Chain
  <2>5. \A i \in 1..n : Chain[i] = ledger'[i].tx BY <1>3 DEF Chain
  <2>. QED BY <1>2, <1>3, <2>3, <2>4, <2>5
<1>6. e.tx = NoTx \/ (e.tx \in SentTxs /\ ~Lifecycle!Applied(e.tx))
  <2> SUFFICES ASSUME e.tx # NoTx
               PROVE  e.tx \in SentTxs /\ ~Lifecycle!Applied(e.tx)
    OBVIOUS
  <2>1. e \in seen /\ e.tx \in Txs
    BY <1>2 DEF Applicable, Foreign, Entries, Ids
  <2>2. e \in ids[e.tx] BY <2>1 DEF SafetyInv, Blobs, IdsTracked
  <2>3. e.tx \in SentTxs BY <2>1, <2>2 DEF SentTxs
  <2>4. ~Lifecycle!Applied(e.tx)
    <3> SUFFICES ASSUME NEW i \in 1..Len(Chain), Chain[i] = e.tx
                 PROVE  FALSE
      BY DEF Lifecycle!Applied
    <3>1. i \in 1..n /\ ledger[i].tx = e.tx BY <1>2 DEF Chain
    <3>2. i \in 1..Len(ledger') /\ n + 1 \in 1..Len(ledger')
      BY <1>2, <1>3, <3>1
    <3>3. ledger'[i].tx = e.tx /\ ledger'[n + 1].tx = e.tx BY <1>3, <3>1
    <3>4. i = n + 1 BY <3>2, <3>3 DEF SafetyInv, Blobs, AtMostOnce
    <3>. QED BY <1>2, <3>1, <3>4
  <2>. QED BY <2>3, <2>4
<1>7. e.tx \in Txs \cup {NoTx} BY <1>2 DEF Entries, Ids
<1>8. Lifecycle!Consume(e.tx)
  BY <1>1, <1>4, <1>5, <1>6 DEF Lifecycle!Consume
<1>. QED BY <1>7, <1>8 DEF Lifecycle!Next

-----------------------------------------------------------------------------
(* Every step maps to a step or a stutter.                                    *)

LEMMA StepMaps ==
  ASSUME SafetyInv, SafetyInv', [Next]_vars
  PROVE  Lifecycle!Next \/ UNCHANGED Lifecycle!vars
<1> USE DEF SafetyInv, TypeInv
<1>1. CASE UserCalls
  <2>1. CASE \E u \in UserTxs, s \in ExplicitSeqs \cup {0} : Submit(u, s)
    BY <2>1, Stutters DEF Submit, lifeVars, netVars
  <2>2. ASSUME NEW u \in UserTxs, SubmitInvalid(u)
        PROVE  Lifecycle!Next
    <3>1. u \in Txs \ called BY <2>2 DEF SubmitInvalid, UserTxs
    <3>2. ids[u] = {} /\ ~Final(u)
      BY <3>1 DEF CallsOrdered, Blobs, TakenBeforeSent
    <3>. QED BY <2>2, <3>1, <3>2, Refuses
             DEF SubmitInvalid, txVars, netVars
  <2>3. ASSUME NEW u \in UserTxs, Abort(u)
        PROVE  Lifecycle!Next
    <3>1. UNCHANGED <<ids, ledger>> /\ ~Final(u) /\ u \in Txs /\ Fail(u)
      BY <2>3 DEF Abort, txVars, netVars, UserTxs
    <3>. QED BY <3>1, Fails
  <2>. QED BY <1>1, <2>1, <2>2, <2>3 DEF UserCalls
<1>2. CASE RunSubmits
  <2>1. CASE SubmitDefer
    BY <2>1, Stutters DEF SubmitDefer, lifeVars, txVars, netVars
  <2>2. CASE SubmitIncomplete
    <3>1. Head(ready) \in Txs BY <2>2, FirstUnsent DEF SubmitIncomplete
    <3>. QED BY <2>2, <3>1, Fails DEF SubmitIncomplete, netVars
  <2>3. CASE SubmitSend
    <3>1. Head(ready) \in Txs BY <2>3, FirstUnsent DEF SubmitSend
    <3>. QED BY <2>3, <3>1, Sends DEF SubmitSend
  <2>. QED BY <1>2, <2>1, <2>2, <2>3 DEF RunSubmits
<1>3. CASE RunResubmits
  <2>1. PICK w \in due : Resubmit(w) BY <1>3 DEF RunResubmits
  <2>2. w.tx \in Txs /\ UNCHANGED ledger
    BY <2>1 DEF TypeOK, StreamsOK, Waits, Resubmit
  <2>3. CASE UNCHANGED <<lifeVars, txVars>>
    BY <2>2, <2>3, Stutters DEF lifeVars, txVars
  <2>4. CASE ~Final(w.tx) /\ Fail(w.tx) /\ UNCHANGED ids
    BY <2>2, <2>4, Fails
  <2>5. CASE ~Final(w.tx) /\ UNCHANGED lifeVars
               /\ \E s, f, a : Transmit(w.tx, s, f, a)
    BY <2>2, <2>5, Sends DEF lifeVars
  <2>. QED BY <2>1, <2>3, <2>4, <2>5 DEF Resubmit, Stopped
<1>4. CASE Loaded
  BY <1>4, Stutters
  DEF Loaded, SequenceLoaded, FillLoaded, lifeVars, txVars, netVars
<1>5. CASE Answers
  <2>1. UNCHANGED <<ids, ledger>>
    BY <1>5 DEF Answers, AnswerIgnored, AnswerProposed, AnswerFailed,
       AnswerResubmit, AnswerRetry, AnswerRejected, AnswerTooBusy, respFrame,
       txVars, netVars
  <2>2. CASE UNCHANGED <<state, callbacks>> BY <2>1, <2>2, Stutters
  <2>3. CASE \E r \in reqs : ~Final(r.tx) /\ Fail(r.tx)
    BY <2>1, <2>3, StreamTx, Fails
  <2>4. CASE /\ UNCHANGED callbacks
             /\ \E r \in reqs : /\ ~Final(r.tx)
                                /\ \/ state' = [state EXCEPT ![r.tx] = "pending"]
                                   \/ MarkSubmitted(r.tx)
    <3>1. PICK r \in reqs : /\ ~Final(r.tx)
                            /\ \/ state' = [state EXCEPT ![r.tx] = "pending"]
                               \/ MarkSubmitted(r.tx)
      BY <2>4
    <3>2. r.tx \in Txs BY StreamTx
    <3>3. \A t \in Txs : Final(t) \/ Final(t)' => state'[t] = state[t]
      BY <3>1, <3>2 DEF Final, MarkSubmitted, TypeOK, LivesOK
    <3>. QED BY <2>1, <2>4, <3>3, Stutters
  <2>. QED BY <1>5, <2>2, <2>3, <2>4
       DEF Answers, AnswerIgnored, AnswerProposed, AnswerFailed,
           AnswerResubmit, AnswerRetry, AnswerRejected, AnswerTooBusy, Heard,
           lifeVars
<1>6. CASE Notices \/ \E S \in Histories : HistoryLoaded(S)
  <2>1. notices \subseteq 1..Len(ledger) BY DEF TypeOK, NetworkOK
  <2>2. \E S \in SUBSET (1..Len(ledger)) : Received(S)
    BY <1>6, <2>1, HistoriesType DEF Notices, DeliverNotice, HistoryLoaded
  <2>3. UNCHANGED <<ids, ledger>>
    BY <1>6 DEF Notices, DeliverNotice, HistoryLoaded, txVars, netVars
  <2>. QED BY <2>2, <2>3, Validates
<1>7. CASE LedgerCloses
  <2>1. CASE LedgerClosed(<<>>)
    <3>1. ledger \in Seq(Entries) /\ ledger' = ledger \o <<>>
      BY <2>1 DEF TypeOK, NetworkOK, LedgerClosed
    <3>2. ledger' = ledger BY <3>1
    <3>. QED BY <2>1, <3>2, Stutters DEF LedgerClosed, lifeVars
  <2>. QED BY <1>7, <2>1, Consumes DEF LedgerCloses
<1>8. CASE \/ Timeouts \/ Loads \/ Subscribed \/ Connect
           \/ \E kept \in 0..loads, lostFills \in SUBSET fills :
                Disconnect(kept, lostFills)
           \/ UNCHANGED vars
  BY <1>8, Stutters DEF Timeouts, Timeout, Loads,
     LoadChanged, Subscribed, Connect, Disconnect, vars, lifeVars, txVars,
     netVars
<1>. QED BY <1>1, <1>2, <1>3, <1>4, <1>5, <1>6, <1>7, <1>8, ThrownStutters
         DEF Next, LinkChanges

\* The manager keeps what the application is promised: outcomes are final and
\* reported once, what succeeded was applied, and nothing is applied twice.
THEOREM ManagerImplementsLifecycle == Spec => ImplementsLifecycle
<1>1. Init => Lifecycle!Init BY InitMaps
<1>2. SafetyInv /\ SafetyInv' /\ [Next]_vars => [Lifecycle!Next]_Lifecycle!vars
  BY StepMaps
<1>. QED
  BY <1>1, <1>2, SafetyInvariant, PTL DEF Spec, ImplementsLifecycle,
     Lifecycle!Spec

-----------------------------------------------------------------------------
(* Restarts.  A restarted process has forgotten which sequences and IDs it      *)
(* knew to be consumed, and applies a transaction twice (AtMostOnce fails);     *)
(* what the storage kept is enough for these.                                   *)

OwnIds == \A t \in Txs : \A id \in ids[t] : id.tx = t

SavedType == savedFee \in [Txs -> Fees \cup {NoTx}]
RestartInv ==
  /\ TypeInv /\ OwnIds /\ IdsTracked /\ SuccessIsApplied /\ IsFiniteSet(pending)
  /\ SavedType

\* Steps that send nothing, hear of nothing validated, and queue nothing.
LEMMA RestartFrame ==
  ASSUME OwnIds /\ IdsTracked /\ SuccessIsApplied /\ IsFiniteSet(pending),
         UNCHANGED <<ids, seen, outbox, ledger>>, pending' \subseteq pending,
         \A t \in Txs : state'[t] = "validated" => state[t] = "validated"
  PROVE  OwnIds' /\ IdsTracked' /\ SuccessIsApplied' /\ IsFiniteSet(pending')
<1>1. IsFiniteSet(pending') BY FS_Subset
<1>. QED BY <1>1 DEF OwnIds, IdsTracked, SuccessIsApplied

\* A transaction is signed and sent: the ID is its own and tracked.
LEMMA RestartSends ==
  ASSUME RestartInv, NEW t \in Txs, NEW s, NEW f, NEW a, Transmit(t, s, f, a),
         UNCHANGED <<state, ledger>>, pending' \subseteq pending \cup {t}
  PROVE  OwnIds' /\ IdsTracked' /\ SuccessIsApplied' /\ IsFiniteSet(pending')
<1>. DEFINE new == [tx |-> t, seq |-> s, fee |-> f]
<1>1. /\ ids' = [ids EXCEPT ![t] = @ \cup {new}]
      /\ seen' \cup outbox' = seen \cup outbox \cup {new}
  BY DEF Transmit, TrackId
<1>2. new.tx = t OBVIOUS
<1>. HIDE DEF new
<1>3. ids \in [Txs -> SUBSET Ids] /\ seen \cup outbox \subseteq Ids
  BY DEF RestartInv, TypeInv, TypeOK, TransactionsOK, NetworkOK
<1>4. OwnIds' BY <1>1, <1>2, <1>3 DEF RestartInv, OwnIds
<1>5. IdsTracked'
  <2>1. \A id \in seen \cup outbox : id.tx \in Txs BY <1>3 DEF Ids
  <2>. QED BY <1>1, <1>2, <1>3, <2>1 DEF RestartInv, IdsTracked
<1>6. SuccessIsApplied' BY DEF RestartInv, SuccessIsApplied
<1>7. IsFiniteSet(pending')
  <2>1. IsFiniteSet(pending \cup {t}) BY FS_AddElement DEF RestartInv
  <2>. QED BY <2>1, FS_Subset
<1>. QED BY <1>4, <1>5, <1>6, <1>7

\* What is heard to be validated is in the ledger, under an ID of its own.
LEMMA RestartReceives ==
  ASSUME RestartInv, NEW S \in SUBSET (1..Len(ledger)), Received(S),
         UNCHANGED <<ids, seen, outbox, ledger>>
  PROVE  OwnIds' /\ IdsTracked' /\ SuccessIsApplied' /\ IsFiniteSet(pending')
<1>. DEFINE mine == {t \in pending : \E i \in S : IsSubmission(t, ledger[i])}
<1>1. /\ state' = [t \in Txs |-> IF t \in mine THEN "validated" ELSE state[t]]
      /\ pending' = pending \ mine
  BY DEF Received
<1>2. \A t \in mine : t \in pending /\ \E i \in S : ledger[i] \in ids[t]
  BY DEF IsSubmission
<1>. HIDE DEF mine
<1>3. IsFiniteSet(pending')
  BY <1>1, FS_Subset DEF RestartInv
<1>4. ASSUME NEW t \in Txs, state'[t] = "validated"
      PROVE  \E i \in 1..Len(ledger) : ledger[i].tx = t
  <2>1. CASE t \in mine
    <3>1. PICK i \in S : ledger[i] \in ids[t] BY <1>2, <2>1
    <3>. QED BY <3>1 DEF RestartInv, OwnIds
  <2>2. CASE t \notin mine
    BY <1>1, <1>4, <2>2 DEF RestartInv, SuccessIsApplied
  <2>. QED BY <2>1, <2>2
<1>5. SuccessIsApplied' BY <1>4 DEF SuccessIsApplied
<1>. QED BY <1>3, <1>5 DEF RestartInv, OwnIds, IdsTracked

LEMMA RestartCloses ==
  ASSUME RestartInv, NEW new \in Seq(Entries), LedgerClosed(new)
  PROVE  OwnIds' /\ IdsTracked' /\ SuccessIsApplied' /\ IsFiniteSet(pending')
<1>1. /\ ledger \in Seq(Entries) /\ ledger' = ledger \o new
      /\ UNCHANGED <<ids, seen, outbox, state, pending>>
  BY DEF RestartInv, TypeInv, TypeOK, NetworkOK, LedgerClosed, lifeVars
<1>2. \A i \in 1..Len(ledger) : i \in 1..Len(ledger') /\ ledger'[i] = ledger[i]
  BY <1>1
<1>3. SuccessIsApplied' BY <1>1, <1>2 DEF RestartInv, SuccessIsApplied
<1>. QED BY <1>1, <1>3 DEF RestartInv, OwnIds, IdsTracked

LEMMA RestartNextKeeps ==
  ASSUME RestartInv, [Next]_vars
  PROVE  OwnIds' /\ IdsTracked' /\ SuccessIsApplied' /\ IsFiniteSet(pending')
<1> USE DEF RestartInv, TypeInv
<1>. DEFINE Kept == OwnIds' /\ IdsTracked' /\ SuccessIsApplied' /\ IsFiniteSet(pending')
<1>0. /\ state \in [Txs -> States] /\ notices \subseteq 1..Len(ledger)
      /\ ready \in Seq(Txs)
  BY DEF TypeOK, LivesOK, NetworkOK, CallsOK
<1>1. CASE UserCalls
  <2>1. /\ UNCHANGED <<ids, seen, outbox, ledger>> /\ pending' \subseteq pending
        /\ \A t \in Txs : state'[t] = "validated" => state[t] = "validated"
    BY <1>0, <1>1 DEF UserCalls, Submit, SubmitInvalid, Abort, Fail, UserTxs, lifeVars,
                      txVars, netVars
  <2>. QED BY <2>1, RestartFrame
<1>2. CASE RunSubmits
  <2>1. CASE SubmitDefer \/ SubmitIncomplete
    <3>1. /\ UNCHANGED <<ids, seen, outbox, ledger>> /\ pending' \subseteq pending
          /\ \A t \in Txs : state'[t] = "validated" => state[t] = "validated"
      BY <1>0, <2>1 DEF SubmitDefer, SubmitIncomplete, Fail, lifeVars, txVars, netVars
    <3>. QED BY <3>1, RestartFrame
  <2>2. CASE SubmitSend
    <3>1. Head(ready) \in Txs BY <1>0, <2>2 DEF SubmitSend
    <3>. QED BY <2>2, <3>1, RestartSends DEF SubmitSend
  <2>. QED BY <1>2, <2>1, <2>2 DEF RunSubmits
<1>3. CASE RunResubmits
  <2>1. PICK w \in due : Resubmit(w) BY <1>3 DEF RunResubmits
  <2>2. w.tx \in Txs /\ UNCHANGED ledger
    BY <2>1 DEF TypeOK, StreamsOK, Waits, Resubmit
  <2>3. CASE UNCHANGED <<lifeVars, txVars, reqs, outbox, seen>>
    BY <2>2, <2>3, RestartFrame DEF lifeVars, txVars
  <2>4. CASE Fail(w.tx) /\ UNCHANGED <<ids, outbox, seen>>
    <3>1. /\ pending' \subseteq pending
          /\ \A t \in Txs : state'[t] = "validated" => state[t] = "validated"
      BY <1>0, <2>4 DEF Fail
    <3>. QED BY <2>2, <2>4, <3>1, RestartFrame
  <2>5. CASE UNCHANGED lifeVars /\ \E s, f, a : Transmit(w.tx, s, f, a)
    <3>1. UNCHANGED state /\ pending' \subseteq pending \cup {w.tx}
      BY <2>5 DEF lifeVars
    <3>. QED BY <2>2, <2>5, <3>1, RestartSends
  <2>. QED BY <2>1, <2>3, <2>4, <2>5 DEF Resubmit, Stopped
<1>4. CASE Loaded
  BY <1>4, RestartFrame
  DEF Loaded, SequenceLoaded, FillLoaded, lifeVars, txVars, netVars
<1>5. CASE Answers
  <2>1. UNCHANGED <<ids, seen, outbox, ledger>>
    BY <1>5 DEF Answers, AnswerIgnored, AnswerProposed, AnswerFailed,
       AnswerResubmit, AnswerRetry, AnswerRejected, AnswerTooBusy, respFrame,
       txVars, netVars
  <2>2. \/ UNCHANGED <<state, pending>>
        \/ \E r \in reqs : \/ Fail(r.tx)
                           \/ /\ UNCHANGED pending
                              /\ \/ state' = [state EXCEPT ![r.tx] = "pending"]
                                 \/ MarkSubmitted(r.tx)
    BY <1>5
    DEF Answers, AnswerIgnored, AnswerProposed, AnswerFailed, AnswerResubmit,
        AnswerRetry, AnswerRejected, AnswerTooBusy, lifeVars
  <2>3. /\ pending' \subseteq pending
        /\ \A t \in Txs : state'[t] = "validated" => state[t] = "validated"
    BY <1>0, <2>2 DEF Fail, MarkSubmitted
  <2>. QED BY <2>1, <2>3, RestartFrame
<1>6. CASE Notices \/ \E S \in Histories : HistoryLoaded(S)
  <2>1. \E S \in SUBSET (1..Len(ledger)) : Received(S)
    BY <1>0, <1>6, HistoriesType DEF Notices, DeliverNotice, HistoryLoaded
  <2>2. UNCHANGED <<ids, seen, outbox, ledger>>
    BY <1>6 DEF Notices, DeliverNotice, HistoryLoaded, txVars, netVars
  <2>. QED BY <2>1, <2>2, RestartReceives
<1>7. CASE LedgerCloses
  <2>1. <<>> \in Seq(Entries) /\ \A e \in Applicable : <<e>> \in Seq(Entries)
    BY ApplicableType
  <2>. QED BY <1>7, <2>1, RestartCloses DEF LedgerCloses
<1>8. CASE \/ Timeouts \/ Loads \/ Subscribed
           \/ \E kept \in 0..loads, lostFills \in SUBSET fills :
                Disconnect(kept, lostFills)
           \/ UNCHANGED vars
  <2>1. UNCHANGED <<ids, seen, outbox, ledger, state, pending>>
    BY <1>8 DEF Timeouts, Timeout, Loads, LoadChanged, Subscribed, Disconnect, vars,
       lifeVars, txVars, netVars
  <2>. QED BY <2>1, RestartFrame
<1>9. CASE Connect
  <2>1. /\ UNCHANGED <<ids, ledger, state, pending>>
        /\ seen' \cup outbox' = seen \cup outbox
    BY <1>9 DEF Connect, lifeVars, txVars
  <2>. QED BY <2>1 DEF OwnIds, IdsTracked, SuccessIsApplied
<1>. QED BY <1>1, <1>2, <1>3, <1>4, <1>5, <1>6, <1>7, <1>8, <1>9,
            ThrownStutters
         DEF Next, LinkChanges

\* A restart keeps the IDs, the ledger and the outcomes of what had left the
\* queue.
LEMMA RestartKeeps ==
  ASSUME RestartInv, NEW order \in SetToSeqs(Saved), Restart(order)
  PROVE  RestartInv'
<1>1. /\ pending \subseteq Txs /\ IsFiniteSet(pending)
      /\ state \in [Txs -> States] /\ ids \in [Txs -> SUBSET Ids]
  BY DEF RestartInv, TypeInv, TypeOK, LivesOK, TransactionsOK
<1>2. order \in Seq(Txs)
  <2>1. order \in [1..Cardinality(pending) -> pending] BY DEF SetToSeqs, Saved
  <2>2. Cardinality(pending) \in Nat BY <1>1, FS_CardinalityType
  <2>. QED BY <1>1, <2>1, <2>2
<1>3. /\ UNCHANGED <<ids, seen, ledger, callbacks, seq, serverFee, called, drops,
                     savedFee>>
      /\ outbox' = {} /\ pending' = {} /\ reqs' = {} /\ waits' = {} /\ due' = {}
      /\ fills' = {} /\ notices' = {} /\ seqCache' = {} /\ idCache' = {}
      /\ online' = TRUE /\ rejoin' = FALSE /\ history' = FALSE
      /\ seqKnown' = FALSE /\ nextSeq' = 0 /\ loads' = 1
      /\ ready' = order /\ deferred' = <<>> /\ registered' = registered \ Saved
      /\ state' = [t \in Txs |-> IF t \in Saved THEN "unsubmitted" ELSE state[t]]
      /\ attempts' = [t \in Txs |-> 0] /\ trap' = [t \in Txs |-> FALSE]
      /\ resub' = [t \in Txs |-> 0]
      /\ fee' = [t \in Txs |-> IF t \in Saved THEN savedFee[t] ELSE fee[t]]
  BY DEF Restart
<1>. USE DEF RestartInv, TypeInv, TypeOK
<1>4. FlagsOK' /\ CountersOK'
  <2>1. FlagsOK' BY <1>3 DEF FlagsOK
  <2>2. CountersOK' BY <1>3 DEF CountersOK
  <2>. QED BY <2>1, <2>2
<1>5. CallsOK' BY <1>2, <1>3 DEF CallsOK
<1>6. LivesOK' BY <1>1, <1>3 DEF LivesOK, States
<1>7. TransactionsOK' /\ SavedType' BY <1>3 DEF TransactionsOK, SavedType
<1>8. StreamsOK' /\ NetworkOK' BY <1>3 DEF StreamsOK, NetworkOK
<1>9. StreamsSent' BY <1>3 DEF StreamsSent, Sent
<1>10. OwnIds' /\ IdsTracked' BY <1>3 DEF OwnIds, IdsTracked
<1>11. SuccessIsApplied' BY <1>3 DEF SuccessIsApplied
<1>12. IsFiniteSet(pending') BY <1>3, FS_EmptySet
<1>. QED BY <1>4, <1>5, <1>6, <1>7, <1>8, <1>9, <1>10, <1>11, <1>12

LEMMA RestartInvariant == RestartSpec => []RestartInv
<1>1. RestartInit => RestartInv
  <2>. SUFFICES ASSUME RestartInit PROVE RestartInv OBVIOUS
  <2>. USE DEF RestartInit
  <2>1. TypeInv BY TypeInit
  <2>2. OwnIds /\ IdsTracked /\ SuccessIsApplied
    BY DEF Init, OwnIds, IdsTracked, SuccessIsApplied
  <2>3. IsFiniteSet(pending) BY FS_EmptySet DEF Init
  <2>. QED BY <2>1, <2>2, <2>3 DEF RestartInv, SavedType, RestartInit
<1>2. RestartInv /\ [RestartNext]_restartVars => RestartInv'
  <2>. SUFFICES ASSUME RestartInv, [RestartNext]_restartVars PROVE RestartInv'
    OBVIOUS
  <2>1. CASE [Next]_vars /\ (Save \/ UNCHANGED savedFee)
    <3>1. TypeInv' BY <2>1, TypeNext, TypeStutter DEF RestartInv
    <3>2. fee' \in [Txs -> Fees \cup {NoTx}]
      BY <3>1 DEF TypeInv, TypeOK, TransactionsOK
    <3>3. SavedType' BY <2>1, <3>2 DEF RestartInv, SavedType, Save
    <3>. QED BY <2>1, <3>1, <3>3, RestartNextKeeps DEF RestartInv
  <2>2. CASE \E order \in SetToSeqs(Saved) : Restart(order) BY <2>2, RestartKeeps
  <2>. QED BY <2>1, <2>2 DEF RestartNext, restartVars
<1>. QED BY <1>1, <1>2, PTL DEF RestartSpec

\* However often the process restarts and submits what it had saved, `success'
\* is told of a transaction only if the ledger holds it.
THEOREM SuccessSurvives == RestartSpec => []SuccessIsApplied
<1>1. RestartInv => SuccessIsApplied BY DEF RestartInv
<1>. QED BY <1>1, RestartInvariant, PTL

\* Whatever blob is on the network or about to be, its ID is among the
\* submittedIDs that were saved with its transaction, in every later process.
THEOREM IdsSurvive == RestartSpec => []IdsTracked
<1>1. RestartInv => IdsTracked BY DEF RestartInv
<1>. QED BY <1>1, RestartInvariant, PTL
=============================================================================
