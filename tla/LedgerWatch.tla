----------------------------- MODULE LedgerWatch -----------------------------
(* How a client follows the ledger, and how TransactionManager tells an      *)
(* application that a transaction is `missing' or `lost'.                    *)
(*                                                                           *)
(* Remote keeps one ledger index for all its servers.  It moves when a       *)
(* server announces a ledger and when a server answers the subscribe request *)
(* of a new connection.  TransactionManager compares it, by equality, with   *)
(* the index at the last submission, in a listener it removes when the       *)
(* client disconnects and registers again when the account's history has     *)
(* been answered.                                                            *)
(*                                                                           *)
(* Submissions, their outcome and what triggers them are module TxManager;   *)
(* here they happen at any time the code allows.                             *)
EXTENDS Naturals, FiniteSets

CONSTANTS
  Servers,
  Txs,        \* transactions of one account
  MaxLedger,  \* bound: ledgers the network closes
  MaxSkips,   \* bound: ledgers a server closes without announcing them
  MaxDrops,   \* bound: sockets lost
  MaxFlaps,   \* bound: status messages that take a server offline
  MaxSends    \* bound: submissions of a transaction

ASSUME WatchAssumption ==
  /\ MaxLedger \in Nat \ {0} /\ MaxSkips \in Nat /\ MaxDrops \in Nat
  /\ MaxFlaps \in Nat /\ MaxSends \in Nat

VARIABLES
  tip,         \* the network's last closed ledger
  pos,         \* the last ledger each server has announced
  link,        \* each connection: "down", "open" (subscribe request not yet
               \* answered), "idle" (answered, not online), "up"
  drops, flaps, skips, \* bound counters
  current,     \* Remote._ledger_current_index; 0 is undefined
  rejoin,      \* once('connect', remoteReconnected) is registered
  history,     \* account_tx requests each server has not answered
  watching,    \* how often updatePendingStatus listens to 'ledger_closed'
  known,       \* the account sequence is known: transactions can be sent
  phase,       \* of each transaction: "new", "pending", "final"
  submitIndex, \* Transaction.submitIndex; 0 is undefined
  sends,       \* bound counter
  missing, lost \* events since the last submission

netVars   == <<tip, pos, link, drops, flaps, skips>>
watchVars == <<rejoin, history, watching>>
txVars    == <<known, phase, submitIndex, sends>>
vars == <<netVars, current, watchVars, txVars, missing, lost>>

Online == \E s \in Servers : link[s] = "up"
Alone(s) == \A r \in Servers \ {s} : link[r] # "up"

\* Values of the variables; the client's index is one a server told it.
TypeOK ==
  /\ tip \in 1..MaxLedger /\ pos \in [Servers -> 0..tip]
  /\ link \in [Servers -> {"down", "open", "idle", "up"}]
  /\ drops \in 0..MaxDrops /\ flaps \in 0..MaxFlaps /\ skips \in 0..MaxSkips
  /\ current \in {0} \cup 2..(tip + 1)
  /\ rejoin \in BOOLEAN /\ history \in [Servers -> Nat] /\ watching \in Nat
  /\ known \in BOOLEAN /\ phase \in [Txs -> {"new", "pending", "final"}]
  /\ submitIndex \in [Txs -> 0..current]
  /\ sends \in [Txs -> 0..MaxSends]
  /\ missing \in [Txs -> Nat] /\ lost \in [Txs -> Nat]

Init ==
  /\ tip = 1 /\ pos \in [Servers -> 0..1]
  /\ link = [s \in Servers |-> "down"]
  /\ drops = 0 /\ flaps = 0 /\ skips = 0
  /\ current = 0
  /\ rejoin = FALSE /\ history = [s \in Servers |-> 0] /\ watching = 1
  /\ known = FALSE /\ phase = [t \in Txs |-> "new"]
  /\ submitIndex = [t \in Txs |-> 0]
  /\ sends = [t \in Txs |-> 0]
  /\ missing = [t \in Txs |-> 0] /\ lost = [t \in Txs |-> 0]

-----------------------------------------------------------------------------
(* What the events share.                                                  *)

\* updatePendingStatus, once per registration: the queued transactions last
\* submitted exactly 4 (8) ledgers before.
Due(t, index, n) ==
  t \in Txs /\ phase[t] = "pending" /\ submitIndex[t] # 0
    /\ index = submitIndex[t] + n

Emit(index) ==
  /\ missing' = [t \in Txs |->
       missing[t] + IF Due(t, index, 4) THEN watching ELSE 0]
  /\ lost' = [t \in Txs |-> lost[t] + IF Due(t, index, 8) THEN watching ELSE 0]

\* Slip: the index of the closed ledger, not of the current one.
AnnounceClosed(index) == current' = index /\ Emit(index)

\* Remote 'ledger_closed'.
Announce(index) == current' = index + 1 /\ Emit(index)

Silent == UNCHANGED <<current, missing, lost>>

\* Slip: reconnecting with an empty queue asks for nothing.
AsksIfPending == rejoin /\ \E t \in Txs : phase[t] = "pending"

\* remoteReconnected is registered and asks for the account's history.  (Its
\* early return for an empty queue never happens: _pending.length is a
\* function.)
Asks == rejoin

\* Server s comes online; if it is the first, Remote emits 'connect' and s is
\* asked for the account's history.
Connects(s) ==
  IF Online
  THEN UNCHANGED <<rejoin, history>>
  ELSE /\ rejoin' = FALSE
       /\ history' = [history EXCEPT ![s] = @ + IF Asks THEN 1 ELSE 0]

\* Slip: the listener is not removed.
StillWatching == watching

\* removeListener: one registration less.
Unwatched == IF watching = 0 THEN 0 ELSE watching - 1

\* Server s goes offline; if it was the last, Remote emits 'disconnect'.
Disconnects(s) ==
  IF link[s] = "up" /\ Alone(s)
  THEN rejoin' = TRUE /\ watching' = Unwatched
  ELSE UNCHANGED <<rejoin, watching>>

-----------------------------------------------------------------------------
(* The network and the servers.                                            *)

CloseLedger ==
  /\ tip < MaxLedger /\ tip' = tip + 1
  /\ UNCHANGED <<pos, link, drops, flaps, skips, current, watchVars, txVars,
                 missing, lost>>

\* The socket opens and the subscribe request is sent.
OpenSocket(s) ==
  /\ link[s] = "down"
  /\ link' = [link EXCEPT ![s] = "open"]
  /\ UNCHANGED <<tip, pos, drops, flaps, skips, current, watchVars, txVars,
                 missing, lost>>

\* The subscribe request is answered, with the last ledger of the server if it
\* has one: the index is set to it whatever it was.  The server is online if
\* its status says so; the answer is handled before 'connect'.
Subscribed(s, index, status) ==
  /\ link[s] = "open"
  /\ index \in pos[s]..tip
  /\ pos' = [pos EXCEPT ![s] = index]
  /\ IF index > 0 THEN Announce(index) ELSE Silent
  /\ link' = [link EXCEPT ![s] = status]
  /\ IF status = "up" THEN Connects(s)
                      ELSE UNCHANGED <<rejoin, history>>
  /\ UNCHANGED <<tip, drops, flaps, skips, watching, txVars>>

\* Slip: the next ledger is taken for an old one.
AdvancesPast(index) == current # 0 /\ index > current

\* The index is not behind the client's (and comparing with undefined fails).
Advances(index) == current # 0 /\ index >= current

\* A server announces a ledger: its next, unless it skips some.
LedgerClosed(s, index) ==
  /\ link[s] \in {"idle", "up"}
  /\ index \in (pos[s] + 1)..tip
  /\ skips' = skips + index - pos[s] - 1 /\ skips' <= MaxSkips
  /\ pos' = [pos EXCEPT ![s] = index]
  /\ IF Advances(index) THEN Announce(index) ELSE Silent
  /\ UNCHANGED <<tip, link, drops, flaps, watchVars, txVars>>

\* serverStatus: the server can serve, or no longer can; the socket stays open.
StatusOnline(s) ==
  /\ link[s] = "idle"
  /\ link' = [link EXCEPT ![s] = "up"]
  /\ Connects(s)
  /\ UNCHANGED <<tip, pos, drops, flaps, skips, current, watching, txVars,
                 missing, lost>>

StatusOffline(s) ==
  /\ link[s] = "up" /\ flaps < MaxFlaps /\ flaps' = flaps + 1
  /\ link' = [link EXCEPT ![s] = "idle"]
  /\ Disconnects(s)
  /\ UNCHANGED <<tip, pos, drops, skips, current, history, txVars, missing,
                 lost>>

\* The socket is lost, and the answers still to come with it.
Drop(s) ==
  /\ link[s] # "down" /\ drops < MaxDrops /\ drops' = drops + 1
  /\ link' = [link EXCEPT ![s] = "down"]
  /\ Disconnects(s)
  /\ history' = [history EXCEPT ![s] = 0]
  /\ UNCHANGED <<tip, pos, flaps, skips, current, txVars, missing, lost>>

-----------------------------------------------------------------------------
(* The account.                                                            *)

\* account_tx is answered, or fails: the transactions found are final, and
\* updatePendingStatus listens again.
HistoryAnswered(s, found) ==
  /\ link[s] \in {"idle", "up"} /\ history[s] > 0
  /\ history' = [history EXCEPT ![s] = @ - 1]
  /\ watching' = watching + 1
  /\ found \subseteq {t \in Txs : phase[t] = "pending"}
  /\ phase' = [t \in Txs |-> IF t \in found THEN "final" ELSE phase[t]]
  /\ UNCHANGED <<netVars, current, rejoin, known, submitIndex,
                 sends, missing, lost>>

SequenceLoaded ==
  /\ Online /\ ~known /\ known' = TRUE
  /\ UNCHANGED <<netVars, current, watchVars, phase, submitIndex,
                 sends, missing, lost>>

\* A (re)submission: the request goes out at once, or on 'connect'; the index
\* noted is the one of now.
Send(t) ==
  /\ known /\ phase[t] # "final"
  /\ sends[t] < MaxSends /\ sends' = [sends EXCEPT ![t] = @ + 1]
  /\ phase' = [phase EXCEPT ![t] = "pending"]
  /\ submitIndex' = [submitIndex EXCEPT ![t] = current]
  /\ missing' = [missing EXCEPT ![t] = 0] /\ lost' = [lost EXCEPT ![t] = 0]
  /\ UNCHANGED <<netVars, current, watchVars, known>>

\* An outcome, or abort(): the transaction leaves the queue.
Finish(t) ==
  /\ phase[t] = "pending"
  /\ phase' = [phase EXCEPT ![t] = "final"]
  /\ UNCHANGED <<netVars, current, watchVars, known, submitIndex,
                 sends, missing, lost>>

-----------------------------------------------------------------------------

Links ==
  \E s \in Servers :
    \/ OpenSocket(s) \/ StatusOnline(s) \/ StatusOffline(s) \/ Drop(s)
    \/ \E index \in 0..tip, status \in {"idle", "up"} :
         Subscribed(s, index, status)
    \/ \E found \in SUBSET Txs : HistoryAnswered(s, found)

Ledgers == CloseLedger \/ \E s \in Servers, i \in 1..tip : LedgerClosed(s, i)

Next == \/ Links \/ Ledgers \/ SequenceLoaded
        \/ \E t \in Txs : Send(t) \/ Finish(t)

Spec == Init /\ [][Next]_vars

(* Ledgers close and each server's announcements reach the client.          *)
FairSpec == Spec /\ WF_vars(Ledgers)

-----------------------------------------------------------------------------
(* Properties.                                                             *)

\* With one server: updatePendingStatus listens whenever the client is online,
\* unless the history it waits for is still to come; offline, the listener
\* that will ask for it is registered, or nothing was removed.  However the
\* link drops while answers are in flight, nobody has to submit again for
\* `missing' and `lost' to work.
WatchRestored ==
  watching = 0 => rejoin \/ \E s \in Servers : link[s] # "down" /\ history[s] > 0

\* With one server, and as long as it keeps its status while the socket is
\* open, an event is told once for each submission: no lost socket, answered
\* history or repeated index doubles it.
ToldOnce == flaps = 0 => \A t \in Txs : missing[t] <= 1 /\ lost[t] <= 1

\* The client was always online once connected, and told of every ledger.
Steady == drops = 0 /\ flaps = 0 /\ skips = 0

\* docs/REFERENCE.md:231 on `lost': "Eight ledgers have closed without detecting
\* validated transaction."  While the link is steady: once the client has
\* followed the ledger to eight indices past the last submission of a queued
\* transaction, it was told.
LostIsTold ==
  Steady => \A t \in Txs :
    phase[t] = "pending" /\ submitIndex[t] # 0 /\ current > submitIndex[t] + 8
      => lost[t] > 0

\* A queued transaction is told lost in the end, resubmitted or finished, if the
\* link stays: the comparison by equality never steps over the eighth ledger.
LostInTheEnd ==
  \A t \in Txs, i \in 2..(MaxLedger - 8) :
    phase[t] = "pending" /\ submitIndex[t] = i
      ~> lost[t] > 0 \/ phase[t] = "final" \/ submitIndex[t] # i \/ ~Steady
=============================================================================
