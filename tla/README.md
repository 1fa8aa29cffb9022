# A verification project for payshares-lib

payshares-lib is the JavaScript client of a ledger network (a rippled fork).  An
application holds a `Remote`, which keeps WebSocket connections to several
servers, sends requests, follows the ledger and submits transactions.  These
modules model the parts of the library that keep state between events and say,
as properties that TLC checks and theorems that TLAPS proves, what those parts
promise.

Paths below are relative to `src/js/ripple/` of the repository unless they name
another directory.  `tm` stands for `transactionmanager.js`.

## 1. Inventory

The library is single threaded.  All concurrency is between *events*: a message
from one of several servers, a timer, a call of the application.  Each event
runs to completion, but one event may run many listeners, and the state they
share may have changed since the request they answer was sent.

| Component | State it keeps | Operations | Talks to |
|---|---|---|---|
| `Server` (server.js) | socket, `_connected`, `_shouldConnect`, `_state`, `_retry` and its timer, `_requests` by id, load and fee, score, last ledger heard, activity interval | connect, disconnect, reconnect, forceReconnect, handleClose, handleMessage (ledgerClosed, serverStatus, response), request | emits connect/disconnect/message to `Remote`; owns the WebSocket |
| `Remote` (remote.js) | `_connected`, `_connection_count`, servers, primary, `_ledger_current_index`, ledger hash, `_transaction_subs`, `_received_tx` (LRU), accounts, books, current path find, sequence cache | connect, disconnect, request routing, subscribe on connect, dispatch of ledgerClosed/transaction/find_path, getPendingTransactions | all others |
| `Request` (request.js) | server, `requested`, `_broadcast`, timer, listeners | request, broadcast, callback, timeout, setServer | `Remote.request`, `Server._request` |
| `TransactionManager` (tm) | `_nextSequence`, queue of pending transactions, listeners on the remote's events | submit, resubmit, wait for ledgers, fill sequences, adjust fees, receive validated transactions, reconnect | `Account`, `Remote`, `Transaction` |
| `TransactionQueue` (transactionqueue.js) | `_queue`, LRU caches of received ids and sequences | push, remove, getSubmission, addReceived* | manager |
| `Transaction` (transaction.js) | state, `finalized`, `submittedIDs`, attempts, tx_json, submit index | submit, abort, complete, sign, addId, finalize | manager |
| `Account` (account.js) | subscription count, manager, cached entry | getNextSequence, submit, notify, subscribe/unsubscribe | `Remote` |
| `OrderBook` (orderbook.js) | offers, `_sync`, subscription count | subscribe, notify (created/modified/deleted offers), trade events | `Remote` |
| `PathFind` (pathfind.js) | last update, parameters | create, close, notify_update, superseding | `Remote` |
| `Meta` (meta.js) | affected nodes of one transaction | affected accounts, affected books | `Remote._handleTransaction`, `OrderBook` |
| `VaultClient`, `BlobObj`, `AuthInfo` (vaultclient.js, blob.js) | user's blob, revision, encryption | login, register, set/unset/patch, consolidate | HTTP servers |
| `Amount`, `Currency`, `SerializedObject`, `binformat`, `UInt*`, `Base`, `Seed`, `KeyPair`, `Crypt`, `Message`, `SHAMap`, ... | values only | parsing, arithmetic, serialisation, hashing, signing | pure functions |

### What is hard, and what makes each part correct

* **Transaction submission.**  A transaction may be on the network several times,
  under several ids (fee and sequence are part of the id), while answers, validated
  transactions, ledger closes, timers, aborts and a dropped link arrive in any
  order.  Correct: it is applied at most once; what is reported is true; the
  callback runs exactly once; a final transaction stops all activity; one
  resubmission stream per transaction; nothing in the queue is forgotten.
* **Restart from storage.**  What was saved must be enough to recognise every blob
  that may still be applied.
* **Watching the ledger.**  `missing` and `lost` are computed from the ledger index
  of the last submission by equality; the listener that computes them is removed
  and registered again around a disconnection.  Correct: each is emitted at the
  promised ledger, once; a connected client has exactly one such listener; the
  ledger index never moves back.
* **A server's connection.**  Sockets, the retry timer, the activity interval, a
  forced reconnection and status messages race.  Correct: only the current socket
  moves the state; at most one socket is wanted; a server that should be connected
  has something that will connect it; one that was told to disconnect stays so.
* **Several servers.**  The remote's connection count, the shared ledger index, the
  primary server, requests deferred until `connect` and broadcast requests.
* **Subscriptions.**  Counted by listeners; must be restored on each new
  connection and dropped with the last listener, whatever answers are in flight.
* **Order books and path finds.**  A snapshot and a stream of changes are merged;
  a late answer belongs to an earlier request.
* **Vault.**  Optimistic edits of a blob against a server that counts revisions.
* **Amounts and formats.**  Normalisation, rounding and overflow at the edges of
  mantissa and exponent.

## 2. Plan

The order follows the damage a mistake does: money first, then knowing what
happened, then being connected at all, then the data the library shows.

| # | Modules | Subject | State |
|---|---|---|---|
| 1 | `TxManager`, `TxManagerMC` | submission of one account's transactions | done |
| 2 | `TxLifecycle`, `TxRefinement` | what an application is promised of them; the manager implements it | done |
| 3 | `TxManagerProofs` | theorems about 1 and 2 | done |
| 4 | `TxRestart` | the same with a storage and a process that restarts; theorems in `TxManagerProofs` | done |
| 5 | `LedgerWatch`, `LedgerWatchProofs` | following the ledger; `missing` and `lost` | done |
| 6 | `ServerConnection`, `ServerProofs` | one server's sockets, retries and activity | done |
| 7 | `RequestRouting`, `RoutingProofs` | several servers: connection count, staggered `connect()`, choice of a server; requests by number, deferred, broadcast, timed | done |
| 8 | `Subscriptions`, `SubscriptionsProofs` | books, accounts and streams by listener count against answers in flight; the order book's snapshot and changes against the ledger's | done |
| 9 | `BlobDoc`, `BlobUpdate`, `Vault`, `VaultMC`, `VaultProofs` | optimistic edits of a blob against server revisions; patches and their replay | done |
| 10 | `Amount`, `AmountText`, `AmountLaws`, `AmountProofs` | arithmetic, comparison, texts, currencies | done |
| 11 | `BinFormat`, `AmountWire`, `Codec`, `TxComposer`, `TxBytes`, `TxComposerMC`, `TxComposerProofs` | the binary format; composing, completing and signing a transaction | done |
| 12 | a composition of 6 and 7 with full sockets | `RequestRouting` sees of a server its socket in use, by its state, and the messages of older ones | not written: the product of two servers' sockets is out of TLC's reach |

Every safety property is proved (section 6) but one: `CodecLaws`, which runs a
recursive writer against a recursive reader.

## 3. Modules and code

### TxManager: submission

One action is one event, handled to its end.  Two queues inside the state keep
the order in which the listeners of one event run: `ready` (submit calls that
`sequence_loaded` releases) and `due` (resubmissions that one `ledger_closed`
releases).  No other event happens until both are empty (`Quiet`).

| State | Code |
|---|---|
| `online`, `rejoin`, `history` | `remote._connected`; `once('connect', remoteReconnected)`; the `account_tx` request (tm 74-115) |
| `seqKnown`, `nextSeq`, `loads` | `_nextSequence` and `_loadSequence` (tm 244-262) |
| `deferred`, `ready`, `registered` | `once('sequence_loaded', submit)` and the listeners `submit` attaches (tm 600-662) |
| `state`, `pending`, `callbacks` | `Transaction.state`, the queue, the user's callback |
| `seq`, `fee`, `ids`, `attempts`, `trap` | `tx_json.Sequence`, `tx_json.Fee`, `submittedIDs`, `attempts`, the `presubmit` listener of `_adjustFees` |
| `reqs`, `waits`, `fills`, `resub` | submit requests with their one-shot listeners and timer; `_waitLedgers`; `_fillSequence`; `once('submitted')` of `resubmitTransactions` |
| `seqCache`, `idCache` | the queue's LRU caches |
| `outbox`, `seen`, `ledger`, `notices`, `serverFee` | requests deferred to `connect`, and the environment |

A request is one record although it is broadcast to `NumServers` servers,
because the code broadcasts one `Request` object: its `success` and `error`
listeners are shared, so one answer of each kind is heard (`Listening`).  A blob
is its identity, sequence and fee: that is what the hash distinguishes.

| Actions | Code |
|---|---|
| `Submit`, `SubmitInvalid`, `Abort` | transaction.js 888-928 |
| `SubmitDefer`, `SubmitIncomplete`, `SubmitSend` | tm 585-662, transaction.js 310-361; a Fee that is set is kept (337) |
| `SequenceLoaded`, `FillLoaded` | tm 201-262 |
| `AnswerIgnored` ... `AnswerRejected` | tm 366-456: one action per branch on the result |
| `Timeout` | tm 519-542 |
| `Resubmit`, `CountDown`, `LedgerClosed` | tm 264-364 |
| `DeliverNotice`, `HistoryLoaded` | tm 29-53, 81-108; account.js 264-284; of a history the latest `HistoryLimit` entries |
| `LoadChanged` | tm 169-198; also with a status that puts the last server offline (server.js 511-531), when `_computeFee` has no server to ask |
| `Thrown` | a transaction without a Fee is resubmitted: an exception leaves the listener (tm 294, serializedobject.js 96-123) |
| `Disconnect`, `Subscribed`, `Connect` | tm 74-115, remote.js 1544-1585 |

The environment may apply any blob the network has seen whose sequence is next,
or let a foreign transaction consume it; it may answer anything in `Codes`, or
never; notices may be lost with the link.

Two results of reading the code shape the model.  `_pending.length` is a function,
so `remoteReconnected` never returns early and `_resubmit(null, sequence)`
resubmits nothing (tm 77, 100).  `findId` of the resubmission looks for IDs among
the properties of the cache *object* and never finds one (tm 275): `Resubmit` does
not consult `idCache`.

`TxLifecycle` is what an application sees: open, sent, reported, applied.
`TxRefinement` maps the manager to it: a transaction is sent once it has an ID,
and the chain is the ledger stripped of sequence and fee.  `TxRestart` adds
`Restart`: the saved transactions (exactly the queue) come back with their
`tx_json` and `submittedIDs` and are submitted to a new manager; caches, requests
and notices are gone, the network and the ledger are not.  `savedFee` is the Fee of
the storage: what was set at the last 'save', which follows a new ID or state
(transaction.js 220-226, 418-424), so that a fee adjusted since is not in it.  A
process that `Throws` may be started again too.

### LedgerWatch: missing and lost

`current` is `Remote._ledger_current_index`, one for all servers; `pos` is what
each server has announced; `watching` counts the registrations of
`updatePendingStatus`; `rejoin` and `history` are as above.  `Subscribed` sets the
index unconditionally, even backwards (remote.js 1568-1572); `LedgerClosed`
ignores older ledgers, and everything while the index is undefined (remote.js
639).  Submissions and outcomes, which `TxManager` models, happen here at any time
the code allows.

### ServerConnection: one server

`sockets` lists every socket made; the last is `_ws`.  `connect()` closes the
current one and appends; `close()` turns "open" into "closing" and "connecting"
into "aborted", and the socket is gone with its own event (`SocketGone`).  The
three kinds of timer are counted when the code can lose track of them: retry
timers that `_retryTimer` no longer holds (`strays`), intervals that
`_activityInterval` no longer holds (`leaked`), and listeners waiting for a ledger
to start an interval (`armed`).  `waiting` counts the `once('disconnect')`
listeners that `reconnect()` registers; they run *inside* `_setState('offline')`,
before the rest of `disconnect()`, which is why `Disconnect` closes the socket the
listener has just made.  `Late` says whether a socket told to close may still
deliver messages: `onmessage`, unlike the other handlers, does not ask
`ws === self._ws`.

Each kind of reason for leaving a server is an action that may happen at any time
its guard allows: silence (`CheckActivity`), score (`BadScore`), status
(`StatusOffline`), loss (`SocketGone`).

### RequestRouting: several servers and the requests to them

`link` is the socket a server uses (`_ws`), seen from the outside: none made,
connecting, open, told to close when open or before, and gone with a retry to come
or without.  `should` is `_shouldConnect`.  `online` has the servers that are
`_connected`, whatever their sockets: `onmessage` does not ask which socket it
belongs to (server.js 349), so that a subscribe's answer, or a status, on one told to
close brings a server online.  `late` are the messages on sockets a server no longer
uses, `old` the servers with such a socket.  `count` and `connected` are
`_connection_count` and `_connected` of the remote.  `order` is the array `_servers`,
which `getServer()` sorts by scores that depend on delays and load, so that any order
may result; `next` is where the staggered `connect()` has got to in it.

A server's mail is one record, `box[s]`: `id` is the next message number, `table`
is `_requests`, `waiting` the requests in its `once('connect')` listeners and
`wire` the messages on its socket that are not answered.  `req[r]` is what the one
message object of a request holds: the last server and the last number.  `Number`
gives several requests that one event passes to a server consecutive numbers.

| Actions | Code |
|---|---|
| `Connect`, `NextServer`, `Disconnect` | remote.js 499-560: `connect` with its delay between servers; `disconnect`, which tells every socket to close and drops nothing (server.js 276-288) |
| `RequestAny`, `RequestOne`, `Broadcast` | request.js 28-152, remote.js 751-835, server.js 634-691 |
| `Opens`, `StatusOnline`, `StatusOffline`, `LosesSocket`, `SocketGone`, `OldGone`, `Retry` | a socket's events with what the remote does at 'connect' and 'disconnect' (server.js 353-467 and 511-515, remote.js 450-496) |
| `Answer` | server.js 535-602: to a request, or to the server's own subscribe, which brings it online or says that it cannot serve |
| `TimerFires` | request.js 103-121: the timer replaces `emit` |

`GoesOnline` runs all that one 'connect' event runs, in its order: the messages
waiting at the server, the count, and, when it is the first, everything that
waited for the remote.  `lost`, `mixed`, `wanted`, `overtaken`, `shuffled` and
`belated` (a server went online with no open socket) are history: they say which of
the gaps in section 7 the run went through.

### Subscriptions: what the client listens to, and the order book

`subs` counts the listeners of a book, an account and the stream of all
transactions; the first subscribes and the last unsubscribes (`Listen`,
`Unlisten`; orderbook.js 40-59, account.js 44-62, remote.js 214-234).  `up` and
`down` are what is under way on the socket, in order; `served` is what the server
has the socket down for.  `Opens`, `Subscribed` and `Connects` follow
`_serverPrepareSubscribe` and each component's 'prepare_subscribe' and 'connect'
listeners.  `Ask` is `offers(callback)`, whose callback is itself a listener of
'model' that may be the last to go (`EmitModel`).

`Notified` is `OrderBook.notify`: each affected node of a transaction inserts an
offer before the first that is not better, or finds the first offer with its index
(`At`) and changes or removes that one.  The
`ledger` beside it is the book itself, which `Creates`, `Cancels` and `Consumes`
change: the order book is compared with it.

### BlobDoc, BlobUpdate and Vault: a blob edited in several places

`BlobDoc` is a document and its parts, `BlobUpdate` is `BlobObj.applyUpdate` with
`_traverse` (blob.js 348-441): `set`, `unset`, `extend`, `unshift` and `filter` with
subcommands, on objects, arrays and scalars, with the errors each throws and the
changes made before it does.  `Vault` holds the account of the server, the `BlobObj`
objects of the applications (`blob`), the requests each has under way (`flight`),
the answers something waits for (`replies`) and a login's answer (`fetched`).  What
an update does to a document is its constant `Apply`, which `Vault.cfg` gives as
`ApplyUpdate`: the model checker runs the code's updates, the theorems hold for any.
`log` and `origin` are what the account has accepted; `inStep`, `ahead` and `repeated`
say of which blobs, and since when, the properties speak: `ahead` has the blobs whose
data is not that of their revision, because they were changed since they were loaded
or not all their patches applied, and `repeated` tells that one of these was
consolidated by the application's call.

| Actions | Code |
|---|---|
| `Register`, `Login`, `Recover`, `Load` | blob.js 92-198, 891-945 and 1057-1111, vaultclient.js 116-161 and 496-545: create, get, replay of the patches, consolidation |
| `Consolidate` | blob.js 138-174: the application's call, at any time, with the data as it is and the revision of the login |
| `Change`, `SetIdentity`, `UnsetIdentity` | blob.js 279-345, 465-514 and 678-785: the data changes, then the patch is posted |
| `ChangePassword`, `RenameUser`, `Migrate` | blob.js 957-1041, vaultclient.js 150-194 and 413-483 |
| `Arrives`, `Fails`, `Replied` | HTTP requests, independent of each other |

The vault server is not part of the repository.  What the client takes for granted
of it is written at the head of the module: it answers and accepts only under the
account's ID, keeps patches in order of arrival, numbers every change, replaces
what a consolidation covers and refuses a stale one, and drops the patches when
the keys change.

### Amount, AmountText, AmountLaws

`Amount` has the code's operations with its scaling steps, in its order: `add`,
`multiply`, `divide`, `ratio_human`, `product_human`, `from_quality`, `compareTo`,
`canonicalize`.  The digits of a mantissa and the largest native amount are constants,
so that TLC can compute with all of them.  `AmountText` reads and writes: JSON,
`to_human` with its options, `parse_human`, currency codes and interest rates.  A
printed text is a numeral (`Formatted`) and the number of commas between its groups
(`Separators`, which `to_human` writes unless told not to); `parse_human` reads the
numeral (`FromDigits`) and refuses commas.  `AmountLaws` is the reference: the exact
integer at a common power of ten, and by how many units of the last digit a result may
differ.  No law bounds the exponents it speaks of.  A divisor that is longer than a
mantissa (a native amount of 17 digits or more) leaves a quotient fewer digits;
`Slack` says how many.  Powers of ten and numbers of digits are recursive *functions*
(`Ten`, `Length`), the loops of the code counted, so that they can be reasoned about.

### BinFormat, AmountWire, Codec, TxComposer, TxBytes

`BinFormat` is the table (fields, transaction types and what each requires), and
lengths and field headers, written and read.  What the bytes of an object are is its
constant `Serialized`, so that composing and signing can be proved about for any.
`Codec` is that constant in the run: it writes and reads serialized objects byte by
byte, with amounts, paths, arrays, nested objects, every type with one field or more.
`AmountWire` is the part of it that carries money, the 8 bytes of an amount: sign bit,
exponent and mantissa as `STAmount` packs and masks them, with no recursive operator.
Hashes and accounts are shorter than the code's, tags and markers are its own.

`TxComposer` composes a `Transaction` from an amount it has computed: the setters of
each type (transaction.js 464-885), direct assignments to `tx_json`, `setFlags`,
`complete` with the fee of the connected servers, `sign` with its cached signature,
and the sequence and fee the manager sets between two submissions.  `Remotes` are the
ways a remote is set up: `complete` refuses to give a secret to a server that is not
trusted, and leaves the fee to one that is.  A signature is its key and what it
signs.  `TxBytes` says of the bytes of what was composed that they read back.
`OwnOperations` assumes that the values assigned to fields are not those of `Flags`,
`SigningPubKey`, `TxnSignature` and `TransactionType`, which `setFlags`, `complete`,
`sign` and the constructors set, and that a number given as flags fits 32 bits.
`AmountsCanonical` assumes that amounts given to computations are in canonical form,
as every parser leaves them.

## 4. What the runs show

| Run | Question | Instance |
|---|---|---|
| `TxManager_one` | does anything one server can answer, or fail to answer, separate outcome, queue, IDs and callback; do two streams of resubmission ever run; is every queued transaction settled while the link holds; is the lifecycle implemented | one transaction, two fees, one drop of the link, fairness |
| `TxManager_two` | can two transactions that race for sequences be applied twice, or be recognised under one ID only | two transactions; consumed sequences, rejections, busy servers, errors |
| `TxRestart` | does what is saved suffice to report truly, with a gap in the sequences and a fill beside it | one transaction, one fill, one restart |
| `TxRestart_double` | `AtMostOnce` across a restart: violated (section 7) | one restart |
| `LedgerWatch` | does the listener behind `missing` and `lost` always come back and tell once; does comparing by equality ever step over the eighth ledger | twelve ledgers, one skipped, two drops, two status changes, two submissions, fairness |
| `Server` | sockets, state, timers and activity under every call and fault; is a wanted server online in the end | three calls, two faults, fairness |
| `Server_reconnect` | `ReconnectsInTheEnd`: violated (section 7) | two calls, one fault |
| `Routing` | is the remote connected exactly when a server is; does every answer reach its own request, once; is a request ever forgotten | two servers, a timed broadcast that subscribes, a request to one or any, one fault, fairness |
| `Routing_split` | `AnswersAlwaysMatch`: violated (section 7) | the same |
| `Subscriptions` | does a synchronized book show the ledger's; does the server tell what is listened to | three offers, three listeners, two transactions, one fault, fairness |
| `Vault` | does a consolidation ever drop or repeat a patch, unless the application has a blob consolidated that it has changed; does an untroubled blob hold what the server will | two blobs, two passwords, three changes, two faults |
| `TxComposer` | arithmetic, texts and bytes against their reference; does a signature sign what it accompanies | three digits in groups of two, two computations, every transaction type, three set-ups of the remote |

Bounds.

* `TxManager`: `MaxLedger` is 2, since the second sequence is needed for a
  transaction that lost its first to another, and a third repeats the second.
  `MaxAttempts` 1 allows a second blob under another sequence or fee, which is
  what the ID properties tell apart.  `MaxLoads` bounds the loads under way of the
  account sequence.  `HistoryLimit` 1 of two entries stands for the code's 100: a
  history may miss what the transaction became.
* `LedgerWatch`: the eighth ledger after a second submission is still within
  `MaxLedger`.  The module takes several servers; the run has one (section 7).
* `ServerConnection`: three calls and two faults allow a forced reconnection
  between a loss and its retry, and a stray timer during a newer attempt.
* `RequestRouting`: with two servers a broadcast meets one that is up and one that
  is not, the array has two orders, and `disconnect()` comes between the two
  turns of `connect()`.  The one fault (`MaxFaults`) is a socket lost, an answer or
  report of being offline, a `disconnect()`, or a report of being online on a socket
  told to close; a late subscribe answer is none, so it follows a `disconnect()`.
  What two servers and one fault could hide is proved for any numbers.
* `Subscriptions`: three offers at two prices tell an insertion before an equal
  from one after it; offers 1 and 3 are there at first, so that one comes between.
* `Vault`: three changes, among which a call of `consolidate()` counts, allow two from
  one client around one from another; two faults lose a request and the answer to
  another.  Blobs and passwords are symmetric; the run has no liveness property.
* `TxComposer`: 3 digits stand for 16, `NativeMax` 9000 for 9e18, `WireLimit` 4096
  for 2^62; every operation scales by the same constants, and operands lie on both
  sides of each.  Flags are counted in 65536, below which the library has none.
  `GroupWidth` is 2, so that a number of three digits has a separator.
  `Depth` bounds the exponents that two computations may reach.  `MaxFields` bounds
  the optional fields by type, `MaxPaths` 2 the paths and
  their steps; the lengths where a second and third byte begin (193, 12481) are
  checked as numbers beside the transactions.  Setters are called before the first
  signature, direct changes also after it.

No run has two servers answer one submission: `NumServers` is 1 in all of them.
That case is covered by the theorems, which hold for every `NumServers`.

Restrictions, each because the property is false without it:

* `SingleStream` is checked with one server: with two, one answer of each kind is
  handled and each may start a stream.
* `ToldOnce` is stated for a history without status changes on an open socket: such
  a change while `account_tx` is unanswered registers `updatePendingStatus` twice.
* `OnlineMeansOpen`, `NotStranded`, `StaysDown` and `OnlineInTheEnd` take
  `Late = FALSE`: an answer that a closing socket delivers after 'disconnect' sets
  the server online with no open socket, and `connect()` then returns early.
  `StaysDown` and `OnlineInTheEnd` also leave `reconnect()` out.
* `AnswersMatch` and `Accounted` leave split broadcasts out (`mixed`), `AllStarted`
  and `StaysDisconnected` a `connect()` that `disconnect()` met (`overtaken`), and
  `AllStarted` one during which the array was sorted (`shuffled`) or a late message
  put a server online (`belated`), since `connect()` leaves that one alone.
  `StaysDisconnected` promises a remote that is offline only as long as no late
  message came; that no socket is opened or used it promises whatever came.  In
  `SettledInTheEnd` a request without a timeout may wait for ever after such a
  message, too.  What is sent while a server is online with no open socket is lost in
  the model; the socket of node refuses it with an exception.
* `NothingLost` and `InStep` leave out what follows a `consolidate()` of a blob that
  holds more or less than its revision (`repeated`, section 7).
* `SubscriptionsAgree` and `BookSyncs` leave out a first or last listener that came
  or went between the opening of the socket and the remote's 'connect'
  (`missed`); `BookSyncs` also a server that reported to be offline (`blipped`).
* `SignedAsAsked` leaves out a flag asked for twice and a secret changed under a
  filled-in `SigningPubKey`; `CodecLaws` amounts that do not fit their bits;
  `TextLaws` what the code is known to lose (section 7).  Of an amount printed in
  groups it says that it is refused when typed back; another separator than the comma
  is left out, and may be read as something else ("1 000" is 1 of the currency "000").

Deadlock is checked for submission.  The other cfgs set `CHECK_DEADLOCK FALSE`: all
ledgers closed and announced, a server told to disconnect with nothing pending,
all requests settled, all changes made, a transaction signed with nothing left to
set: there those systems may stop.

Each property is also run against a slip of the code, written next to the
definition it would replace (`NextAlways` beside `NextFree`, `TakenIfNow` beside
`Taken`, `NoneApplied` beside `Applied`, ...): a dropped guard, a listener not
removed, a fee or ID not remembered.  TLC finds each property violated by its slip.

## 5. Fairness

Each liveness property rests on weak fairness of the steps that the runtime and a
live network take by themselves, never of the application's calls (but for
`Connect` below), and never of faults.  In `TxManager`, `RequestRouting` and
`Subscriptions` it is *one* weak fairness of all those steps together: some of them
is taken for ever, as long as one can be.  That assumes less than fairness of each,
and it is enough since the bounded instance cannot take such steps in a circle.

* `TxManager`: listeners of a running event run; timers fire; ledgers close; the
  link comes back; `account_info` of a connected client is answered.  Answers to
  submit and notices of validated transactions may be missing for ever: this is
  what timeouts are for.  `Resolves` accepts a transaction that waits for a fill,
  since the code has no way out when the fill has nothing to do (tm 226-229).
* `LedgerWatch`: the network closes ledgers and a connected server announces
  them.
* `ServerConnection`: timers and intervals fire; a socket opens or is gone; an
  open server answers subscribe and becomes able to serve.  Faults are bounded,
  not excluded: `OnlineInTheEnd` is about what follows the last one.
* `RequestRouting`: `connect()` runs on, sockets open, those told to close are gone in
  the end, servers answer, a server that
  reported to be offline recovers, timers fire; and an application that wants a
  connection asks for it.
* `Subscriptions`: the connection is made, the server answers in order and
  recovers.

## 6. What is proved

For every value of the constants, from `TxAssumption`, `RestartAssumption`,
`WatchAssumption`, `ServerAssumption`, `RoutingAssumption`,
`SubscriptionsAssumption`, `VaultAssumption`, `AmountAssumption`, `RateAssumption`,
`TextAssumption`, `WireAssumption`, `AmountsCanonical` and `OwnOperations`, which
say of the constants what they are (numbers, subsets, values that differ; a mantissa
has two digits at least and more than a unit has; 62 bits hold a native amount on the
wire and 54 a mantissa) and which TLC evaluates in the runs they are about:

| Theorem | Module |
|---|---|
| `TypeCorrect` | `TxManagerProofs` |
| `AppliedAtMostOnce`, `EveryIdIsTracked`, `WhatIsHeardIsFinal`, `SuccessIsTrue`, `CallbackRunsOnce`, `QueueHoldsTheLive`, `FinalStaysQuiet` | `TxManagerProofs` |
| `OneStreamEach` (for `NumServers = 1`) | `TxManagerProofs` |
| `ManagerImplementsLifecycle`; `SuccessSurvives`, `IdsSurvive` (of `TxRestart`) | `TxManagerProofs` |
| `WatchTypes`, `ListenerComesBack`, `EventsToldOnce`, `LossIsTold` (for one server) | `LedgerWatchProofs` |
| `TypeCorrect`, `AlwaysWatched` | `ServerProofs` |
| `OnlineIsOpen`, `NeverStranded` (for `Late = FALSE`), `ToldToStaysDown` (also without `reconnect()`) | `ServerProofs` |
| `ServersCounted`, `EveryServerStarted`, `DisconnectedStays` | `RoutingProofs` |
| `RoutingTypes`, `OwnAnswers`, `OneSettlement`, `NoneForgotten` | `RoutingProofs` |
| `ServedAsListened`, `BookFollowsLedger` | `SubscriptionsProofs` |
| `NoPatchLost`, `BlobInStep` | `VaultProofs` |
| `SumsKeepTheLaw`, `ProductsKeepTheLaw`, `QuotientsKeepTheLaw`, `PricesKeepTheLaw`, `QualitiesKeepTheLaw` | `AmountProofs` |
| `WireKeepsAmounts`, `PeopleKeepAmounts`, `FormatsKeepTheLaw`, `CurrenciesKept` | `AmountProofs` |
| `BytesCutToFit`, `AmountsReadBack` | `AmountProofs` |
| `ArithmeticHolds`, `TextHolds`; `SignaturesHold`; `LengthsReadBack`, `HeadersReadBack` | `TxComposerProofs` |

**Submission.**  Types need one fact besides `TypeOK` (`TypeInv`): what is in a
stream was sent (`StreamsSent`).  That it has a Fee is not one, since a load that
changes while no server is connected takes it away.
`AtMostOnce` is not inductive: that a renumbered transaction is not in the ledger
already depends on everything that leads to renumbering.  `SafetyInv` adds:

* `CallsOrdered`: each transaction is in one stage of `submit` at most, and one not
  yet taken has sent nothing;
* `Superseded`: a blob on the network whose sequence is not the transaction's own
  carries a sequence the client knows to be consumed by another; with
  `LedgerFaithful` (the entry at sequence *n* was signed for *n*) a superseded blob
  can never be applied;
* `IdsTracked`, `HeardIsFinal`, `SuccessIsApplied`, `QueueIsLive`,
  `ReportedOnce`: each is used for the others.  A validated transaction that is
  heard is recognised because its ID is tracked; being final it is not renumbered;
  so only a sequence consumed by somebody else leads to a new one.

`MovesSafely` says it once for every action that signs and sends; each action then
has a lemma, and the refinement and `FinalIsQuiet` follow from the same invariant.

`SingleStream` counts requests, waits and fills together.  `StreamInv` says instead
where the one stream of a transaction that is not final is (`OneStream`), which
makes every step a move between four places, and that a request is answered once
(`AnsweredOnce`).  The latter is why the theorem takes one server: with two, a
success and an error of one submission are both heard, and each starts a stream.

**Restart.** `SafetyInv` does not survive a restart: `AtMostOnce` fails (section 7),
and with it everything about superseded blobs.  What is kept is what was saved:
`RestartInv` has the types, those of `savedFee` too, the IDs, that an ID names its own
transaction (`OwnIds`), and that a success was read off an entry with one of these
IDs.  So the transaction applied twice is still reported truly.

**The ledger and its watcher.**  One socket, one `account_tx`, one registration are
the same token: `OneListener` says that the registrations, the histories awaited and
the reconnections that will ask for one add up to 1, `ListenerReturns` that this
token is where the next event finds it.  `ToldInThePast` puts an event told behind
the index that told it; since the index only grows (`IndexFollows`, with a gap only
where the link was not steady), equality is met at most once, and over a steady
link exactly once.  All of this takes one server: with two, the index moves back,
`missing` is told again, and the history asked of a server that drops is lost.

**One server.**  `ConnectedSockets` and `ClosedSockets` say what `connect()`, any
number of times, and `close()` do to the list of sockets; `OneLive` (only the last
may be in use) is inductive with the types.  `OnlineMeansOpen` and `NotStranded`
are proved together, since a timer that fires while online leaves the socket alone
and only `OnlineMeansOpen` says that this socket is open.  `StaysDown` needs
`Quiet`: nobody waits for 'disconnect' and an unwanted server has no socket in
use, since the internal reconnections start from an online server whoever wanted
it.

**Several servers.**  `ConnInv` holds what one needs of connections.  The count is
the number of servers in `online`, which one event changes by one, or `disconnect()`
to none.  A socket in use was asked for (`UseIsAsked`), and after a `disconnect()`
that nothing overlapped no server is asked for and no socket is in use
(`NothingRuns`), whatever its older sockets deliver.  That a server online has an open
socket (`OnlineIsOpen`) holds until a late message breaks it; this is why
`StaysDisconnected` allows a connected remote to a `belated` history and no other.
That
`connect()` turned to *all* servers when it reached the end of the array
(`TurnedIsAsked`) is a pigeonhole argument: the array is a permutation
(`ArrayReachesAll`), as long as nobody sorted it meanwhile.

**Requests.**  `MailInv` is about numbers.  `NumbersAreNew`: the numbers one event
gives to several requests at a server are distinct and beyond all earlier ones, so
`_requests` never has two under one (`AllNumbered`), and what is on a socket and
still in the table stands under its own number (`Fits`, `Unmixed`) unless a
broadcast was split.  `OwnAnswers` follows.  `OneSettlement` needs that only
requests made are anywhere (`MadeOnly`) and that an answer, a timer and its
replacement of `emit` exclude each other (`OneEnd`).  `NoneForgotten` needs
`EntryOfWaiting` besides: what waits for a server's 'connect' has already its entry
in the table, under the number it will be sent with.  `SocketInv` says where the
messages of older sockets are.

**Subscriptions.**  Neither property is about a state in which messages are under
way, so both invariants speak of the state after those messages.  `WillServe`: what
the last message about a kind leaves it (`Left`), or a book's subscription deferred
to 'connect', is what its listeners ask for.  `WillShow`: the list that the
snapshots and transactions under way will make of `offers` (`Becomes`) is a top of
the ledger's book as long as the server has the socket down for it, whether or not
the client believes in its synchronization.  A snapshot is the ledger at the moment
of the answer; a transaction changes the ledger and, told to the client, a top of
the ledger in the same way (`NotifiedOne`, `NotifiedTwo`).  This rests on what
`notify` does to ordered lists: it inserts before the *first* offer that is not
better and changes the *first* with the index.  First elements exist because
(Nat, <) is well-founded (`FirstOf`).  An offer worse than all of a list is not
inserted, which is why a book is a top of the ledger's and not all of it.

**The vault.** Both theorems hold whatever updates do to documents (`Apply` is a
constant without an assumption): what matters is the order of patches and what a
replay is, a run from one result to the next (`Runs`) that stops where an update
throws.  `State(origin, log, n)` is what the first *n* patches made of the data last
stored whole.  Every number in this history is a revision, counted from `Base`: the
account is one of its states followed by the rest of the log (`Current`), a login's
answer is so too or is older than `origin` (`Readable`), and a consolidation under way
is either older than `origin`, so that it will be refused, or holds exactly the state
of its revision (`Sound`).  The last is where the application's `consolidate()` comes
in: a blob that is not `ahead` holds the state of its own revision, or one older than
`origin` (`Revisions`), so what it posts is as sound as what a login posts.  The
invariant is `repeated`, or all this (`VaultInv`).  A replay may be cut anywhere
(`ReplaySplit`), so a consolidation that is taken changes nothing of what is read.
`InStep` asks more: the requests of a blob lead, one by one, from what the account
says to what the blob holds (`Leads`).  An update makes this run longer; a request
that arrives takes its state out (`RunAhead`), one that overtakes only consolidations
without changing the rest; a consolidation changes no state, whoever's it is and even
if it fails (`RunSkips`).  `Stage` says that a blob waiting for its account has
nothing else under way.  Where an argument goes along a sequence it is an induction by
a least counterexample (`Upward`), with the run's indices as a set.

**Signatures.**  `SignedAsAsked` holds for any binary format (`Serialized`), since a
signature is only compared with what it signed.  `ComposerInv` says three things that
one step breaks and another may not repair.  `KeyOfSecret`: the key `complete` filled
in once is that of the present secret, unless the secret was changed under it.
`LastSigned`: a signature is one of the hash that `sign` saw last, so reusing it for an
equal hash is right; that there is a key to compare it with follows from what the
format requires (`KeyRequired`), and only of transactions, hence `OnlyTransactions`.
`Flagged`: adding a bit that is not set carries nowhere (`BitAdded`, one case for each
of the sixteen).

**Lengths and headers.**  What is between the values of the binary format is not
recursive: a length or a field header is read as it was written, with the reader
right behind it, for every value and at any place of any buffer (`Standing`).

**Amounts.**  TLC computes with three digits; the theorems hold for any number, and
so for the code's sixteen.  The prover knows no power and no induction, but it knows
that (Nat, <) is well-founded: every set of numbers has a first (`LeastNumber`), so
what holds of 0 and of n + 1 after n holds of all (`AllNumbers`, with the numbers it
holds of as a set).  From there come the existence of the function `Ten` and its laws
(`TenIs`, `TenSum`, `TenOrder`), those of `Length`, and what an integer is worth at an
exponent (`AtShift`, `AtOrder`).  An operation cuts in one place, `Canonicalize`, and
`Result` says once what that costs: less than the last digit, nothing of what fits
(`Cut`).  `IsRounded` bounds what the code adds to be cut (7 to a product, 5 to a
quotient), and each law relates the result with the exact number in units small
enough for both.  A product is exact when the exact one fits, because it then ends in
the zeros that are cut (`EndsInZeros`).  A price counts drops as units, which is a
second cut (`UnitsCut`), and its bound is the sum of three.  `ArithmeticHolds` needs
the invariant `AmountInv`: what was computed is canonical or zero (`Sound`), because a
product may be a negative zero and `invert` of a canonical one is canonical again.

**Texts.** A numeral's trailing zeros are left out by one function and come back by
another: the digits read are those printed without some zeros (`IsTrimmed`, `Reread`),
and `Canonicalize` finds the same mantissa whatever zeros are missing
(`MantissaRead`).  Cutting a fraction twice is cutting it once (`CutTwice`), and takes
as many significant digits as places, down to those of the integer part (`CountCut`);
so `to_human` with options is the longest text that fits (`Shown`), and the zeros it
adds come off again (`PlacesBack`).  A number has separators exactly when it has more
digits than a group (`SeparatorsAppear`); without them the digits read are those
printed (`DigitsRead`), and `PeopleKeepAmounts` puts both together: typed back, the
default text is the amount below the first group's limit and refused from there on.
`TextLaws` follows in every state.  What a law leaves out the code loses (section 7).

**Bytes of an amount.**  `CodecLaws` tries amounts of three digits, whose upper bytes
are all zero.  `BytesCutToFit` is about all 62, 54 and 8 bits, and about amounts that do
not fit, too: it says which other amount each of them is read as.  Bytes are the
remainders of what is left of a number (`Rest`), and reading them adds the quotients up
again (`BytesReadBack`).  A native amount shares its first byte with the sign, a mantissa
with the exponent, which shares its own first with the sign: `SignBit`, `HeadOfTokens`
and `MantissaHeld` take them apart, given that what is shared leaves the bits free
(`WireAssumption`).  That the reader refuses no amount it is given (`AmountsReadBack`)
needs a mantissa that is not zero to have a byte that is not (`BytesOfZero`).

Only model-checked: liveness (`Resolves`, `LostInTheEnd`, `OnlineInTheEnd`,
`SettledInTheEnd`, `BookSyncs`), which the prover cannot treat; and what `ApplyUpdate`
makes of a document and `CodecLaws`, since documents and serialized objects are
recursive data and what a recursive operator computes is out of its reach (of
`CodecLaws` the lengths, headers and amounts are proved).

## 7. Where the code and what is said of it differ

Three runs end in a violation.

* `TxRestart_double`.  After a restart the account's history is received before
  the saved transaction is queued again.  Its ID is in the cache, but tm 275 looks
  for it among the properties of the cache object, so the transaction is renumbered
  and applied a second time.
* `Server_reconnect`.  `reconnect()` waits for a 'disconnect' and calls `disconnect()`.
  While the server is not online there is none: in the run its first socket is still
  connecting and is closed, and as `_shouldConnect` is false when the socket is gone,
  nothing retries (server.js 282-288 and 296-307).
* `Routing_split`.  A broadcast is one message object.  Every server writes its
  number into it (server.js 665), and a server that is still connecting sends it
  later, with the number of another; the answer settles whatever request has that
  number there.

Seen in the models, and the reason for restrictions above:

* Submission: an abort before the account sequence is known is not heard (tm 605);
  the callback of a transaction with an invalid account never runs (transaction.js
  912); a timeout while the link is down resubmits nothing (tm 535); the trap set
  for a fee above the maximum stays when the fee falls again (tm 180); `lost` is
  never told if the eighth ledger closes while the client is away (tm 62); `missing`
  counts from the preparation of a request, not from its transmission (tm 556); a
  status that puts the last server offline and changes the load takes the Fee of
  queued transactions away (server.js 511-531, tm 176-190), and the next resubmission
  throws (serializedobject.js 96-123); a fee adjusted after the last 'save' is not
  restored.
* Servers: messages of a closing socket are handled (server.js 349): a subscribe
  answer after `remote.disconnect()` puts server and remote online again (server.js
  590), and the next `connect()` leaves that server alone, with `_shouldConnect`
  false; a server that never announces a ledger is never left (server.js 207); a score
  is never reset (server.js 257); with two servers, the history asked of one that
  drops is not asked for again (tm 104), and the shared ledger index may move back
  (remote.js 1571).
* Requests: 'remoteDisconnected' is documented and never emitted (request.js 13), so
  a request lost with its socket, or dropped for want of one (server.js 657), is
  told nothing; the array is sorted while `connect()` walks it (remote.js 784), so
  that a server may be left out.
* Subscriptions: a listener that comes or goes between the opening of the socket and
  'connect' subscribes to nothing (orderbook.js 41); after a status of offline the
  book stays unsynchronized although the subscription stands (orderbook.js 68); a
  failed subscribe leaves it so too (orderbook.js 102).
* Vault: a `filter` with `unset` passes over the element after each one it removes
  (blob.js 424); a key change that fails leaves the object unable to reach the
  account, and one that succeeds drops what others had patched (blob.js 959);
  `consolidate()` called after a posted patch stores what the patch made under the old
  revision, which `postUpdate` never advances (blob.js 465-514), so that the patch is
  kept and replayed: an `unshift` lands twice (blob.js 138-174);
  `rename` stores the new secret under a property nobody reads (blob.js 1008); a vault
  address without a scheme becomes 'http://' + undefined (blob.js 96).
* Amounts and texts: what `to_human` prints by default has commas from 1,000 on
  (amount.js 1121), which `parse_human` refuses (amount.js 612); native amounts above
  9e18 are written as 0; `to_human` of a positive exponent loses zeros (amount.js
  1062); a product may be a negative zero; interest rates of one digit do not read
  back (currency.js 96), nor do the reference date and the reserved bytes of such a
  currency, nor codes such as "A1B", or "XPS" as an issued currency; a price by a
  native amount of 17 digits or more has fewer than 16 (amount.js 310).
* Transactions: flags are added, so that one asked for twice becomes another
  (transaction.js 605); a secret changed after `SigningPubKey` was filled in leaves
  the key of the old one; `transferRate` assigns before it refuses; the type that
  `claim` sets cannot be serialized; native amounts from 2^62 lose bits on the wire
  (serializedtypes.js 329) and exponents outside -97..158 wrap (347).

## 8. What is not modelled

* Inside the modelled parts: the score's value (`BadScore` may happen whenever the
  server is online); the lengths of delays, among them the growth of the retry delay
  (server.js 418); in `RequestRouting` a retry timer that outlives `disconnect()`
  (`ServerConnection` has it); in `TxManager` what a server that is offline still
  answers, but for a changed load and the ledger of a subscribe; attempts above the
  bound; 'trade' totals of an order book and its prices as amounts; `Account.entry`
  and `lines`, which ask and store.
* The composition of `ServerConnection` with `RequestRouting`, `Subscriptions` and
  `LedgerWatch`: each sees the others through the events they emit.  Two servers
  with all their sockets and timers are beyond TLC.
* `PathFind`: `create`, `close` and superseding replace one pointer of the remote;
  there is no state beyond it, and nothing is asked again after a reconnection
  (pathfind.js 52).
* `applyInterest`, `get_interest_at` and `Float`: floating point and dates.
* `SHAMap` and `Ledger`: hashes of whole trees; base 58, seeds, keys, signatures,
  encryption: values whose properties are number theory rather than behaviour.
* The constructors of requests, which fill a message with fields, and the vault's
  stateless queries (`verify`, `resendEmail`, `exists`, ripple.txt).
* Logging, HTTP helpers, build files, vendored arithmetic (`jsbn`) and `src/cpp`.
