--------------------------- MODULE Subscriptions ---------------------------
(* What the client subscribes to, and the order book it keeps from it: the    *)
(* listeners of OrderBook, Account and Remote (`transaction_all') that count  *)
(* themselves and subscribe or unsubscribe, the subscriptions made anew when  *)
(* a socket opens, the snapshot, and the transactions that OrderBook.notify   *)
(* applies to it.  One server; what the client sends and what it is sent come *)
(* in order, as on a WebSocket.                                               *)
EXTENDS Naturals, FiniteSets, SequencesExt

CONSTANTS
  NumOffers,   \* offers that may be made in this book
  FirstOffers, \* those in it at the beginning
  Kinds,       \* what is subscribed to, of those below
  MaxListens,  \* bound: listeners added, or offers() called
  MaxTxs,      \* bound: transactions
  MaxFaults    \* bound: sockets lost, and reports that the server is offline

\* `book' also has a snapshot.  The events of the three are told by the same
\* transaction messages.
AllKinds == {"book", "account", "stream"}

Offers == 1..NumOffers

ASSUME SubscriptionsAssumption ==
  /\ NumOffers \in Nat /\ FirstOffers \subseteq Offers
  /\ Kinds \subseteq AllKinds /\ "book" \in Kinds
  /\ MaxListens \in Nat /\ MaxTxs \in Nat /\ MaxFaults \in Nat

VARIABLES
  subs,      \* listeners of each kind: _subs and _transaction_subs
  asks,      \* listeners offers() has left for the next `model'
  sync,      \* OrderBook._sync
  offers,    \* OrderBook._offers
  link,      \* "down", "open" (the subscribe is not answered), or "up"
  deferred,  \* book subscriptions that wait for the remote's `connect'
  up, down,  \* messages to the server, and from it
  served,    \* what the server has subscribed the socket to
  ledger,    \* the book in the ledger, best offer first
  unmade,    \* offers not yet made
  missed,    \* a kind got its first or lost its last listener while the
             \* socket was open and the remote offline, or lost it while a
             \* subscription was deferred (history)
  blipped,   \* the server reported to be offline (history)
  listens, txs, faults \* bound counters

clientVars == <<subs, asks, sync, offers>>
netVars    == <<link, deferred, up, down, served>>
ledgerVars == <<ledger, unmade, txs>>
vars == <<subs, asks, sync, offers, link, deferred, up, down, served, ledger,
          unmade, missed, blipped, listens, txs, faults>>

\* TakerPays over TakerGets; two offers for each price.
Price(o) == (o + 1) \div 2

Full(o) == [index |-> o, left |-> 2]

\* The orders the offers of the beginning may have: the better price first.
FirstOrders ==
  {first \in Bijection(1..Cardinality(FirstOffers), FirstOffers) :
     \A i, j \in DOMAIN first : i < j => Price(first[i]) =< Price(first[j])}

Init ==
  /\ subs = [k \in Kinds |-> 0] /\ asks = 0 /\ sync = FALSE /\ offers = <<>>
  /\ link = "down" /\ deferred = 0 /\ up = <<>> /\ down = <<>> /\ served = {}
  /\ \E first \in FirstOrders : ledger = [i \in DOMAIN first |-> Full(first[i])]
  /\ unmade = Offers \ FirstOffers
  /\ missed = FALSE /\ blipped = FALSE
  /\ listens = 0 /\ txs = 0 /\ faults = 0

-----------------------------------------------------------------------------
(* Listeners.                                                              *)

On(k)  == [type |-> "on", kinds |-> {k}]
Off(k) == [type |-> "off", kinds |-> {k}]

\* newListener: the first one subscribes, if the remote is connected.
Listen(k) ==
  /\ listens < MaxListens /\ listens' = listens + 1
  /\ subs' = [subs EXCEPT ![k] = @ + 1]
  /\ up' = IF subs[k] = 0 /\ link = "up" THEN Append(up, On(k)) ELSE up
  /\ missed' = (missed \/ (subs[k] = 0 /\ link = "open"))
  /\ UNCHANGED <<asks, sync, offers, link, deferred, down, served, ledgerVars,
                 blipped, faults>>

\* removeListener: the last one unsubscribes.
Unlisten(k) ==
  /\ subs[k] > (IF k = "book" THEN asks ELSE 0)
  /\ subs' = [subs EXCEPT ![k] = @ - 1]
  /\ IF subs[k] = 1 /\ link = "up"
     THEN up' = Append(up, Off(k)) /\ sync' = (sync /\ k # "book")
     ELSE UNCHANGED <<up, sync>>
  /\ missed' = (missed \/ (subs[k] = 1 /\ (link = "open" \/ deferred > 0)))
  /\ UNCHANGED <<asks, offers, link, deferred, down, served, ledgerVars, blipped,
                 listens, faults>>

\* offers(callback) while not synchronized: the callback is a listener of the
\* next `model'.  (Else it is called at once.)
Ask ==
  /\ ~sync /\ listens < MaxListens /\ listens' = listens + 1
  /\ asks' = asks + 1 /\ subs' = [subs EXCEPT !["book"] = @ + 1]
  /\ up' = IF subs["book"] = 0 /\ link = "up" THEN Append(up, On("book")) ELSE up
  /\ missed' = (missed \/ (subs["book"] = 0 /\ link = "open"))
  /\ UNCHANGED <<sync, offers, link, deferred, down, served, ledgerVars, blipped,
                 faults>>

\* `model' is emitted, with the book synchronized or not: those callbacks are
\* called and removed, which may leave the book without listeners.
EmitModel(synced) ==
  /\ asks' = 0 /\ subs' = [subs EXCEPT !["book"] = @ - asks]
  /\ LET last == asks > 0 /\ subs["book"] = asks
     IN /\ sync' = (synced /\ ~(last /\ link = "up"))
        /\ up' = IF last /\ link = "up" THEN Append(up, Off("book")) ELSE up
        /\ missed' = (missed \/ (last /\ (link = "open" \/ deferred > 0)))

-----------------------------------------------------------------------------
(* The book.                                                               *)

\* Slip: a new offer goes before the first offer that is better.
InsertedWrong(list, o) ==
  LET i == SelectInSeq(list, LAMBDA e : Price(o) >= Price(e.index))
  IN IF i = 0 THEN list ELSE InsertAt(list, i, Full(o))

\* notify, CreatedNode: before the first offer that is not better; if there is
\* none, nowhere.
Inserted(list, o) ==
  LET i == SelectInSeq(list, LAMBDA e : Price(o) =< Price(e.index))
  IN IF i = 0 THEN list ELSE InsertAt(list, i, Full(o))

\* Where an offer is in a list, or 0.
At(list, o) == SelectInSeq(list, LAMBDA e : e.index = o)

\* notify's handler of one node: of the first offer with the node's index the
\* fields are replaced if it was consumed, and it is removed if it was deleted.
NodeHandled(list, an) ==
  LET i == At(list, an.index)
  IN CASE an.diff = "CreatedNode"  -> Inserted(list, an.index)
       [] an.diff = "DeletedNode"  -> IF i = 0 THEN list ELSE RemoveAt(list, i)
       [] an.diff = "ModifiedNode" -> IF i = 0 THEN list
                                      ELSE [list EXCEPT ![i].left = 1]

\* notify: the nodes of a transaction one after the other.
Notified(list, nodes) ==
  LET after[n \in 0..Len(nodes)] ==
        IF n = 0 THEN list ELSE NodeHandled(after[n - 1], nodes[n])
  IN after[Len(nodes)]

\* The ledger: a new offer goes after those that are not worse.
Placed(list, o) ==
  LET i == SelectInSeq(list, LAMBDA e : Price(e.index) > Price(o))
  IN IF i = 0 THEN Append(list, Full(o)) ELSE InsertAt(list, i, Full(o))

\* A transaction changes the book, and whoever is subscribed is told of its
\* nodes.
Tx(nodes, book) ==
  /\ txs < MaxTxs /\ txs' = txs + 1
  /\ ledger' = book
  /\ down' = IF served # {} THEN Append(down, [type |-> "tx", nodes |-> nodes])
                            ELSE down
  /\ UNCHANGED <<clientVars, link, deferred, up, served, missed, blipped,
                 listens, faults>>

Node(diff, o) == [diff |-> diff, index |-> o]

Creates(o) ==
  /\ o \in unmade /\ unmade' = unmade \ {o}
  /\ Tx(<<Node("CreatedNode", o)>>, Placed(ledger, o))

\* An offer is cancelled, or offers are consumed from the best.
Cancels(o) ==
  /\ \E i \in DOMAIN ledger : ledger[i].index = o
  /\ LET nodes == <<Node("DeletedNode", o)>>
     IN Tx(nodes, Notified(ledger, nodes))
  /\ UNCHANGED unmade

Consumes(n) ==
  /\ Len(ledger) > n /\ ledger[n + 1].left = 2
  /\ LET nodes == [i \in 1..n |-> Node("DeletedNode", ledger[i].index)]
                  \o <<Node("ModifiedNode", ledger[n + 1].index)>>
     IN Tx(nodes, Notified(ledger, nodes))
  /\ UNCHANGED unmade

-----------------------------------------------------------------------------
(* The connection.                                                         *)

Listened == {k \in Kinds : subs[k] > 0}

\* Slip: only what is new is asked for.
PreparedOnce == [type |-> "prepare", kinds |-> {"stream"} \cap Listened]

\* _serverPrepareSubscribe: the stream, and what attachAccount adds.
Prepared == [type |-> "prepare", kinds |-> Listened \ {"book"}]

\* A socket opens and subscribes.  The book's own request finds the remote
\* offline and waits.
Opens ==
  /\ link = "down" /\ link' = "open"
  /\ up' = <<Prepared>>
  /\ deferred' = deferred + IF subs["book"] > 0 THEN 1 ELSE 0
  /\ UNCHANGED <<clientVars, down, served, ledgerVars, missed, blipped, listens,
                 faults>>

\* Slip: what was deferred is forgotten.
ConnectsOnly ==
  /\ link' = "up" /\ deferred' = 0 /\ UNCHANGED up

\* The remote's `connect': what was deferred is sent.
Connects ==
  /\ link' = "up" /\ deferred' = 0
  /\ up' = up \o [i \in 1..deferred |-> On("book")]

\* The server takes one message.
Serves ==
  /\ up # <<>> /\ up' = Tail(up)
  /\ LET m == Head(up)
     IN CASE m.type = "prepare" ->
               /\ served' = m.kinds /\ down' = Append(down, [type |-> "subscribed"])
          [] m.type = "on" ->
               /\ served' = served \cup m.kinds
               /\ down' = IF "book" \in m.kinds
                          THEN Append(down, [type |-> "snapshot", offers |-> ledger])
                          ELSE down
          [] m.type = "off" -> served' = served \ m.kinds /\ UNCHANGED down
  /\ UNCHANGED <<clientVars, link, deferred, ledgerVars, missed, blipped, listens,
                 faults>>

\* The subscribe is answered: the server is online.
Subscribed ==
  /\ down # <<>> /\ Head(down).type = "subscribed" /\ down' = Tail(down)
  /\ Connects
  /\ UNCHANGED <<clientVars, served, ledgerVars, missed, blipped, listens, faults>>

\* OrderBook._subscribe's answer replaces the list.
Snapshot ==
  /\ down # <<>> /\ Head(down).type = "snapshot" /\ down' = Tail(down)
  /\ offers' = Head(down).offers
  /\ EmitModel(TRUE)
  /\ UNCHANGED <<link, deferred, served, ledgerVars, blipped, listens, faults>>

\* Remote._handleTransaction and OrderBook.notify: the list changes even if it
\* is not synchronized; `model' is emitted if it did and someone listens.
Notify ==
  /\ down # <<>> /\ Head(down).type = "tx" /\ down' = Tail(down)
  /\ offers' = Notified(offers, Head(down).nodes)
  /\ IF offers' # offers /\ subs["book"] > 0
     THEN EmitModel(sync) ELSE UNCHANGED <<asks, subs, sync, up, missed>>
  /\ UNCHANGED <<link, deferred, served, ledgerVars, blipped, listens, faults>>

\* The remote's `disconnect', if it was connected.
Drops ==
  /\ link # "down" /\ faults < MaxFaults /\ faults' = faults + 1
  /\ link' = "down" /\ up' = <<>> /\ down' = <<>> /\ served' = {}
  /\ sync' = (sync /\ link # "up")
  /\ UNCHANGED <<subs, asks, offers, deferred, ledgerVars, missed, blipped,
                 listens>>

\* The same with the socket still open; and back again, without prepare.
StatusOffline ==
  /\ link = "up" /\ faults < MaxFaults /\ faults' = faults + 1
  /\ link' = "open" /\ sync' = FALSE /\ blipped' = TRUE
  /\ UNCHANGED <<subs, asks, offers, deferred, up, down, served, ledgerVars,
                 missed, listens>>

StatusOnline ==
  /\ link = "open" /\ blipped 
  /\ \A i \in DOMAIN up : up[i].type # "prepare"
  /\ \A i \in DOMAIN down : down[i].type # "subscribed"
  /\ Connects
  /\ UNCHANGED <<clientVars, down, served, ledgerVars, missed, blipped, listens,
                 faults>>

Next ==
  \/ \E k \in Kinds : Listen(k) \/ Unlisten(k)
  \/ Ask
  \/ \E o \in Offers : Creates(o) \/ Cancels(o)
  \/ Consumes(0) \/ Consumes(1)
  \/ Opens \/ Serves \/ Subscribed \/ Snapshot \/ Notify
  \/ Drops \/ StatusOffline \/ StatusOnline

Spec == Init /\ [][Next]_vars

\* The connection is made, the server answers in order and recovers.
Fairness == WF_vars(Opens \/ Serves \/ Subscribed \/ Snapshot \/ Notify \/ StatusOnline)

FairSpec == Spec /\ Fairness

-----------------------------------------------------------------------------
(* Properties.                                                             *)

\* A list is a top of the book in the ledger: its offers are in the ledger with
\* the same amounts, once each and in order of price, and an offer of the
\* ledger that is not shown is worse than every one that is.
IsTop(list) ==
  /\ IsInjective([i \in DOMAIN list |-> list[i].index])
  /\ \A i, j \in DOMAIN list : i < j => Price(list[i].index) =< Price(list[j].index)
  /\ ToSet(list) \subseteq ToSet(ledger)
  /\ \A e \in ToSet(ledger) \ ToSet(list), f \in ToSet(list) :
       Price(e.index) > Price(f.index)

\* A synchronized book that the server tells about, and that has handled what
\* it was told, is a top of the ledger's, whatever snapshots, transactions and
\* subscriptions crossed on the way (orderbook.js:96, 184).
BookIsTop == sync /\ "book" \in served /\ down = <<>> => IsTop(offers)

Quiet == link = "up" /\ up = <<>> /\ down = <<>>

\* When nothing is under way, the server has subscribed the client to what it
\* listens to and nothing else, unless a first listener came or a last one left
\* between the preparation and the remote's `connect' (orderbook.js:41,52;
\* account.js:46,60; remote.js:216,228).
SubscriptionsAgree == Quiet /\ ~missed => served = Listened

\* A book with listeners is synchronized in the end, and who called offers()
\* gets them, unless its listener came in that gap or the server reported to
\* be offline in between (orderbook.js:64, 97).
BookSyncs ==
  subs["book"] > 0 ~> \/ sync /\ asks = 0
                      \/ subs["book"] = 0 \/ missed \/ blipped
=============================================================================
