------------------------- MODULE LedgerWatchProofs -------------------------
(* What holds of LedgerWatch with one server, for every number of            *)
(* transactions, ledgers, drops, status changes and submissions.             *)
EXTENDS LedgerWatch, TLAPS

\* The index is no further than the server; and as far, while the server is
\* followed without a gap.
IndexFollows ==
  \A s \in Servers :
    /\ current =< pos[s] + 1
    /\ Steady /\ current # 0 => current = pos[s] + 1

\* Offline, a listener that was removed is going to be asked back; online, the
\* history that brings it back has been asked for.
ListenerReturns ==
  \A s \in Servers :
    /\ link[s] = "up" => ~rejoin
    /\ watching = 0 => rejoin \/ (link[s] = "up" /\ history[s] > 0)

\* There is one listener, or one request that will register one, or one
\* reconnection that will make this request; before the first connection the
\* listener of the beginning.
OneListener ==
  flaps = 0 =>
    \A s \in Servers :
      /\ watching + history[s] + (IF rejoin THEN 1 ELSE 0) = 1
      /\ link[s] # "up" => history[s] = 0 /\ (watching = 0 \/ ~known)

\* Over a steady link it is the one of the beginning.
FirstListener ==
  Steady => ~rejoin /\ \A s \in Servers : history[s] = 0

\* Without a sequence nothing is sent, so that nothing can be told.
NothingSent ==
  ~known => \A t \in Txs : phase[t] = "new" /\ missing[t] = 0 /\ lost[t] = 0

\* An event was told once, at an index that is past.
ToldInThePast ==
  flaps = 0 => \A t \in Txs :
    /\ missing[t] =< 1 /\ (missing[t] = 1 => current > submitIndex[t] + 4)
    /\ lost[t] =< 1 /\ (lost[t] = 1 => current > submitIndex[t] + 8)

WatchInv ==
  /\ TypeOK /\ IndexFollows /\ ListenerReturns /\ OneListener /\ FirstListener
  /\ NothingSent /\ ToldInThePast /\ LostIsTold

-----------------------------------------------------------------------------

LEMMA InitWatch == ASSUME NEW s, Servers = {s}, Init PROVE WatchInv
<1>. USE WatchAssumption
<1>1. TypeOK
  <2>1. tip \in 1..MaxLedger /\ pos \in [Servers -> 0..tip] BY DEF Init
  <2>2. submitIndex \in [Txs -> 0..current] /\ sends \in [Txs -> 0..MaxSends] BY DEF Init
  <2>3. drops \in 0..MaxDrops /\ flaps \in 0..MaxFlaps /\ skips \in 0..MaxSkips
    BY DEF Init
  <2>. QED BY <2>1, <2>2, <2>3 DEF Init, TypeOK
<1>2. IndexFollows BY DEF Init, IndexFollows
<1>3. ListenerReturns BY DEF Init, ListenerReturns
<1>4. OneListener BY DEF Init, OneListener
<1>5. FirstListener BY DEF Init, FirstListener
<1>6. NothingSent BY DEF Init, NothingSent
<1>7. ToldInThePast BY DEF Init, ToldInThePast
<1>8. LostIsTold BY DEF Init, LostIsTold
<1>. QED BY <1>1, <1>2, <1>3, <1>4, <1>5, <1>6, <1>7, <1>8 DEF WatchInv

\* An index not behind the client's is told; one event is told twice only if
\* two listeners hear its index or the index is heard twice.
LEMMA AnnounceTells ==
  ASSUME NEW s, Servers = {s}, WatchInv, NEW index \in 1..tip,
         index + 1 >= current, index >= pos[s],
         flaps = 0 => index >= current \/ watching = 0 \/ ~known,
         Announce(index)
  PROVE  /\ current' = index + 1
         /\ missing' \in [Txs -> Nat] /\ lost' \in [Txs -> Nat]
         /\ flaps = 0 => \A t \in Txs :
              /\ missing'[t] =< 1 /\ (missing'[t] = 1 => index + 1 > submitIndex[t] + 4)
              /\ lost'[t] =< 1 /\ (lost'[t] = 1 => index + 1 > submitIndex[t] + 8)
         /\ \A t \in Txs : lost'[t] >= lost[t]
         /\ \A t \in Txs : phase[t] = "pending" /\ submitIndex[t] # 0
              /\ index = submitIndex[t] + 8 => lost'[t] >= watching
         /\ ~known => missing' = missing /\ lost' = lost
<1>. /\ missing \in [Txs -> Nat] /\ lost \in [Txs -> Nat] /\ watching \in Nat
     /\ submitIndex \in [Txs -> Nat] /\ current \in Nat
  BY DEF WatchInv, TypeOK
<1>1. current' = index + 1 BY DEF Announce
<1>2. \A t \in Txs :
        /\ missing'[t] = missing[t] + IF Due(t, index, 4) THEN watching ELSE 0
        /\ lost'[t] = lost[t] + IF Due(t, index, 8) THEN watching ELSE 0
  BY DEF Announce, Emit
<1>3. missing' \in [Txs -> Nat] /\ lost' \in [Txs -> Nat]
  BY DEF Announce, Emit
<1>4. ASSUME flaps = 0
      PROVE  \A t \in Txs :
              /\ missing'[t] =< 1 /\ (missing'[t] = 1 => index + 1 > submitIndex[t] + 4)
              /\ lost'[t] =< 1 /\ (lost'[t] = 1 => index + 1 > submitIndex[t] + 8)
  <2>1. watching =< 1 BY <1>4 DEF WatchInv, OneListener, TypeOK
  <2>2. \A t \in Txs :
          /\ missing[t] =< 1 /\ (missing[t] = 1 => current > submitIndex[t] + 4)
          /\ lost[t] =< 1 /\ (lost[t] = 1 => current > submitIndex[t] + 8)
    BY <1>4 DEF WatchInv, ToldInThePast
  <2>3. CASE index >= current BY <1>2, <2>1, <2>2, <2>3 DEF Due
  <2>4. CASE watching = 0 BY <1>2, <2>2, <2>4
  <2>5. CASE ~known
    <3>1. \A t \in Txs : ~Due(t, index, 4) /\ ~Due(t, index, 8)
      BY <2>5 DEF WatchInv, NothingSent, Due
    <3>. QED BY <1>2, <2>2, <3>1
  <2>. QED BY <1>4, <2>3, <2>4, <2>5
<1>5. \A t \in Txs : lost'[t] >= lost[t] BY <1>2
<1>6. \A t \in Txs : phase[t] = "pending" /\ submitIndex[t] # 0
              /\ index = submitIndex[t] + 8 => lost'[t] >= watching
  BY <1>2 DEF Due
<1>7. ASSUME ~known PROVE missing' = missing /\ lost' = lost
  <2>1. \A t \in Txs : ~Due(t, index, 4) /\ ~Due(t, index, 8)
    BY <1>7 DEF WatchInv, NothingSent, Due
  <2>2. missing' = [t \in Txs |-> missing[t]] /\ lost' = [t \in Txs |-> lost[t]]
    BY <2>1 DEF Announce, Emit
  <2>. QED BY <2>2
<1>. QED BY <1>1, <1>3, <1>4, <1>5, <1>6, <1>7

LEMMA CloseLedgerKeeps ==
  ASSUME NEW s, Servers = {s}, WatchInv, CloseLedger PROVE WatchInv'
<1>. USE DEF WatchInv, CloseLedger, watchVars, txVars
<1>1. TypeOK'
  <2>1. tip \in Nat /\ tip' \in 1..MaxLedger BY WatchAssumption DEF TypeOK
  <2>2. 0..tip \subseteq 0..tip' BY <2>1
  <2>. QED BY <2>1, <2>2 DEF TypeOK
<1>2. IndexFollows' /\ FirstListener' BY DEF IndexFollows, FirstListener, Steady
<1>3. ListenerReturns' /\ OneListener' BY DEF ListenerReturns, OneListener
<1>4. NothingSent' /\ ToldInThePast' BY DEF NothingSent, ToldInThePast
<1>5. LostIsTold' BY DEF LostIsTold, Steady
<1>. QED BY <1>1, <1>2, <1>3, <1>4, <1>5

LEMMA OpenSocketKeeps ==
  ASSUME NEW s, Servers = {s}, WatchInv, OpenSocket(s) PROVE WatchInv'
<1>. USE DEF WatchInv, OpenSocket, watchVars, txVars
<1>1. TypeOK' BY DEF TypeOK
<1>2. IndexFollows' /\ FirstListener' BY DEF IndexFollows, FirstListener, Steady
<1>3. ListenerReturns' /\ OneListener' BY DEF ListenerReturns, OneListener, TypeOK
<1>4. NothingSent' /\ ToldInThePast' BY DEF NothingSent, ToldInThePast
<1>5. LostIsTold' BY DEF LostIsTold, Steady
<1>. QED BY <1>1, <1>2, <1>3, <1>4, <1>5

\* The listeners when the server comes online.
LEMMA ConnectsListens ==
  ASSUME NEW s, Servers = {s}, WatchInv, link[s] # "up", link'[s] \in {"idle", "up"},
         link' \in [Servers -> {"down", "open", "idle", "up"}],
         IF link'[s] = "up" THEN Connects(s) ELSE UNCHANGED <<rejoin, history>>,
         UNCHANGED <<watching, known, drops, flaps, skips>>
  PROVE  /\ rejoin' \in BOOLEAN /\ history' \in [Servers -> Nat]
         /\ ListenerReturns' /\ OneListener' /\ FirstListener'
<1>1. ~Online BY DEF Online
<1>2. CASE link'[s] = "up"
  <2>1. /\ rejoin' = FALSE
        /\ history' = [history EXCEPT ![s] = @ + IF rejoin THEN 1 ELSE 0]
    BY <1>1, <1>2 DEF Connects, Asks
  <2>2. rejoin' \in BOOLEAN /\ history' \in [Servers -> Nat]
    <3>1. history \in [Servers -> Nat] BY DEF WatchInv, TypeOK
    <3>2. history[s] + (IF rejoin THEN 1 ELSE 0) \in Nat BY <3>1
    <3>. QED BY <2>1, <3>1, <3>2
  <2>3. ListenerReturns'
    <3>1. watching = 0 => rejoin BY DEF WatchInv, ListenerReturns
    <3>2. history[s] \in Nat /\ (rejoin => history'[s] = history[s] + 1)
      BY <2>1 DEF WatchInv, TypeOK
    <3>. QED BY <1>2, <2>1, <3>1, <3>2 DEF ListenerReturns
  <2>4. OneListener'
    BY <2>1, <1>2 DEF WatchInv, TypeOK, OneListener
  <2>5. FirstListener'
    BY <2>1 DEF WatchInv, TypeOK, FirstListener, Steady
  <2>. QED BY <2>2, <2>3, <2>4, <2>5
<1>3. CASE link'[s] = "idle"
  <2>1. UNCHANGED <<rejoin, history>> BY <1>3
  <2>. QED
    BY <1>3, <2>1 DEF WatchInv, TypeOK, ListenerReturns, OneListener, FirstListener, Steady
<1>. QED BY <1>2, <1>3

LEMMA SubscribedKeeps ==
  ASSUME NEW s, Servers = {s}, WatchInv, NEW index \in 0..tip,
         NEW status \in {"idle", "up"}, Subscribed(s, index, status)
  PROVE  WatchInv'
<1>. /\ tip \in Nat /\ pos \in [Servers -> 0..tip] /\ current \in Nat
     /\ link \in [Servers -> {"down", "open", "idle", "up"}]
     /\ submitIndex \in [Txs -> Nat] /\ watching \in Nat
  BY DEF WatchInv, TypeOK
<1>1. /\ link[s] = "open" /\ index >= pos[s]
      /\ pos' = [pos EXCEPT ![s] = index] /\ link' = [link EXCEPT ![s] = status]
      /\ UNCHANGED <<tip, drops, flaps, skips, watching, txVars>>
  BY DEF Subscribed
<1>2. /\ rejoin' \in BOOLEAN /\ history' \in [Servers -> Nat]
      /\ ListenerReturns' /\ OneListener' /\ FirstListener'
  <2>1. link'[s] = status /\ link' \in [Servers -> {"down", "open", "idle", "up"}]
    BY <1>1
  <2>2. IF link'[s] = "up" THEN Connects(s) ELSE UNCHANGED <<rejoin, history>>
    BY <2>1 DEF Subscribed
  <2>. QED BY <1>1, <2>1, <2>2, ConnectsListens DEF txVars
\* Over a steady link this is the first connection.
<1>3. Steady => ~known BY <1>1 DEF WatchInv, TypeOK, OneListener, FirstListener, Steady
<1>4. flaps = 0 => watching = 0 \/ ~known BY <1>1 DEF WatchInv, OneListener
<1>5. IndexFollows' /\ current' \in {0} \cup 2..(tip + 1) /\ current' >= current
  BY <1>1 DEF Subscribed, Announce, Silent, WatchInv, TypeOK, IndexFollows, Steady
<1>6. /\ missing' \in [Txs -> Nat] /\ lost' \in [Txs -> Nat]
      /\ ToldInThePast' /\ (~known => missing' = missing /\ lost' = lost)
  <2>1. CASE index = 0
    BY <1>1, <2>1 DEF Subscribed, Silent, WatchInv, TypeOK, ToldInThePast, txVars
  <2>2. CASE index > 0
    <3>1. Announce(index) BY <2>2 DEF Subscribed
    <3>2. index \in 1..tip /\ index + 1 >= current
      BY <1>1, <2>2 DEF WatchInv, IndexFollows
    <3>. QED BY <1>1, <1>4, <3>1, <3>2, AnnounceTells DEF ToldInThePast, txVars
  <2>. QED BY <2>1, <2>2
<1>7. TypeOK' BY <1>1, <1>2, <1>5, <1>6 DEF WatchInv, TypeOK, txVars
<1>8. NothingSent' BY <1>1, <1>6 DEF WatchInv, NothingSent, txVars
<1>9. LostIsTold'
  BY <1>1, <1>3 DEF WatchInv, NothingSent, LostIsTold, Steady, txVars
<1>. QED BY <1>2, <1>5, <1>6, <1>7, <1>8, <1>9 DEF WatchInv

LEMMA LedgerClosedKeeps ==
  ASSUME NEW s, Servers = {s}, WatchInv, NEW index \in 1..tip, LedgerClosed(s, index)
  PROVE  WatchInv'
<1>. /\ tip \in Nat /\ pos \in [Servers -> 0..tip] /\ current \in Nat
     /\ skips \in Nat /\ submitIndex \in [Txs -> 0..current] /\ watching \in Nat
     /\ lost \in [Txs -> Nat]
  BY DEF WatchInv, TypeOK
<1>1. /\ index >= pos[s] + 1 /\ pos' = [pos EXCEPT ![s] = index]
      /\ skips' = skips + index - pos[s] - 1 /\ skips' =< MaxSkips
      /\ UNCHANGED <<tip, link, drops, flaps, watchVars, txVars>>
  BY DEF LedgerClosed
<1>2. /\ ListenerReturns' /\ OneListener'
  BY <1>1 DEF WatchInv, ListenerReturns, OneListener, watchVars, txVars
<1>3. Steady' => Steady /\ index = pos[s] + 1
  <2>1. pos[s] \in Nat /\ index \in Nat OBVIOUS
  <2>. QED BY <1>1, <2>1 DEF Steady
<1>4. FirstListener' BY <1>1, <1>3 DEF WatchInv, FirstListener, watchVars
<1>5. IndexFollows' /\ current' \in {0} \cup 2..(tip + 1) /\ current' >= current
  BY <1>1, <1>3 DEF LedgerClosed, Advances, Announce, Silent, WatchInv, TypeOK,
                    IndexFollows
<1>6. CASE Advances(index)
  <2>1. Announce(index) BY <1>6 DEF LedgerClosed
  <2>2. index >= current BY <1>6 DEF Advances
  <2>3. /\ missing' \in [Txs -> Nat] /\ lost' \in [Txs -> Nat]
        /\ ToldInThePast' /\ (~known => missing' = missing /\ lost' = lost)
    BY <1>1, <2>1, <2>2, AnnounceTells DEF ToldInThePast, txVars
  <2>4. TypeOK'
    BY <1>1, <1>5, <2>3 DEF WatchInv, TypeOK, watchVars, txVars
  <2>5. NothingSent' BY <1>1, <2>3 DEF WatchInv, NothingSent, txVars
  <2>6. LostIsTold'
    <3>. SUFFICES ASSUME Steady', NEW t \in Txs, phase[t] = "pending",
                         submitIndex[t] # 0, current' > submitIndex[t] + 8
                  PROVE  lost'[t] > 0
      BY <1>1 DEF LostIsTold, txVars
    <3>1. current # 0 /\ current = index /\ current' = index + 1
      BY <1>3, <1>6, <2>1 DEF Advances, WatchInv, IndexFollows, Announce
    <3>2. CASE current > submitIndex[t] + 8
      <4>1. lost[t] > 0 BY <1>3, <3>2 DEF WatchInv, LostIsTold
      <4>2. lost'[t] >= lost[t] BY <1>1, <2>1, <2>2, AnnounceTells
      <4>. QED BY <2>3, <4>1, <4>2
    <3>3. CASE index = submitIndex[t] + 8
      <4>1. watching = 1
        BY <1>3 DEF WatchInv, TypeOK, OneListener, FirstListener, Steady
      <4>2. lost'[t] >= watching BY <1>1, <2>1, <2>2, <3>3, AnnounceTells
      <4>. QED BY <2>3, <4>1, <4>2
    <3>. QED BY <3>1, <3>2, <3>3
  <2>. QED BY <1>2, <1>4, <1>5, <2>3, <2>4, <2>5, <2>6 DEF WatchInv
<1>7. CASE ~Advances(index)
  <2>1. UNCHANGED <<current, missing, lost>> BY <1>7 DEF LedgerClosed, Silent
  <2>2. TypeOK' BY <1>1, <2>1 DEF WatchInv, TypeOK, watchVars, txVars
  <2>3. NothingSent' /\ ToldInThePast'
    BY <1>1, <2>1 DEF WatchInv, NothingSent, ToldInThePast, txVars
  <2>4. LostIsTold' BY <1>1, <1>3, <2>1 DEF WatchInv, LostIsTold, txVars
  <2>. QED BY <1>2, <1>4, <1>5, <2>2, <2>3, <2>4 DEF WatchInv
<1>. QED BY <1>6, <1>7

LEMMA StatusOnlineKeeps ==
  ASSUME NEW s, Servers = {s}, WatchInv, StatusOnline(s) PROVE WatchInv'
<1>1. /\ link[s] = "idle" /\ link' = [link EXCEPT ![s] = "up"] /\ Connects(s)
      /\ UNCHANGED <<tip, pos, drops, flaps, skips, current, watching, txVars,
                     missing, lost>>
  BY DEF StatusOnline
<1>2. link \in [Servers -> {"down", "open", "idle", "up"}] BY DEF WatchInv, TypeOK
<1>3. link'[s] = "up" /\ link' \in [Servers -> {"down", "open", "idle", "up"}]
  BY <1>1, <1>2
<1>4. /\ rejoin' \in BOOLEAN /\ history' \in [Servers -> Nat]
      /\ ListenerReturns' /\ OneListener' /\ FirstListener'
  BY <1>1, <1>3, ConnectsListens DEF txVars
<1>5. TypeOK' BY <1>1, <1>3, <1>4 DEF WatchInv, TypeOK, txVars
<1>6. IndexFollows' BY <1>1 DEF WatchInv, IndexFollows, Steady
<1>7. NothingSent' /\ ToldInThePast'
  BY <1>1 DEF WatchInv, NothingSent, ToldInThePast, txVars
<1>8. LostIsTold' BY <1>1 DEF WatchInv, LostIsTold, Steady, txVars
<1>. QED BY <1>4, <1>5, <1>6, <1>7, <1>8 DEF WatchInv

\* A server that was online takes the listener with it.
LEMMA DisconnectsStops ==
  ASSUME NEW s, Servers = {s}, WatchInv, Disconnects(s)
  PROVE  /\ rejoin' \in BOOLEAN /\ watching' \in Nat
         /\ IF link[s] = "up" THEN rejoin' = TRUE /\ watching' = Unwatched
                              ELSE UNCHANGED <<rejoin, watching>>
<1>1. Alone(s) BY DEF Alone
<1>2. /\ rejoin \in BOOLEAN /\ watching \in Nat /\ Unwatched \in Nat
  BY DEF Unwatched, WatchInv, TypeOK
<1>3. CASE link[s] = "up" BY <1>1, <1>2, <1>3 DEF Disconnects
<1>4. CASE link[s] # "up" BY <1>2, <1>4 DEF Disconnects
<1>. QED BY <1>3, <1>4

LEMMA StatusOfflineKeeps ==
  ASSUME NEW s, Servers = {s}, WatchInv, StatusOffline(s) PROVE WatchInv'
<1>1. /\ link[s] = "up" /\ flaps < MaxFlaps /\ flaps' = flaps + 1
      /\ link' = [link EXCEPT ![s] = "idle"] /\ Disconnects(s)
      /\ UNCHANGED <<tip, pos, drops, skips, current, history, txVars, missing, lost>>
  BY DEF StatusOffline
<1>2. rejoin' = TRUE /\ watching' \in Nat BY <1>1, DisconnectsStops
<1>3. flaps' \in 0..MaxFlaps /\ flaps' # 0
  BY <1>1, WatchAssumption DEF WatchInv, TypeOK
<1>4. TypeOK' BY <1>1, <1>2, <1>3 DEF WatchInv, TypeOK, txVars
<1>5. IndexFollows' BY <1>1, <1>3 DEF WatchInv, IndexFollows, Steady
<1>6. ListenerReturns'
  BY <1>1, <1>2 DEF WatchInv, TypeOK, ListenerReturns
<1>7. OneListener' /\ FirstListener' /\ ToldInThePast' /\ LostIsTold'
  BY <1>3 DEF OneListener, FirstListener, ToldInThePast, LostIsTold, Steady
<1>8. NothingSent' BY <1>1 DEF WatchInv, NothingSent, txVars
<1>. QED BY <1>4, <1>5, <1>6, <1>7, <1>8 DEF WatchInv

LEMMA DropKeeps ==
  ASSUME NEW s, Servers = {s}, WatchInv, Drop(s) PROVE WatchInv'
<1>1. /\ link[s] # "down" /\ drops < MaxDrops /\ drops' = drops + 1
      /\ link' = [link EXCEPT ![s] = "down"] /\ Disconnects(s)
      /\ history' = [history EXCEPT ![s] = 0]
      /\ UNCHANGED <<tip, pos, flaps, skips, current, txVars, missing, lost>>
  BY DEF Drop
<1>2. /\ rejoin' \in BOOLEAN /\ watching' \in Nat
      /\ IF link[s] = "up" THEN rejoin' = TRUE /\ watching' = Unwatched
                           ELSE UNCHANGED <<rejoin, watching>>
  BY <1>1, DisconnectsStops
<1>3. drops' \in 0..MaxDrops /\ drops' # 0
  BY <1>1, WatchAssumption DEF WatchInv, TypeOK
<1>4. TypeOK' BY <1>1, <1>2, <1>3 DEF WatchInv, TypeOK, txVars
<1>5. IndexFollows' BY <1>1, <1>3 DEF WatchInv, IndexFollows, Steady
<1>6. ListenerReturns'
  BY <1>1, <1>2 DEF WatchInv, TypeOK, ListenerReturns
<1>7. OneListener'
  <2>. SUFFICES ASSUME flaps = 0
       PROVE  /\ watching' + history'[s] + (IF rejoin' THEN 1 ELSE 0) = 1
              /\ history'[s] = 0 /\ (watching' = 0 \/ ~known)
    BY <1>1 DEF OneListener, txVars
  <2>1. /\ watching \in Nat /\ history[s] \in Nat /\ rejoin \in BOOLEAN
        /\ watching + history[s] + (IF rejoin THEN 1 ELSE 0) = 1
    BY DEF WatchInv, TypeOK, OneListener
  <2>2. history'[s] = 0 BY <1>1 DEF WatchInv, TypeOK
  <2>3. CASE link[s] = "up"
    <3>1. watching' = 0 /\ rejoin' = TRUE BY <1>2, <2>1, <2>3 DEF Unwatched
    <3>. QED BY <2>2, <3>1
  <2>4. CASE link[s] # "up"
    <3>1. history[s] = 0 /\ (watching = 0 \/ ~known) BY <2>4 DEF WatchInv, OneListener
    <3>. QED BY <1>2, <2>1, <2>2, <2>4, <3>1
  <2>. QED BY <2>3, <2>4
<1>8. FirstListener' /\ LostIsTold' BY <1>3 DEF FirstListener, LostIsTold, Steady
<1>9. NothingSent' /\ ToldInThePast'
  BY <1>1 DEF WatchInv, NothingSent, ToldInThePast, txVars
<1>. QED BY <1>4, <1>5, <1>6, <1>7, <1>8, <1>9 DEF WatchInv

LEMMA HistoryAnsweredKeeps ==
  ASSUME NEW s, Servers = {s}, WatchInv, NEW found, HistoryAnswered(s, found)
  PROVE  WatchInv'
<1>1. /\ history[s] > 0 /\ history' = [history EXCEPT ![s] = @ - 1]
      /\ watching' = watching + 1
      /\ found \subseteq {t \in Txs : phase[t] = "pending"}
      /\ phase' = [t \in Txs |-> IF t \in found THEN "final" ELSE phase[t]]
      /\ UNCHANGED <<netVars, current, rejoin, known, submitIndex, sends, missing, lost>>
  BY DEF HistoryAnswered
<1>2. TypeOK' BY <1>1 DEF WatchInv, TypeOK, netVars
<1>3. IndexFollows' BY <1>1 DEF WatchInv, IndexFollows, Steady, netVars
<1>4. ListenerReturns' BY <1>1 DEF WatchInv, TypeOK, ListenerReturns, netVars
<1>5. OneListener' BY <1>1 DEF WatchInv, TypeOK, OneListener, netVars
<1>6. FirstListener' BY <1>1 DEF WatchInv, TypeOK, FirstListener, Steady, netVars
<1>7. NothingSent' BY <1>1 DEF WatchInv, NothingSent
<1>8. ToldInThePast' BY <1>1 DEF WatchInv, ToldInThePast, netVars
<1>9. LostIsTold' BY <1>1 DEF WatchInv, LostIsTold, Steady, netVars
<1>. QED BY <1>2, <1>3, <1>4, <1>5, <1>6, <1>7, <1>8, <1>9 DEF WatchInv

LEMMA SequenceLoadedKeeps ==
  ASSUME NEW s, Servers = {s}, WatchInv, SequenceLoaded PROVE WatchInv'
<1>1. /\ link[s] = "up" /\ known' = TRUE
      /\ UNCHANGED <<netVars, current, watchVars, phase, submitIndex, sends,
                     missing, lost>>
  BY DEF SequenceLoaded, Online
<1>2. TypeOK' BY <1>1 DEF WatchInv, TypeOK, netVars, watchVars
<1>3. IndexFollows' /\ ListenerReturns' /\ OneListener' /\ FirstListener'
  BY <1>1 DEF WatchInv, IndexFollows, ListenerReturns, OneListener, FirstListener,
              Steady, netVars, watchVars
<1>4. NothingSent' BY <1>1 DEF NothingSent
<1>5. ToldInThePast' /\ LostIsTold'
  BY <1>1 DEF WatchInv, ToldInThePast, LostIsTold, Steady, netVars
<1>. QED BY <1>2, <1>3, <1>4, <1>5 DEF WatchInv

LEMMA SendKeeps ==
  ASSUME NEW s, Servers = {s}, WatchInv, NEW t \in Txs, Send(t) PROVE WatchInv'
<1>1. /\ known /\ sends[t] < MaxSends /\ sends' = [sends EXCEPT ![t] = @ + 1]
      /\ phase' = [phase EXCEPT ![t] = "pending"]
      /\ submitIndex' = [submitIndex EXCEPT ![t] = current]
      /\ missing' = [missing EXCEPT ![t] = 0] /\ lost' = [lost EXCEPT ![t] = 0]
      /\ UNCHANGED <<netVars, current, watchVars, known>>
  BY DEF Send
<1>2. TypeOK' BY <1>1, WatchAssumption DEF WatchInv, TypeOK, netVars, watchVars
<1>3. IndexFollows' /\ ListenerReturns' /\ OneListener' /\ FirstListener'
  BY <1>1 DEF WatchInv, IndexFollows, ListenerReturns, OneListener, FirstListener,
              Steady, netVars, watchVars
<1>4. NothingSent' BY <1>1 DEF NothingSent
<1>5. ToldInThePast' BY <1>1 DEF WatchInv, TypeOK, ToldInThePast, netVars
<1>6. LostIsTold' BY <1>1 DEF WatchInv, TypeOK, LostIsTold, Steady, netVars
<1>. QED BY <1>2, <1>3, <1>4, <1>5, <1>6 DEF WatchInv

LEMMA FinishKeeps ==
  ASSUME NEW s, Servers = {s}, WatchInv, NEW t \in Txs, Finish(t) PROVE WatchInv'
<1>1. /\ phase[t] = "pending" /\ phase' = [phase EXCEPT ![t] = "final"]
      /\ UNCHANGED <<netVars, current, watchVars, known, submitIndex, sends,
                     missing, lost>>
  BY DEF Finish
<1>2. TypeOK' BY <1>1 DEF WatchInv, TypeOK, netVars, watchVars
<1>3. IndexFollows' /\ ListenerReturns' /\ OneListener' /\ FirstListener'
  BY <1>1 DEF WatchInv, IndexFollows, ListenerReturns, OneListener, FirstListener,
              Steady, netVars, watchVars
<1>4. NothingSent' BY <1>1 DEF WatchInv, TypeOK, NothingSent
<1>5. ToldInThePast' BY <1>1 DEF WatchInv, ToldInThePast, netVars
<1>6. LostIsTold' BY <1>1 DEF WatchInv, TypeOK, LostIsTold, Steady, netVars
<1>. QED BY <1>2, <1>3, <1>4, <1>5, <1>6 DEF WatchInv

-----------------------------------------------------------------------------

LEMMA WatchInvariant ==
  ASSUME NEW s, Servers = {s} PROVE Spec => []WatchInv
<1>1. Init => WatchInv BY InitWatch
<1>2. WatchInv /\ [Next]_vars => WatchInv'
  <2>. SUFFICES ASSUME WatchInv, [Next]_vars PROVE WatchInv' OBVIOUS
  <2>1. CASE Links
    <3>1. PICK r \in Servers :
            \/ OpenSocket(r) \/ StatusOnline(r) \/ StatusOffline(r) \/ Drop(r)
            \/ \E index \in 0..tip, status \in {"idle", "up"} :
                 Subscribed(r, index, status)
            \/ \E found \in SUBSET Txs : HistoryAnswered(r, found)
      BY <2>1 DEF Links
    <3>2. r = s OBVIOUS
    <3>. QED
      BY <3>1, <3>2, OpenSocketKeeps, StatusOnlineKeeps, StatusOfflineKeeps, DropKeeps,
         SubscribedKeeps, HistoryAnsweredKeeps
  <2>2. CASE CloseLedger BY <2>2, CloseLedgerKeeps
  <2>3. CASE \E r \in Servers, i \in 1..tip : LedgerClosed(r, i)
    BY <2>3, LedgerClosedKeeps
  <2>4. CASE SequenceLoaded BY <2>4, SequenceLoadedKeeps
  <2>5. ASSUME NEW t \in Txs, Send(t) PROVE WatchInv' BY <2>5, SendKeeps
  <2>6. ASSUME NEW t \in Txs, Finish(t) PROVE WatchInv' BY <2>6, FinishKeeps
  <2>7. CASE UNCHANGED vars
    BY <2>7 DEF vars, netVars, watchVars, txVars, WatchInv, TypeOK, IndexFollows,
       ListenerReturns, OneListener, FirstListener, NothingSent, ToldInThePast,
       LostIsTold, Steady
  <2>. QED BY <2>1, <2>2, <2>3, <2>4, <2>5, <2>6, <2>7 DEF Next, Ledgers
<1>. QED BY <1>1, <1>2, PTL DEF Spec

\* With one server the index the client follows is one the server told, and no
\* transaction was submitted at a later one: the shared index does not move back.
THEOREM WatchTypes == ASSUME NEW s, Servers = {s} PROVE Spec => []TypeOK
<1>1. WatchInv => TypeOK BY DEF WatchInv
<1>. QED BY <1>1, WatchInvariant, PTL

\* With one server the listener behind `missing' and `lost' is registered, or
\* the history that registers it is on its way, or a reconnection asks for it.
THEOREM ListenerComesBack == ASSUME NEW s, Servers = {s} PROVE Spec => []WatchRestored
<1>1. WatchInv => WatchRestored BY DEF WatchInv, ListenerReturns, WatchRestored
<1>. QED BY <1>1, WatchInvariant, PTL

\* With one server that keeps its status `missing' and `lost' are told at most
\* once for each submission, however often the link drops.
THEOREM EventsToldOnce == ASSUME NEW s, Servers = {s} PROVE Spec => []ToldOnce
<1>1. WatchInv => ToldOnce BY DEF WatchInv, ToldInThePast, ToldOnce
<1>. QED BY <1>1, WatchInvariant, PTL

\* Over a steady link no transaction passes its eighth ledger untold.
THEOREM LossIsTold == ASSUME NEW s, Servers = {s} PROVE Spec => []LostIsTold
<1>1. WatchInv => LostIsTold BY DEF WatchInv
<1>. QED BY <1>1, WatchInvariant, PTL
=============================================================================
