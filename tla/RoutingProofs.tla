--------------------------- MODULE RoutingProofs ---------------------------
(* What holds of RequestRouting for every number of servers, requests,        *)
(* faults and calls of disconnect(): first of the connections, then of the    *)
(* messages (their numbers, where they wait, whose answers the requests are   *)
(* given, and that no request is forgotten).                                  *)
EXTENDS RequestRouting, FiniteSetTheorems, WellFoundedInduction, TLAPS

LinkStates == {"none", "connecting", "open", "closing", "aborted", "lost", "closed"}
InUse == {"connecting", "open"}

Permutation(o) == o \in [Servers -> Servers] /\ IsInjective(o)

ConnTypes ==
  /\ link \in [Servers -> LinkStates] /\ should \in [Servers -> BOOLEAN]
  /\ online \subseteq Servers /\ belated \in BOOLEAN
  /\ Permutation(order) /\ next \in 0..N /\ count \in Nat
  /\ connected \in BOOLEAN /\ wanted \in BOOLEAN /\ overtaken \in BOOLEAN
  /\ shuffled \in BOOLEAN

\* A socket is in use only at a server that was told to connect.
UseIsAsked == \A s \in Servers : link[s] \in InUse => should[s]

\* A server is online on an open socket, or a message came late.
OnlineIsOpen == ~belated => \A s \in online : link[s] = "open"

\* After a disconnect() that connect() did not overlap nothing is in use and
\* nothing will be made.
NothingRuns ==
  ~wanted /\ ~overtaken =>
    next = 0 /\ \A s \in Servers : ~should[s] /\ link[s] \notin InUse

\* The servers connect() has turned to.
Turned == IF next = 0 THEN Servers ELSE {order[i] : i \in 1..(next - 1)}

\* In an array that was not sorted meanwhile they were all told to connect.
TurnedIsAsked ==
  wanted /\ ~shuffled /\ ~overtaken /\ ~belated => \A s \in Turned : should[s]

ConnInv ==
  /\ ConnTypes /\ CountsServers
  /\ UseIsAsked /\ OnlineIsOpen /\ NothingRuns /\ TurnedIsAsked

-----------------------------------------------------------------------------
(* Servers by count.                                                         *)

LEMMA ServersFinite == IsFiniteSet(Servers) /\ Cardinality(Servers) = N
<1>. N \in Nat \ {0} BY RoutingAssumption
<1>. QED BY FS_Interval DEF Servers

\* One server goes online, or offline; and none is if and only if the count is
\* zero.
LEMMA ServersCount ==
  ASSUME NEW on \in SUBSET Servers
  PROVE  /\ Cardinality(on) \in Nat
         /\ Cardinality(on) = 0 <=> on = {}
         /\ \A s \in Servers \ on : Cardinality(on \cup {s}) = Cardinality(on) + 1
         /\ \A s \in on : Cardinality(on \ {s}) = Cardinality(on) - 1
<1>1. IsFiniteSet(on) BY ServersFinite, FS_Subset
<1>. QED BY <1>1, FS_EmptySet, FS_CardinalityType, FS_AddElement, FS_RemoveElement

\* An array of all servers reaches each of them.
LEMMA ArrayReachesAll ==
  ASSUME NEW o, Permutation(o), NEW s \in Servers
  PROVE  \E i \in Servers : o[i] = s
<1>. SUFFICES ASSUME \A i \in Servers : o[i] # s PROVE FALSE OBVIOUS
<1>. DEFINE Rest == Servers \ {s}
<1>1. o \in [Servers -> Rest] BY DEF Permutation
<1>2. IsFiniteSet(Rest) /\ Cardinality(Rest) = N - 1
  BY ServersFinite, FS_RemoveElement
<1>3. Cardinality(Rest) < Cardinality(Servers)
  BY <1>2, ServersFinite, RoutingAssumption
<1>4. \E x, y \in Servers : x # y /\ o[x] = o[y]
  BY <1>1, <1>2, <1>3, ServersFinite, FS_PigeonHole
<1>. QED BY <1>4 DEF Permutation, IsInjective

-----------------------------------------------------------------------------
(* Connections.                                                              *)

\* What requests do to them: the array may be sorted, and that is noted while
\* connect() goes through it.
Sorts ==
  /\ UNCHANGED linkVars
  /\ Permutation(order') /\ shuffled' \in BOOLEAN
  /\ shuffled => shuffled'
  /\ next > 0 /\ ~shuffled' => order' = order

LEMMA GetServerSorts ==
  ASSUME ConnTypes, NEW on, NEW s, GetServer(on, s)
  PROVE  /\ Permutation(order') /\ shuffled' \in BOOLEAN
         /\ shuffled => shuffled'
         /\ next > 0 /\ ~shuffled' => order' = order
BY DEF GetServer, Permutation, ConnTypes

LEMMA UnsortedSorts ==
  ASSUME ConnTypes, UNCHANGED orderVars
  PROVE  /\ Permutation(order') /\ shuffled' \in BOOLEAN
         /\ shuffled => shuffled'
         /\ next > 0 /\ ~shuffled' => order' = order
BY DEF orderVars, Permutation, ConnTypes

LEMMA RequestsSort ==
  ASSUME ConnTypes, NEW r \in Requests,
         RequestAny(r) \/ RequestOne(r) \/ Broadcast(r) \/ TimerFires(r)
  PROVE  Sorts
<1>1. CASE RequestAny(r)
  <2>1. UNCHANGED linkVars BY <1>1 DEF RequestAny, Requested
  <2>2. UNCHANGED orderVars \/ \E s \in Servers : GetServer(online, s)
    BY <1>1 DEF RequestAny, Defer
  <2>. QED BY <2>1, <2>2, GetServerSorts, UnsortedSorts DEF Sorts
<1>2. CASE RequestOne(r)
  <2>1. UNCHANGED linkVars /\ UNCHANGED orderVars
    BY <1>2 DEF RequestOne, Requested, Defer
  <2>. QED BY <2>1, UnsortedSorts DEF Sorts
<1>3. CASE Broadcast(r)
  <2>1. UNCHANGED linkVars /\ UNCHANGED orderVars
    BY <1>3 DEF Broadcast, Requested, Defer
  <2>. QED BY <2>1, UnsortedSorts DEF Sorts
<1>4. CASE TimerFires(r)
  BY <1>4, UnsortedSorts DEF TimerFires, Sorts
<1>. QED BY <1>1, <1>2, <1>3, <1>4

\* Sorting alone keeps the invariant.
LEMMA SortsKeeps ==
  ASSUME ConnInv, Sorts
  PROVE  ConnInv'
<1>. USE DEF ConnInv
<1>1. UNCHANGED <<link, online, should, next, count, connected, wanted, overtaken,
                  belated>>
  BY DEF Sorts, linkVars
<1>2. ConnTypes' BY <1>1 DEF ConnTypes, Sorts
<1>3. CountsServers' BY <1>1 DEF CountsServers
<1>4. UseIsAsked' /\ OnlineIsOpen' /\ NothingRuns'
  BY <1>1 DEF UseIsAsked, OnlineIsOpen, NothingRuns
<1>5. TurnedIsAsked'
  <2>. SUFFICES ASSUME wanted', ~shuffled', ~overtaken', ~belated', NEW s \in Turned'
                PROVE  should[s]
    BY <1>1 DEF TurnedIsAsked
  <2>1. wanted /\ ~shuffled /\ ~overtaken /\ ~belated BY <1>1 DEF Sorts, ConnTypes
  <2>2. s \in Turned
    <3>1. CASE next = 0 BY <1>1, <3>1 DEF Turned
    <3>2. CASE next > 0
      BY <1>1, <3>2 DEF Turned, Sorts
    <3>. QED BY <3>1, <3>2 DEF ConnTypes
  <2>. QED BY <2>1, <2>2 DEF TurnedIsAsked
<1>. QED BY <1>2, <1>3, <1>4, <1>5

\* A server goes online.
LEMMA OnlineKeeps ==
  ASSUME ConnInv, NEW s \in Servers, NEW boxes, s \notin online,
         GoesOnline(s, boxes),
         UNCHANGED <<link, should, next, wanted, overtaken>>
  PROVE  ConnInv'
<1>. USE DEF ConnInv
<1>1. /\ online' = online \cup {s}
      /\ count' = count + 1 /\ connected' = (connected \/ count = 0)
      /\ belated' = (belated \/ link[s] # "open")
  BY DEF GoesOnline
<1>2. UNCHANGED orderVars \/ \E on : GetServer(on, s)
  BY DEF GoesOnline
<1>3. /\ Permutation(order') /\ shuffled' \in BOOLEAN
      /\ shuffled => shuffled'
      /\ next > 0 /\ ~shuffled' => order' = order
  BY <1>2, GetServerSorts, UnsortedSorts
<1>4. ConnTypes' BY <1>1, <1>3 DEF ConnTypes
<1>5. CountsServers'
  <2>1. online \in SUBSET Servers BY DEF ConnTypes
  <2>2. Cardinality(online') = count + 1 BY <1>1, <2>1, ServersCount DEF CountsServers
  <2>3. count = 0 \/ online # {} BY <2>1, ServersCount DEF CountsServers
  <2>4. connected' BY <1>1, <2>3 DEF CountsServers
  <2>. QED BY <1>1, <2>2, <2>4 DEF CountsServers
<1>6. UseIsAsked' BY DEF UseIsAsked
<1>7. OnlineIsOpen' BY <1>1 DEF OnlineIsOpen
<1>8. NothingRuns' BY DEF NothingRuns
<1>9. TurnedIsAsked'
  <2>. SUFFICES ASSUME wanted', ~shuffled', ~overtaken', ~belated', NEW t \in Turned'
                PROVE  should[t]
    BY DEF TurnedIsAsked
  <2>1. wanted /\ ~shuffled /\ ~overtaken /\ ~belated BY <1>1, <1>3 DEF ConnTypes
  <2>2. t \in Turned
    <3>1. CASE next = 0 BY <3>1 DEF Turned
    <3>2. CASE next > 0 BY <1>3, <3>2 DEF Turned
    <3>. QED BY <3>1, <3>2 DEF ConnTypes
  <2>. QED BY <2>1, <2>2 DEF TurnedIsAsked
<1>. QED BY <1>4, <1>5, <1>6, <1>7, <1>8, <1>9

\* A server goes offline; its socket stays as it is or is gone.
LEMMA OfflineKeeps ==
  ASSUME ConnInv, NEW s \in Servers, GoesOffline(s),
         link' \in {link, [link EXCEPT ![s] = "lost"]},
         UNCHANGED <<should, order, next, wanted, overtaken, shuffled, belated>>
  PROVE  ConnInv'
<1>. USE DEF ConnInv
<1>1. /\ online' = online \ {s} /\ online \in SUBSET Servers /\ count \in Nat
      /\ link' \in [Servers -> LinkStates] /\ connected \in BOOLEAN
      /\ \A t \in Servers : link'[t] = link[t] \/ (t = s /\ link'[t] = "lost")
  BY DEF GoesOffline, ConnTypes, LinkStates
<1>2. /\ count' \in Nat /\ connected' \in BOOLEAN /\ CountsServers'
  <2>1. CASE s \in online
    <3>1. count' = count - 1 /\ connected' = (connected /\ count > 1)
      BY <2>1 DEF GoesOffline
    <3>2. count' = Cardinality(online')
      BY <1>1, <2>1, <3>1, ServersCount DEF CountsServers
    <3>3. connected BY <2>1 DEF CountsServers
    <3>4. online' \in SUBSET Servers BY <1>1
    <3>5. count' \in Nat /\ (count' = 0 <=> online' = {})
      BY <3>2, <3>4, ServersCount
    <3>6. count > 1 <=> online' # {} BY <1>1, <3>1, <3>5
    <3>. QED BY <3>1, <3>2, <3>3, <3>5, <3>6 DEF CountsServers
  <2>2. CASE s \notin online
    <3>1. count' = count /\ connected' = connected BY <2>2 DEF GoesOffline
    <3>2. online' = online BY <1>1, <2>2
    <3>. QED BY <3>1, <3>2 DEF CountsServers, ConnTypes
  <2>. QED BY <2>1, <2>2
<1>3. ConnTypes' BY <1>1, <1>2 DEF ConnTypes, Permutation
<1>4. UseIsAsked' BY <1>1 DEF UseIsAsked, InUse
<1>5. OnlineIsOpen' BY <1>1 DEF OnlineIsOpen
<1>6. NothingRuns' BY <1>1 DEF NothingRuns, InUse
<1>7. TurnedIsAsked' BY DEF TurnedIsAsked, Turned
<1>. QED BY <1>2, <1>3, <1>4, <1>5, <1>6, <1>7

\* connect() of a server that is not online gives it a socket; one that is
\* online is left alone.
LEMMA ConnectsKeeps ==
  ASSUME ConnInv, NEW s \in Servers, Connects(s),
         UNCHANGED <<online, count, connected, belated>>
  PROVE  /\ link' \in [Servers -> LinkStates]
         /\ should' \in [Servers -> BOOLEAN]
         /\ CountsServers' /\ UseIsAsked' /\ OnlineIsOpen'
         /\ belated \/ should'[s]
         /\ \A t \in Servers : should[t] => should'[t]
<1>. USE DEF ConnInv, ConnTypes
<1>1. CASE s \in online
  <2>1. UNCHANGED <<link, should>> BY <1>1 DEF Connects
  <2>2. belated \/ should[s] BY <1>1 DEF OnlineIsOpen, UseIsAsked, InUse
  <2>. QED BY <2>1, <2>2 DEF CountsServers, UseIsAsked, OnlineIsOpen
<1>2. CASE s \notin online
  <2>1. /\ link' = [link EXCEPT ![s] = "connecting"]
        /\ should' = [should EXCEPT ![s] = TRUE]
    BY <1>2 DEF Connects
  <2>2. OnlineIsOpen' BY <1>2, <2>1 DEF OnlineIsOpen
  <2>. QED BY <2>1, <2>2 DEF CountsServers, UseIsAsked, LinkStates
<1>. QED BY <1>1, <1>2

LEMMA ConnectKeeps == ASSUME ConnInv, Connect PROVE ConnInv'
<1>. USE DEF ConnInv
<1>1. N \in Nat \ {0} /\ 1 \in Servers BY RoutingAssumption DEF Servers
<1>2. order[1] \in Servers BY <1>1 DEF ConnTypes, Permutation
<1>3. /\ Connects(order[1]) /\ wanted' = TRUE
      /\ next' = IF N > 1 THEN 2 ELSE 0
      /\ UNCHANGED <<order, shuffled, online, count, connected, overtaken, belated>>
  BY DEF Connect, orderVars
<1>4. /\ link' \in [Servers -> LinkStates] /\ should' \in [Servers -> BOOLEAN]
      /\ CountsServers' /\ UseIsAsked' /\ OnlineIsOpen'
      /\ belated \/ should'[order[1]]
  BY <1>2, <1>3, ConnectsKeeps
<1>5. ConnTypes' BY <1>1, <1>3, <1>4 DEF ConnTypes, Permutation
<1>6. NothingRuns' BY <1>3 DEF NothingRuns
<1>7. TurnedIsAsked'
  <2>. SUFFICES ASSUME ~belated, NEW t \in Turned' PROVE should'[t]
    BY <1>3 DEF TurnedIsAsked
  <2>1. CASE N > 1
    <3>1. t \in {order[i] : i \in 1..1} BY <1>3, <2>1 DEF Turned
    <3>. QED BY <3>1, <1>4
  <2>2. CASE N = 1
    <3>1. t \in Servers /\ order[1] \in Servers BY <1>1, <1>2, <1>3, <2>2 DEF Turned
    <3>2. t = order[1] BY <2>2, <3>1 DEF Servers
    <3>. QED BY <3>2, <1>4
  <2>. QED BY <1>1, <2>1, <2>2
<1>. QED BY <1>4, <1>5, <1>6, <1>7

LEMMA NextServerKeeps == ASSUME ConnInv, NextServer PROVE ConnInv'
<1>. USE DEF ConnInv
<1>1. next > 0 /\ next \in Servers BY DEF NextServer, ConnTypes, Servers
<1>2. order[next] \in Servers BY <1>1 DEF ConnTypes, Permutation
<1>3. /\ Connects(order[next])
      /\ next' = IF next < N THEN next + 1 ELSE 0
      /\ UNCHANGED <<order, shuffled, online, count, connected, wanted, overtaken,
                     belated>>
  BY DEF NextServer, orderVars
<1>4. /\ link' \in [Servers -> LinkStates] /\ should' \in [Servers -> BOOLEAN]
      /\ CountsServers' /\ UseIsAsked' /\ OnlineIsOpen'
      /\ belated \/ should'[order[next]]
      /\ \A t \in Servers : should[t] => should'[t]
  BY <1>2, <1>3, ConnectsKeeps
<1>5. ConnTypes'
  <2>1. next' \in 0..N BY <1>1, <1>3, RoutingAssumption DEF ConnTypes
  <2>. QED BY <1>3, <1>4, <2>1 DEF ConnTypes, Permutation
<1>6. NothingRuns' BY <1>1, <1>3 DEF NothingRuns
<1>7. TurnedIsAsked'
  <2>. SUFFICES ASSUME wanted, ~shuffled, ~overtaken, ~belated, NEW t \in Turned'
                PROVE  should'[t]
    BY <1>3 DEF TurnedIsAsked
  <2>1. \E j \in 1..next : t = order[j]
    <3>1. CASE next < N
      <4>1. next' = next + 1 /\ next' # 0 /\ next' - 1 = next
        BY <1>1, <1>3, <3>1 DEF Servers
      <4>. QED BY <1>3, <4>1 DEF Turned
    <3>2. CASE ~(next < N)
      <4>1. next = N /\ t \in Servers
        BY <1>1, <1>3, <3>2, RoutingAssumption DEF Turned, Servers
      <4>2. \E j \in Servers : order[j] = t
        BY <4>1, ArrayReachesAll DEF ConnTypes
      <4>. QED BY <4>1, <4>2 DEF Servers
    <3>. QED BY <3>1, <3>2
  <2>2. PICK j \in 1..next : t = order[j] BY <2>1
  <2>3. CASE j = next BY <2>2, <2>3, <1>4
  <2>4. CASE j # next
    <3>1. j \in 1..(next - 1) BY <1>1, <2>4 DEF Servers
    <3>2. t \in Turned BY <1>1, <2>2, <3>1 DEF Turned
    <3>3. should[t] BY <3>2 DEF TurnedIsAsked
    <3>4. j \in Servers BY <1>1, RoutingAssumption DEF Servers
    <3>5. t \in Servers BY <2>2, <3>4 DEF ConnTypes, Permutation
    <3>. QED BY <1>4, <3>3, <3>5
  <2>. QED BY <2>3, <2>4
<1>. QED BY <1>4, <1>5, <1>6, <1>7

LEMMA RetryKeeps ==
  ASSUME ConnInv, NEW s \in Servers, Retry(s) PROVE ConnInv'
<1>. USE DEF ConnInv
<1>1. /\ link[s] = "lost" /\ should[s]
      /\ UNCHANGED <<order, shuffled, online, next, count, connected, wanted,
                     overtaken, belated>>
  BY DEF Retry, RetryWanted, orderVars
<1>2. /\ link' \in [Servers -> LinkStates] /\ should' \in [Servers -> BOOLEAN]
      /\ CountsServers' /\ UseIsAsked' /\ OnlineIsOpen'
      /\ \A t \in Servers : should[t] => should'[t]
  <2>1. CASE s \in online
    <3>1. link' = [link EXCEPT ![s] = "closed"] /\ should' = should
      BY <2>1 DEF Retry
    <3>2. belated BY <1>1, <2>1 DEF OnlineIsOpen
    <3>. QED BY <1>1, <3>1, <3>2 DEF ConnTypes, LinkStates, CountsServers, UseIsAsked,
                                     InUse, OnlineIsOpen
  <2>2. CASE s \notin online
    <3>1. Connects(s) BY <2>2 DEF Retry
    <3>. QED BY <1>1, <3>1, ConnectsKeeps
  <2>. QED BY <2>1, <2>2
<1>3. ConnTypes' BY <1>1, <1>2 DEF ConnTypes, Permutation
<1>4. wanted \/ overtaken BY <1>1 DEF NothingRuns
<1>5. NothingRuns' BY <1>1, <1>4 DEF NothingRuns
<1>6. TurnedIsAsked'
  <2>1. Turned' = Turned BY <1>1 DEF Turned
  <2>2. \A t \in Turned : t \in Servers
    <3>1. CASE next = 0 BY <3>1 DEF Turned
    <3>2. CASE next # 0
      <4>1. 1..(next - 1) \subseteq Servers BY RoutingAssumption DEF ConnTypes, Servers
      <4>. QED BY <3>2, <4>1 DEF Turned, ConnTypes, Permutation
    <3>. QED BY <3>1, <3>2
  <2>. QED BY <1>1, <1>2, <2>1, <2>2 DEF TurnedIsAsked
<1>. QED BY <1>2, <1>3, <1>5, <1>6

LEMMA OpensKeeps ==
  ASSUME ConnInv, NEW s \in Servers, Opens(s) PROVE ConnInv'
<1>. USE DEF ConnInv
<1>1. /\ link[s] = "connecting" /\ link' = [link EXCEPT ![s] = "open"]
      /\ UNCHANGED <<online, should, order, shuffled, next, count, connected, wanted,
                     overtaken, belated>>
  BY DEF Opens, orderVars
<1>2. ConnTypes' BY <1>1 DEF ConnTypes, Permutation, LinkStates
<1>3. CountsServers' BY <1>1 DEF CountsServers
<1>4. UseIsAsked' BY <1>1 DEF UseIsAsked, InUse, ConnTypes
<1>5. OnlineIsOpen' BY <1>1 DEF OnlineIsOpen, ConnTypes
<1>6. wanted \/ overtaken BY <1>1 DEF NothingRuns, InUse
<1>7. NothingRuns' BY <1>1, <1>6 DEF NothingRuns
<1>8. TurnedIsAsked' BY <1>1 DEF TurnedIsAsked, Turned
<1>. QED BY <1>2, <1>3, <1>4, <1>5, <1>7, <1>8

LEMMA DisconnectKeeps == ASSUME ConnInv, Disconnect PROVE ConnInv'
<1>. USE DEF ConnInv
<1>1. /\ wanted' = FALSE /\ overtaken' = (overtaken \/ next > 0)
      /\ should' = [s \in Servers |-> FALSE]
      /\ link' = [s \in Servers |-> ToldToClose(link[s])]
      /\ online' = {} /\ count' = 0 /\ connected' = FALSE
      /\ UNCHANGED <<order, shuffled, next, belated>>
  BY DEF Disconnect, orderVars
<1>2. \A s \in Servers : ToldToClose(link[s]) \in LinkStates \ InUse
  BY DEF ToldToClose, ConnTypes, LinkStates, InUse
<1>3. ConnTypes' BY <1>1, <1>2 DEF ConnTypes, Permutation
<1>4. CountsServers' BY <1>1, FS_EmptySet DEF CountsServers
<1>5. UseIsAsked' /\ OnlineIsOpen' BY <1>1, <1>2 DEF UseIsAsked, OnlineIsOpen
<1>6. NothingRuns' BY <1>1, <1>2 DEF NothingRuns, ConnTypes
<1>7. TurnedIsAsked' BY <1>1 DEF TurnedIsAsked
<1>. QED BY <1>3, <1>4, <1>5, <1>6, <1>7

LEMMA AnswerKeeps ==
  ASSUME ConnInv, NEW s \in Servers, Answer(s) PROVE ConnInv'
<1>1. CASE \E boxes : s \notin online /\ GoesOnline(s, boxes)
  <2>1. UNCHANGED <<link, should, next, wanted, overtaken>> BY DEF Answer
  <2>. QED BY <1>1, <2>1, OnlineKeeps
<1>2. CASE UNCHANGED <<online, belated, count, connected, orderVars>>
  <2>1. UNCHANGED linkVars BY <1>2 DEF Answer, linkVars
  <2>2. UNCHANGED orderVars BY <1>2
  <2>. QED BY <2>1, <2>2, UnsortedSorts, SortsKeeps DEF Sorts, ConnInv
<1>. QED BY <1>1, <1>2 DEF Answer

LEMMA ClosesKeeps ==
  ASSUME ConnInv, NEW s \in Servers, Closes(s) PROVE ConnInv'
BY OfflineKeeps DEF Closes, orderVars

\* Whatever happens, the connections keep their invariant.
LEMMA ConnInvariant == Spec => []ConnInv
<1>1. Init => ConnInv
  <2>. SUFFICES ASSUME Init PROVE ConnInv OBVIOUS
  <2>1. CountsServers BY FS_EmptySet DEF Init, CountsServers
  <2>2. Permutation(order) BY DEF Init, Permutation, IsInjective
  <2>3. ConnTypes
    <3>1. /\ link = [s \in Servers |-> "none"] /\ should = [s \in Servers |-> FALSE]
          /\ online = {} /\ belated = FALSE
          /\ next = 0 /\ count = 0 /\ connected = FALSE /\ wanted = FALSE
          /\ overtaken = FALSE /\ shuffled = FALSE
      BY DEF Init
    <3>2. 0 \in 0..N BY RoutingAssumption
    <3>. QED BY <2>2, <3>1, <3>2 DEF ConnTypes, LinkStates
  <2>. QED BY <2>1, <2>3 DEF Init, ConnInv, UseIsAsked, InUse, OnlineIsOpen,
                             NothingRuns, TurnedIsAsked
<1>2. ConnInv /\ [Next]_vars => ConnInv'
  <2>. SUFFICES ASSUME ConnInv, [Next]_vars PROVE ConnInv' OBVIOUS
  <2>1. CASE Connect BY <2>1, ConnectKeeps
  <2>2. CASE NextServer BY <2>2, NextServerKeeps
  <2>3. CASE Disconnect BY <2>3, DisconnectKeeps
  <2>4. ASSUME NEW r \in Requests,
               RequestAny(r) \/ RequestOne(r) \/ Broadcast(r) \/ TimerFires(r)
        PROVE  ConnInv'
    BY <2>4, RequestsSort, SortsKeeps DEF ConnInv
  <2>5. ASSUME NEW s \in Servers, Opens(s) PROVE ConnInv' BY <2>5, OpensKeeps
  <2>6. ASSUME NEW s \in Servers, Answer(s) PROVE ConnInv' BY <2>6, AnswerKeeps
  <2>7. ASSUME NEW s \in Servers, LosesSocket(s) \/ SocketGone(s) PROVE ConnInv'
    BY <2>7, ClosesKeeps DEF LosesSocket, SocketGone
  <2>8. ASSUME NEW s \in Servers, Retry(s) PROVE ConnInv' BY <2>8, RetryKeeps
  <2>9. ASSUME NEW s \in Servers, StatusOnline(s) PROVE ConnInv'
    BY <2>9, OnlineKeeps DEF StatusOnline
  <2>10. ASSUME NEW s \in Servers, StatusOffline(s) PROVE ConnInv'
    BY <2>10, OfflineKeeps DEF StatusOffline, orderVars
  <2>11. ASSUME NEW s \in Servers, OldGone(s) PROVE ConnInv'
    BY <2>11, UnsortedSorts, SortsKeeps DEF OldGone, Sorts, ConnInv
  <2>12. CASE UNCHANGED vars
    BY <2>12, UnsortedSorts, SortsKeeps DEF vars, Sorts, linkVars, orderVars, ConnInv
  <2>. QED BY <2>1, <2>2, <2>3, <2>4, <2>5, <2>6, <2>7, <2>8, <2>9, <2>10, <2>11,
           <2>12 DEF Next
<1>. QED BY <1>1, <1>2, PTL DEF Spec

\* The remote is connected exactly when one of its servers is, and counts them
\* right, whatever the servers' sockets, reports and reconnections do
\* (remote.js:477): getServer() finds a server.
THEOREM ServersCounted == Spec => []CountsServers
<1>1. ConnInv => CountsServers BY DEF ConnInv
<1>. QED BY <1>1, ConnInvariant, PTL

\* connect() turns to every server, in whatever order the array is, if it is
\* not sorted meanwhile and no late message makes it leave a server alone
\* (remote.js:526).
THEOREM EveryServerStarted == Spec => []AllStarted
<1>1. ConnInv => AllStarted BY DEF ConnInv, TurnedIsAsked, Turned, AllStarted
<1>. QED BY <1>1, ConnInvariant, PTL

\* After disconnect() no socket is made or used, if connect() was done with its
\* servers, and only a message that was under way on one told to close brings
\* the remote online again (remote.js:553, server.js:349).
THEOREM DisconnectedStays == Spec => []StaysDisconnected
<1>1. ConnInv => StaysDisconnected
  BY DEF ConnInv, ConnTypes, NothingRuns, InUse, OnlineIsOpen, CountsServers,
         StaysDisconnected
<1>. QED BY <1>1, ConnInvariant, PTL

-----------------------------------------------------------------------------
(* The messages.                                                             *)

Boxes == [id : Nat, table : SUBSET Messages, waiting : SUBSET Requests,
          wire : SUBSET Messages]

\* Numbers are used once, and the next one has not been.
Numbered(b) ==
  /\ \A m, n \in b.table : m[1] = n[1] => m = n
  /\ \A m \in b.table : m[1] < b.id

-----------------------------------------------------------------------------
(* Numbers.                                                                  *)

Smaller == {p \in Nat \X Nat : p[1] < p[2]}

LEMMA SmallerWellFounded == IsWellFoundedOn(Smaller, Nat)
<1>1. Smaller = OpToRel(<, Nat) BY DEF Smaller, OpToRel
<1>. QED BY <1>1, NatLessThanWellFounded

\* A bounded set of places has a last one.
LEMMA LastPlace ==
  ASSUME NEW n \in Nat, NEW I, I \subseteq 1..n, I # {}
  PROVE  \E i \in I : \A j \in I : i >= j
<1>. DEFINE T == {n - i : i \in I}
<1>1. T \subseteq Nat
  <2>1. \A i \in I : i \in Int /\ 1 =< i /\ i =< n OBVIOUS
  <2>. QED BY <2>1
<1>2. T # {} OBVIOUS
<1>3. PICK x \in T : \A y \in T : <<y, x>> \notin Smaller
  BY <1>1, <1>2, SmallerWellFounded, WFMin
<1>4. \A y \in T : ~(y < x) BY <1>1, <1>3 DEF Smaller
<1>5. PICK i \in I : x = n - i OBVIOUS
<1>6. \A j \in I : ~(n - j < n - i) BY <1>4, <1>5
<1>. QED BY <1>6

\* SelectLastInSeq returns the last place of r.
LEMMA LastIsPlace ==
  ASSUME NEW S, NEW rs \in Seq(S), NEW r \in ToSet(rs)
  PROVE  /\ SelectLastInSeq(rs, LAMBDA q : q = r) \in DOMAIN rs
         /\ rs[SelectLastInSeq(rs, LAMBDA q : q = r)] = r
<1>. DEFINE I == {i \in 1..Len(rs) : rs[i] = r}
<1>1. I # {} BY DEF ToSet
<1>2. \E i \in I : \A j \in I : i >= j
  <2>1. I \subseteq 1..Len(rs) /\ Len(rs) \in Nat OBVIOUS
  <2>. HIDE DEF I
  <2>. QED BY <1>1, <2>1, LastPlace
<1>3. SelectLastInSeq(rs, LAMBDA q : q = r) = Max(I)
  BY <1>1 DEF SelectLastInSeq
<1>4. Max(I) \in I BY <1>2 DEF Max
<1>. QED BY <1>3, <1>4

LEMMA FirstNumber ==
  ASSUME NEW n \in Nat PROVE Number(n, {1}, 1) = n /\ Cardinality({1}) = 1
<1>1. {j \in {1} : j < 1} = {} OBVIOUS
<1>2. Cardinality({}) = 0 /\ Cardinality({1}) = 1 BY FS_EmptySet, FS_Singleton
<1>3. Number(n, {1}, 1) = n + 0 BY <1>1, <1>2 DEF Number
<1>. QED BY <1>2, <1>3

\* The numbers of a server's places are new and distinct.
LEMMA NumbersAreNew ==
  ASSUME NEW n \in Nat, NEW len \in Nat, NEW places, places \subseteq 1..len
  PROVE  /\ Cardinality(places) \in Nat
         /\ \A i \in places : Number(n, places, i) \in n..(n + Cardinality(places) - 1)
         /\ \A i, j \in places : Number(n, places, i) = Number(n, places, j) => i = j
<1>. DEFINE Before(i) == {j \in places : j < i}
<1>. HIDE DEF Before
<1>1. IsFiniteSet(places)
  <2>1. IsFiniteSet(1..len) BY FS_Interval
  <2>. QED BY <2>1, FS_Subset
<1>2. Cardinality(places) \in Nat BY <1>1, FS_CardinalityType
<1>3. ASSUME NEW i \in places
      PROVE  /\ Cardinality(Before(i)) \in Nat
             /\ Cardinality(Before(i)) < Cardinality(places)
  <2>1. Before(i) \in SUBSET places /\ i \notin Before(i) BY DEF Before
  <2>2. IsFiniteSet(Before(i)) /\ Cardinality(Before(i)) <= Cardinality(places)
    BY <1>1, <2>1, FS_Subset
  <2>3. Cardinality(Before(i)) # Cardinality(places)
    BY <1>1, <2>1, FS_Subset
  <2>4. Cardinality(Before(i)) \in Nat BY <2>2, FS_CardinalityType
  <2>. QED BY <1>2, <2>2, <2>3, <2>4
<1>4. ASSUME NEW i \in places, NEW j \in places, i < j
      PROVE  Cardinality(Before(i)) < Cardinality(Before(j))
  <2>1. Before(i) \in SUBSET Before(j) /\ i \notin Before(i) /\ i \in Before(j)
    <3>1. \A k \in places : k \in Int OBVIOUS
    <3>2. \A k \in places : k < i => k < j BY <1>4, <3>1
    <3>3. ~(i < i) BY <3>1
    <3>. QED BY <1>4, <3>2, <3>3 DEF Before
  <2>2. Before(j) \in SUBSET places BY DEF Before
  <2>3. IsFiniteSet(Before(j)) BY <1>1, <2>2, FS_Subset
  <2>4. Cardinality(Before(i)) <= Cardinality(Before(j)) BY <2>1, <2>3, FS_Subset
  <2>5. Cardinality(Before(i)) # Cardinality(Before(j)) BY <2>1, <2>3, FS_Subset
  <2>. QED BY <1>3, <2>4, <2>5
<1>5. \A i \in places : Number(n, places, i) = n + Cardinality(Before(i))
  BY DEF Number, Before
<1>6. \A i \in places : Number(n, places, i) \in n..(n + Cardinality(places) - 1)
  BY <1>2, <1>3, <1>5
<1>7. ASSUME NEW i \in places, NEW j \in places,
             Number(n, places, i) = Number(n, places, j)
      PROVE  i = j
  <2>1. Cardinality(Before(i)) = Cardinality(Before(j)) BY <1>3, <1>5, <1>7
  <2>2. ~(i < j) /\ ~(j < i) BY <1>3, <1>4, <2>1
  <2>3. i \in Int /\ j \in Int OBVIOUS
  <2>. QED BY <2>2, <2>3
<1>. QED BY <1>2, <1>6, <1>7

-----------------------------------------------------------------------------
(* What a server takes and sends.                                            *)

\* New entries are messages of the given places under new numbers, and what is
\* on the wire is in the table.
LEMMA TakenIs ==
  ASSUME NEW b \in Boxes, Numbered(b), NEW on, NEW s,
         NEW rs \in Seq(Requests), NEW places, places \subseteq DOMAIN rs,
         NEW c, c = Taken(on, b, s, rs, places)
  PROVE  /\ c \in Boxes /\ Numbered(c)
         /\ b.id =< c.id
         /\ \A e \in c.table : e \in b.table \/ e[1] >= b.id
         /\ \A m \in c.wire : m \in b.wire \/ (m \in c.table /\ m[1] >= b.id)
<1>1. CASE link[s] = "none"
  <2>1. c = b BY <1>1 DEF Taken
  <2>2. b.id =< b.id BY DEF Boxes
  <2>. QED BY <1>1, <2>1, <2>2
<1>2. CASE link[s] # "none"
  <2>. DEFINE msgs == {<<Number(b.id, places, i), rs[i]>> : i \in places}
              now  == {m \in msgs : IsConnected(on, s, m[2])}
              sent == {m \in now : link[s] = "open"}
  <2>1. c = [id |-> b.id + Cardinality(places), table |-> b.table \cup msgs,
             wire |-> b.wire \cup sent,
             waiting |-> b.waiting \cup {m[2] : m \in msgs \ now}]
    BY <1>2 DEF Taken
  <2>2. /\ b.id \in Nat /\ b.table \subseteq Messages /\ b.wire \subseteq Messages
        /\ b.waiting \subseteq Requests
    BY DEF Boxes
  <2>3. /\ Cardinality(places) \in Nat
        /\ \A i \in places : Number(b.id, places, i) \in b.id..(b.id + Cardinality(places) - 1)
        /\ \A i, j \in places : Number(b.id, places, i) = Number(b.id, places, j) => i = j
    <3>1. Len(rs) \in Nat /\ places \subseteq 1..Len(rs) OBVIOUS
    <3>. QED BY <2>2, <3>1, NumbersAreNew
  <2>4. \A i \in places : /\ Number(b.id, places, i) \in Nat
                          /\ Number(b.id, places, i) >= b.id
                          /\ Number(b.id, places, i) < b.id + Cardinality(places)
    BY <2>2, <2>3
  <2>5. \A i \in places : rs[i] \in Requests OBVIOUS
  <2>6. \A m \in msgs : /\ m \in Messages /\ m[1] >= b.id
                        /\ m[1] < b.id + Cardinality(places)
    BY <2>4, <2>5 DEF Messages
  <2>7. \A m, n \in msgs : m[1] = n[1] => m = n BY <2>3
  <2>9. \A m \in msgs : m[2] \in Requests BY <2>5
  <2>11. now \subseteq msgs /\ sent \subseteq msgs OBVIOUS
  <2>. HIDE DEF msgs, now, sent
  <2>12. c \in Boxes
    <3>1. b.id + Cardinality(places) \in Nat BY <2>2, <2>3
    <3>2. b.waiting \cup {m[2] : m \in msgs \ now} \subseteq Requests BY <2>2, <2>9
    <3>3. b.table \cup msgs \subseteq Messages /\ b.wire \cup sent \subseteq Messages
      BY <2>2, <2>6, <2>11
    <3>. QED BY <2>1, <3>1, <3>2, <3>3 DEF Boxes
  <2>13. Numbered(c)
    <3>1. \A m \in b.table : m[1] < b.id /\ m[1] \in Nat
      BY <2>2 DEF Numbered, Messages
    <3>2. \A m \in msgs : m[1] \in Nat BY <2>6 DEF Messages
    <3>3. \A m \in c.table : m[1] < c.id
      BY <2>1, <2>2, <2>3, <2>6, <3>1, <3>2
    <3>4. \A m \in b.table, n \in msgs : m[1] # n[1]
      BY <2>2, <2>6, <3>1, <3>2
    <3>5. \A m, n \in c.table : m[1] = n[1] => m = n
      BY <2>1, <2>7, <3>4 DEF Numbered
    <3>. QED BY <3>3, <3>5 DEF Numbered
  <2>14. b.id =< c.id BY <2>1, <2>2, <2>3
  <2>. QED BY <1>2, <2>1, <2>6, <2>11, <2>12, <2>13, <2>14
<1>. QED BY <1>1, <1>2

LEMMA TakenTable ==
  ASSUME NEW b, NEW on, NEW s, NEW rs, NEW places,
         NEW c, c = Taken(on, b, s, rs, places), NEW e \in c.table
  PROVE  e \in b.table \/ e[2] \in {rs[i] : i \in places}
BY DEF Taken

\* Who has come to wait is of those places and cannot be sent yet.
LEMMA TakenWaits ==
  ASSUME NEW b, NEW on, NEW s, NEW rs, NEW places,
         NEW c, c = Taken(on, b, s, rs, places),
         NEW r \in c.waiting \ b.waiting
  PROVE  /\ link[s] # "none" /\ ~IsConnected(on, s, r)
         /\ r \in {rs[i] : i \in places}
<1>. DEFINE msgs == {<<Number(b.id, places, i), rs[i]>> : i \in places}
            now  == {m \in msgs : IsConnected(on, s, m[2])}
<1>1. link[s] # "none" BY DEF Taken
<1>2. c.waiting = b.waiting \cup {m[2] : m \in msgs \ now} BY <1>1 DEF Taken
<1>3. PICK m \in msgs \ now : r = m[2] BY <1>2
<1>4. m[2] \in {rs[i] : i \in places} OBVIOUS
<1>. QED BY <1>1, <1>3, <1>4

\* With a socket every one of the places has its entry.
LEMMA TakenEnters ==
  ASSUME NEW b, NEW on, NEW s, link[s] # "none", NEW rs, NEW places,
         NEW c, c = Taken(on, b, s, rs, places), NEW i \in places
  PROVE  <<Number(b.id, places, i), rs[i]>> \in c.table
BY DEF Taken

\* A server that takes messages gives none up.
LEMMA TakenGrows ==
  ASSUME NEW b, NEW on, NEW s, NEW rs, NEW places,
         NEW c, c = Taken(on, b, s, rs, places)
  PROVE  /\ b.table \subseteq c.table /\ b.wire \subseteq c.wire
         /\ b.waiting \subseteq c.waiting
         /\ link[s] = "none" => c = b
BY DEF Taken

-----------------------------------------------------------------------------
(* The invariant.                                                            *)

ReqRecords == [server : {NoServer} \cup Servers, id : Nat]

MailTypes ==
  /\ box \in [Servers -> Boxes] /\ req \in [Requests -> ReqRecords]
  /\ deferred \in Seq(Requests) /\ made \subseteq Requests
  /\ timer \in [Requests -> {"off", "running", "fired"}]
  /\ calls \in [Requests -> {0, 1}]
  /\ heard \in [Requests -> SUBSET (Requests \cup {Prepared})]
  /\ lost \subseteq Requests /\ mixed \in BOOLEAN
  /\ faults \in Nat

AllNumbered == \A s \in Servers : Numbered(box[s])

\* Only a request that was made is anywhere.
MadeOnly ==
  /\ ToSet(deferred) \subseteq made
  /\ \A s \in Servers : /\ box[s].waiting \subseteq made
                        /\ \A e \in box[s].table : e[2] \in made \cup {Prepared}
  /\ \A r \in Requests \ made : calls[r] = 0 /\ timer[r] = "off"

\* A timer runs, or has run down, only before the callback has run.
OneEnd == \A r \in Requests : timer[r] # "off" => calls[r] = 0

\* A number on the wire, or one that a waiting request will be sent with, is
\* that of no other request's entry, and not a number still to be given.
Fits(b, reqs) ==
  /\ \A m \in b.wire : /\ m[1] < b.id
                       /\ \A e \in b.table : e[1] = m[1] => e[2] = m[2]
  /\ \A r \in b.waiting : /\ reqs[r].id < b.id
                          /\ \A e \in b.table : e[1] = reqs[r].id => e[2] = r

\* While no broadcast was split that is so everywhere, and what is deferred
\* does not wait at a server, which keeps its number.
Unmixed ==
  ~mixed => \A s \in Servers : /\ Fits(box[s], req)
                               /\ box[s].waiting \cap ToSet(deferred) = {}

MailInv ==
  /\ MailTypes /\ AllNumbered /\ MadeOnly /\ OneEnd /\ Unmixed /\ AnswersMatch

\* What is late is on the wire; where no socket was made nothing is.
SocketInv ==
  /\ late \in [Servers -> SUBSET Messages] /\ old \subseteq Servers
  /\ \A s \in Servers : late[s] \subseteq box[s].wire
  /\ \A s \in Servers : link[s] = "none" =>
                           s \notin online /\ s \notin old /\ box[s].wire = {}

\* Taking messages keeps the numbers fitting.
LEMMA TakenFits ==
  ASSUME NEW b \in Boxes, Numbered(b), NEW before, Fits(b, before),
         NEW on, NEW s, NEW rs \in Seq(Requests),
         NEW places, places \subseteq DOMAIN rs,
         NEW c, c = Taken(on, b, s, rs, places),
         NEW new \in [Requests -> ReqRecords],
         \A r \in b.waiting : new[r].id = before[r].id,
         \A r \in c.waiting \ b.waiting : <<new[r].id, r>> \in c.table
  PROVE  Fits(c, new)
<1>1. /\ c \in Boxes /\ Numbered(c) /\ b.id =< c.id
      /\ \A e \in c.table : e \in b.table \/ e[1] >= b.id
      /\ \A m \in c.wire : m \in b.wire \/ m \in c.table
  BY TakenIs
<1>2. /\ b.id \in Nat /\ c.id \in Nat
      /\ \A m \in b.wire : m[1] \in Nat
      /\ \A e \in c.table : e[1] \in Nat
  BY <1>1 DEF Boxes, Messages
<1>3. ASSUME NEW m \in c.wire
      PROVE  m[1] < c.id /\ \A e \in c.table : e[1] = m[1] => e[2] = m[2]
  <2>1. CASE m \in b.wire
    <3>1. m[1] < b.id BY <2>1 DEF Fits
    <3>2. \A e \in b.table : e[1] = m[1] => e[2] = m[2] BY <2>1 DEF Fits
    <3>3. \A e \in c.table : e[1] = m[1] => e \in b.table BY <1>1, <1>2, <2>1, <3>1
    <3>4. m[1] < c.id BY <1>1, <1>2, <2>1, <3>1
    <3>. QED BY <3>2, <3>3, <3>4
  <2>2. CASE m \in c.table BY <1>1, <2>2 DEF Numbered
  <2>. QED BY <1>1, <2>1, <2>2
<1>4. ASSUME NEW r \in c.waiting
      PROVE  new[r].id < c.id /\ \A e \in c.table : e[1] = new[r].id => e[2] = r
  <2>1. CASE r \in b.waiting
    <3>. r \in Requests /\ new[r].id \in Nat BY <1>1 DEF Boxes, ReqRecords
    <3>1. before[r].id < b.id /\ new[r].id = before[r].id BY <2>1 DEF Fits
    <3>2. \A e \in b.table : e[1] = before[r].id => e[2] = r BY <2>1 DEF Fits
    <3>3. \A e \in c.table : e[1] = new[r].id => e \in b.table BY <1>1, <1>2, <3>1
    <3>4. new[r].id < c.id BY <1>1, <1>2, <3>1
    <3>. QED BY <3>1, <3>2, <3>3, <3>4
  <2>2. CASE r \notin b.waiting
    <3>1. <<new[r].id, r>> \in c.table BY <2>2
    <3>2. \A e \in c.table : e[1] = new[r].id => e = <<new[r].id, r>>
      BY <1>1, <3>1 DEF Numbered
    <3>3. new[r].id < c.id BY <1>1, <3>1 DEF Numbered
    <3>. QED BY <3>2, <3>3
  <2>. QED BY <2>1, <2>2
<1>. QED BY <1>3, <1>4 DEF Fits

\* So does sending what waited.
LEMMA SentFits ==
  ASSUME NEW b \in Boxes, Numbered(b), NEW reqs \in [Requests -> ReqRecords],
         NEW s, NEW c, c = Sent(b, s, reqs)
  PROVE  /\ c \in Boxes /\ Numbered(c) /\ c.waiting = {} /\ c.table = b.table
         /\ Fits(b, reqs) => Fits(c, reqs)
<1>. DEFINE going == {r \in b.waiting : link[s] = "open"}
<1>1. c = [b EXCEPT !.waiting = {},
                    !.wire = @ \cup {<<reqs[r].id, r>> : r \in going}]
  BY DEF Sent
<1>2. \A r \in going : <<reqs[r].id, r>> \in Messages
  BY DEF Boxes, ReqRecords, Messages
<1>3. /\ c.id = b.id /\ c.table = b.table /\ c.waiting = {}
      /\ c.wire = b.wire \cup {<<reqs[r].id, r>> : r \in going}
  BY <1>1 DEF Boxes
<1>4. c \in Boxes
  <2>1. {<<reqs[r].id, r>> : r \in going} \subseteq Messages BY <1>2
  <2>2. b.wire \cup {<<reqs[r].id, r>> : r \in going} \subseteq Messages
    BY <2>1 DEF Boxes
  <2>3. c = [id |-> b.id, table |-> b.table, waiting |-> {},
             wire |-> b.wire \cup {<<reqs[r].id, r>> : r \in going}]
    BY <1>1 DEF Boxes
  <2>. QED BY <2>2, <2>3 DEF Boxes
<1>5. Numbered(c) BY <1>3 DEF Numbered
<1>6. ASSUME Fits(b, reqs) PROVE Fits(c, reqs)
  <2>1. \A m \in c.wire : m \in b.wire \/ \E r \in going : m = <<reqs[r].id, r>>
    BY <1>3
  <2>2. \A m \in c.wire : /\ m[1] < c.id
                          /\ \A e \in c.table : e[1] = m[1] => e[2] = m[2]
    BY <1>3, <1>6, <2>1 DEF Fits
  <2>. QED BY <1>3, <2>2 DEF Fits
<1>. QED BY <1>3, <1>4, <1>5, <1>6

\* Less on the wire and fewer entries fit as well.
LEMMA LessFits ==
  ASSUME NEW b \in Boxes, Numbered(b), NEW c \in Boxes,
         c.id = b.id, c.waiting = b.waiting,
         c.wire \subseteq b.wire, c.table \subseteq b.table
  PROVE  Numbered(c) /\ \A reqs : Fits(b, reqs) => Fits(c, reqs)
BY DEF Numbered, Fits

-----------------------------------------------------------------------------
(* Steps.                                                                    *)

LEMMA AbandonsFits ==
  ASSUME NEW b \in Boxes, Numbered(b), NEW gone, NEW c, c = Abandons(b, gone)
  PROVE  /\ c \in Boxes /\ Numbered(c) /\ c.waiting = b.waiting /\ c.table = b.table
         /\ \A reqs : Fits(b, reqs) => Fits(c, reqs)
<1>1. c.id = b.id /\ c.table = b.table /\ c.wire \subseteq b.wire /\ c.waiting = b.waiting /\ c \in Boxes
  BY DEF Boxes, Abandons
<1>. QED BY <1>1 DEF Numbered, Fits

\* What is under way on a socket is lost.
LEMMA AbandonKeeps ==
  ASSUME MailInv, NEW s \in Servers, NEW gone,
         box' = [box EXCEPT ![s] = Abandons(@, gone)],
         UNCHANGED <<req, deferred, reqVars, mixed>>,
         lost' \subseteq Requests, faults' \in Nat
  PROVE  MailInv'
<1>0. box \in [Servers -> Boxes] BY DEF MailInv, MailTypes
<1>1. ASSUME NEW t \in Servers
      PROVE  /\ box'[t] \in Boxes /\ Numbered(box'[t])
             /\ box'[t].waiting = box[t].waiting
             /\ box'[t].table = box[t].table
             /\ Fits(box[t], req) => Fits(box'[t], req)
  <2>1. box[t] \in Boxes /\ Numbered(box[t])
    BY DEF MailInv, MailTypes, AllNumbered
  <2>2. CASE t = s
    <3>1. box'[t] = Abandons(box[t], gone) BY <1>0, <2>2
    <3>. QED BY <2>1, <3>1, AbandonsFits
  <2>3. CASE t # s
    <3>1. box'[t] = box[t] BY <1>0, <2>3
    <3>. QED BY <2>1, <3>1
  <2>. QED BY <2>2, <2>3
<1>. USE DEF MailInv, reqVars
<1>2. MailTypes'
  <2>1. box' = [t \in Servers |-> box'[t]] BY <1>0
  <2>. QED BY <1>1, <2>1 DEF MailTypes
<1>3. AllNumbered' BY <1>1 DEF AllNumbered
<1>4. MadeOnly' BY <1>1 DEF MadeOnly
<1>5. OneEnd' /\ AnswersMatch' BY DEF OneEnd, AnswersMatch
<1>6. Unmixed' BY <1>1 DEF Unmixed
<1>. QED BY <1>2, <1>3, <1>4, <1>5, <1>6

\* Nothing happens to the messages.
LEMMA MailStays ==
  ASSUME MailInv, UNCHANGED <<box, req, deferred, reqVars, mixed>>,
         lost' \subseteq Requests, faults' \in Nat
  PROVE  MailInv'
<1>. USE DEF MailInv, reqVars
<1>1. MailTypes' /\ AllNumbered' BY DEF MailTypes, AllNumbered
<1>2. MadeOnly' /\ OneEnd' BY DEF MadeOnly, OneEnd
<1>3. Unmixed' /\ AnswersMatch' BY DEF Unmixed, AnswersMatch
<1>. QED BY <1>1, <1>2, <1>3

LEMMA ClosesMail ==
  ASSUME MailInv, NEW s \in Servers, Closes(s), faults' \in Nat
  PROVE  MailInv'
<1>1. /\ box' = [box EXCEPT ![s] = Abandons(@, box[s].wire \ late[s])]
      /\ UNCHANGED <<req, deferred, reqVars, mixed>>
  BY DEF Closes
<1>2. lost' \subseteq Requests BY DEF Closes, Under, MailInv, MailTypes
<1>. QED BY <1>1, <1>2, AbandonKeeps

LEMMA OldGoneMail ==
  ASSUME MailInv, NEW s \in Servers, OldGone(s) PROVE MailInv'
<1>1. PICK gone \in SUBSET late[s] :
        /\ box' = [box EXCEPT ![s] = Abandons(@, gone)]
        /\ lost' = lost \cup Under(gone)
  BY DEF OldGone
<1>2. lost' \subseteq Requests /\ faults' \in Nat
  BY <1>1 DEF OldGone, Under, MailInv, MailTypes
<1>3. UNCHANGED <<req, deferred, reqVars, mixed>> BY DEF OldGone
<1>. QED BY <1>1, <1>2, <1>3, AbandonKeeps

\* A box with one more message, under the next number.
Grown(b, m) ==
  [b EXCEPT !.id = @ + 1, !.table = @ \cup {m}, !.wire = @ \cup {m}]

LEMMA GrownBox ==
  ASSUME NEW b \in Boxes, NEW m \in Messages, NEW c, c = Grown(b, m)
  PROVE  /\ c.id = b.id + 1 /\ c.table = b.table \cup {m}
         /\ c.wire = b.wire \cup {m} /\ c.waiting = b.waiting
         /\ c \in Boxes
<1>1. /\ c.id = b.id + 1 /\ c.table = b.table \cup {m}
      /\ c.wire = b.wire \cup {m} /\ c.waiting = b.waiting
  BY DEF Boxes, Grown
<1>2. c = [id |-> c.id, table |-> c.table, waiting |-> c.waiting, wire |-> c.wire]
  BY DEF Boxes, Grown
<1>3. /\ c.id \in Nat /\ c.table \subseteq Messages /\ c.wire \subseteq Messages
      /\ c.waiting \subseteq Requests
  BY <1>1 DEF Boxes
<1>. QED BY <1>1, <1>2, <1>3 DEF Boxes

\* A socket opens: its subscribe has a new number.
LEMMA OpensMail ==
  ASSUME MailInv, NEW s \in Servers, Opens(s)
  PROVE  MailInv'
<1>. DEFINE m == <<box[s].id, Prepared>>
<1>1. /\ box' = [box EXCEPT ![s].id = @ + 1, ![s].table = @ \cup {m},
                            ![s].wire = @ \cup {m}]
      /\ UNCHANGED <<req, deferred, lost, mixed, faults>>
      /\ UNCHANGED reqVars
  BY DEF Opens
<1>2. box \in [Servers -> Boxes] /\ req \in [Requests -> ReqRecords]
  BY DEF MailInv, MailTypes
<1>3. box[s] \in Boxes /\ Numbered(box[s]) /\ box[s].id \in Nat /\ m \in Messages
  BY <1>2 DEF MailInv, AllNumbered, Boxes, Messages
<1>4. /\ box'[s].id = box[s].id + 1 /\ box'[s].table = box[s].table \cup {m}
      /\ box'[s].wire = box[s].wire \cup {m} /\ box'[s].waiting = box[s].waiting
      /\ box'[s] \in Boxes
      /\ box' \in [Servers -> Boxes]
      /\ \A t \in Servers \ {s} : box'[t] = box[t]
  <2>1. box' = [box EXCEPT ![s] = [box[s] EXCEPT !.id = @ + 1,
                  !.table = @ \cup {m}, !.wire = @ \cup {m}]]
    BY <1>1, <1>2
  <2>. HIDE DEF m
  <2>2. box'[s] = Grown(box[s], m) BY <1>2, <2>1 DEF Grown
  <2>3. /\ box'[s].id = box[s].id + 1 /\ box'[s].table = box[s].table \cup {m}
        /\ box'[s].wire = box[s].wire \cup {m} /\ box'[s].waiting = box[s].waiting
        /\ box'[s] \in Boxes
    BY <1>3, <2>2, GrownBox
  <2>. QED BY <1>2, <2>1, <2>3
<1>. USE DEF MailInv, reqVars
<1>5. Numbered(box'[s])
  <2>1. \A e \in box[s].table : e[1] < box[s].id /\ e[1] \in Nat
    BY <1>3 DEF Numbered, Boxes, Messages
  <2>2. \A e \in box'[s].table : e \in box[s].table \/ e = m BY <1>4
  <2>3. m[1] = box[s].id OBVIOUS
  <2>. HIDE DEF m
  <2>4. \A e \in box'[s].table : e[1] < box'[s].id BY <1>3, <1>4, <2>1, <2>2, <2>3
  <2>5. \A e \in box[s].table : e[1] # m[1] BY <1>3, <2>1, <2>3
  <2>6. \A e, f \in box'[s].table : e[1] = f[1] => e = f
    BY <1>3, <2>2, <2>5 DEF Numbered
  <2>. QED BY <2>4, <2>6 DEF Numbered
<1>6. ASSUME Fits(box[s], req) PROVE Fits(box'[s], req)
  <2>1. m[1] = box[s].id /\ m \in box'[s].table BY <1>4
  <2>2. \A e \in box'[s].table : e \in box[s].table \/ e[1] = box[s].id BY <1>4
  <2>3. ASSUME NEW n \in box'[s].wire
        PROVE  n[1] < box'[s].id /\ \A e \in box'[s].table : e[1] = n[1] => e[2] = n[2]
    <3>1. CASE n = m
      <4>1. n \in box'[s].table BY <3>1, <1>4
      <4>. QED BY <4>1, <1>5 DEF Numbered
    <3>2. CASE n \in box[s].wire
      <4>1. n[1] < box[s].id /\ n[1] \in Nat BY <1>3, <1>6, <3>2 DEF Fits, Boxes, Messages
      <4>2. n[1] < box'[s].id /\ n[1] # box[s].id BY <1>3, <1>4, <4>1
      <4>. QED BY <1>6, <2>2, <3>2, <4>2 DEF Fits
    <3>. QED BY <1>4, <3>1, <3>2
  <2>4. ASSUME NEW r \in box'[s].waiting
        PROVE  req[r].id < box'[s].id /\ \A e \in box'[s].table : e[1] = req[r].id => e[2] = r
    <3>1. r \in box[s].waiting /\ r \in Requests BY <1>3, <1>4 DEF Boxes
    <3>2. req[r].id < box[s].id /\ req[r].id \in Nat
      BY <1>2, <1>6, <3>1 DEF Fits, ReqRecords
    <3>3. req[r].id < box'[s].id /\ req[r].id # box[s].id BY <1>3, <1>4, <3>2
    <3>. QED BY <1>6, <2>2, <3>1, <3>3 DEF Fits
  <2>. QED BY <2>3, <2>4 DEF Fits
<1>7. MailTypes' BY <1>1, <1>4 DEF MailTypes
<1>8. AllNumbered' BY <1>4, <1>5 DEF AllNumbered
<1>9. MadeOnly'
  <2>1. m[2] = Prepared OBVIOUS
  <2>. HIDE DEF m
  <2>2. ASSUME NEW t \in Servers
        PROVE  /\ box'[t].waiting \subseteq made
               /\ \A e \in box'[t].table : e[2] \in made \cup {Prepared}
    BY <1>4, <2>1 DEF MadeOnly
  <2>. QED BY <1>1, <2>2 DEF MadeOnly
<1>10. OneEnd' /\ AnswersMatch' BY <1>1 DEF OneEnd, AnswersMatch
<1>11. Unmixed'
  <2>. HIDE DEF m
  <2>. SUFFICES ASSUME ~mixed, NEW t \in Servers
                PROVE  Fits(box'[t], req) /\ box'[t].waiting \cap ToSet(deferred) = {}
    BY <1>1 DEF Unmixed
  <2>. QED BY <1>4, <1>6 DEF Unmixed
<1>. QED BY <1>7, <1>8, <1>9, <1>10, <1>11

-----------------------------------------------------------------------------
(* Requests.                                                                 *)

\* A request that is made now was nowhere: it can be put anywhere.  The rest of
\* the invariant follows from what its boxes and the deferred requests become.
LEMMA RequestedKeeps ==
  ASSUME MailInv, NEW r \in Requests, Requested(r),
         box' \in [Servers -> Boxes], req' \in [Requests -> ReqRecords],
         deferred' \in Seq(Requests), lost' \subseteq Requests, mixed' \in BOOLEAN,
         mixed => mixed',
         ToSet(deferred') \subseteq ToSet(deferred) \cup {r},
         AllNumbered',
         \A s \in Servers :
           /\ box'[s].waiting \subseteq box[s].waiting \cup {r}
           /\ \A e \in box'[s].table : e \in box[s].table \/ e[2] = r,
         ~mixed' => \A s \in Servers : /\ Fits(box'[s], req')
                                       /\ box'[s].waiting \cap ToSet(deferred') = {}
  PROVE  MailInv'
<1>. USE DEF MailInv
<1>1. /\ made' = made \cup {r} /\ r \notin made
      /\ timer' = [timer EXCEPT ![r] = IF r \in Timed THEN "running" ELSE "off"]
      /\ UNCHANGED <<calls, heard, faults>>
  BY DEF Requested
<1>2. MailTypes' BY <1>1 DEF MailTypes
<1>3. MadeOnly' BY <1>1 DEF MadeOnly, MailTypes
<1>4. OneEnd' BY <1>1 DEF OneEnd, MadeOnly, MailTypes
<1>5. Unmixed' BY DEF Unmixed
<1>6. AnswersMatch' BY <1>1 DEF AnswersMatch
<1>. QED BY <1>2, <1>3, <1>4, <1>5, <1>6

\* A deferred request leaves the boxes alone.
LEMMA DeferKeeps ==
  ASSUME MailInv, NEW r \in Requests, Requested(r), NEW rs \in Seq({r}), Defer(rs),
         UNCHANGED mixed, req' \in [Requests -> ReqRecords],
         \A q \in Requests \ {r} : req'[q] = req[q]
  PROVE  MailInv'
<1>1. /\ box \in [Servers -> Boxes] /\ deferred \in Seq(Requests)
      /\ lost \subseteq Requests /\ mixed \in BOOLEAN
  BY DEF MailInv, MailTypes
<1>2. deferred' = deferred \o rs /\ UNCHANGED <<box, lost>> BY DEF Defer
<1>3. deferred' \in Seq(Requests)
  <2>1. rs \in Seq(Requests) OBVIOUS
  <2>. QED BY <1>1, <1>2, <2>1
<1>4. ToSet(deferred') \subseteq ToSet(deferred) \cup {r}
  BY <1>1, <1>2 DEF ToSet
<1>5. AllNumbered' BY <1>2 DEF MailInv, AllNumbered
<1>6. ASSUME ~mixed', NEW s \in Servers
      PROVE  /\ Fits(box'[s], req')
             /\ box'[s].waiting \cap ToSet(deferred') = {}
  <2>1. r \notin box[s].waiting BY DEF Requested, MailInv, MadeOnly
  <2>2. \A q \in box[s].waiting : req'[q] = req[q] BY <1>1, <2>1 DEF Boxes
  <2>3. Fits(box[s], req) /\ box[s].waiting \cap ToSet(deferred) = {}
    BY <1>6 DEF MailInv, Unmixed
  <2>4. Fits(box[s], req') BY <2>2, <2>3 DEF Fits
  <2>. QED BY <1>2, <1>4, <2>1, <2>3, <2>4
<1>7. \A s \in Servers :
        /\ box'[s].waiting \subseteq box[s].waiting \cup {r}
        /\ \A e \in box'[s].table : e \in box[s].table \/ e[2] = r
  BY <1>2
<1>. QED BY <1>1, <1>2, <1>3, <1>4, <1>5, <1>6, <1>7, RequestedKeeps

\* One message of r, under the next number.
One(on, b, s, r) == Taken(on, b, s, <<r>>, {1})

LEMMA TakenOne ==
  ASSUME NEW b \in Boxes, Numbered(b), NEW r \in Requests, NEW on, NEW s
  PROVE  /\ One(on, b, s, r) \in Boxes /\ Numbered(One(on, b, s, r))
         /\ One(on, b, s, r).waiting \subseteq b.waiting \cup {r}
         /\ \A e \in One(on, b, s, r).table : e \in b.table \/ e[2] = r
<1>. DEFINE c == One(on, b, s, r)
            rs == <<r>>
            places == {1}
<1>1. rs \in Seq(Requests) /\ places \subseteq DOMAIN rs OBVIOUS
<1>2. {rs[i] : i \in places} = {r} OBVIOUS
<1>3. c = Taken(on, b, s, rs, places) BY DEF One
<1>. HIDE DEF c, rs, places
<1>4. c \in Boxes /\ Numbered(c) BY <1>1, <1>3, TakenIs
<1>5. \A q \in c.waiting \ b.waiting : q \in {rs[i] : i \in places}
  BY <1>3, TakenWaits
<1>6. \A e \in c.table : e \in b.table \/ e[2] \in {rs[i] : i \in places}
  BY <1>3, TakenTable
<1>7. /\ c \in Boxes /\ Numbered(c) /\ c.waiting \subseteq b.waiting \cup {r}
      /\ \A e \in c.table : e \in b.table \/ e[2] = r
  BY <1>2, <1>4, <1>5, <1>6
<1>. QED BY <1>7 DEF c

\* A request that comes to wait has an entry and cannot be sent yet.
LEMMA TakenOneWaits ==
  ASSUME NEW b \in Boxes, NEW r, NEW on, NEW s,
         r \in One(on, b, s, r).waiting, r \notin b.waiting
  PROVE  /\ link[s] # "none" /\ ~IsConnected(on, s, r)
         /\ <<b.id, r>> \in One(on, b, s, r).table
<1>. DEFINE c == One(on, b, s, r)
            rs == <<r>>
            places == {1}
<1>1. c = Taken(on, b, s, rs, places) BY DEF One
<1>2. b.id \in Nat BY DEF Boxes
<1>3. Number(b.id, places, 1) = b.id BY <1>2, FirstNumber
<1>4. 1 \in places /\ rs[1] = r OBVIOUS
<1>5. r \in c.waiting \ b.waiting OBVIOUS
<1>. HIDE DEF c, rs, places
<1>6. link[s] # "none" /\ ~IsConnected(on, s, r) BY <1>1, <1>5, TakenWaits
<1>7. <<Number(b.id, places, 1), rs[1]>> \in c.table BY <1>1, <1>4, <1>6, TakenEnters
<1>8. <<b.id, r>> \in c.table BY <1>3, <1>4, <1>7
<1>. QED BY <1>6, <1>8 DEF c

LEMMA TakenOneFits ==
  ASSUME NEW b \in Boxes, Numbered(b), NEW r \in Requests, NEW on, NEW s,
         r \notin b.waiting, NEW before, Fits(b, before),
         NEW new \in [Requests -> ReqRecords],
         \A q \in Requests \ {r} : new[q] = before[q],
         r \in One(on, b, s, r).waiting => new[r].id = b.id
  PROVE  Fits(One(on, b, s, r), new)
<1>. DEFINE c == One(on, b, s, r)
            rs == <<r>>
            places == {1}
<1>1. rs \in Seq(Requests) /\ places \subseteq DOMAIN rs OBVIOUS
<1>2. c = Taken(on, b, s, rs, places) BY DEF One
<1>3. \A q \in c.waiting \ b.waiting : q = r BY TakenOne
<1>4. \A q \in c.waiting \ b.waiting : <<new[q].id, q>> \in c.table
  BY <1>3, TakenOneWaits
<1>5. \A q \in b.waiting : new[q].id = before[q].id BY DEF Boxes
<1>. HIDE DEF c, rs, places
<1>6. Fits(c, new) BY <1>1, <1>2, <1>4, <1>5, TakenFits
<1>. QED BY <1>6 DEF c

LEMMA RouteKeeps ==
  ASSUME MailInv, NEW r \in Requests, Requested(r), NEW s \in Servers,
         RouteTo(s, r), UNCHANGED <<deferred, mixed>>
  PROVE  MailInv'
<1>1. /\ box \in [Servers -> Boxes] /\ deferred \in Seq(Requests)
      /\ req \in [Requests -> ReqRecords]
      /\ lost \subseteq Requests /\ mixed \in BOOLEAN
  BY DEF MailInv, MailTypes
<1>2. /\ box' = [box EXCEPT ![s] = One(online, box[s], s, r)]
      /\ req' = [req EXCEPT ![r] = [server |-> s, id |-> box[s].id]]
      /\ lost' \subseteq Requests
  BY <1>1 DEF RouteTo, One
<1>3. box[s] \in Boxes /\ Numbered(box[s]) BY <1>1 DEF MailInv, AllNumbered
<1>4. box'[s] = One(online, box[s], s, r) BY <1>1, <1>2
<1>5. /\ box'[s] \in Boxes /\ Numbered(box'[s])
      /\ box'[s].waiting \subseteq box[s].waiting \cup {r}
      /\ \A e \in box'[s].table : e \in box[s].table \/ e[2] = r
  BY <1>3, <1>4, TakenOne
<1>6. \A t \in Servers \ {s} : box'[t] = box[t] BY <1>1, <1>2
<1>7. box' \in [Servers -> Boxes] BY <1>1, <1>2, <1>4, <1>5
<1>8. req' \in [Requests -> ReqRecords] /\ req'[r].id = box[s].id
      /\ \A q \in Requests \ {r} : req'[q] = req[q]
  BY <1>1, <1>2, <1>3 DEF ReqRecords, Boxes
<1>9. AllNumbered' BY <1>5, <1>6 DEF MailInv, AllNumbered
<1>10. \A t \in Servers :
        /\ box'[t].waiting \subseteq box[t].waiting \cup {r}
        /\ \A e \in box'[t].table : e \in box[t].table \/ e[2] = r
  BY <1>5, <1>6
<1>11. ASSUME ~mixed', NEW t \in Servers
       PROVE  /\ Fits(box'[t], req')
              /\ box'[t].waiting \cap ToSet(deferred') = {}
  <2>1. r \notin box[t].waiting /\ r \notin ToSet(deferred)
    BY DEF Requested, MailInv, MadeOnly
  <2>2. Fits(box[t], req) /\ box[t].waiting \cap ToSet(deferred) = {}
    BY <1>11 DEF MailInv, Unmixed
  <2>3. Fits(box'[t], req')
    <3>1. CASE t = s BY <1>3, <1>4, <1>8, <2>1, <2>2, <3>1, TakenOneFits
    <3>2. CASE t # s
      <4>1. \A q \in box[t].waiting : req'[q] = req[q] BY <1>1, <1>8, <2>1 DEF Boxes
      <4>. QED BY <1>6, <2>2, <3>2, <4>1 DEF Fits
    <3>. QED BY <3>1, <3>2
  <2>. QED BY <1>10, <2>1, <2>2, <2>3
<1>. QED BY <1>1, <1>2, <1>7, <1>8, <1>9, <1>10, <1>11, RequestedKeeps

LEMMA RequestAnyMail ==
  ASSUME MailInv, NEW r \in Requests, RequestAny(r) PROVE MailInv'
<1>1. Requested(r) /\ UNCHANGED mixed BY DEF RequestAny
<1>2. CASE connected
  <2>1. PICK s \in Servers : RouteTo(s, r) BY <1>2 DEF RequestAny
  <2>. QED BY <1>1, <1>2, <2>1, RouteKeeps DEF RequestAny
<1>3. CASE ~connected
  <2>1. Defer(<<r>>) /\ UNCHANGED req BY <1>3 DEF RequestAny
  <2>2. <<r>> \in Seq({r}) OBVIOUS
  <2>. QED BY <1>1, <2>1, <2>2, DeferKeeps DEF MailInv, MailTypes
<1>. QED BY <1>2, <1>3

LEMMA RequestOneMail ==
  ASSUME MailInv, NEW r \in Requests, RequestOne(r) PROVE MailInv'
<1>1. Requested(r) /\ UNCHANGED mixed BY DEF RequestOne
<1>2. PICK s \in Servers :
        IF connected THEN RouteTo(s, r) /\ UNCHANGED <<deferred, orderVars>>
        ELSE req' = [req EXCEPT ![r].server = s] /\ Defer(<<r>>)
  BY DEF RequestOne
<1>3. CASE connected BY <1>1, <1>2, <1>3, RouteKeeps
<1>4. CASE ~connected
  <2>1. req' = [req EXCEPT ![r].server = s] /\ Defer(<<r>>) BY <1>2, <1>4
  <2>2. req \in [Requests -> ReqRecords] BY DEF MailInv, MailTypes
  <2>3. req' \in [Requests -> ReqRecords] /\ \A q \in Requests \ {r} : req'[q] = req[q]
    BY <2>1, <2>2 DEF ReqRecords
  <2>4. <<r>> \in Seq({r}) OBVIOUS
  <2>. QED BY <1>1, <2>1, <2>3, <2>4, DeferKeeps
<1>. QED BY <1>3, <1>4

\* A connected remote has a server with a socket, so that a broadcast has a
\* last one.
LEMMA BroadcastLast ==
  ASSUME ConnInv, SocketInv, connected
  PROVE  SelectLastInSeq(order, LAMBDA s : link[s] # "none") \in Servers
<1>. DEFINE I == {i \in 1..Len(order) : link[order[i]] # "none"}
<1>1. order \in [Servers -> Servers] /\ Permutation(order)
  BY DEF ConnInv, ConnTypes, Permutation
<1>2. N \in Nat /\ order \in Seq(Servers) /\ Len(order) = N
  BY <1>1, RoutingAssumption DEF Servers
<1>3. PICK s \in Servers : link[s] # "none"
  BY DEF ConnInv, ConnTypes, CountsServers, SocketInv
<1>4. PICK j \in Servers : order[j] = s BY <1>1, ArrayReachesAll
<1>5. j \in I BY <1>2, <1>3, <1>4 DEF Servers
<1>6. I \subseteq 1..N BY <1>2
<1>7. SelectLastInSeq(order, LAMBDA t : link[t] # "none") = Max(I)
  BY <1>5 DEF SelectLastInSeq
<1>. HIDE DEF I
<1>8. \E i \in I : \A k \in I : i >= k BY <1>2, <1>5, <1>6, LastPlace
<1>9. Max(I) \in I BY <1>8 DEF Max
<1>. QED BY <1>6, <1>7, <1>9 DEF Servers

LEMMA BroadcastMail ==
  ASSUME ConnInv, SocketInv, MailInv, NEW r \in Requests, Broadcast(r) PROVE MailInv'
<1>0. Requested(r) BY DEF Broadcast
<1>1. /\ box \in [Servers -> Boxes] /\ deferred \in Seq(Requests)
      /\ req \in [Requests -> ReqRecords]
      /\ lost \subseteq Requests /\ mixed \in BOOLEAN
  BY DEF MailInv, MailTypes
<1>2. order \in [Servers -> Servers] /\ N \in Servers
  BY RoutingAssumption DEF ConnInv, ConnTypes, Permutation, Servers
<1>3. CASE ~connected
  <2>1. /\ req' = [req EXCEPT ![r].server = order[N]]
        /\ Defer([s \in Servers |-> r]) /\ UNCHANGED mixed
    BY <1>3 DEF Broadcast
  <2>2. [s \in Servers |-> r] \in Seq({r})
    <3>1. N \in Nat BY RoutingAssumption
    <3>. QED BY <3>1 DEF Servers
  <2>3. order[N] \in Servers BY <1>2
  <2>4. req' \in [Requests -> ReqRecords] /\ \A q \in Requests \ {r} : req'[q] = req[q]
    BY <1>1, <2>1, <2>3 DEF ReqRecords
  <2>. QED BY <1>0, <2>1, <2>2, <2>4, DeferKeeps
<1>4. CASE connected
  <2>. DEFINE last == SelectLastInSeq(order, LAMBDA s : link[s] # "none")
  <2>1. /\ box' = [s \in Servers |-> One(online, box[s], s, r)]
        /\ req' = [req EXCEPT ![r] = [server |-> order[N], id |-> box[order[last]].id]]
        /\ lost' \subseteq Requests
        /\ mixed' = (mixed \/ \E s \in Servers :
                        link[s] # "none" /\ ~IsConnected(online, s, r))
        /\ UNCHANGED deferred
    BY <1>1, <1>4 DEF Broadcast, One
  <2>2. last \in Servers BY <1>4, BroadcastLast
  <2>. HIDE DEF last
  <2>3. order[last] \in Servers /\ order[N] \in Servers /\ box[order[last]].id \in Nat
    BY <1>1, <1>2, <2>2 DEF Boxes
  <2>4. req' \in [Requests -> ReqRecords] /\ \A q \in Requests \ {r} : req'[q] = req[q]
    BY <1>1, <2>1, <2>3 DEF ReqRecords
  <2>5. ASSUME NEW s \in Servers
        PROVE  /\ box[s] \in Boxes /\ Numbered(box[s])
               /\ box'[s] = One(online, box[s], s, r)
               /\ box'[s] \in Boxes /\ Numbered(box'[s])
               /\ box'[s].waiting \subseteq box[s].waiting \cup {r}
               /\ \A e \in box'[s].table : e \in box[s].table \/ e[2] = r
    <3>1. box[s] \in Boxes /\ Numbered(box[s]) BY <1>1 DEF MailInv, AllNumbered
    <3>2. box'[s] = One(online, box[s], s, r) BY <2>1
    <3>. QED BY <3>1, <3>2, TakenOne
  <2>6. box' \in [Servers -> Boxes] /\ AllNumbered'
    <3>1. AllNumbered' BY <2>5 DEF AllNumbered
    <3>2. box' = [s \in Servers |-> box'[s]] BY <2>1
    <3>. QED BY <2>5, <3>1, <3>2
  <2>7. mixed' \in BOOLEAN /\ (mixed => mixed') BY <2>1
  <2>8. ASSUME ~mixed', NEW t \in Servers
        PROVE  /\ Fits(box'[t], req')
               /\ box'[t].waiting \cap ToSet(deferred') = {}
    <3>1. r \notin box[t].waiting /\ r \notin ToSet(deferred)
      BY <1>0 DEF Requested, MailInv, MadeOnly
    <3>2. Fits(box[t], req) /\ box[t].waiting \cap ToSet(deferred) = {}
      BY <2>7, <2>8 DEF MailInv, Unmixed
    <3>3. r \notin box'[t].waiting
      <4>1. link[t] = "none" \/ IsConnected(online, t, r) BY <2>1, <2>8
      <4>. SUFFICES ASSUME r \in box'[t].waiting PROVE FALSE OBVIOUS
      <4>2. r \in One(online, box[t], t, r).waiting /\ box[t] \in Boxes BY <2>5
      <4>3. link[t] # "none" /\ ~IsConnected(online, t, r)
        BY <3>1, <4>2, TakenOneWaits
      <4>. QED BY <4>1, <4>3
    <3>4. Fits(box'[t], req') BY <2>4, <2>5, <3>1, <3>2, <3>3, TakenOneFits
    <3>. QED BY <2>1, <2>5, <3>2, <3>3, <3>4
  <2>9. deferred' \in Seq(Requests) /\ ToSet(deferred') \subseteq ToSet(deferred) \cup {r}
    BY <1>1, <2>1
  <2>. QED BY <1>0, <2>1, <2>4, <2>5, <2>6, <2>7, <2>8, <2>9, RequestedKeeps
<1>. QED BY <1>3, <1>4

LEMMA TimerMail ==
  ASSUME MailInv, NEW r \in Requests, TimerFires(r) PROVE MailInv'
<1>. USE DEF MailInv
<1>1. /\ timer[r] = "running" /\ timer' = [timer EXCEPT ![r] = "fired"]
      /\ UNCHANGED <<box, req, lost, deferred, made, calls, heard, mixed, faults>>
  BY DEF TimerFires, mailVars
<1>2. MailTypes' BY <1>1 DEF MailTypes
<1>3. AllNumbered' /\ Unmixed' /\ AnswersMatch'
  BY <1>1 DEF AllNumbered, Unmixed, AnswersMatch
<1>4. MadeOnly' BY <1>1 DEF MadeOnly, MailTypes
<1>5. OneEnd' BY <1>1 DEF OneEnd, MailTypes
<1>. QED BY <1>2, <1>3, <1>4, <1>5

-----------------------------------------------------------------------------
(* A server goes online.                                                     *)

\* The boxes it leaves: the deferred requests are taken, those that waited for
\* this server are sent.
LEMMA OnlineMail ==
  ASSUME MailInv, NEW s \in Servers, NEW boxes \in [Servers -> Boxes],
         \A t \in Servers : /\ Numbered(boxes[t]) /\ boxes[t].waiting = box[t].waiting
                            /\ boxes[t].table \subseteq box[t].table
                            /\ Fits(box[t], req) => Fits(boxes[t], req),
         GoesOnline(s, boxes), UNCHANGED mixed
  PROVE  /\ box' \in [Servers -> Boxes] /\ req' \in [Requests -> ReqRecords]
         /\ deferred' \in Seq(Requests) /\ ToSet(deferred') \subseteq made
         /\ lost' \subseteq Requests /\ AllNumbered' /\ Unmixed'
         /\ \A t \in Servers : /\ box'[t].waiting \subseteq made
                               /\ \A e \in box'[t].table : e[2] \in made \cup {Prepared}
<1>. DEFINE on == online \cup {s}
            flushed == IF count = 0 THEN deferred ELSE <<>>
            target(r) == IF req[r].server = NoServer THEN s ELSE req[r].server
            for(t) == {i \in DOMAIN flushed : target(flushed[i]) = t}
            last(r) == SelectLastInSeq(flushed, LAMBDA q : q = r)
            number(r) == Number(boxes[target(r)].id, for(target(r)), last(r))
            reqs == [r \in Requests |->
                       IF r \in ToSet(flushed)
                       THEN [server |-> target(r), id |-> number(r)] ELSE req[r]]
            taken == [t \in Servers |-> Taken(on, boxes[t], t, flushed, for(t))]
<1>1. /\ deferred' = IF count = 0 THEN <<>> ELSE deferred
      /\ req' = reqs
      /\ box' = [taken EXCEPT ![s] = Sent(taken[s], s, reqs)]
      /\ lost' = lost \cup {r \in ToSet(flushed) : Drops(on, target(r), r)}
                     \cup {r \in taken[s].waiting : link[s] # "open"}
  BY DEF GoesOnline
<1>2. /\ box \in [Servers -> Boxes] /\ deferred \in Seq(Requests)
      /\ req \in [Requests -> ReqRecords] /\ lost \subseteq Requests
      /\ ToSet(deferred) \subseteq made
  BY DEF MailInv, MailTypes, MadeOnly
<1>3. /\ flushed \in Seq(Requests) /\ ToSet(flushed) \subseteq ToSet(deferred)
      /\ ToSet(flushed) \subseteq Requests /\ ToSet(flushed) \subseteq made
      /\ count # 0 => ToSet(flushed) = {}
  <2>1. CASE count = 0 BY <1>2, <2>1 DEF ToSet
  <2>2. CASE count # 0 BY <1>2, <2>2 DEF ToSet
  <2>. QED BY <2>1, <2>2
<1>4. \A r \in Requests : target(r) \in Servers BY <1>2 DEF ReqRecords
<1>5. \A t \in Servers : for(t) \subseteq DOMAIN flushed OBVIOUS
<1>6. \A r \in ToSet(flushed) : last(r) \in DOMAIN flushed /\ flushed[last(r)] = r
  BY <1>3, LastIsPlace
<1>7. \A r \in ToSet(flushed) : last(r) \in for(target(r)) BY <1>6
<1>8. \A t \in Servers : {flushed[i] : i \in for(t)} \subseteq {r \in ToSet(flushed) : target(r) = t}
  BY DEF ToSet
<1>9. \A r \in ToSet(flushed) : reqs[r].id = number(r) BY <1>3
<1>10. \A r \in Requests \ ToSet(flushed) : reqs[r] = req[r] OBVIOUS
<1>11. \A t \in Servers : taken[t] = Taken(on, boxes[t], t, flushed, for(t)) OBVIOUS
<1>12. \A r \in ToSet(flushed) :
         number(r) = Number(boxes[target(r)].id, for(target(r)), last(r))
  OBVIOUS
<1>13. ASSUME NEW t \in Servers
       PROVE  boxes[t] \in Boxes /\ boxes[t].id \in Nat /\ boxes[t].waiting \subseteq Requests
  BY <1>13 DEF Boxes
<1>. HIDE DEF on, flushed, target, for, last, number, reqs, taken
<1>15. reqs \in [Requests -> ReqRecords]
  <2>1. ASSUME NEW r \in ToSet(flushed) PROVE number(r) \in Nat
    <3>1. r \in Requests /\ target(r) \in Servers BY <1>3, <1>4, <2>1
    <3>2. boxes[target(r)].id \in Nat BY <1>13, <3>1
    <3>3. Len(flushed) \in Nat /\ for(target(r)) \subseteq 1..Len(flushed)
      BY <1>3, <1>5, <3>1
    <3>4. Number(boxes[target(r)].id, for(target(r)), last(r))
            \in boxes[target(r)].id..(boxes[target(r)].id + Cardinality(for(target(r))) - 1)
      BY <1>7, <2>1, <3>2, <3>3, NumbersAreNew
    <3>. QED BY <1>12, <2>1, <3>2, <3>4
  <2>2. \A r \in ToSet(flushed) : [server |-> target(r), id |-> number(r)] \in ReqRecords
    BY <1>3, <1>4, <2>1 DEF ReqRecords
  <2>. QED BY <1>2, <2>2 DEF reqs
<1>16. ASSUME NEW t \in Servers
       PROVE  /\ taken[t] \in Boxes /\ Numbered(taken[t])
              /\ taken[t].waiting \subseteq made
              /\ taken[t].waiting \subseteq box[t].waiting \cup ToSet(flushed)
              /\ \A e \in taken[t].table : e[2] \in made \cup {Prepared}
  <2>. DEFINE rs == flushed
              places == for(t)
  <2>1. /\ boxes[t] \in Boxes /\ Numbered(boxes[t])
        /\ rs \in Seq(Requests) /\ places \subseteq DOMAIN rs
        /\ taken[t] = Taken(on, boxes[t], t, rs, places)
    BY <1>3, <1>5, <1>11, <1>13
  <2>2. {rs[i] : i \in places} \subseteq ToSet(flushed) BY <1>8
  <2>. HIDE DEF rs, places
  <2>3. taken[t] \in Boxes /\ Numbered(taken[t]) BY <2>1, TakenIs
  <2>4. \A r \in taken[t].waiting \ boxes[t].waiting : r \in {rs[i] : i \in places}
    BY <2>1, TakenWaits
  <2>5. \A e \in taken[t].table : e \in boxes[t].table \/ e[2] \in {rs[i] : i \in places}
    BY <2>1, TakenTable
  <2>6. taken[t].waiting \subseteq box[t].waiting \cup ToSet(flushed) BY <2>2, <2>4
  <2>7. box[t].waiting \subseteq made /\ \A e \in box[t].table : e[2] \in made \cup {Prepared}
    BY DEF MailInv, MadeOnly
  <2>. QED BY <1>3, <2>2, <2>3, <2>5, <2>6, <2>7
<1>17. ASSUME ~mixed, NEW t \in Servers
       PROVE  Fits(taken[t], reqs)
  <2>. DEFINE rs == flushed
              places == for(t)
  <2>1. /\ boxes[t] \in Boxes /\ Numbered(boxes[t]) /\ boxes[t].waiting \subseteq Requests
        /\ rs \in Seq(Requests) /\ places \subseteq DOMAIN rs
        /\ taken[t] = Taken(on, boxes[t], t, rs, places)
    BY <1>3, <1>5, <1>11, <1>13
  <2>2. Fits(boxes[t], req) /\ boxes[t].waiting \cap ToSet(deferred) = {}
    BY <1>17 DEF MailInv, Unmixed
  <2>3. \A r \in boxes[t].waiting : reqs[r].id = req[r].id
    BY <1>3, <1>10, <2>1, <2>2
  <2>4. ASSUME NEW r \in taken[t].waiting \ boxes[t].waiting
        PROVE  <<reqs[r].id, r>> \in taken[t].table
    <3>. HIDE DEF rs, places
    <3>1. link[t] # "none" /\ r \in {rs[i] : i \in places} BY <2>1, TakenWaits
    <3>2. r \in ToSet(flushed) /\ target(r) = t BY <1>8, <3>1 DEF rs, places
    <3>3. last(r) \in places /\ rs[last(r)] = r BY <1>6, <1>7, <3>2 DEF rs, places
    <3>4. reqs[r].id = Number(boxes[t].id, places, last(r))
      BY <1>9, <1>12, <3>2 DEF places
    <3>5. <<Number(boxes[t].id, places, last(r)), rs[last(r)]>> \in taken[t].table
      BY <2>1, <3>1, <3>3, TakenEnters
    <3>. QED BY <3>3, <3>4, <3>5
  <2>. HIDE DEF rs, places
  <2>. QED BY <1>15, <2>1, <2>2, <2>3, <2>4, TakenFits
<1>18. /\ \A t \in Servers \ {s} : box'[t] = taken[t]
       /\ box'[s] = Sent(taken[s], s, reqs)
       /\ box' = [t \in Servers |-> box'[t]]
  BY <1>1 DEF taken
<1>19. /\ box'[s] \in Boxes /\ Numbered(box'[s]) /\ box'[s].waiting = {}
       /\ box'[s].table = taken[s].table
       /\ Fits(taken[s], reqs) => Fits(box'[s], reqs)
  BY <1>15, <1>16, <1>18, SentFits
<1>20. ASSUME NEW t \in Servers
       PROVE  /\ box'[t] \in Boxes /\ Numbered(box'[t])
              /\ box'[t].waiting \subseteq taken[t].waiting
              /\ box'[t].table = taken[t].table
              /\ ~mixed => Fits(box'[t], reqs)
  <2>1. CASE t = s BY <1>17, <1>19, <2>1
  <2>2. CASE t # s
    <3>1. box'[t] = taken[t] BY <1>18, <2>2
    <3>. QED BY <1>16, <1>17, <3>1
  <2>. QED BY <2>1, <2>2
<1>21. /\ deferred' \in Seq(Requests) /\ ToSet(deferred') \subseteq made
       /\ count = 0 => ToSet(deferred') = {}
       /\ count # 0 => deferred' = deferred
  <2>1. ToSet(<<>>) = {} /\ <<>> \in Seq(Requests) BY DEF ToSet
  <2>. QED BY <1>1, <1>2, <2>1
<1>22. \A t \in Servers : ~mixed => box'[t].waiting \cap ToSet(deferred') = {}
  BY <1>3, <1>16, <1>20, <1>21 DEF MailInv, Unmixed
<1>23. box' \in [Servers -> Boxes] /\ AllNumbered'
  BY <1>18, <1>20 DEF AllNumbered
<1>24. Unmixed' BY <1>1, <1>20, <1>22 DEF Unmixed
<1>25. lost' \subseteq Requests
  <2>1. taken[s].waiting \subseteq Requests BY <1>16 DEF Boxes
  <2>. QED BY <1>1, <1>2, <1>3, <2>1
<1>26. req' \in [Requests -> ReqRecords] BY <1>1, <1>15
<1>27. \A t \in Servers : /\ box'[t].waiting \subseteq made
                          /\ \A e \in box'[t].table : e[2] \in made \cup {Prepared}
  BY <1>16, <1>20
<1>. QED BY <1>21, <1>23, <1>24, <1>25, <1>26, <1>27

-----------------------------------------------------------------------------
(* Answers.                                                                  *)

\* An answer settles the request it is for, once.
LEMMA EmitKeeps ==
  ASSUME MailTypes, MadeOnly, OneEnd, NEW r \in made, NEW of \in Requests \cup {Prepared},
         Emit(r, of), UNCHANGED made
  PROVE  /\ timer' \in [Requests -> {"off", "running", "fired"}]
         /\ calls' \in [Requests -> {0, 1}]
         /\ heard' \in [Requests -> SUBSET (Requests \cup {Prepared})]
         /\ OneEnd'
         /\ \A q \in Requests \ made : calls'[q] = 0 /\ timer'[q] = "off"
         /\ of = r /\ (\A q \in Requests : heard[q] \subseteq {q}) =>
              \A q \in Requests : heard'[q] \subseteq {q}
<1>0. r \in Requests BY DEF MailTypes
<1>1. CASE timer[r] = "fired"
  <2>1. UNCHANGED <<heard, calls, timer>> BY <1>1 DEF Emit
  <2>. QED BY <2>1 DEF MailTypes, MadeOnly, OneEnd
<1>2. CASE timer[r] # "fired"
  <2>1. /\ heard' = [heard EXCEPT ![r] = @ \cup {of}]
        /\ calls' = [calls EXCEPT ![r] = 1]
        /\ timer' = [timer EXCEPT ![r] = "off"]
    BY <1>2 DEF Emit
  <2>. QED BY <1>0, <2>1 DEF MailTypes, MadeOnly, OneEnd
<1>. QED BY <1>1, <1>2

LEMMA AnswerMail ==
  ASSUME MailInv, NEW s \in Servers, Answer(s) PROVE MailInv'
<1>1. PICK m \in box[s].wire :
        LET asker == {e \in box[s].table : e[1] = m[1]}
            boxes == [box EXCEPT ![s].wire = @ \ {m}, ![s].table = @ \ asker]
            goes  == asker = {m} /\ m[2] = Prepared /\ s \notin online
        IN /\ \/ goes /\ GoesOnline(s, boxes) /\ UNCHANGED faults
              \/ /\ box' = boxes
                 /\ faults' = faults + (IF goes THEN 1 ELSE 0) /\ faults' =< MaxFaults
                 /\ UNCHANGED <<online, belated, count, connected, req, lost, deferred,
                                orderVars>>
           /\ IF \E e \in asker : e[2] \in Requests
              THEN \E e \in asker : Emit(e[2], m[2])
              ELSE UNCHANGED <<heard, calls, timer>>
           /\ UNCHANGED <<made, mixed>>
  BY DEF Answer
<1>. DEFINE asker == {e \in box[s].table : e[1] = m[1]}
            boxes == [box EXCEPT ![s].wire = @ \ {m}, ![s].table = @ \ asker]
<1>2. /\ GoesOnline(s, boxes) \/ (box' = boxes /\ UNCHANGED <<req, lost, deferred>>)
      /\ \/ /\ \E e \in asker : Emit(e[2], m[2])
            /\ \E f \in asker : f[2] \in Requests
         \/ UNCHANGED <<heard, calls, timer>>
      /\ UNCHANGED <<made, mixed>>
  BY <1>1
<1>3. /\ box \in [Servers -> Boxes] /\ deferred \in Seq(Requests)
      /\ req \in [Requests -> ReqRecords] /\ lost \subseteq Requests
  BY DEF MailInv, MailTypes
<1>4. /\ box[s] \in Boxes /\ Numbered(box[s]) /\ m \in Messages
      /\ asker \subseteq box[s].table
  BY <1>3 DEF MailInv, AllNumbered, Boxes
<1>. HIDE DEF asker
<1>5. boxes = [box EXCEPT ![s] = [box[s] EXCEPT !.wire = box[s].wire \ {m},
                                                !.table = box[s].table \ asker]]
  BY <1>3
<1>. DEFINE b == [box[s] EXCEPT !.wire = box[s].wire \ {m}, !.table = box[s].table \ asker]
<1>6. /\ b \in Boxes /\ Numbered(b) /\ b.waiting = box[s].waiting
      /\ b.table \subseteq box[s].table
      /\ Fits(box[s], req) => Fits(b, req)
  <2>1. /\ b.table = box[s].table \ asker /\ b.wire = box[s].wire \ {m}
        /\ b.id = box[s].id /\ b.waiting = box[s].waiting /\ b \in Boxes
    BY <1>4 DEF Boxes
  <2>2. b.wire \subseteq box[s].wire /\ b.table \subseteq box[s].table BY <2>1
  <2>. HIDE DEF b
  <2>. QED BY <1>4, <2>1, <2>2, LessFits
<1>. HIDE DEF b
<1>7. boxes[s] = b /\ \A t \in Servers \ {s} : boxes[t] = box[t]
  BY <1>3, <1>5 DEF b
<1>8. boxes \in [Servers -> Boxes] BY <1>3, <1>5, <1>6 DEF b
<1>. HIDE DEF boxes
<1>9. ASSUME NEW t \in Servers
      PROVE  /\ Numbered(boxes[t]) /\ boxes[t].waiting = box[t].waiting
             /\ boxes[t].table \subseteq box[t].table
             /\ Fits(box[t], req) => Fits(boxes[t], req)
  BY <1>6, <1>7 DEF MailInv, AllNumbered
<1>10. /\ box' \in [Servers -> Boxes] /\ req' \in [Requests -> ReqRecords]
       /\ deferred' \in Seq(Requests) /\ ToSet(deferred') \subseteq made
       /\ lost' \subseteq Requests /\ AllNumbered' /\ Unmixed'
       /\ \A t \in Servers : /\ box'[t].waiting \subseteq made
                             /\ \A e \in box'[t].table : e[2] \in made \cup {Prepared}
  <2>1. CASE GoesOnline(s, boxes) BY <1>2, <1>8, <1>9, <2>1, OnlineMail
  <2>2. CASE box' = boxes /\ UNCHANGED <<req, lost, deferred>>
    <3>1. AllNumbered' BY <1>9, <2>2 DEF AllNumbered
    <3>2. Unmixed' BY <1>2, <1>9, <2>2 DEF MailInv, Unmixed
    <3>. QED BY <1>3, <1>8, <1>9, <2>2, <3>1, <3>2 DEF MailInv, MadeOnly
  <2>. QED BY <1>2, <2>1, <2>2
<1>11. /\ timer' \in [Requests -> {"off", "running", "fired"}]
       /\ calls' \in [Requests -> {0, 1}]
       /\ heard' \in [Requests -> SUBSET (Requests \cup {Prepared})]
       /\ OneEnd' /\ AnswersMatch'
       /\ \A q \in Requests \ made : calls'[q] = 0 /\ timer'[q] = "off"
  <2>1. CASE UNCHANGED <<heard, calls, timer>>
    BY <1>2, <2>1 DEF MailInv, MailTypes, OneEnd, MadeOnly, AnswersMatch
  <2>2. CASE /\ \E e \in asker : Emit(e[2], m[2])
             /\ \E f \in asker : f[2] \in Requests
    <3>1. PICK e \in asker : Emit(e[2], m[2]) BY <2>2
    <3>2. e[2] \in made \cup {Prepared} BY <1>4 DEF MailInv, MadeOnly
    <3>3. e[1] = m[1] /\ e \in box[s].table BY <1>4 DEF asker
    <3>4. ~mixed => e[2] = m[2] BY <3>3 DEF MailInv, Unmixed, Fits
    <3>5. m[2] \in Requests \cup {Prepared} BY <1>4 DEF Messages
    <3>6. e[2] \in made
      <4>1. \A f \in asker : f = e BY <1>4, <3>1 DEF asker, Numbered
      <4>2. e[2] \in Requests BY <2>2, <4>1
      <4>. QED BY <3>2, <4>2, RoutingAssumption
    <3>. QED BY <1>2, <3>1, <3>4, <3>5, <3>6, EmitKeeps DEF MailInv, AnswersMatch
  <2>. QED BY <1>2, <2>1, <2>2
<1>12. faults' \in Nat
  <2>1. faults \in Nat BY DEF MailInv, MailTypes
  <2>2. \E n \in {0, 1} : faults' = faults + n BY <1>1, <2>1
  <2>. QED BY <2>1, <2>2
<1>13. MailTypes' BY <1>2, <1>10, <1>11, <1>12 DEF MailInv, MailTypes
<1>14. MadeOnly' BY <1>2, <1>10, <1>11 DEF MadeOnly
<1>. QED BY <1>10, <1>11, <1>13, <1>14 DEF MailInv

-----------------------------------------------------------------------------
(* Sockets, and the theorems.                                                *)

\* Messages that are taken or sent leave those under way where they are, and
\* need a socket.
LEMMA OnlineWire ==
  ASSUME NEW s \in Servers, NEW boxes, GoesOnline(s, boxes), link[s] # "none",
         NEW t \in Servers
  PROVE  /\ boxes[t].wire \subseteq box'[t].wire
         /\ link[t] = "none" => box'[t].wire = boxes[t].wire
<1>. DEFINE on == online \cup {s}
            flushed == IF count = 0 THEN deferred ELSE <<>>
            target(r) == IF req[r].server = NoServer THEN s ELSE req[r].server
            for(u) == {i \in DOMAIN flushed : target(flushed[i]) = u}
            last(r) == SelectLastInSeq(flushed, LAMBDA q : q = r)
            number(r) == Number(boxes[target(r)].id, for(target(r)), last(r))
            reqs == [r \in Requests |->
                       IF r \in ToSet(flushed)
                       THEN [server |-> target(r), id |-> number(r)] ELSE req[r]]
            taken == [u \in Servers |-> Taken(on, boxes[u], u, flushed, for(u))]
<1>1. box' = [taken EXCEPT ![s] = Sent(taken[s], s, reqs)] BY DEF GoesOnline
<1>2. taken[t] = Taken(on, boxes[t], t, flushed, for(t)) OBVIOUS
<1>3. DOMAIN taken = Servers OBVIOUS
<1>. HIDE DEF on, flushed, target, for, last, number, reqs, taken
<1>4. boxes[t].wire \subseteq taken[t].wire BY <1>2, TakenGrows
<1>5. CASE t # s
  <2>1. box'[t] = taken[t] BY <1>1, <1>3, <1>5
  <2>. QED BY <1>2, <1>4, <2>1, TakenGrows
<1>6. CASE t = s
  <2>1. box'[t] = Sent(taken[t], t, reqs) BY <1>1, <1>3, <1>6
  <2>2. taken[t].wire \subseteq Sent(taken[t], t, reqs).wire
    <3>1. PICK n, e, w, q : taken[t] = [id |-> n, table |-> e, wire |-> w, waiting |-> q]
      BY <1>2, <1>6 DEF Taken
    <3>. QED BY <3>1 DEF Sent
  <2>. QED BY <1>4, <1>6, <2>1, <2>2
<1>. QED BY <1>5, <1>6

LEMMA OnlineSockets ==
  ASSUME ConnInv, SocketInv, NEW s \in Servers, NEW boxes, GoesOnline(s, boxes),
         link[s] # "none", late' \in [Servers -> SUBSET Messages],
         \A t \in Servers : /\ late'[t] \subseteq boxes[t].wire
                            /\ link[t] = "none" => boxes[t].wire = {},
         UNCHANGED <<link, old>>
  PROVE  SocketInv'
<1>1. online' = online \cup {s} BY DEF GoesOnline
<1>2. \A t \in Servers : /\ boxes[t].wire \subseteq box'[t].wire
                         /\ link[t] = "none" => box'[t].wire = boxes[t].wire
  BY OnlineWire
<1>. QED BY <1>1, <1>2 DEF SocketInv

LEMMA StatusSockets ==
  ASSUME ConnInv, SocketInv, NEW s \in Servers, StatusOnline(s) PROVE SocketInv'
<1>1. link[s] # "none" BY DEF StatusOnline, Subscribed, Lingers, SocketInv
<1>2. GoesOnline(s, box) /\ UNCHANGED <<link, late, old>>
  BY DEF StatusOnline, oldVars
<1>. QED BY <1>1, <1>2, OnlineSockets DEF SocketInv

LEMMA AnswerSockets ==
  ASSUME ConnInv, MailInv, SocketInv, NEW s \in Servers, Answer(s) PROVE SocketInv'
<1>1. PICK m \in box[s].wire :
        LET asker == {e \in box[s].table : e[1] = m[1]}
            boxes == [box EXCEPT ![s].wire = @ \ {m}, ![s].table = @ \ asker]
        IN /\ \/ GoesOnline(s, boxes)
              \/ box' = boxes /\ UNCHANGED online
           /\ late' = [late EXCEPT ![s] = @ \ {m}]
           /\ UNCHANGED <<link, old>>
  BY DEF Answer
<1>. DEFINE asker == {e \in box[s].table : e[1] = m[1]}
            boxes == [box EXCEPT ![s].wire = @ \ {m}, ![s].table = @ \ asker]
<1>2. link[s] # "none" BY DEF SocketInv
<1>3. late' \in [Servers -> SUBSET Messages] BY <1>1 DEF SocketInv
<1>4. ASSUME NEW t \in Servers
      PROVE  /\ late'[t] \subseteq boxes[t].wire
             /\ link[t] = "none" => boxes[t].wire = {}
  <2>1. box \in [Servers -> Boxes] BY DEF MailInv, MailTypes
  <2>2. CASE t = s
    <3>1. boxes[t].wire = box[t].wire \ {m} BY <2>1, <2>2 DEF Boxes
    <3>. QED BY <1>1, <2>2, <3>1 DEF SocketInv
  <2>3. CASE t # s
    <3>1. boxes[t] = box[t] BY <2>1, <2>3
    <3>. QED BY <1>1, <2>3, <3>1 DEF SocketInv
  <2>. QED BY <2>2, <2>3
<1>. HIDE DEF boxes
<1>5. GoesOnline(s, boxes) \/ (box' = boxes /\ UNCHANGED online) BY <1>1 DEF boxes
<1>6. UNCHANGED <<link, old>> BY <1>1
<1>7. CASE GoesOnline(s, boxes) BY <1>2, <1>3, <1>4, <1>6, <1>7, OnlineSockets
<1>8. CASE box' = boxes /\ UNCHANGED online
  BY <1>3, <1>4, <1>6, <1>8 DEF SocketInv
<1>. QED BY <1>5, <1>7, <1>8

\* Requests do not touch the sockets.
LEMMA RequestsSockets ==
  ASSUME MailInv, SocketInv, NEW r \in Requests,
         RequestAny(r) \/ RequestOne(r) \/ Broadcast(r) \/ TimerFires(r)
  PROVE  SocketInv'
<1>1. UNCHANGED <<link, online, late, old>>
  BY DEF RequestAny, RequestOne, Broadcast, TimerFires, Requested, linkVars, oldVars
<1>2. box \in [Servers -> Boxes] BY DEF MailInv, MailTypes
<1>3. ASSUME NEW t \in Servers
      PROVE  /\ box[t].wire \subseteq box'[t].wire
             /\ link[t] = "none" => box'[t].wire = box[t].wire
  <2>1. \/ UNCHANGED box
        \/ \E s \in Servers : RouteTo(s, r)
        \/ box' = [s \in Servers |-> Taken(online, box[s], s, <<r>>, {1})]
    BY DEF RequestAny, RequestOne, Broadcast, TimerFires, Defer, mailVars
  <2>2. ASSUME NEW s \in Servers, RouteTo(s, r)
        PROVE  box'[t] = IF t = s THEN Taken(online, box[t], t, <<r>>, {1}) ELSE box[t]
    BY <1>2, <2>2 DEF RouteTo
  <2>3. \/ box'[t] = box[t]
        \/ box'[t] = Taken(online, box[t], t, <<r>>, {1})
    BY <2>1, <2>2
  <2>. QED BY <2>3, TakenGrows
<1>. QED BY <1>1, <1>3 DEF SocketInv

LEMMA OpensSockets ==
  ASSUME ConnInv, MailInv, SocketInv, NEW s \in Servers, Opens(s) PROVE SocketInv'
<1>1. /\ link' = [link EXCEPT ![s] = "open"] /\ UNCHANGED <<online, late, old>>
  BY DEF Opens, oldVars
<1>2. box \in [Servers -> Boxes] /\ link \in [Servers -> LinkStates]
  BY DEF MailInv, MailTypes, ConnInv, ConnTypes
<1>3. ASSUME NEW t \in Servers
      PROVE  box[t].wire \subseteq box'[t].wire /\ (t # s => box'[t] = box[t])
  BY <1>2 DEF Opens, Boxes
<1>. QED BY <1>1, <1>2, <1>3 DEF SocketInv

LEMMA ClosesSockets ==
  ASSUME ConnInv, MailInv, SocketInv, NEW s \in Servers, Closes(s) PROVE SocketInv'
<1>1. /\ link' = [link EXCEPT ![s] = "lost"] /\ UNCHANGED <<late, old>>
      /\ online' \subseteq online
      /\ box' = [box EXCEPT ![s] = Abandons(@, box[s].wire \ late[s])]
  BY DEF Closes, GoesOffline, oldVars
<1>2. box \in [Servers -> Boxes] /\ link \in [Servers -> LinkStates]
  BY DEF MailInv, MailTypes, ConnInv, ConnTypes
<1>3. ASSUME NEW t \in Servers
      PROVE  late[t] \subseteq box'[t].wire /\ (t # s => box'[t] = box[t])
  BY <1>1, <1>2 DEF Abandons, Boxes, SocketInv
<1>. QED BY <1>1, <1>2, <1>3 DEF SocketInv

LEMMA OldGoneSockets ==
  ASSUME MailInv, SocketInv, NEW s \in Servers, OldGone(s) PROVE SocketInv'
<1>1. PICK gone \in SUBSET late[s] :
        /\ old' \in {old, old \ {s}}
        /\ late' = [late EXCEPT ![s] = @ \ gone]
        /\ box' = [box EXCEPT ![s] = Abandons(@, gone)]
        /\ UNCHANGED <<link, online>>
  BY DEF OldGone, linkVars
<1>2. box \in [Servers -> Boxes] BY DEF MailInv, MailTypes
<1>3. late' \in [Servers -> SUBSET Messages] BY <1>1 DEF SocketInv
<1>4. ASSUME NEW t \in Servers
      PROVE  late'[t] \subseteq box'[t].wire /\ box'[t].wire \subseteq box[t].wire
  BY <1>1, <1>2 DEF Abandons, Boxes, SocketInv
<1>. QED BY <1>1, <1>3, <1>4 DEF SocketInv

\* What is under way on a socket that is replaced is late.
LEMMA ConnectsSockets ==
  ASSUME ConnInv, MailInv, SocketInv, NEW s \in Servers, Connects(s),
         UNCHANGED <<box, online>>
  PROVE  SocketInv'
<1>1. CASE s \in online BY <1>1 DEF Connects, oldVars, SocketInv
<1>2. CASE s \notin online
  <2>1. /\ link' = [link EXCEPT ![s] = "connecting"]
        /\ late' = [late EXCEPT ![s] = box[s].wire] /\ old' \in {old, old \cup {s}}
    BY <1>2 DEF Connects
  <2>2. box[s].wire \subseteq Messages /\ link \in [Servers -> LinkStates]
    BY DEF MailInv, MailTypes, Boxes, ConnInv, ConnTypes
  <2>. QED BY <2>1, <2>2 DEF SocketInv
<1>. QED BY <1>1, <1>2

LEMMA RetrySockets ==
  ASSUME ConnInv, MailInv, SocketInv, NEW s \in Servers, Retry(s) PROVE SocketInv'
<1>1. UNCHANGED <<box, online>> BY DEF Retry, mailVars
<1>2. CASE s \in online
  <2>1. link' = [link EXCEPT ![s] = "closed"] /\ UNCHANGED <<late, old>>
    BY <1>2 DEF Retry, oldVars
  <2>2. link \in [Servers -> LinkStates] BY DEF ConnInv, ConnTypes
  <2>. QED BY <1>1, <2>1, <2>2 DEF SocketInv
<1>3. CASE s \notin online
  <2>1. Connects(s) BY <1>3 DEF Retry
  <2>. QED BY <1>1, <2>1, ConnectsSockets
<1>. QED BY <1>2, <1>3

\* Whatever happens, the messages keep their invariant.
LEMMA MailInvariant == Spec => [](MailInv /\ SocketInv)
<1>1. Init => MailInv
  <2>. SUFFICES ASSUME Init PROVE MailInv OBVIOUS
  <2>1. /\ box = [s \in Servers |->
                    [id |-> 0, table |-> {}, waiting |-> {}, wire |-> {}]]
        /\ req = [r \in Requests |-> [server |-> NoServer, id |-> 0]]
        /\ deferred = <<>> /\ made = {} /\ timer = [r \in Requests |-> "off"]
        /\ calls = [r \in Requests |-> 0] /\ heard = [r \in Requests |-> {}]
        /\ lost = {} /\ mixed = FALSE /\ faults = 0
    BY DEF Init
  <2>2. \A s \in Servers : box[s] \in Boxes BY <2>1 DEF Boxes
  <2>3. MailTypes
    <3>1. [server |-> NoServer, id |-> 0] \in ReqRecords BY DEF ReqRecords
    <3>2. box \in [Servers -> Boxes] BY <2>1, <2>2
    <3>3. req \in [Requests -> ReqRecords] BY <2>1, <3>1
    <3>4. <<>> \in Seq(Requests) OBVIOUS
    <3>5. /\ timer \in [Requests -> {"off", "running", "fired"}]
          /\ calls \in [Requests -> {0, 1}]
          /\ heard \in [Requests -> SUBSET (Requests \cup {Prepared})]
      BY <2>1
    <3>. QED BY <2>1, <3>2, <3>3, <3>4, <3>5 DEF MailTypes
  <2>4. AllNumbered /\ OneEnd /\ AnswersMatch
    BY <2>1 DEF AllNumbered, Numbered, OneEnd, AnswersMatch
  <2>5. ToSet(deferred) = {} BY <2>1 DEF ToSet
  <2>6. MadeOnly BY <2>1, <2>5 DEF MadeOnly
  <2>7. Unmixed BY <2>1, <2>5 DEF Unmixed, Fits
  <2>. QED BY <2>3, <2>4, <2>6, <2>7 DEF MailInv
<1>2. Init => SocketInv BY DEF Init, SocketInv
<1>3. ConnInv /\ MailInv /\ SocketInv /\ [Next]_vars => MailInv'
  <2>. SUFFICES ASSUME ConnInv, MailInv, SocketInv, [Next]_vars PROVE MailInv' OBVIOUS
  <2>0. faults \in Nat /\ lost \subseteq Requests BY DEF MailInv, MailTypes
  <2>1. ASSUME NEW r \in Requests,
               RequestAny(r) \/ RequestOne(r) \/ Broadcast(r) \/ TimerFires(r)
        PROVE  MailInv'
    BY <2>1, RequestAnyMail, RequestOneMail, BroadcastMail, TimerMail
  <2>2. ASSUME NEW s \in Servers, Opens(s) PROVE MailInv' BY <2>2, OpensMail
  <2>3. ASSUME NEW s \in Servers, Answer(s) PROVE MailInv' BY <2>3, AnswerMail
  <2>4. ASSUME NEW s \in Servers, LosesSocket(s) \/ SocketGone(s) PROVE MailInv'
    BY <2>0, <2>4, ClosesMail DEF LosesSocket, SocketGone
  <2>5. ASSUME NEW s \in Servers, OldGone(s) PROVE MailInv' BY <2>5, OldGoneMail
  <2>6. ASSUME NEW s \in Servers, StatusOnline(s) PROVE MailInv'
    <3>1. GoesOnline(s, box) /\ UNCHANGED <<reqVars, mixed>> /\ faults' \in Nat
      BY <2>0, <2>6 DEF StatusOnline
    <3>2. box \in [Servers -> Boxes] /\ \A t \in Servers : Numbered(box[t])
      BY DEF MailInv, MailTypes, AllNumbered
    <3>3. /\ box' \in [Servers -> Boxes] /\ req' \in [Requests -> ReqRecords]
          /\ deferred' \in Seq(Requests) /\ ToSet(deferred') \subseteq made
          /\ lost' \subseteq Requests /\ AllNumbered' /\ Unmixed'
          /\ \A t \in Servers : /\ box'[t].waiting \subseteq made
                                /\ \A e \in box'[t].table : e[2] \in made \cup {Prepared}
      BY <3>1, <3>2, OnlineMail
    <3>4. OneEnd' /\ AnswersMatch' BY <3>1 DEF MailInv, OneEnd, AnswersMatch, reqVars
    <3>5. MailTypes' BY <3>1, <3>3 DEF MailInv, MailTypes, reqVars
    <3>6. MadeOnly' BY <3>1, <3>3 DEF MailInv, MadeOnly, reqVars
    <3>. QED BY <3>3, <3>4, <3>5, <3>6 DEF MailInv
  <2>7. CASE \/ Connect \/ NextServer \/ Disconnect \/ UNCHANGED vars
             \/ \E s \in Servers : StatusOffline(s) \/ Retry(s)
    <3>1. UNCHANGED <<box, req, deferred, reqVars, mixed, lost>>
      BY <2>7 DEF Connect, NextServer, Disconnect, StatusOffline, Retry, mailVars, vars,
                  reqVars
    <3>2. faults' \in Nat
      BY <2>0, <2>7 DEF Connect, NextServer, Disconnect, StatusOffline, Retry, vars
    <3>. QED BY <2>0, <3>1, <3>2, MailStays
  <2>. QED BY <2>1, <2>2, <2>3, <2>4, <2>5, <2>6, <2>7 DEF Next
<1>4. ConnInv /\ MailInv /\ SocketInv /\ [Next]_vars => SocketInv'
  <2>. SUFFICES ASSUME ConnInv, MailInv, SocketInv, [Next]_vars PROVE SocketInv' OBVIOUS
  <2>1. ASSUME NEW r \in Requests,
               RequestAny(r) \/ RequestOne(r) \/ Broadcast(r) \/ TimerFires(r)
        PROVE  SocketInv'
    BY <2>1, RequestsSockets
  <2>2. ASSUME NEW s \in Servers, Opens(s) PROVE SocketInv' BY <2>2, OpensSockets
  <2>3. ASSUME NEW s \in Servers, Answer(s) PROVE SocketInv' BY <2>3, AnswerSockets
  <2>4. ASSUME NEW s \in Servers, LosesSocket(s) \/ SocketGone(s) PROVE SocketInv'
    BY <2>4, ClosesSockets DEF LosesSocket, SocketGone
  <2>5. ASSUME NEW s \in Servers, OldGone(s) PROVE SocketInv' BY <2>5, OldGoneSockets
  <2>6. ASSUME NEW s \in Servers, StatusOnline(s) PROVE SocketInv'
    BY <2>6, StatusSockets
  <2>7. ASSUME NEW s \in Servers, StatusOffline(s) PROVE SocketInv'
    BY <2>7 DEF StatusOffline, GoesOffline, SocketInv, oldVars, mailVars
  <2>8. CASE Connect
    <3>1. order[1] \in Servers
      BY RoutingAssumption DEF ConnInv, ConnTypes, Permutation, Servers
    <3>. QED BY <2>8, <3>1, ConnectsSockets DEF Connect, mailVars
  <2>9. CASE NextServer
    <3>1. order[next] \in Servers
      BY <2>9 DEF NextServer, ConnInv, ConnTypes, Permutation, Servers
    <3>. QED BY <2>9, <3>1, ConnectsSockets DEF NextServer, mailVars
  <2>10. ASSUME NEW s \in Servers, Retry(s) PROVE SocketInv' BY <2>10, RetrySockets
  <2>11. CASE Disconnect
    <3>1. \A s \in Servers : link'[s] = "none" => link[s] = "none"
      BY <2>11 DEF Disconnect, ToldToClose
    <3>. QED BY <2>11, <3>1 DEF Disconnect, SocketInv, oldVars, mailVars
  <2>12. CASE UNCHANGED vars BY <2>12 DEF vars, SocketInv
  <2>. QED BY <2>1, <2>2, <2>3, <2>4, <2>5, <2>6, <2>7, <2>8, <2>9, <2>10, <2>11,
           <2>12 DEF Next
<1>. QED BY <1>1, <1>2, <1>3, <1>4, ConnInvariant, PTL DEF Spec

\* The variables keep their types, an array of servers stays a permutation, and
\* a server gives a number once (server.js:653).
THEOREM RoutingTypes == Spec => []TypeOK
<1>1. ConnInv /\ MailInv /\ SocketInv => TypeOK
  <2>. SUFFICES ASSUME ConnInv, MailInv, SocketInv PROVE TypeOK OBVIOUS
  <2>1. \A s \in Servers :
          /\ box[s].id \in Nat /\ box[s].table \subseteq Messages
          /\ box[s].wire \subseteq Messages /\ box[s].waiting \subseteq Requests
          /\ \A m, n \in box[s].table : m[1] = n[1] => m = n
          /\ late[s] \subseteq box[s].wire
    BY DEF MailInv, MailTypes, AllNumbered, Numbered, Boxes, SocketInv
  <2>2. calls \in [Requests -> Nat] BY DEF MailInv, MailTypes
  <2>. QED BY <2>1, <2>2 DEF TypeOK, ConnInv, ConnTypes, Permutation, LinkStates,
                             MailInv, MailTypes, ReqRecords, SocketInv
<1>. QED BY <1>1, ConnInvariant, MailInvariant, PTL

\* A request is given its own answer only, whatever sockets are lost, numbers go
\* on and servers are turned to again, unless a broadcast was split
\* (server.js:535, 665).
THEOREM OwnAnswers == Spec => []AnswersMatch
<1>1. MailInv => AnswersMatch BY DEF MailInv
<1>. QED BY <1>1, MailInvariant, PTL

\* A request is settled at most once: by its callback or by its timeout's
\* (request.js:63, 104).
THEOREM OneSettlement == Spec => []SettledOnce
<1>1. MailInv => SettledOnce
  <2>. SUFFICES ASSUME MailInv, NEW r \in Requests
                PROVE  calls[r] + (IF timer[r] = "fired" THEN 1 ELSE 0) =< 1
    BY DEF SettledOnce
  <2>1. calls[r] \in {0, 1} /\ (timer[r] = "fired" => calls[r] = 0)
    BY DEF MailInv, MailTypes, OneEnd
  <2>. QED BY <2>1
<1>. QED BY <1>1, MailInvariant, PTL

-----------------------------------------------------------------------------
(* Where the requests are.                                                   *)

\* A message of r is under way with an entry that its answer will find.
OnWire(b, r) == \E m \in b.wire \cap b.table : m[2] = r

\* What waits at a server has its entry there, under the number it will be
\* sent with.
EntryOfWaiting ==
  ~mixed => \A s \in Servers : \A r \in box[s].waiting :
              Settled(r) \/ <<req[r].id, r>> \in box[s].table

AccountInv == Accounted /\ EntryOfWaiting

\* An answer is waited for at a server, or a message of the request is lost.
Somewhere(r) ==
  \/ Settled(r) \/ r \in lost \/ r \in ToSet(deferred)
  \/ \E s \in Servers : r \in box[s].waiting \/ OnWire(box[s], r)

LEMMA AccountedIs == Accounted <=> (~mixed => \A r \in made : Somewhere(r))
BY DEF Accounted, Somewhere, OnWire

\* No request gets away while the remote's own lists stay: one that is settled
\* stays so, and entries and messages go only with those that are settled or
\* lost.
LEMMA AccountKeeps ==
  ASSUME MailInv, AccountInv, UNCHANGED <<req, deferred, made, mixed>>,
         lost \subseteq lost',
         \A q \in Requests : Settled(q) => Settled(q)',
         \A s \in Servers :
           /\ box'[s].waiting = box[s].waiting
           /\ \A q \in Requests, n \in Nat :
                <<n, q>> \in box[s].table => <<n, q>> \in box'[s].table \/ Settled(q)'
           /\ \A q \in Requests :
                OnWire(box[s], q) => \/ OnWire(box'[s], q)
                                     \/ Settled(q)' \/ q \in lost'
  PROVE  AccountInv'
<1>1. /\ made \subseteq Requests /\ req \in [Requests -> ReqRecords]
      /\ \A s \in Servers : box[s].waiting \subseteq Requests
  BY DEF MailInv, MailTypes, Boxes
<1>2. ASSUME ~mixed', NEW r \in made' PROVE Somewhere(r)'
  <2>1. Somewhere(r) /\ r \in Requests BY <1>1, <1>2, AccountedIs DEF AccountInv
  <2>2. CASE Settled(r) BY <2>1, <2>2 DEF Somewhere
  <2>3. CASE r \in lost \/ r \in ToSet(deferred)
    BY <2>1, <2>3 DEF Somewhere
  <2>4. ASSUME NEW s \in Servers, r \in box[s].waiting \/ OnWire(box[s], r)
        PROVE  Somewhere(r)'
    <3>1. r \in box'[s].waiting \/ OnWire(box'[s], r) \/ Settled(r)' \/ r \in lost'
      BY <2>1, <2>4
    <3>2. OnWire(box'[s], r) = OnWire(box[s], r)' BY DEF OnWire
    <3>. QED BY <3>1, <3>2 DEF Somewhere
  <2>. QED BY <2>1, <2>2, <2>3, <2>4 DEF Somewhere
<1>3. ASSUME ~mixed', NEW s \in Servers, NEW r \in box'[s].waiting
      PROVE  Settled(r)' \/ <<req'[r].id, r>> \in box'[s].table
  <2>1. r \in box[s].waiting /\ r \in Requests BY <1>1
  <2>2. Settled(r) \/ <<req[r].id, r>> \in box[s].table
    BY <1>3, <2>1 DEF AccountInv, EntryOfWaiting
  <2>3. req[r].id \in Nat BY <1>1, <2>1 DEF ReqRecords
  <2>. QED BY <2>1, <2>2, <2>3
<1>4. Accounted' BY <1>2 DEF Accounted, Somewhere, OnWire
<1>5. EntryOfWaiting' BY <1>3 DEF EntryOfWaiting
<1>. QED BY <1>4, <1>5 DEF AccountInv

\* What is under way on a socket is lost with it, and no one tells.
LEMMA AbandonAccount ==
  ASSUME MailInv, AccountInv, NEW s \in Servers, NEW gone,
         box' = [box EXCEPT ![s] = Abandons(@, gone)],
         lost' = lost \cup Under(gone),
         UNCHANGED <<req, deferred, reqVars, mixed>>
  PROVE  AccountInv'
<1>1. \A q \in Requests : Settled(q) => Settled(q)' BY DEF Settled, reqVars
<1>2. ASSUME NEW t \in Servers
      PROVE  /\ box'[t].waiting = box[t].waiting
             /\ box'[t].table = box[t].table
             /\ \A q \in Requests : OnWire(box[t], q) => OnWire(box'[t], q) \/ q \in lost'
  <2>1. box \in [Servers -> Boxes] BY DEF MailInv, MailTypes
  <2>2. CASE t = s
    <3>1. /\ box'[t].waiting = box[t].waiting /\ box'[t].table = box[t].table
          /\ box'[t].wire = box[t].wire \ gone
      BY <2>1, <2>2 DEF Abandons, Boxes
    <3>2. ASSUME NEW q \in Requests, NEW m \in box[t].wire \cap box[t].table, m[2] = q
          PROVE  OnWire(box'[t], q) \/ q \in lost'
      BY <3>1, <3>2 DEF OnWire, Under
    <3>. QED BY <3>1, <3>2 DEF OnWire
  <2>3. CASE t # s
    <3>1. box'[t] = box[t] BY <2>1, <2>3
    <3>. QED BY <3>1
  <2>. QED BY <2>2, <2>3
<1>. QED BY <1>1, <1>2, AccountKeeps DEF reqVars

LEMMA StaysAccount ==
  ASSUME MailInv, AccountInv, UNCHANGED <<box, req, deferred, made, mixed>>,
         lost \subseteq lost', \A q \in Requests : Settled(q) => Settled(q)'
  PROVE  AccountInv'
BY AccountKeeps

LEMMA OpensAccount ==
  ASSUME MailInv, AccountInv, NEW s \in Servers, Opens(s) PROVE AccountInv'
<1>1. box \in [Servers -> Boxes] BY DEF MailInv, MailTypes
<1>2. UNCHANGED <<req, deferred, lost, mixed>> /\ UNCHANGED reqVars BY DEF Opens
<1>3. \A q \in Requests : Settled(q) => Settled(q)' BY <1>2 DEF Settled, reqVars
<1>4. ASSUME NEW t \in Servers
      PROVE  /\ box'[t].waiting = box[t].waiting
             /\ box[t].table \subseteq box'[t].table /\ box[t].wire \subseteq box'[t].wire
  BY <1>1 DEF Opens, Boxes
<1>5. \A t \in Servers, q \in Requests : OnWire(box[t], q) => OnWire(box'[t], q)
  BY <1>4 DEF OnWire
<1>. QED BY <1>2, <1>3, <1>4, <1>5, AccountKeeps DEF reqVars

LEMMA TimerAccount ==
  ASSUME MailInv, AccountInv, NEW r \in Requests, TimerFires(r) PROVE AccountInv'
<1>1. /\ timer' = [timer EXCEPT ![r] = "fired"]
      /\ UNCHANGED <<box, req, lost, deferred, made, calls, mixed>>
  BY DEF TimerFires, mailVars
<1>2. timer \in [Requests -> {"off", "running", "fired"}] BY DEF MailInv, MailTypes
<1>3. \A q \in Requests : Settled(q) => Settled(q)' BY <1>1, <1>2 DEF Settled
<1>. QED BY <1>1, <1>3, StaysAccount

\* A request that is made now is put somewhere, and what others have stays.
LEMMA RequestedAccount ==
  ASSUME MailInv, AccountInv, NEW r \in Requests, Requested(r), mixed => mixed',
         \A q \in Requests \ {r} : req'[q] = req[q],
         lost \subseteq lost', ToSet(deferred) \subseteq ToSet(deferred'),
         \A s \in Servers :
           /\ box[s].waiting \subseteq box'[s].waiting
           /\ box'[s].waiting \subseteq box[s].waiting \cup {r}
           /\ box[s].table \subseteq box'[s].table /\ box[s].wire \subseteq box'[s].wire,
         ~mixed' => \/ r \in lost' \/ r \in ToSet(deferred')
                    \/ \E s \in Servers : r \in box'[s].waiting \/ OnWire(box'[s], r),
         ~mixed' => \A s \in Servers : r \in box'[s].waiting =>
                                          <<req'[r].id, r>> \in box'[s].table
  PROVE  AccountInv'
<1>1. /\ made' = made \cup {r} /\ r \notin made
      /\ timer' = [timer EXCEPT ![r] = IF r \in Timed THEN "running" ELSE "off"]
      /\ UNCHANGED calls
  BY DEF Requested
<1>2. /\ timer \in [Requests -> {"off", "running", "fired"}]
      /\ calls \in [Requests -> {0, 1}] /\ made \subseteq Requests
      /\ calls[r] = 0 /\ timer[r] = "off"
      /\ \A s \in Servers : box[s].waiting \subseteq Requests
  BY <1>1 DEF MailInv, MailTypes, MadeOnly, Boxes
<1>3. \A q \in Requests : Settled(q) => Settled(q)' BY <1>1, <1>2 DEF Settled
<1>4. ASSUME NEW s \in Servers, NEW q, OnWire(box[s], q) PROVE OnWire(box'[s], q)
  BY <1>4 DEF OnWire
<1>5. ASSUME ~mixed', NEW q \in made' PROVE Somewhere(q)'
  <2>1. CASE q = r BY <1>5, <2>1 DEF Somewhere, OnWire
  <2>2. CASE q # r
    <3>1. Somewhere(q) /\ q \in Requests
      BY <1>1, <1>2, <1>5, <2>2, AccountedIs DEF AccountInv
    <3>2. ASSUME NEW s \in Servers, q \in box[s].waiting \/ OnWire(box[s], q)
          PROVE  q \in box'[s].waiting \/ OnWire(box'[s], q)
      BY <1>4, <3>2
    <3>. QED BY <1>3, <3>1, <3>2 DEF Somewhere, OnWire
  <2>. QED BY <2>1, <2>2
<1>6. ASSUME ~mixed', NEW s \in Servers, NEW q \in box'[s].waiting
      PROVE  Settled(q)' \/ <<req'[q].id, q>> \in box'[s].table
  <2>1. CASE q = r BY <1>6, <2>1
  <2>2. CASE q # r
    <3>1. q \in box[s].waiting /\ q \in Requests BY <1>2, <2>2
    <3>2. Settled(q) \/ <<req[q].id, q>> \in box[s].table
      BY <1>6, <3>1 DEF AccountInv, EntryOfWaiting
    <3>. QED BY <1>3, <2>2, <3>1, <3>2
  <2>. QED BY <2>1, <2>2
<1>7. Accounted' BY <1>5 DEF Accounted, Somewhere, OnWire
<1>8. EntryOfWaiting' BY <1>6 DEF EntryOfWaiting
<1>. QED BY <1>7, <1>8 DEF AccountInv

\* What is not lost for want of a socket is sent or waits.
LEMMA TakenSent ==
  ASSUME NEW b, NEW on, NEW s, NEW rs, NEW places,
         NEW c, c = Taken(on, b, s, rs, places), NEW i \in places,
         ~Drops(on, s, rs[i])
  PROVE  rs[i] \in c.waiting \/ OnWire(c, rs[i])
<1>. DEFINE m == <<Number(b.id, places, i), rs[i]>>
            msgs == {<<Number(b.id, places, j), rs[j]>> : j \in places}
            now  == {n \in msgs : IsConnected(on, s, n[2])}
            sent == {n \in now : link[s] = "open"}
<1>1. link[s] # "none" /\ (IsConnected(on, s, rs[i]) => link[s] = "open") BY DEF Drops
<1>2. /\ c.table = b.table \cup msgs /\ c.wire = b.wire \cup sent
      /\ c.waiting = b.waiting \cup {n[2] : n \in msgs \ now}
  BY <1>1 DEF Taken
<1>3. m \in msgs /\ m[2] = rs[i] OBVIOUS
<1>4. m \in now => m \in sent BY <1>1, <1>3
<1>. HIDE DEF msgs, m, now, sent
<1>5. m \in sent \/ m \in msgs \ now BY <1>3, <1>4
<1>6. CASE m \in sent
  <2>1. m \in c.wire \cap c.table BY <1>2, <1>3, <1>6
  <2>. QED BY <1>3, <2>1 DEF OnWire
<1>7. CASE m \in msgs \ now BY <1>2, <1>3, <1>7
<1>. QED BY <1>5, <1>6, <1>7

LEMMA TakenOneSent ==
  ASSUME NEW b, NEW on, NEW s, NEW r
  PROVE  /\ b.table \subseteq One(on, b, s, r).table
         /\ b.wire \subseteq One(on, b, s, r).wire
         /\ b.waiting \subseteq One(on, b, s, r).waiting
         /\ ~Drops(on, s, r) => \/ r \in One(on, b, s, r).waiting
                                 \/ OnWire(One(on, b, s, r), r)
<1>. DEFINE c == One(on, b, s, r)
            rs == <<r>>
            places == {1}
<1>1. c = Taken(on, b, s, rs, places) BY DEF One
<1>2. 1 \in places /\ rs[1] = r OBVIOUS
<1>. HIDE DEF c, rs, places
<1>3. b.table \subseteq c.table /\ b.wire \subseteq c.wire /\ b.waiting \subseteq c.waiting
  BY <1>1, TakenGrows
<1>4. ~Drops(on, s, r) => r \in c.waiting \/ OnWire(c, r)
  BY <1>1, <1>2, TakenSent
<1>. QED BY <1>3, <1>4 DEF c

LEMMA DeferAccount ==
  ASSUME MailInv, AccountInv, NEW r \in Requests, Requested(r), NEW rs \in Seq({r}),
         rs # <<>>, Defer(rs), UNCHANGED mixed, \A q \in Requests \ {r} : req'[q] = req[q]
  PROVE  AccountInv'
<1>1. deferred \in Seq(Requests) /\ deferred' = deferred \o rs /\ UNCHANGED <<box, lost>>
  BY DEF Defer, MailInv, MailTypes
<1>2. ToSet(deferred) \subseteq ToSet(deferred') /\ r \in ToSet(deferred')
  <2>1. rs \in Seq(Requests) /\ Len(rs) > 0 /\ rs[1] = r OBVIOUS
  <2>2. \A i \in DOMAIN deferred : i \in DOMAIN deferred' /\ deferred'[i] = deferred[i]
    BY <1>1, <2>1
  <2>3. Len(deferred) + 1 \in DOMAIN deferred' /\ deferred'[Len(deferred) + 1] = r
    BY <1>1, <2>1
  <2>. QED BY <2>2, <2>3 DEF ToSet
<1>3. \A s \in Servers : r \notin box[s].waiting BY DEF Requested, MailInv, MadeOnly
<1>. QED BY <1>1, <1>2, <1>3, RequestedAccount

LEMMA RouteAccount ==
  ASSUME MailInv, AccountInv, NEW r \in Requests, Requested(r), NEW s \in Servers,
         RouteTo(s, r), UNCHANGED <<deferred, mixed>>
  PROVE  AccountInv'
<1>1. box \in [Servers -> Boxes] /\ req \in [Requests -> ReqRecords]
  BY DEF MailInv, MailTypes
<1>2. /\ box' = [box EXCEPT ![s] = One(online, box[s], s, r)]
      /\ req' = [req EXCEPT ![r] = [server |-> s, id |-> box[s].id]]
      /\ lost' = IF Drops(online, s, r) THEN lost \cup {r} ELSE lost
  BY DEF RouteTo, One
<1>3. box[s] \in Boxes /\ Numbered(box[s]) BY <1>1 DEF MailInv, AllNumbered
<1>4. box'[s] = One(online, box[s], s, r) BY <1>1, <1>2
<1>5. \A t \in Servers \ {s} : box'[t] = box[t] BY <1>1, <1>2
<1>6. req'[r].id = box[s].id /\ \A q \in Requests \ {r} : req'[q] = req[q]
  BY <1>1, <1>2
<1>7. \A t \in Servers : r \notin box[t].waiting BY DEF Requested, MailInv, MadeOnly
<1>8. \A t \in Servers :
        /\ box[t].waiting \subseteq box'[t].waiting
        /\ box'[t].waiting \subseteq box[t].waiting \cup {r}
        /\ box[t].table \subseteq box'[t].table /\ box[t].wire \subseteq box'[t].wire
  BY <1>3, <1>4, <1>5, TakenOne, TakenOneSent
<1>9. r \in lost' \/ r \in box'[s].waiting \/ OnWire(box'[s], r)
  BY <1>2, <1>4, TakenOneSent
<1>10. ASSUME NEW t \in Servers, r \in box'[t].waiting
       PROVE  <<req'[r].id, r>> \in box'[t].table
  <2>1. t = s BY <1>5, <1>7, <1>10
  <2>. QED BY <1>3, <1>4, <1>6, <1>7, <1>10, <2>1, TakenOneWaits
<1>11. lost \subseteq lost' BY <1>2
<1>. QED BY <1>6, <1>8, <1>9, <1>10, <1>11, RequestedAccount

LEMMA RequestAnyAccount ==
  ASSUME MailInv, AccountInv, NEW r \in Requests, RequestAny(r) PROVE AccountInv'
<1>1. Requested(r) /\ UNCHANGED mixed BY DEF RequestAny
<1>2. CASE connected
  <2>1. PICK s \in Servers : RouteTo(s, r) BY <1>2 DEF RequestAny
  <2>. QED BY <1>1, <1>2, <2>1, RouteAccount DEF RequestAny
<1>3. CASE ~connected
  <2>1. Defer(<<r>>) /\ UNCHANGED req BY <1>3 DEF RequestAny
  <2>2. <<r>> \in Seq({r}) /\ <<r>> # <<>> OBVIOUS
  <2>. QED BY <1>1, <2>1, <2>2, DeferAccount
<1>. QED BY <1>2, <1>3

LEMMA RequestOneAccount ==
  ASSUME MailInv, AccountInv, NEW r \in Requests, RequestOne(r) PROVE AccountInv'
<1>1. Requested(r) /\ UNCHANGED mixed BY DEF RequestOne
<1>2. PICK s \in Servers :
        IF connected THEN RouteTo(s, r) /\ UNCHANGED <<deferred, orderVars>>
        ELSE req' = [req EXCEPT ![r].server = s] /\ Defer(<<r>>)
  BY DEF RequestOne
<1>3. CASE connected BY <1>1, <1>2, <1>3, RouteAccount
<1>4. CASE ~connected
  <2>1. req' = [req EXCEPT ![r].server = s] /\ Defer(<<r>>) BY <1>2, <1>4
  <2>2. \A q \in Requests \ {r} : req'[q] = req[q] BY <2>1 DEF MailInv, MailTypes
  <2>3. <<r>> \in Seq({r}) /\ <<r>> # <<>> OBVIOUS
  <2>. QED BY <1>1, <2>1, <2>2, <2>3, DeferAccount
<1>. QED BY <1>3, <1>4

\* A broadcast that is not split is sent to every server with a socket; one to a
\* server without is lost.
LEMMA BroadcastAccount ==
  ASSUME MailInv, AccountInv, NEW r \in Requests, Broadcast(r) PROVE AccountInv'
<1>0. Requested(r) BY DEF Broadcast
<1>1. box \in [Servers -> Boxes] /\ req \in [Requests -> ReqRecords] /\ 1 \in Servers
  BY RoutingAssumption DEF MailInv, MailTypes, Servers
<1>2. CASE ~connected
  <2>1. /\ req' = [req EXCEPT ![r].server = order[N]]
        /\ Defer([s \in Servers |-> r]) /\ UNCHANGED mixed
    BY <1>2 DEF Broadcast
  <2>2. [s \in Servers |-> r] \in Seq({r}) /\ [s \in Servers |-> r] # <<>>
    <3>1. N \in Nat /\ N # 0 BY RoutingAssumption
    <3>2. [s \in Servers |-> r] \in Seq({r}) /\ Len([s \in Servers |-> r]) = N
      BY <3>1 DEF Servers
    <3>. QED BY <3>1, <3>2
  <2>3. \A q \in Requests \ {r} : req'[q] = req[q] BY <1>1, <2>1
  <2>. QED BY <1>0, <2>1, <2>2, <2>3, DeferAccount
<1>3. CASE connected
  <2>1. /\ box' = [s \in Servers |-> One(online, box[s], s, r)]
        /\ \A q \in Requests \ {r} : req'[q] = req[q]
        /\ lost' = IF \E s \in Servers : Drops(online, s, r) THEN lost \cup {r} ELSE lost
        /\ mixed' = (mixed \/ \E s \in Servers :
                        link[s] # "none" /\ ~IsConnected(online, s, r))
        /\ UNCHANGED deferred
    BY <1>1, <1>3 DEF Broadcast, One
  <2>2. ASSUME NEW s \in Servers
        PROVE  /\ box[s].waiting \subseteq box'[s].waiting
               /\ box'[s].waiting \subseteq box[s].waiting \cup {r}
               /\ box[s].table \subseteq box'[s].table /\ box[s].wire \subseteq box'[s].wire
               /\ ~Drops(online, s, r) => r \in box'[s].waiting \/ OnWire(box'[s], r)
    <3>1. box[s] \in Boxes /\ Numbered(box[s]) BY <1>1 DEF MailInv, AllNumbered
    <3>2. box'[s] = One(online, box[s], s, r) BY <2>1
    <3>. QED BY <3>1, <3>2, TakenOne, TakenOneSent
  <2>3. r \in lost' \/ \E s \in Servers : r \in box'[s].waiting \/ OnWire(box'[s], r)
    BY <1>1, <2>1, <2>2
  <2>4. ASSUME ~mixed', NEW s \in Servers PROVE r \notin box'[s].waiting
    <3>1. r \notin box[s].waiting /\ box[s] \in Boxes
      BY <1>0, <1>1 DEF Requested, MailInv, MadeOnly
    <3>2. link[s] = "none" \/ IsConnected(online, s, r) BY <2>1, <2>4
    <3>3. box'[s] = One(online, box[s], s, r) BY <2>1
    <3>. QED BY <3>1, <3>2, <3>3, TakenOneWaits
  <2>5. lost \subseteq lost' /\ ToSet(deferred) \subseteq ToSet(deferred') /\ (mixed => mixed')
    BY <2>1
  <2>. QED BY <1>0, <2>1, <2>2, <2>3, <2>4, <2>5, RequestedAccount
<1>. QED BY <1>2, <1>3

LEMMA SentIs ==
  ASSUME NEW b \in Boxes, NEW s, NEW reqs, NEW c, c = Sent(b, s, reqs)
  PROVE  /\ c.waiting = {} /\ c.table = b.table /\ b.wire \subseteq c.wire
         /\ link[s] = "open" => \A r \in b.waiting : <<reqs[r].id, r>> \in c.wire
BY DEF Sent, Boxes

\* A server goes online: what was deferred is lost, waits or is sent, and what
\* waited for this server is sent, with its entry.
LEMMA OnlineAccount ==
  ASSUME MailInv, AccountInv, NEW s \in Servers, NEW boxes \in [Servers -> Boxes],
         \A t \in Servers :
           /\ Numbered(boxes[t]) /\ boxes[t].waiting = box[t].waiting
           /\ \A q \in Requests, n \in Nat :
                <<n, q>> \in box[t].table => <<n, q>> \in boxes[t].table
           /\ \A q \in Requests : OnWire(box[t], q) => OnWire(boxes[t], q),
         GoesOnline(s, boxes), UNCHANGED <<made, mixed>>,
         \A q \in Requests : Settled(q) => Settled(q)'
  PROVE  AccountInv'
<1>. DEFINE on == online \cup {s}
            flushed == IF count = 0 THEN deferred ELSE <<>>
            target(r) == IF req[r].server = NoServer THEN s ELSE req[r].server
            for(t) == {i \in DOMAIN flushed : target(flushed[i]) = t}
            last(r) == SelectLastInSeq(flushed, LAMBDA q : q = r)
            number(r) == Number(boxes[target(r)].id, for(target(r)), last(r))
            reqs == [r \in Requests |->
                       IF r \in ToSet(flushed)
                       THEN [server |-> target(r), id |-> number(r)] ELSE req[r]]
            taken == [t \in Servers |-> Taken(on, boxes[t], t, flushed, for(t))]
<1>1. /\ deferred' = IF count = 0 THEN <<>> ELSE deferred
      /\ req' = reqs
      /\ box' = [taken EXCEPT ![s] = Sent(taken[s], s, reqs)]
      /\ lost' = lost \cup {r \in ToSet(flushed) : Drops(on, target(r), r)}
                     \cup {r \in taken[s].waiting : link[s] # "open"}
  BY DEF GoesOnline
<1>2. /\ box \in [Servers -> Boxes] /\ deferred \in Seq(Requests)
      /\ req \in [Requests -> ReqRecords] /\ made \subseteq Requests
  BY DEF MailInv, MailTypes
<1>3. /\ flushed \in Seq(Requests) /\ ToSet(flushed) \subseteq ToSet(deferred)
      /\ ToSet(flushed) \subseteq Requests
      /\ count = 0 => flushed = deferred
      /\ count # 0 => ToSet(flushed) = {}
  <2>1. CASE count = 0 BY <1>2, <2>1 DEF ToSet
  <2>2. CASE count # 0 BY <1>2, <2>2 DEF ToSet
  <2>. QED BY <2>1, <2>2
<1>4. \A r \in Requests : target(r) \in Servers BY <1>2 DEF ReqRecords
<1>5. \A r \in ToSet(flushed) : last(r) \in for(target(r)) /\ flushed[last(r)] = r
  BY <1>3, LastIsPlace
<1>6. \A t \in Servers : {flushed[i] : i \in for(t)} \subseteq {r \in ToSet(flushed) : target(r) = t}
  BY DEF ToSet
<1>7. \A r \in ToSet(flushed) :
        reqs[r].id = Number(boxes[target(r)].id, for(target(r)), last(r))
  BY <1>3
<1>8. \A r \in Requests \ ToSet(flushed) : reqs[r] = req[r] OBVIOUS
<1>9. \A t \in Servers : taken[t] = Taken(on, boxes[t], t, flushed, for(t)) OBVIOUS
<1>10. \A t \in Servers : box[t].waiting \subseteq Requests BY <1>2 DEF Boxes
<1>. HIDE DEF on, flushed, target, for, last, number, reqs, taken
<1>11. ASSUME NEW t \in Servers
       PROVE  /\ boxes[t].table \subseteq taken[t].table
              /\ boxes[t].wire \subseteq taken[t].wire
              /\ box[t].waiting \subseteq taken[t].waiting
              /\ taken[t].waiting \subseteq box[t].waiting \cup ToSet(flushed)
              /\ \A r \in taken[t].waiting \ box[t].waiting :
                   r \in Requests /\ <<reqs[r].id, r>> \in taken[t].table
              /\ \A r \in ToSet(flushed) :
                   target(r) = t /\ ~Drops(on, t, r) =>
                     r \in taken[t].waiting \/ OnWire(taken[t], r)
  <2>. DEFINE rs == flushed
              places == for(t)
  <2>1. taken[t] = Taken(on, boxes[t], t, rs, places) /\ boxes[t].waiting = box[t].waiting
    BY <1>9
  <2>2. {rs[i] : i \in places} \subseteq {r \in ToSet(flushed) : target(r) = t} BY <1>6
  <2>3. \A r \in ToSet(flushed) :
          target(r) = t => /\ last(r) \in places /\ rs[last(r)] = r
                           /\ reqs[r].id = Number(boxes[t].id, places, last(r))
    BY <1>5, <1>7
  <2>. HIDE DEF rs, places
  <2>4. ASSUME NEW r \in taken[t].waiting \ box[t].waiting
        PROVE  r \in ToSet(flushed) /\ <<reqs[r].id, r>> \in taken[t].table
    <3>1. link[t] # "none" /\ r \in {rs[i] : i \in places} BY <2>1, TakenWaits
    <3>2. r \in ToSet(flushed) /\ target(r) = t BY <2>2, <3>1
    <3>3. PICK i \in places : rs[i] = r /\ reqs[r].id = Number(boxes[t].id, places, i)
      BY <2>3, <3>2
    <3>4. <<Number(boxes[t].id, places, i), rs[i]>> \in taken[t].table
      BY <2>1, <3>1, TakenEnters
    <3>. QED BY <3>2, <3>3, <3>4
  <2>5. ASSUME NEW r \in ToSet(flushed), target(r) = t, ~Drops(on, t, r)
        PROVE  r \in taken[t].waiting \/ OnWire(taken[t], r)
    <3>1. PICK i \in places : rs[i] = r BY <2>3, <2>5
    <3>2. ~Drops(on, t, rs[i]) BY <2>5, <3>1
    <3>3. rs[i] \in taken[t].waiting \/ OnWire(taken[t], rs[i])
      BY <2>1, <3>2, TakenSent
    <3>. QED BY <3>1, <3>3
  <2>6. /\ boxes[t].table \subseteq taken[t].table /\ boxes[t].wire \subseteq taken[t].wire
        /\ box[t].waiting \subseteq taken[t].waiting
    BY <2>1, TakenGrows
  <2>. QED BY <1>3, <2>4, <2>5, <2>6
<1>12. ASSUME ~mixed, NEW t \in Servers, NEW r \in taken[t].waiting
       PROVE  Settled(r)' \/ <<reqs[r].id, r>> \in taken[t].table
  <2>1. CASE r \in box[t].waiting
    <3>1. r \in Requests /\ r \notin ToSet(flushed) /\ reqs[r] = req[r]
      BY <1>3, <1>8, <1>10, <1>12, <2>1 DEF MailInv, Unmixed
    <3>2. Settled(r) \/ <<req[r].id, r>> \in box[t].table
      BY <1>12, <2>1 DEF AccountInv, EntryOfWaiting
    <3>3. req[r].id \in Nat BY <1>2, <3>1 DEF ReqRecords
    <3>. QED BY <1>11, <3>1, <3>2, <3>3
  <2>2. CASE r \notin box[t].waiting BY <1>11, <1>12, <2>2
  <2>. QED BY <2>1, <2>2
<1>13. /\ \A t \in Servers \ {s} : box'[t] = taken[t]
       /\ box'[s] = Sent(taken[s], s, reqs)
  BY <1>1 DEF taken
<1>14. taken[s] \in Boxes
  <2>. DEFINE rs == flushed
              places == for(s)
  <2>1. /\ boxes[s] \in Boxes /\ Numbered(boxes[s])
        /\ rs \in Seq(Requests) /\ places \subseteq DOMAIN rs
        /\ taken[s] = Taken(on, boxes[s], s, rs, places)
    BY <1>3, <1>9 DEF for
  <2>. HIDE DEF rs, places
  <2>. QED BY <2>1, TakenIs
<1>15. /\ box'[s].table = taken[s].table /\ box'[s].waiting = {}
       /\ taken[s].wire \subseteq box'[s].wire
       /\ link[s] = "open" =>
            \A r \in taken[s].waiting : <<reqs[r].id, r>> \in box'[s].wire
  BY <1>13, <1>14, SentIs
<1>16. ASSUME NEW t \in Servers, NEW r, OnWire(taken[t], r) PROVE OnWire(box'[t], r)
  <2>1. box'[t].table = taken[t].table /\ taken[t].wire \subseteq box'[t].wire
    BY <1>13, <1>15
  <2>. QED BY <1>16, <2>1 DEF OnWire
<1>17. ASSUME ~mixed, NEW t \in Servers, NEW r \in Requests,
              r \in taken[t].waiting \/ OnWire(taken[t], r)
       PROVE  Settled(r)' \/ r \in lost' \/ r \in box'[t].waiting \/ OnWire(box'[t], r)
  <2>1. CASE OnWire(taken[t], r) BY <1>16, <2>1
  <2>2. CASE r \in taken[t].waiting /\ t # s BY <1>13, <2>2
  <2>3. CASE r \in taken[t].waiting /\ t = s /\ link[s] # "open" BY <1>1, <2>3
  <2>4. CASE r \in taken[t].waiting /\ t = s /\ link[s] = "open"
    <3>1. Settled(r)' \/ <<reqs[r].id, r>> \in box'[s].table BY <1>12, <1>15, <1>17, <2>4
    <3>2. <<reqs[r].id, r>> \in box'[s].wire BY <1>15, <2>4
    <3>3. <<reqs[r].id, r>>[2] = r OBVIOUS
    <3>. QED BY <2>4, <3>1, <3>2, <3>3 DEF OnWire
  <2>. QED BY <1>17, <2>1, <2>2, <2>3, <2>4
<1>18. ASSUME ~mixed, NEW r \in made PROVE Somewhere(r)'
  <2>1. Somewhere(r) /\ r \in Requests BY <1>2, <1>18, AccountedIs DEF AccountInv
  <2>2. CASE Settled(r) \/ r \in lost BY <1>1, <2>1, <2>2 DEF Somewhere
  <2>3. CASE r \in ToSet(deferred)
    <3>1. CASE count # 0 BY <1>1, <2>3, <3>1 DEF Somewhere
    <3>2. CASE count = 0
      <4>1. r \in ToSet(flushed) /\ target(r) \in Servers BY <1>3, <1>4, <2>1, <2>3, <3>2
      <4>2. CASE Drops(on, target(r), r) BY <1>1, <4>1, <4>2 DEF Somewhere
      <4>3. CASE ~Drops(on, target(r), r)
        <5>1. r \in taken[target(r)].waiting \/ OnWire(taken[target(r)], r)
          BY <1>11, <4>1, <4>3
        <5>. QED BY <1>17, <1>18, <2>1, <4>1, <5>1 DEF Somewhere, OnWire
      <4>. QED BY <4>2, <4>3
    <3>. QED BY <3>1, <3>2
  <2>4. ASSUME NEW t \in Servers, r \in box[t].waiting \/ OnWire(box[t], r)
        PROVE  Somewhere(r)'
    <3>1. OnWire(boxes[t], r) => OnWire(taken[t], r) BY <1>11 DEF OnWire
    <3>2. r \in taken[t].waiting \/ OnWire(taken[t], r) BY <1>11, <2>1, <2>4, <3>1
    <3>. QED BY <1>17, <1>18, <2>1, <3>2 DEF Somewhere, OnWire
  <2>. QED BY <2>1, <2>2, <2>3, <2>4 DEF Somewhere
<1>19. ASSUME ~mixed, NEW t \in Servers, NEW r \in box'[t].waiting
       PROVE  Settled(r)' \/ <<req'[r].id, r>> \in box'[t].table
  <2>1. t # s /\ box'[t] = taken[t] BY <1>13, <1>15
  <2>. QED BY <1>1, <1>12, <1>19, <2>1
<1>20. Accounted' BY <1>18 DEF Accounted, Somewhere, OnWire
<1>21. EntryOfWaiting' BY <1>19 DEF EntryOfWaiting
<1>. QED BY <1>20, <1>21 DEF AccountInv

\* An answer that is read settles the request whose entry it removes; no other
\* request's messages fitted that entry.
LEMMA AnswerAccount ==
  ASSUME MailInv, AccountInv, NEW s \in Servers, Answer(s) PROVE AccountInv'
<1>1. PICK m \in box[s].wire :
        LET asker == {e \in box[s].table : e[1] = m[1]}
            boxes == [box EXCEPT ![s].wire = @ \ {m}, ![s].table = @ \ asker]
            goes  == asker = {m} /\ m[2] = Prepared /\ s \notin online
        IN /\ \/ goes /\ GoesOnline(s, boxes) /\ UNCHANGED faults
              \/ /\ box' = boxes
                 /\ faults' = faults + (IF goes THEN 1 ELSE 0) /\ faults' =< MaxFaults
                 /\ UNCHANGED <<online, belated, count, connected, req, lost, deferred,
                                orderVars>>
           /\ IF \E e \in asker : e[2] \in Requests
              THEN \E e \in asker : Emit(e[2], m[2])
              ELSE UNCHANGED <<heard, calls, timer>>
           /\ UNCHANGED <<made, mixed>>
  BY DEF Answer
<1>. DEFINE asker == {e \in box[s].table : e[1] = m[1]}
            boxes == [box EXCEPT ![s].wire = @ \ {m}, ![s].table = @ \ asker]
<1>2. /\ \/ GoesOnline(s, boxes) /\ asker = {m} /\ m[2] = Prepared
         \/ box' = boxes /\ UNCHANGED <<req, lost, deferred>>
      /\ IF \E e \in asker : e[2] \in Requests
         THEN \E e \in asker : Emit(e[2], m[2])
         ELSE UNCHANGED <<heard, calls, timer>>
      /\ UNCHANGED <<made, mixed>>
  BY <1>1
<1>3. /\ box \in [Servers -> Boxes]
      /\ timer \in [Requests -> {"off", "running", "fired"}]
      /\ calls \in [Requests -> {0, 1}]
  BY DEF MailInv, MailTypes
<1>4. /\ box[s] \in Boxes /\ Numbered(box[s]) /\ m \in Messages
      /\ \A e \in asker : e \in box[s].table /\ e \in Messages /\ e[1] = m[1]
      /\ \A e \in box[s].table \ asker : e[1] # m[1]
  BY <1>3 DEF MailInv, AllNumbered, Boxes
<1>5. \A e, f \in asker : e = f BY <1>4 DEF Numbered
<1>6. /\ boxes[s].waiting = box[s].waiting
      /\ boxes[s].table = box[s].table \ asker /\ boxes[s].wire = box[s].wire \ {m}
      /\ boxes[s] \in Boxes /\ Numbered(boxes[s])
      /\ \A t \in Servers \ {s} : boxes[t] = box[t]
      /\ boxes \in [Servers -> Boxes]
  <2>. DEFINE b == [box[s] EXCEPT !.wire = box[s].wire \ {m}, !.table = box[s].table \ asker]
  <2>1. boxes = [box EXCEPT ![s] = b] BY <1>3
  <2>2. /\ b.waiting = box[s].waiting /\ b.table = box[s].table \ asker
        /\ b.wire = box[s].wire \ {m} /\ b.id = box[s].id /\ b \in Boxes
    BY <1>4 DEF Boxes
  <2>. HIDE DEF b, boxes
  <2>3. Numbered(b) BY <1>4, <2>2 DEF Numbered
  <2>. QED BY <1>3, <2>1, <2>2, <2>3
<1>7. ASSUME NEW q \in Requests
      PROVE  Settled(q) => Settled(q)'
  <2>1. CASE UNCHANGED <<heard, calls, timer>> BY <2>1 DEF Settled
  <2>2. ASSUME NEW e \in asker, Emit(e[2], m[2]) PROVE Settled(q) => Settled(q)'
    BY <1>3, <2>2 DEF Settled, Emit
  <2>. QED BY <1>2, <2>1, <2>2
<1>8. ASSUME ~mixed, NEW e \in asker, e[2] \in Requests PROVE Settled(e[2])'
  <2>1. Emit(e[2], m[2]) BY <1>2, <1>5, <1>8
  <2>. QED BY <1>3, <1>8, <2>1 DEF Settled, Emit
<1>9. asker = {m} /\ m[2] = Prepared =>
        /\ \A q \in Requests, n \in Nat :
             <<n, q>> \in box[s].table => <<n, q>> \in boxes[s].table
        /\ \A q \in Requests : OnWire(box[s], q) => OnWire(boxes[s], q)
  BY <1>6, RoutingAssumption DEF OnWire
<1>10. ASSUME ~mixed, NEW q \in Requests
       PROVE  /\ \A n \in Nat : <<n, q>> \in box[s].table =>
                                  <<n, q>> \in boxes[s].table \/ Settled(q)'
              /\ OnWire(box[s], q) => OnWire(boxes[s], q) \/ Settled(q)'
  <2>1. ASSUME NEW e \in box[s].table, e[2] = q
        PROVE  e \in boxes[s].table \/ Settled(q)'
    BY <1>6, <1>8, <1>10, <2>1
  <2>2. ASSUME NEW e \in box[s].wire \cap box[s].table, e[2] = q
        PROVE  OnWire(boxes[s], q) \/ Settled(q)'
    <3>1. CASE e \in asker BY <2>1, <2>2, <1>8, <1>10, <3>1
    <3>2. CASE e \notin asker
      <4>1. e # m BY <1>4, <2>2, <3>2
      <4>2. e \in boxes[s].wire \cap boxes[s].table BY <1>6, <2>2, <3>2, <4>1
      <4>. QED BY <2>2, <4>2 DEF OnWire
    <3>. QED BY <3>1, <3>2
  <2>3. \A n \in Nat : <<n, q>>[2] = q OBVIOUS
  <2>. QED BY <2>1, <2>2, <2>3 DEF OnWire
<1>. HIDE DEF asker, boxes
<1>11. CASE GoesOnline(s, boxes) /\ asker = {m} /\ m[2] = Prepared
  <2>1. ASSUME NEW t \in Servers
        PROVE  /\ Numbered(boxes[t]) /\ boxes[t].waiting = box[t].waiting
               /\ \A q \in Requests, n \in Nat :
                    <<n, q>> \in box[t].table => <<n, q>> \in boxes[t].table
               /\ \A q \in Requests : OnWire(box[t], q) => OnWire(boxes[t], q)
    BY <1>6, <1>9, <1>11 DEF MailInv, AllNumbered
  <2>. QED BY <1>2, <1>6, <1>7, <1>11, <2>1, OnlineAccount
<1>12. CASE box' = boxes /\ UNCHANGED <<req, lost, deferred>>
  <2>1. CASE mixed
    BY <1>2, <2>1 DEF AccountInv, Accounted, EntryOfWaiting
  <2>2. CASE ~mixed
    <3>1. ASSUME NEW t \in Servers
          PROVE  /\ box'[t].waiting = box[t].waiting
                 /\ \A q \in Requests, n \in Nat :
                      <<n, q>> \in box[t].table => <<n, q>> \in box'[t].table \/ Settled(q)'
                 /\ \A q \in Requests :
                      OnWire(box[t], q) => \/ OnWire(box'[t], q)
                                           \/ Settled(q)' \/ q \in lost'
      BY <1>6, <1>10, <1>12, <2>2
    <3>2. UNCHANGED <<req, deferred, made, mixed>> /\ lost \subseteq lost'
      BY <1>2, <1>12
    <3>. QED BY <1>7, <3>1, <3>2, AccountKeeps
  <2>. QED BY <2>1, <2>2
<1>. QED BY <1>2, <1>11, <1>12

\* A request that was made is never forgotten without a message of it lost: it
\* is settled, or waits for the remote or a server, or an answer on its way will
\* find its entry, unless a broadcast was split (request.js:13, server.js:657).
THEOREM NoneForgotten == Spec => []Accounted
<1>1. Init => AccountInv
  BY DEF Init, AccountInv, Accounted, EntryOfWaiting
<1>2. ConnInv /\ MailInv /\ AccountInv /\ [Next]_vars => AccountInv'
  <2>. SUFFICES ASSUME ConnInv, MailInv, AccountInv, [Next]_vars PROVE AccountInv' OBVIOUS
  <2>1. ASSUME NEW r \in Requests,
               RequestAny(r) \/ RequestOne(r) \/ Broadcast(r) \/ TimerFires(r)
        PROVE  AccountInv'
    BY <2>1, RequestAnyAccount, RequestOneAccount, BroadcastAccount, TimerAccount
  <2>2. ASSUME NEW s \in Servers, Opens(s) \/ Answer(s) PROVE AccountInv'
    BY <2>2, OpensAccount, AnswerAccount
  <2>3. ASSUME NEW s \in Servers, LosesSocket(s) \/ SocketGone(s) PROVE AccountInv'
    BY <2>3, AbandonAccount DEF LosesSocket, SocketGone, Closes
  <2>4. ASSUME NEW s \in Servers, OldGone(s) PROVE AccountInv'
    BY <2>4, AbandonAccount DEF OldGone
  <2>5. ASSUME NEW s \in Servers, StatusOnline(s) PROVE AccountInv'
    <3>1. GoesOnline(s, box) /\ UNCHANGED <<made, mixed, calls, timer>>
      BY <2>5 DEF StatusOnline, reqVars
    <3>2. box \in [Servers -> Boxes] /\ \A t \in Servers : Numbered(box[t])
      BY DEF MailInv, MailTypes, AllNumbered
    <3>3. \A q \in Requests : Settled(q) => Settled(q)' BY <3>1 DEF Settled
    <3>. QED BY <3>1, <3>2, <3>3, OnlineAccount
  <2>6. CASE \/ Connect \/ NextServer \/ Disconnect \/ UNCHANGED vars
             \/ \E s \in Servers : StatusOffline(s) \/ Retry(s)
    <3>1. UNCHANGED <<box, req, deferred, made, mixed, lost, calls, timer>>
      BY <2>6 DEF Connect, NextServer, Disconnect, StatusOffline, Retry, mailVars, vars,
                  reqVars
    <3>2. \A q \in Requests : Settled(q) => Settled(q)' BY <3>1 DEF Settled
    <3>. QED BY <3>1, <3>2, StaysAccount
  <2>. QED BY <2>1, <2>2, <2>3, <2>4, <2>5, <2>6 DEF Next
<1>3. AccountInv => Accounted BY DEF AccountInv
<1>. QED BY <1>1, <1>2, <1>3, ConnInvariant, MailInvariant, PTL DEF Spec

=============================================================================
