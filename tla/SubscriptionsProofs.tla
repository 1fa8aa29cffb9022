-------------------------- MODULE SubscriptionsProofs --------------------------
(* That the server serves what the client listens to: what a socket is         *)
(* subscribed to once the messages on their way are taken follows the          *)
(* listeners, through prepared, deferred and direct subscriptions.  And that   *)
(* the order book follows the ledger's: the list, once the snapshots and       *)
(* transactions on their way are handled, is a top of it.                      *)
EXTENDS Subscriptions, FiniteSetTheorems, WellFoundedInduction, TLAPS

Messages == [type : {"prepare", "on", "off"}, kinds : SUBSET Kinds]

\* What a message does to a kind's subscription.
Touches(m, k) == m.type = "prepare" \/ k \in m.kinds
Grants(m, k)  == m.type # "off" /\ k \in m.kinds

\* k is served after the messages of list, to a socket subscribed to had.
Left(list, had, k) ==
  \/ k \in had /\ \A i \in DOMAIN list : ~Touches(list[i], k)
  \/ \E i \in DOMAIN list : /\ Grants(list[i], k)
                            /\ \A j \in DOMAIN list : j > i => ~Touches(list[j], k)

-----------------------------------------------------------------------------
(* The invariant.                                                            *)

Types ==
  /\ subs \in [Kinds -> Nat] /\ asks \in Nat /\ asks =< subs["book"]
  /\ link \in {"down", "open", "up"} /\ deferred \in Nat
  /\ up \in Seq(Messages) /\ served \subseteq Kinds /\ missed \in BOOLEAN

\* Without a socket nothing is under way and nothing served; with the remote
\* online nothing is deferred.
Stages ==
  /\ link = "down" => up = <<>> /\ down = <<>> /\ served = {}
  /\ link = "up" => deferred = 0

\* What the server will serve, with what is deferred, is what is listened to.
WillServe ==
  ~missed => /\ deferred > 0 => subs["book"] > 0
             /\ link # "down" => \A k \in Kinds :
                  subs[k] > 0 <=> \/ Left(up, served, k)
                                  \/ k = "book" /\ deferred > 0

AgreeInv == Types /\ Stages /\ WillServe

-----------------------------------------------------------------------------
(* Lists of messages.                                                        *)

\* A further message decides of the kinds it touches.
LEMMA LeftAppend ==
  ASSUME NEW list \in Seq(Messages), NEW m \in Messages, NEW had, NEW k
  PROVE  Left(Append(list, m), had, k) <=>
           Grants(m, k) \/ (~Touches(m, k) /\ Left(list, had, k))
<1>. DEFINE more == Append(list, m)
            n == Len(list) + 1
<1>1. /\ DOMAIN more = DOMAIN list \cup {n} /\ more[n] = m
      /\ \A i \in DOMAIN list : more[i] = list[i] /\ i < n /\ ~(i > n) /\ i # n
      /\ ~(n > n)
  OBVIOUS
<1>2. Grants(m, k) => Touches(m, k) BY DEF Grants, Touches
<1>. HIDE DEF more, n
<1>3. (\A i \in DOMAIN more : ~Touches(more[i], k)) <=>
        ~Touches(m, k) /\ \A i \in DOMAIN list : ~Touches(list[i], k)
  BY <1>1
<1>4. (\E i \in DOMAIN more : /\ Grants(more[i], k)
                              /\ \A j \in DOMAIN more : j > i => ~Touches(more[j], k)) <=>
        \/ Grants(m, k)
        \/ /\ ~Touches(m, k)
           /\ \E i \in DOMAIN list : /\ Grants(list[i], k)
                                     /\ \A j \in DOMAIN list : j > i => ~Touches(list[j], k)
  <2>1. ASSUME NEW i \in DOMAIN more, Grants(more[i], k),
               \A j \in DOMAIN more : j > i => ~Touches(more[j], k)
        PROVE  \/ Grants(m, k)
               \/ /\ ~Touches(m, k)
                  /\ \E h \in DOMAIN list : /\ Grants(list[h], k)
                                            /\ \A j \in DOMAIN list : j > h => ~Touches(list[j], k)
    <3>1. CASE i = n BY <1>1, <2>1, <3>1
    <3>2. CASE i \in DOMAIN list
      <4>1. n > i BY <1>1, <3>2
      <4>2. ~Touches(m, k) BY <1>1, <2>1, <4>1
      <4>. QED BY <1>1, <2>1, <3>2, <4>2
    <3>. QED BY <1>1, <3>1, <3>2
  <2>2. ASSUME Grants(m, k)
        PROVE  \E i \in DOMAIN more : /\ Grants(more[i], k)
                                      /\ \A j \in DOMAIN more : j > i => ~Touches(more[j], k)
    <3>1. \A j \in DOMAIN more : ~(j > n) BY <1>1
    <3>. QED BY <1>1, <2>2, <3>1
  <2>3. ASSUME ~Touches(m, k), NEW i \in DOMAIN list, Grants(list[i], k),
               \A j \in DOMAIN list : j > i => ~Touches(list[j], k)
        PROVE  \E h \in DOMAIN more : /\ Grants(more[h], k)
                                      /\ \A j \in DOMAIN more : j > h => ~Touches(more[j], k)
    BY <1>1, <2>3
  <2>. QED BY <2>1, <2>2, <2>3
<1>. QED BY <1>2, <1>3, <1>4 DEF Left, more

\* The first message can be taken.
LEMMA LeftHead ==
  ASSUME NEW list \in Seq(Messages), list # <<>>, NEW had, NEW now, NEW k,
         k \in now <=> \/ Grants(Head(list), k)
                       \/ ~Touches(Head(list), k) /\ k \in had
  PROVE  Left(list, had, k) <=> Left(Tail(list), now, k)
<1>. DEFINE rest == Tail(list)
<1>1. /\ 1 \in DOMAIN list /\ list[1] = Head(list)
      /\ \A i \in DOMAIN rest : i + 1 \in DOMAIN list /\ rest[i] = list[i + 1] /\ i + 1 > 1
      /\ \A i \in DOMAIN list : i = 1 \/ (i - 1 \in DOMAIN rest /\ (i - 1) + 1 = i)
      /\ \A i, j \in DOMAIN rest : j > i <=> j + 1 > i + 1
      /\ \A i \in DOMAIN list : ~(1 > i)
      /\ DOMAIN list \subseteq Nat /\ DOMAIN rest \subseteq Nat
  OBVIOUS
<1>2. Grants(Head(list), k) => Touches(Head(list), k) BY DEF Grants, Touches
<1>. HIDE DEF rest
<1>3. (\A i \in DOMAIN list : ~Touches(list[i], k)) <=>
        ~Touches(Head(list), k) /\ \A i \in DOMAIN rest : ~Touches(rest[i], k)
  BY <1>1
<1>4. ASSUME NEW i \in DOMAIN list, Grants(list[i], k),
             \A j \in DOMAIN list : j > i => ~Touches(list[j], k)
      PROVE  \/ Grants(Head(list), k) /\ \A j \in DOMAIN rest : ~Touches(rest[j], k)
             \/ \E h \in DOMAIN rest : /\ Grants(rest[h], k)
                                       /\ \A j \in DOMAIN rest : j > h => ~Touches(rest[j], k)
  <2>1. CASE i = 1 BY <1>1, <1>4, <2>1
  <2>2. CASE i # 1
    <3>1. i - 1 \in DOMAIN rest /\ rest[i - 1] = list[i] BY <1>1, <2>2
    <3>2. \A j \in DOMAIN rest : j > i - 1 => ~Touches(rest[j], k)
      BY <1>1, <1>4, <3>1
    <3>. QED BY <1>4, <3>1, <3>2
  <2>. QED BY <2>1, <2>2
<1>5. ASSUME Grants(Head(list), k), \A j \in DOMAIN rest : ~Touches(rest[j], k)
      PROVE  \E i \in DOMAIN list : /\ Grants(list[i], k)
                                    /\ \A j \in DOMAIN list : j > i => ~Touches(list[j], k)
  <2>1. \A j \in DOMAIN list : j > 1 => ~Touches(list[j], k) BY <1>1, <1>5
  <2>. QED BY <1>1, <1>5, <2>1
<1>6. ASSUME NEW h \in DOMAIN rest, Grants(rest[h], k),
             \A j \in DOMAIN rest : j > h => ~Touches(rest[j], k)
      PROVE  \E i \in DOMAIN list : /\ Grants(list[i], k)
                                    /\ \A j \in DOMAIN list : j > i => ~Touches(list[j], k)
  <2>1. \A j \in DOMAIN list : j > h + 1 => ~Touches(list[j], k)
    <3>. SUFFICES ASSUME NEW j \in DOMAIN list, j > h + 1 PROVE ~Touches(list[j], k)
      OBVIOUS
    <3>1. j # 1 /\ j - 1 > h BY <1>1
    <3>2. j - 1 \in DOMAIN rest /\ rest[j - 1] = list[j] BY <1>1, <3>1
    <3>. QED BY <1>6, <3>1, <3>2
  <2>. QED BY <1>1, <1>6, <2>1
<1>. QED BY <1>2, <1>3, <1>4, <1>5, <1>6 DEF Left, rest

\* Deferred subscriptions to the book, when they are sent.
LEMMA LeftDeferred ==
  ASSUME NEW list \in Seq(Messages), NEW n \in Nat, NEW had, NEW k
  PROVE  Left(list \o [i \in 1..n |-> On("book")], had, k) <=>
           Left(list, had, k) \/ (k = "book" /\ n > 0)
<1>. DEFINE ons == [i \in 1..n |-> On("book")]
            more == list \o ons
            l == Len(list)
<1>1. \A j : /\ Touches(On("book"), j) <=> j = "book"
             /\ Grants(On("book"), j) <=> j = "book"
  BY DEF Touches, Grants, On
<1>2. /\ l \in Nat /\ DOMAIN list = 1..l
      /\ ons \in Seq({On("book")}) /\ Len(ons) = n /\ Len(more) = l + n
      /\ DOMAIN more = 1..(l + n)
      /\ \A i \in 1..l : more[i] = list[i]
      /\ \A i \in 1..(l + n) : i > l => more[i] = On("book")
  OBVIOUS
<1>. HIDE DEF more, ons, l
<1>3. CASE k = "book" /\ n > 0
  <2>1. l + n \in DOMAIN more /\ more[l + n] = On("book")
    BY <1>2, <1>3
  <2>2. \A j \in DOMAIN more : ~(j > l + n) BY <1>2
  <2>3. Left(more, had, k) BY <1>1, <1>3, <2>1, <2>2 DEF Left
  <2>. QED BY <1>3, <2>3 DEF more, ons
<1>4. CASE n = 0
  <2>1. DOMAIN more = DOMAIN list /\ \A i \in DOMAIN list : more[i] = list[i]
    BY <1>2, <1>4
  <2>2. Left(more, had, k) <=> Left(list, had, k) BY <2>1 DEF Left
  <2>. QED BY <1>4, <2>2 DEF more, ons
<1>5. CASE k # "book"
  <2>1. \A i \in DOMAIN more : \/ i \in DOMAIN list /\ more[i] = list[i]
                               \/ more[i] = On("book")
    BY <1>2
  <2>2. \A i \in DOMAIN list : i \in DOMAIN more /\ more[i] = list[i] BY <1>2
  <2>3. ~Touches(On("book"), k) /\ ~Grants(On("book"), k) BY <1>1, <1>5
  <2>4. Left(more, had, k) <=> Left(list, had, k) BY <2>1, <2>2, <2>3 DEF Left
  <2>. QED BY <1>5, <2>4 DEF more, ons
<1>. QED BY <1>3, <1>4, <1>5

-----------------------------------------------------------------------------
(* Steps.                                                                    *)

LEMMA MessagesAre ==
  /\ \A k \in Kinds : On(k) \in Messages /\ Off(k) \in Messages
  /\ Prepared \in Messages
  /\ \A j, k : /\ Touches(On(j), k) <=> j = k
               /\ Grants(On(j), k) <=> j = k
               /\ Touches(Off(j), k) <=> j = k
               /\ ~Grants(Off(j), k)
BY DEF On, Off, Prepared, Messages, Listened, Touches, Grants

\* A listener is added: the first one subscribes while the remote is online.
LEMMA AddedKeeps ==
  ASSUME AgreeInv, NEW k \in Kinds,
         subs' = [subs EXCEPT ![k] = @ + 1],
         up' = IF subs[k] = 0 /\ link = "up" THEN Append(up, On(k)) ELSE up,
         missed' = (missed \/ (subs[k] = 0 /\ link = "open")),
         asks' \in Nat, asks' =< subs'["book"],
         UNCHANGED <<link, deferred, down, served>>
  PROVE  AgreeInv'
<1>. USE DEF AgreeInv
<1>1. On(k) \in Messages BY MessagesAre
<1>2. up' \in Seq(Messages) BY <1>1 DEF Types
<1>3. subs' \in [Kinds -> Nat] /\ missed' \in BOOLEAN BY DEF Types
<1>4. Types' BY <1>2, <1>3 DEF Types
<1>5. Stages' BY DEF Stages
<1>6. ASSUME ~missed', deferred > 0 PROVE subs'["book"] > 0
  BY <1>3, <1>6, SubscriptionsAssumption DEF WillServe, Types
<1>7. ASSUME ~missed', link # "down", NEW j \in Kinds
      PROVE  subs'[j] > 0 <=> Left(up', served, j) \/ (j = "book" /\ deferred > 0)
  <2>1. subs[j] > 0 <=> Left(up, served, j) \/ (j = "book" /\ deferred > 0)
    BY <1>7 DEF WillServe
  <2>2. CASE subs[k] = 0
    <3>1. link = "up" /\ up' = Append(up, On(k)) BY <1>7, <2>2 DEF Types
    <3>2. Left(up', served, j) <=> j = k \/ Left(up, served, j)
      BY <1>1, <3>1, LeftAppend, MessagesAre DEF Types
    <3>3. subs'[j] > 0 <=> j = k \/ subs[j] > 0 BY DEF Types
    <3>. QED BY <2>1, <3>2, <3>3
  <2>3. CASE subs[k] # 0
    <3>1. up' = up /\ (subs'[j] > 0 <=> subs[j] > 0) BY <2>3 DEF Types
    <3>. QED BY <2>1, <3>1
  <2>. QED BY <2>2, <2>3
<1>8. WillServe' BY <1>6, <1>7 DEF WillServe
<1>. QED BY <1>4, <1>5, <1>8

\* Listeners leave: the last one unsubscribes while the remote is online.
LEMMA RemovedKeeps ==
  ASSUME AgreeInv, NEW k \in Kinds, NEW n \in Nat, n =< subs[k],
         subs' = [subs EXCEPT ![k] = @ - n],
         up' = IF n > 0 /\ subs[k] = n /\ link = "up" THEN Append(up, Off(k)) ELSE up,
         missed' = (missed \/ (n > 0 /\ subs[k] = n /\ (link = "open" \/ deferred > 0))),
         asks' \in Nat, asks' =< subs'["book"],
         link # "down" \/ UNCHANGED down,
         UNCHANGED <<link, deferred, served>>
  PROVE  AgreeInv'
<1>. USE DEF AgreeInv
<1>1. Off(k) \in Messages BY MessagesAre
<1>2. up' \in Seq(Messages) BY <1>1 DEF Types
<1>3. subs' \in [Kinds -> Nat] /\ missed' \in BOOLEAN BY DEF Types
<1>4. Types' BY <1>2, <1>3 DEF Types
<1>5. Stages' BY DEF Stages
<1>6. ASSUME ~missed', deferred > 0 PROVE subs'["book"] > 0
  <2>1. subs["book"] > 0 /\ ~(n > 0 /\ subs[k] = n) BY <1>6 DEF WillServe
  <2>2. subs["book"] \in Nat /\ subs[k] \in Nat BY SubscriptionsAssumption DEF Types
  <2>3. CASE k = "book"
    <3>1. subs'["book"] = subs[k] - n BY <2>3 DEF Types
    <3>. QED BY <2>1, <2>2, <2>3, <3>1
  <2>4. CASE k # "book"
    <3>1. subs'["book"] = subs["book"] BY <2>4
    <3>. QED BY <2>1, <3>1
  <2>. QED BY <2>3, <2>4
<1>7. ASSUME ~missed', link # "down", NEW j \in Kinds
      PROVE  subs'[j] > 0 <=> Left(up', served, j) \/ (j = "book" /\ deferred > 0)
  <2>1. subs[j] > 0 <=> Left(up, served, j) \/ (j = "book" /\ deferred > 0)
    BY <1>7 DEF WillServe
  <2>2. CASE n > 0 /\ subs[k] = n
    <3>1. link = "up" /\ deferred = 0 /\ up' = Append(up, Off(k))
      BY <1>7, <2>2 DEF Types, Stages
    <3>2. Left(up', served, j) <=> j # k /\ Left(up, served, j)
      BY <1>1, <3>1, LeftAppend, MessagesAre DEF Types
    <3>3. subs'[j] > 0 <=> j # k /\ subs[j] > 0 BY <2>2 DEF Types
    <3>. QED BY <2>1, <3>1, <3>2, <3>3
  <2>3. CASE ~(n > 0 /\ subs[k] = n)
    <3>1. up' = up /\ (subs'[j] > 0 <=> subs[j] > 0) BY <2>3 DEF Types
    <3>. QED BY <2>1, <3>1
  <2>. QED BY <2>2, <2>3
<1>8. WillServe' BY <1>6, <1>7 DEF WillServe
<1>. QED BY <1>4, <1>5, <1>8

\* Those that offers() left are removed together.
LEMMA EmitsKeeps ==
  ASSUME AgreeInv, NEW synced, EmitModel(synced), link # "down",
         UNCHANGED <<link, deferred, served>>
  PROVE  AgreeInv'
<1>1. /\ subs' = [subs EXCEPT !["book"] = @ - asks]
      /\ up' = IF asks > 0 /\ subs["book"] = asks /\ link = "up"
               THEN Append(up, Off("book")) ELSE up
      /\ missed' = (missed \/ (asks > 0 /\ subs["book"] = asks
                                        /\ (link = "open" \/ deferred > 0)))
      /\ asks' = 0
  BY DEF EmitModel
<1>2. "book" \in Kinds /\ asks \in Nat /\ asks =< subs["book"]
  BY SubscriptionsAssumption DEF AgreeInv, Types
<1>3. asks' \in Nat /\ asks' =< subs'["book"] BY <1>1, <1>2 DEF AgreeInv, Types
<1>. QED BY <1>1, <1>2, <1>3, RemovedKeeps

\* Nothing is sent and no one is served or listens.
LEMMA AgreeStays ==
  ASSUME AgreeInv, UNCHANGED <<subs, asks, link, deferred, up, served, missed>>,
         link = "down" => UNCHANGED down
  PROVE  AgreeInv'
BY DEF AgreeInv, Types, Stages, WillServe

\* A socket opens: the book's subscription is deferred, the others prepared.
LEMMA OpensKeeps == ASSUME AgreeInv, Opens PROVE AgreeInv'
<1>. USE DEF AgreeInv
<1>1. /\ link = "down" /\ link' = "open" /\ up' = <<Prepared>>
      /\ deferred' = deferred + IF subs["book"] > 0 THEN 1 ELSE 0
      /\ UNCHANGED <<subs, asks, down, served, missed>>
  BY DEF Opens, clientVars
<1>2. up' \in Seq(Messages) BY <1>1, MessagesAre
<1>3. deferred' \in Nat BY <1>1 DEF Types
<1>4. Types' BY <1>1, <1>2, <1>3 DEF Types
<1>5. Stages' BY <1>1 DEF Stages
<1>6. ASSUME ~missed'
      PROVE  (deferred' > 0 <=> subs["book"] > 0)
    <2>1. deferred > 0 => subs["book"] > 0 BY <1>1, <1>6 DEF WillServe
    <2>. QED BY <1>1, <2>1 DEF Types
<1>7. ASSUME NEW k \in Kinds PROVE Left(up', served', k) <=> subs[k] > 0 /\ k # "book"
  <2>1. DOMAIN up' = {1} /\ up'[1] = Prepared BY <1>1
  <2>2. Touches(Prepared, k) /\ (Grants(Prepared, k) <=> subs[k] > 0 /\ k # "book")
    BY DEF Touches, Grants, Prepared, Listened
  <2>. QED BY <2>1, <2>2 DEF Left
<1>8. ASSUME ~missed', NEW k \in Kinds
      PROVE  subs'[k] > 0 <=> Left(up', served', k) \/ (k = "book" /\ deferred' > 0)
  BY <1>1, <1>6, <1>7, <1>8
<1>9. ~missed' /\ deferred' > 0 => subs'["book"] > 0 BY <1>1, <1>6
<1>10. WillServe' BY <1>8, <1>9 DEF WillServe
<1>. QED BY <1>4, <1>5, <1>10

\* The remote's `connect': what was deferred is on its way.
LEMMA ConnectsKeeps ==
  ASSUME AgreeInv, link # "down", Connects, UNCHANGED <<subs, asks, served, missed>>
  PROVE  AgreeInv'
<1>. USE DEF AgreeInv
<1>. DEFINE ons == [i \in 1..deferred |-> On("book")]
<1>1. /\ link' = "up" /\ deferred' = 0 /\ up' = up \o ons BY DEF Connects
<1>2. up' \in Seq(Messages)
  <2>1. On("book") \in Messages BY SubscriptionsAssumption, MessagesAre
  <2>2. ons \in Seq(Messages) BY <2>1 DEF Types
  <2>. HIDE DEF ons
  <2>. QED BY <1>1, <2>2 DEF Types
<1>3. Types' BY <1>1, <1>2 DEF Types
<1>4. Stages' BY <1>1 DEF Stages
<1>5. ASSUME NEW k \in Kinds
      PROVE  Left(up', served, k) <=> Left(up, served, k) \/ (k = "book" /\ deferred > 0)
  BY <1>1, LeftDeferred DEF Types
<1>6. ASSUME ~missed', NEW k \in Kinds
      PROVE  subs'[k] > 0 <=> Left(up', served', k) \/ (k = "book" /\ deferred' > 0)
  <2>1. subs[k] > 0 <=> Left(up, served, k) \/ (k = "book" /\ deferred > 0)
    BY <1>6 DEF WillServe
  <2>2. ~(deferred' > 0) BY <1>1
  <2>. QED BY <1>5, <2>1, <2>2
<1>7. ~(deferred' > 0) BY <1>1
<1>8. WillServe' BY <1>6, <1>7 DEF WillServe
<1>. QED BY <1>3, <1>4, <1>8

\* The server takes a message: what will be served stays.
LEMMA ServesKeeps == ASSUME AgreeInv, Serves PROVE AgreeInv'
<1>. USE DEF AgreeInv
<1>. DEFINE m == Head(up)
<1>1. /\ up # <<>> /\ up' = Tail(up)
      /\ UNCHANGED <<subs, asks, link, deferred, missed>>
  BY DEF Serves, clientVars
<1>2. m \in Messages /\ Tail(up) \in Seq(Messages) /\ up \in Seq(Messages)
  BY <1>1 DEF Types
<1>9. /\ m.type = "prepare" => served' = m.kinds
      /\ m.type = "on" => served' = served \cup m.kinds
      /\ m.type = "off" => served' = served \ m.kinds
  <2>. HIDE DEF m
  <2>1. CASE m.type = "prepare" BY <2>1 DEF Serves, m
  <2>2. CASE m.type = "on" BY <2>2 DEF Serves, m
  <2>3. CASE m.type = "off" BY <2>3 DEF Serves, m
  <2>. QED BY <1>2, <2>1, <2>2, <2>3 DEF Messages
<1>3. \A k : k \in served' <=> Grants(m, k) \/ (~Touches(m, k) /\ k \in served)
  BY <1>9, <1>2 DEF Messages, Grants, Touches
<1>4. served' \subseteq Kinds BY <1>9, <1>2 DEF Messages, Types
<1>5. Types' BY <1>1, <1>2, <1>4 DEF Types
<1>6. Stages' BY <1>1 DEF Stages
<1>7. \A k \in Kinds : Left(up', served', k) <=> Left(up, served, k)
  BY <1>1, <1>2, <1>3, LeftHead
<1>8. WillServe' BY <1>1, <1>7 DEF WillServe
<1>. QED BY <1>5, <1>6, <1>8

LEMMA DropsKeeps == ASSUME AgreeInv, Drops PROVE AgreeInv'
<1>1. /\ link' = "down" /\ up' = <<>> /\ down' = <<>> /\ served' = {}
      /\ UNCHANGED <<subs, asks, deferred, missed>>
  BY DEF Drops
<1>. QED BY <1>1 DEF AgreeInv, Types, Stages, WillServe

LEMMA OfflineKeeps == ASSUME AgreeInv, StatusOffline PROVE AgreeInv'
<1>1. /\ link = "up" /\ link' = "open"
      /\ UNCHANGED <<subs, asks, deferred, up, down, served, missed>>
  BY DEF StatusOffline
<1>. QED BY <1>1 DEF AgreeInv, Types, Stages, WillServe

-----------------------------------------------------------------------------
(* The theorem.                                                              *)

LEMMA AgreeInvariant == Spec => []AgreeInv
<1>1. Init => AgreeInv
  <2>. SUFFICES ASSUME Init PROVE AgreeInv OBVIOUS
  <2>1. /\ subs = [k \in Kinds |-> 0] /\ asks = 0 /\ link = "down" /\ deferred = 0
        /\ up = <<>> /\ down = <<>> /\ served = {} /\ missed = FALSE
    BY DEF Init
  <2>2. subs["book"] = 0 BY <2>1, SubscriptionsAssumption
  <2>3. Types
    <3>1. up \in Seq(Messages) BY <2>1
    <3>2. subs \in [Kinds -> Nat] BY <2>1
    <3>3. asks \in Nat /\ asks =< subs["book"] /\ deferred \in Nat BY <2>1, <2>2
    <3>4. served \subseteq Kinds /\ missed \in BOOLEAN /\ link \in {"down", "open", "up"}
      BY <2>1
    <3>. QED BY <3>1, <3>2, <3>3, <3>4 DEF Types
  <2>. QED BY <2>1, <2>3 DEF AgreeInv, Stages, WillServe
<1>2. AgreeInv /\ [Next]_vars => AgreeInv'
  <2>. SUFFICES ASSUME AgreeInv, [Next]_vars PROVE AgreeInv' OBVIOUS
  <2>0. "book" \in Kinds /\ asks \in Nat /\ asks =< subs["book"] /\ subs \in [Kinds -> Nat]
    BY SubscriptionsAssumption DEF AgreeInv, Types
  <2>1. ASSUME NEW k \in Kinds, Listen(k) PROVE AgreeInv'
    <3>1. asks' \in Nat /\ asks' =< subs'["book"] BY <2>0, <2>1 DEF Listen
    <3>. QED BY <2>1, <3>1, AddedKeeps DEF Listen
  <2>2. ASSUME NEW k \in Kinds, Unlisten(k) PROVE AgreeInv'
    <3>1. asks' \in Nat /\ asks' =< subs'["book"] /\ 1 =< subs[k]
      BY <2>0, <2>2 DEF Unlisten
    <3>2. /\ subs' = [subs EXCEPT ![k] = @ - 1]
          /\ up' = IF 1 > 0 /\ subs[k] = 1 /\ link = "up" THEN Append(up, Off(k)) ELSE up
          /\ missed' = (missed \/ (1 > 0 /\ subs[k] = 1 /\ (link = "open" \/ deferred > 0)))
          /\ UNCHANGED <<link, deferred, down, served>>
      BY <2>2 DEF Unlisten
    <3>. QED BY <3>1, <3>2, RemovedKeeps
  <2>3. CASE Ask
    <3>1. asks' \in Nat /\ asks' =< subs'["book"] BY <2>0, <2>3 DEF Ask
    <3>. QED BY <2>0, <2>3, <3>1, AddedKeeps DEF Ask
  <2>4. ASSUME NEW o \in Offers, Creates(o) \/ Cancels(o) PROVE AgreeInv'
    BY <2>4, AgreeStays DEF Creates, Cancels, Tx, clientVars, AgreeInv, Stages
  <2>5. CASE Consumes(0) \/ Consumes(1)
    BY <2>5, AgreeStays DEF Consumes, Tx, clientVars, AgreeInv, Stages
  <2>6. CASE Opens \/ Serves \/ Drops \/ StatusOffline
    BY <2>6, OpensKeeps, ServesKeeps, DropsKeeps, OfflineKeeps
  <2>7. CASE Subscribed
    <3>1. link # "down" BY <2>7 DEF Subscribed, AgreeInv, Stages
    <3>. QED BY <2>7, <3>1, ConnectsKeeps DEF Subscribed, clientVars
  <2>8. CASE StatusOnline
    BY <2>8, ConnectsKeeps DEF StatusOnline, clientVars
  <2>9. CASE Snapshot
    <3>1. link # "down" BY <2>9 DEF Snapshot, AgreeInv, Stages
    <3>. QED BY <2>9, <3>1, EmitsKeeps DEF Snapshot
  <2>10. CASE Notify
    <3>1. link # "down" BY <2>10 DEF Notify, AgreeInv, Stages
    <3>2. CASE EmitModel(sync) BY <2>10, <3>1, <3>2, EmitsKeeps DEF Notify
    <3>3. CASE UNCHANGED <<asks, subs, sync, up, missed>>
      BY <2>10, <3>1, <3>3, AgreeStays DEF Notify
    <3>. QED BY <2>10, <3>2, <3>3 DEF Notify
  <2>11. CASE UNCHANGED vars BY <2>11, AgreeStays DEF vars
  <2>. QED BY <2>1, <2>2, <2>3, <2>4, <2>5, <2>6, <2>7, <2>8, <2>9, <2>10, <2>11
           DEF Next
<1>. QED BY <1>1, <1>2, PTL DEF Spec

\* When nothing is under way the server has subscribed the client to what it
\* listens to and nothing else, whatever order listeners, sockets and messages
\* came in, unless one fell between the preparation and the remote's `connect'
\* (orderbook.js:41,52; account.js:46,60; remote.js:216,228).
THEOREM ServedAsListened == Spec => []SubscriptionsAgree
<1>1. AgreeInv => SubscriptionsAgree
  <2>. SUFFICES ASSUME AgreeInv, Quiet, ~missed PROVE served = Listened
    BY DEF SubscriptionsAgree
  <2>1. link = "up" /\ up = <<>> /\ deferred = 0 /\ served \subseteq Kinds
    BY DEF Quiet, AgreeInv, Stages, Types
  <2>2. \A k \in Kinds : Left(up, served, k) <=> k \in served BY <2>1 DEF Left
  <2>3. \A k \in Kinds : subs[k] > 0 <=> k \in served
    BY <2>1, <2>2 DEF AgreeInv, WillServe
  <2>. QED BY <2>1, <2>3 DEF Listened
<1>. QED BY <1>1, AgreeInvariant, PTL

-----------------------------------------------------------------------------
(* The order book.                                                           *)

Entries == [index : Offers, left : {1, 2}]

\* No offer twice, and the better price first.
Ordered(list) ==
  /\ list \in Seq(Entries)
  /\ \A i, j \in DOMAIN list : list[i].index = list[j].index => i = j
  /\ \A i, j \in DOMAIN list : i < j => Price(list[i].index) =< Price(list[j].index)

\* What is shown is in the book, and what is not shown is worse.
Shows(list, book) ==
  /\ ToSet(list) \subseteq ToSet(book)
  /\ \A e \in ToSet(book) \ ToSet(list), f \in ToSet(list) :
       Price(e.index) > Price(f.index)

LEMMA PriceIs == ASSUME NEW o \in Offers PROVE Price(o) \in Nat
BY SubscriptionsAssumption DEF Offers, Price

\* A set of positions has a first.
LEMMA FirstOf ==
  ASSUME NEW n \in Nat, NEW I, I \subseteq 1..n, I # {}
  PROVE  Min(I) \in I /\ \A i \in I : Min(I) =< i
<1>. DEFINE Less == OpToRel(<, Nat)
<1>1. \A i, j \in Nat : i < j => <<i, j>> \in Less BY DEF OpToRel
<1>2. IsWellFoundedOn(Less, Nat) BY NatLessThanWellFounded
<1>. HIDE DEF Less
<1>3. I \subseteq Nat OBVIOUS
<1>4. \E m \in I : \A i \in I : <<i, m>> \notin Less BY <1>2, <1>3, WFMin
<1>5. PICK m \in I : \A i \in I : <<i, m>> \notin Less BY <1>4
<1>6. ASSUME NEW i \in I PROVE m =< i
  <2>1. ~(i < m) BY <1>1, <1>3, <1>5
  <2>. QED BY <2>1, <1>3
<1>. QED BY <1>6 DEF Min

\* SelectInSeq: the first entry that passes.
LEMMA AtIs ==
  ASSUME NEW list \in Seq(Entries), NEW o
  PROVE  /\ At(list, o) \in 0..Len(list)
         /\ At(list, o) = 0 => \A i \in DOMAIN list : list[i].index # o
         /\ At(list, o) # 0 => list[At(list, o)].index = o
<1>. DEFINE I == {i \in 1..Len(list) : list[i].index = o}
<1>1. At(list, o) = IF I # {} THEN Min(I) ELSE 0 BY DEF At, SelectInSeq
<1>2. CASE I = {} BY <1>1, <1>2
<1>3. CASE I # {}
  <2>1. Len(list) \in Nat /\ I \subseteq 1..Len(list) OBVIOUS
  <2>2. Min(I) \in I
    <3>. HIDE DEF I
    <3>. QED BY <1>3, <2>1, FirstOf
  <2>. QED BY <1>1, <1>3, <2>2
<1>. QED BY <1>2, <1>3

LEMMA Joined ==
  ASSUME NEW S, NEW front \in Seq(S), NEW back \in Seq(S)
  PROVE  /\ front \o back \in Seq(S) /\ Len(front \o back) = Len(front) + Len(back)
         /\ \A k \in 1..Len(front) + Len(back) :
              (front \o back)[k] = IF k =< Len(front) THEN front[k]
                                   ELSE back[k - Len(front)]
OBVIOUS

\* InsertAt: what follows moves by one.
LEMMA InsertedAt ==
  ASSUME NEW list \in Seq(Entries), NEW i \in 1..Len(list) + 1, NEW e \in Entries,
         NEW new, new = InsertAt(list, i, e)
  PROVE  /\ new \in Seq(Entries) /\ Len(new) = Len(list) + 1
         /\ \A k \in 1..Len(new) :
              new[k] = IF k < i THEN list[k] ELSE IF k = i THEN e ELSE list[k - 1]
<1>. DEFINE front == SubSeq(list, 1, i - 1)
            back == SubSeq(list, i, Len(list))
<1>1. /\ front \in Seq(Entries) /\ Len(front) = i - 1
      /\ \A k \in 1..i - 1 : front[k] = list[k]
  OBVIOUS
<1>2. /\ back \in Seq(Entries) /\ Len(back) = Len(list) - i + 1
      /\ \A k \in 1..Len(list) - i + 1 : back[k] = list[k + i - 1]
  OBVIOUS
<1>3. InsertAt(list, i, e) = (front \o <<e>>) \o back BY DEF InsertAt
<1>. HIDE DEF front, back
<1>. DEFINE mid == front \o <<e>>
<1>4. /\ mid \in Seq(Entries) /\ Len(mid) = i /\ mid[i] = e
      /\ \A k \in 1..i - 1 : mid[k] = list[k]
  BY <1>1
<1>. HIDE DEF mid
<1>5. new = mid \o back BY <1>3 DEF mid
<1>6. /\ new \in Seq(Entries) /\ Len(new) = Len(mid) + Len(back)
      /\ \A k \in 1..Len(mid) + Len(back) :
           new[k] = IF k =< Len(mid) THEN mid[k] ELSE back[k - Len(mid)]
  BY <1>2, <1>4, <1>5, Joined
<1>7. i \in Nat /\ Len(list) \in Nat /\ Len(new) = Len(list) + 1
  BY <1>2, <1>4, <1>6
<1>8. ASSUME NEW k \in 1..i PROVE new[k] = mid[k]
  <2>1. k \in 1..Len(mid) + Len(back) /\ k =< Len(mid) BY <1>2, <1>4, <1>7
  <2>. QED BY <1>6, <2>1
<1>9. ASSUME NEW k \in i + 1..Len(list) + 1 PROVE new[k] = list[k - 1]
  <2>1. k - i \in 1..Len(list) - i + 1 /\ (k - i) + i - 1 = k - 1 BY <1>7
  <2>2. k \in 1..Len(mid) + Len(back) /\ ~(k =< i) BY <1>2, <1>4, <1>7
  <2>3. new[k] = back[k - i] BY <1>4, <1>6, <2>2
  <2>. QED BY <1>2, <2>1, <2>3
<1>10. ASSUME NEW k \in 1..Len(new)
       PROVE  new[k] = IF k < i THEN list[k] ELSE IF k = i THEN e ELSE list[k - 1]
  <2>1. CASE k < i
    <3>1. k \in 1..i - 1 /\ k \in 1..i BY <1>7, <2>1
    <3>. QED BY <1>4, <1>8, <2>1, <3>1
  <2>2. CASE k = i BY <1>4, <1>7, <1>8, <2>2
  <2>3. CASE k > i
    <3>1. k \in i + 1..Len(list) + 1 BY <1>7, <2>3
    <3>. QED BY <1>7, <1>9, <2>3, <3>1
  <2>. QED BY <1>7, <2>1, <2>2, <2>3
<1>. QED BY <1>6, <1>7, <1>10

\* RemoveAt: what follows moves back.
LEMMA RemovedAt ==
  ASSUME NEW list \in Seq(Entries), NEW i \in 1..Len(list),
         NEW new, new = RemoveAt(list, i)
  PROVE  /\ new \in Seq(Entries) /\ Len(new) = Len(list) - 1
         /\ \A k \in 1..Len(new) : new[k] = IF k < i THEN list[k] ELSE list[k + 1]
<1>. DEFINE front == SubSeq(list, 1, i - 1)
            back == SubSeq(list, i + 1, Len(list))
<1>1. /\ front \in Seq(Entries) /\ Len(front) = i - 1
      /\ \A k \in 1..i - 1 : front[k] = list[k]
  OBVIOUS
<1>2. /\ back \in Seq(Entries) /\ Len(back) = Len(list) - i
      /\ \A k \in 1..Len(list) - i : back[k] = list[k + i]
  OBVIOUS
<1>3. new = front \o back BY DEF RemoveAt
<1>. HIDE DEF front, back
<1>4. /\ new \in Seq(Entries) /\ Len(new) = Len(front) + Len(back)
      /\ \A k \in 1..Len(front) + Len(back) :
           new[k] = IF k =< Len(front) THEN front[k] ELSE back[k - Len(front)]
  <2>1. front \in Seq(Entries) /\ back \in Seq(Entries) BY <1>1, <1>2
  <2>. QED BY <1>3, <2>1, Joined
<1>5. i \in Nat /\ Len(list) \in Nat /\ Len(new) = Len(list) - 1
  BY <1>1, <1>2, <1>4
<1>6. ASSUME NEW k \in 1..i - 1 PROVE new[k] = list[k]
  <2>1. k \in 1..Len(front) + Len(back) /\ k =< i - 1 BY <1>1, <1>2, <1>5
  <2>2. new[k] = front[k] BY <1>1, <1>4, <2>1
  <2>. QED BY <1>1, <2>2
<1>7. ASSUME NEW k \in i..Len(list) - 1 PROVE new[k] = list[k + 1]
  <2>1. k - (i - 1) \in 1..Len(list) - i /\ (k - (i - 1)) + i = k + 1 BY <1>5
  <2>2. k \in 1..Len(front) + Len(back) /\ ~(k =< i - 1) BY <1>1, <1>2, <1>5
  <2>3. new[k] = back[k - (i - 1)] BY <1>1, <1>4, <2>2
  <2>. QED BY <1>2, <2>1, <2>3
<1>8. ASSUME NEW k \in 1..Len(new)
      PROVE  new[k] = IF k < i THEN list[k] ELSE list[k + 1]
  <2>1. CASE k < i
    <3>1. k \in 1..i - 1 BY <1>5, <2>1
    <3>. QED BY <1>6, <2>1, <3>1
  <2>2. CASE ~(k < i)
    <3>1. k \in i..Len(list) - 1 BY <1>5, <2>2
    <3>. QED BY <1>7, <2>2, <3>1
  <2>. QED BY <2>1, <2>2
<1>. QED BY <1>4, <1>5, <1>8

-----------------------------------------------------------------------------
(* Ordered lists.                                                            *)

\* An entry between those that are not worse and those that are not better.
LEMMA InsertedOrdered ==
  ASSUME NEW list, Ordered(list), NEW i \in 1..Len(list) + 1, NEW e \in Entries,
         \A k \in DOMAIN list : list[k].index # e.index,
         \A k \in DOMAIN list : k < i => Price(list[k].index) =< Price(e.index),
         \A k \in DOMAIN list : k >= i => Price(e.index) =< Price(list[k].index)
  PROVE  /\ Ordered(InsertAt(list, i, e))
         /\ ToSet(InsertAt(list, i, e)) = ToSet(list) \cup {e}
<1>. DEFINE Old(k) == IF k < i THEN k ELSE k - 1
<1>0. PICK new : new = InsertAt(list, i, e) OBVIOUS
<1>1. list \in Seq(Entries) /\ Len(list) \in Nat /\ DOMAIN list = 1..Len(list)
      /\ i \in Nat /\ i \in 1..Len(list) + 1
  BY DEF Ordered
<1>2. /\ new \in Seq(Entries) /\ Len(new) = Len(list) + 1
      /\ \A k \in 1..Len(new) :
           new[k] = IF k < i THEN list[k] ELSE IF k = i THEN e ELSE list[k - 1]
  BY <1>0, <1>1, InsertedAt, SMTT(30)
<1>3. DOMAIN new = 1..Len(list) + 1 BY <1>2
<1>4. \A k \in DOMAIN new : k # i => Old(k) \in DOMAIN list /\ new[k] = list[Old(k)]
  BY <1>1, <1>2, <1>3
<1>5. i \in DOMAIN new /\ new[i] = e BY <1>1, <1>2, <1>3
<1>6. \A j, k \in DOMAIN new : /\ j # k /\ j # i /\ k # i => Old(j) # Old(k)
                               /\ j < k /\ j # i /\ k # i => Old(j) < Old(k)
  BY <1>1, <1>3
<1>7. \A k \in DOMAIN new : /\ k < i => Old(k) < i
                            /\ k > i => Old(k) >= i
  BY <1>1, <1>3
<1>8. \A k \in DOMAIN list : \E j \in DOMAIN new : j # i /\ Old(j) = k
  <2>. TAKE k \in DOMAIN list
  <2>1. CASE k < i BY <1>1, <1>3, <2>1
  <2>2. CASE ~(k < i)
    <3>1. k + 1 \in DOMAIN new /\ k + 1 # i /\ Old(k + 1) = k BY <1>1, <1>3, <2>2
    <3>. QED BY <3>1
  <2>. QED BY <2>1, <2>2
<1>. HIDE DEF Old
<1>9. ASSUME NEW j \in DOMAIN new, NEW k \in DOMAIN new, new[j].index = new[k].index
      PROVE  j = k
  BY <1>4, <1>5, <1>6, <1>9 DEF Ordered
<1>10. ASSUME NEW j \in DOMAIN new, NEW k \in DOMAIN new, j < k
       PROVE  Price(new[j].index) =< Price(new[k].index)
  <2>0. j \in Nat /\ k \in Nat /\ i \in Nat BY <1>1, <1>3
  <2>1. CASE j = i BY <1>4, <1>5, <1>7, <1>10, <2>0, <2>1
  <2>2. CASE k = i BY <1>4, <1>5, <1>7, <1>10, <2>0, <2>2
  <2>3. CASE j # i /\ k # i BY <1>4, <1>6, <1>10, <2>3 DEF Ordered
  <2>. QED BY <2>1, <2>2, <2>3
<1>11. Ordered(new) BY <1>2, <1>9, <1>10 DEF Ordered
<1>12. ToSet(new) = ToSet(list) \cup {e}
  <2>1. \A k \in DOMAIN new : new[k] \in ToSet(list) \cup {e}
    BY <1>4, <1>5 DEF ToSet
  <2>2. \A k \in DOMAIN list : list[k] \in ToSet(new) BY <1>4, <1>8 DEF ToSet
  <2>3. e \in ToSet(new) BY <1>5 DEF ToSet
  <2>. QED BY <2>1, <2>2, <2>3 DEF ToSet
<1>. QED BY <1>0, <1>11, <1>12

LEMMA RemovedOrdered ==
  ASSUME NEW list, Ordered(list), NEW i \in 1..Len(list)
  PROVE  /\ Ordered(RemoveAt(list, i))
         /\ ToSet(RemoveAt(list, i)) = {e \in ToSet(list) : e.index # list[i].index}
<1>. DEFINE Old(k) == IF k < i THEN k ELSE k + 1
<1>0. PICK new : new = RemoveAt(list, i) OBVIOUS
<1>1. list \in Seq(Entries) /\ Len(list) \in Nat /\ DOMAIN list = 1..Len(list)
      /\ i \in Nat /\ i \in 1..Len(list)
  BY DEF Ordered
<1>2. /\ new \in Seq(Entries) /\ Len(new) = Len(list) - 1
      /\ \A k \in 1..Len(new) : new[k] = IF k < i THEN list[k] ELSE list[k + 1]
  BY <1>0, <1>1, RemovedAt
<1>3. DOMAIN new = 1..Len(list) - 1 BY <1>2
<1>4. \A k \in DOMAIN new : Old(k) \in DOMAIN list \ {i} /\ new[k] = list[Old(k)]
  BY <1>1, <1>2, <1>3
<1>5. \A j, k \in DOMAIN new : /\ j # k => Old(j) # Old(k)
                               /\ j < k => Old(j) < Old(k)
  BY <1>1, <1>3
<1>6. \A k \in DOMAIN list \ {i} : \E j \in DOMAIN new : Old(j) = k
  <2>. TAKE k \in DOMAIN list \ {i}
  <2>1. CASE k < i BY <1>1, <1>3, <2>1
  <2>2. CASE ~(k < i)
    <3>1. k - 1 \in DOMAIN new /\ Old(k - 1) = k BY <1>1, <1>3, <2>2
    <3>. QED BY <3>1
  <2>. QED BY <2>1, <2>2
<1>. HIDE DEF Old
<1>7. ASSUME NEW j \in DOMAIN new, NEW k \in DOMAIN new, new[j].index = new[k].index
      PROVE  j = k
  BY <1>4, <1>5, <1>7 DEF Ordered
<1>8. ASSUME NEW j \in DOMAIN new, NEW k \in DOMAIN new, j < k
      PROVE  Price(new[j].index) =< Price(new[k].index)
  BY <1>4, <1>5, <1>8 DEF Ordered
<1>9. Ordered(new) BY <1>2, <1>7, <1>8 DEF Ordered
<1>10. \A k \in DOMAIN list : list[k].index = list[i].index => k = i
  BY <1>1 DEF Ordered
<1>11. ToSet(new) = {e \in ToSet(list) : e.index # list[i].index}
  <2>1. \A k \in DOMAIN new : new[k] \in ToSet(list) /\ new[k].index # list[i].index
    BY <1>4, <1>10 DEF ToSet
  <2>2. \A k \in DOMAIN list : list[k].index # list[i].index => list[k] \in ToSet(new)
    BY <1>1, <1>4, <1>6 DEF ToSet
  <2>. QED BY <2>1, <2>2 DEF ToSet
<1>. QED BY <1>0, <1>9, <1>11

\* An offer after some of it was taken.
Consumed(e, o) == IF e.index = o THEN [index |-> o, left |-> 1] ELSE e

LEMMA ChangedOrdered ==
  ASSUME NEW list, Ordered(list), NEW i \in 1..Len(list)
  PROVE  LET new == [list EXCEPT ![i].left = 1]
         IN /\ Ordered(new)
            /\ ToSet(new) = {Consumed(e, list[i].index) : e \in ToSet(list)}
<1>. DEFINE new == [list EXCEPT ![i].left = 1]
            o == list[i].index
<1>1. list \in Seq(Entries) /\ DOMAIN list = 1..Len(list) /\ i \in DOMAIN list
  BY DEF Ordered
<1>2. \A k \in DOMAIN list : k # i => list[k].index # o BY <1>1 DEF Ordered
<1>3. list[i] \in Entries /\ [list[i] EXCEPT !.left = 1] = [index |-> o, left |-> 1]
  <2>1. list[i] \in Entries BY <1>1
  <2>. QED BY <2>1 DEF Entries
<1>4. DOMAIN new = DOMAIN list /\ \A k \in DOMAIN list : new[k] = Consumed(list[k], o)
  BY <1>1, <1>2, <1>3 DEF Consumed
<1>5. \A k \in DOMAIN list : new[k] \in Entries /\ new[k].index = list[k].index
  <2>. TAKE k \in DOMAIN list
  <2>1. list[k] \in Entries BY <1>1
  <2>. QED BY <1>3, <1>4, <2>1 DEF Consumed, Entries
<1>. HIDE DEF o
<1>6. new \in Seq(Entries) BY <1>1, <1>4, <1>5
<1>. HIDE DEF new
<1>7. Ordered(new) BY <1>4, <1>5, <1>6 DEF Ordered
<1>8. ToSet(new) = {Consumed(e, o) : e \in ToSet(list)} BY <1>4 DEF ToSet
<1>. QED BY <1>7, <1>8 DEF new, o

-----------------------------------------------------------------------------
(* Nodes.                                                                    *)

\* notify's handler keeps a list ordered, and does to its entries what happened
\* to the offers.
LEMMA DeletedIs ==
  ASSUME NEW list, Ordered(list), NEW o
  PROVE  LET new == NodeHandled(list, Node("DeletedNode", o))
         IN Ordered(new) /\ ToSet(new) = {e \in ToSet(list) : e.index # o}
<1>. DEFINE i == At(list, o)
<1>1. NodeHandled(list, Node("DeletedNode", o)) = IF i = 0 THEN list ELSE RemoveAt(list, i)
  BY DEF NodeHandled, Node
<1>2. list \in Seq(Entries) BY DEF Ordered
<1>3. /\ i \in 0..Len(list)
      /\ i = 0 => \A k \in DOMAIN list : list[k].index # o
      /\ i # 0 => list[i].index = o
  BY <1>2, AtIs
<1>. HIDE DEF i
<1>4. CASE i = 0
  <2>1. ToSet(list) = {e \in ToSet(list) : e.index # o} BY <1>3, <1>4 DEF ToSet
  <2>. QED BY <1>1, <1>4, <2>1
<1>5. CASE i # 0
  <2>1. i \in 1..Len(list) /\ list[i].index = o BY <1>2, <1>3, <1>5
  <2>. QED BY <1>1, <1>5, <2>1, RemovedOrdered
<1>. QED BY <1>4, <1>5

LEMMA ModifiedIs ==
  ASSUME NEW list, Ordered(list), NEW o
  PROVE  LET new == NodeHandled(list, Node("ModifiedNode", o))
         IN Ordered(new) /\ ToSet(new) = {Consumed(e, o) : e \in ToSet(list)}
<1>. DEFINE i == At(list, o)
<1>1. NodeHandled(list, Node("ModifiedNode", o)) =
        IF i = 0 THEN list ELSE [list EXCEPT ![i].left = 1]
  BY DEF NodeHandled, Node
<1>2. list \in Seq(Entries) BY DEF Ordered
<1>3. /\ i \in 0..Len(list)
      /\ i = 0 => \A k \in DOMAIN list : list[k].index # o
      /\ i # 0 => list[i].index = o
  BY <1>2, AtIs
<1>. HIDE DEF i
<1>4. CASE i = 0
  <2>1. \A e \in ToSet(list) : Consumed(e, o) = e BY <1>3, <1>4 DEF ToSet, Consumed
  <2>2. ToSet(list) = {Consumed(e, o) : e \in ToSet(list)} BY <2>1
  <2>. QED BY <1>1, <1>4, <2>2
<1>5. CASE i # 0
  <2>1. i \in 1..Len(list) /\ list[i].index = o BY <1>2, <1>3, <1>5
  <2>. QED BY <1>1, <1>5, <2>1, ChangedOrdered
<1>. QED BY <1>4, <1>5

LEMMA EntriesAre ==
  ASSUME NEW list, Ordered(list), NEW k \in DOMAIN list
  PROVE  /\ list[k] \in Entries /\ list[k].index \in Offers
         /\ Price(list[k].index) \in Nat /\ list[k] \in ToSet(list)
<1>1. list[k] \in Entries BY DEF Ordered
<1>2. list[k].index \in Offers BY <1>1 DEF Entries
<1>. QED BY <1>1, <1>2, PriceIs DEF ToSet

\* A new offer goes before the first that is not better, if there is one.
LEMMA InsertedIs ==
  ASSUME NEW list, Ordered(list), NEW o \in Offers,
         \A e \in ToSet(list) : e.index # o
  PROVE  LET new == Inserted(list, o)
         IN /\ Ordered(new)
            /\ \/ /\ ToSet(new) = ToSet(list)
                  /\ \A e \in ToSet(list) : Price(o) > Price(e.index)
               \/ /\ ToSet(new) = ToSet(list) \cup {Full(o)}
                  /\ \E e \in ToSet(list) : Price(o) =< Price(e.index)
<1>. DEFINE I == {k \in 1..Len(list) : Price(o) =< Price(list[k].index)}
            i == IF I # {} THEN Min(I) ELSE 0
<1>1. Inserted(list, o) = IF i = 0 THEN list ELSE InsertAt(list, i, Full(o))
  BY DEF Inserted, SelectInSeq
<1>2. list \in Seq(Entries) /\ Len(list) \in Nat /\ DOMAIN list = 1..Len(list)
  BY DEF Ordered
<1>3. \A k \in DOMAIN list : list[k].index \in Offers /\ Price(list[k].index) \in Nat
                             /\ list[k].index # o
  BY EntriesAre
<1>4. Price(o) \in Nat BY PriceIs
<1>5. CASE I = {}
  <2>1. Inserted(list, o) = list BY <1>1, <1>5
  <2>2. \A k \in DOMAIN list : Price(o) > Price(list[k].index)
    BY <1>2, <1>3, <1>4, <1>5
  <2>. QED BY <2>1, <2>2 DEF ToSet
<1>6. CASE I # {}
  <2>1. Min(I) \in I /\ \A k \in I : Min(I) =< k
    <3>1. I \subseteq 1..Len(list) OBVIOUS
    <3>. HIDE DEF I
    <3>. QED BY <1>2, <1>6, <3>1, FirstOf
  <2>2. i = Min(I) /\ i \in 1..Len(list) /\ Price(o) =< Price(list[i].index)
    BY <1>6, <2>1
  <2>3. \A k \in DOMAIN list : k < i => Price(list[k].index) =< Price(o)
    <3>1. \A k \in DOMAIN list : k < i => k \notin I BY <1>2, <2>1, <2>2
    <3>2. \A k \in DOMAIN list : k \notin I => Price(list[k].index) =< Price(o)
      BY <1>2, <1>3, <1>4
    <3>. QED BY <3>1, <3>2
  <2>. HIDE DEF i, I
  <2>4. \A k \in DOMAIN list : k >= i => Price(o) =< Price(list[k].index)
    <3>. SUFFICES ASSUME NEW k \in DOMAIN list, k >= i PROVE Price(o) =< Price(list[k].index)
      OBVIOUS
    <3>1. Price(list[i].index) =< Price(list[k].index)
      BY <1>2, <1>3, <2>2 DEF Ordered
    <3>. QED BY <1>2, <1>3, <1>4, <2>2, <3>1
  <2>5. PICK e : e = Full(o) /\ e \in Entries /\ e.index = o
    <3>1. Full(o) \in Entries /\ Full(o).index = o BY DEF Full, Entries
    <3>. QED BY <3>1
  <2>6. /\ Ordered(InsertAt(list, i, e))
        /\ ToSet(InsertAt(list, i, e)) = ToSet(list) \cup {e}
    <3>1. i \in 1..Len(list) + 1 BY <1>2, <2>2
    <3>2. /\ \A k \in DOMAIN list : list[k].index # e.index
          /\ \A k \in DOMAIN list : k < i => Price(list[k].index) =< Price(e.index)
          /\ \A k \in DOMAIN list : k >= i => Price(e.index) =< Price(list[k].index)
      BY <1>3, <2>3, <2>4, <2>5
    <3>. QED BY <2>5, <3>1, <3>2, InsertedOrdered
  <2>7. Inserted(list, o) = InsertAt(list, i, Full(o)) BY <1>1, <2>2
  <2>8. list[i] \in ToSet(list) BY <1>2, <2>2 DEF ToSet
  <2>. QED BY <2>2, <2>5, <2>6, <2>7, <2>8
<1>. QED BY <1>5, <1>6

\* In the ledger it goes after those that are not worse.
LEMMA PlacedIs ==
  ASSUME NEW list, Ordered(list), NEW o \in Offers,
         \A e \in ToSet(list) : e.index # o
  PROVE  Ordered(Placed(list, o)) /\ ToSet(Placed(list, o)) = ToSet(list) \cup {Full(o)}
<1>. DEFINE I == {k \in 1..Len(list) : Price(list[k].index) > Price(o)}
            i == IF I # {} THEN Min(I) ELSE Len(list) + 1
<1>1. list \in Seq(Entries) /\ Len(list) \in Nat /\ DOMAIN list = 1..Len(list)
  BY DEF Ordered
<1>2. Full(o) \in Entries /\ Full(o).index = o BY DEF Full, Entries
<1>3. \A k \in DOMAIN list : list[k].index \in Offers /\ Price(list[k].index) \in Nat
                             /\ list[k].index # o
  BY EntriesAre
<1>4. Price(o) \in Nat BY PriceIs
<1>5. I # {} => /\ Min(I) \in I /\ \A k \in I : Min(I) =< k
  <2>1. I \subseteq 1..Len(list) OBVIOUS
  <2>. HIDE DEF I
  <2>. QED BY <1>1, <2>1, FirstOf
<1>6. /\ i \in 1..Len(list) + 1
      /\ \A k \in DOMAIN list : k < i => Price(list[k].index) =< Price(o)
      /\ i # Len(list) + 1 => Price(list[i].index) > Price(o)
  <2>1. CASE I = {}
    <3>1. i = Len(list) + 1 BY <2>1
    <3>2. \A k \in DOMAIN list : Price(list[k].index) =< Price(o)
      BY <1>1, <1>3, <1>4, <2>1
    <3>. QED BY <1>1, <3>1, <3>2
  <2>2. CASE I # {}
    <3>1. i \in I /\ \A k \in I : i =< k BY <1>5, <2>2
    <3>2. \A k \in DOMAIN list : k \notin I => Price(list[k].index) =< Price(o)
      BY <1>1, <1>3, <1>4
    <3>3. i \in DOMAIN list /\ Price(list[i].index) > Price(o) BY <1>1, <3>1
    <3>. HIDE DEF i, I
    <3>4. \A k \in DOMAIN list : k < i => k \notin I BY <1>1, <3>1, <3>3
    <3>. QED BY <1>1, <3>2, <3>3, <3>4
  <2>. QED BY <2>1, <2>2
<1>7. Placed(list, o) = InsertAt(list, i, Full(o))
  <2>1. CASE I # {}
    <3>1. i # 0 /\ i = Min(I) BY <1>1, <1>5, <2>1
    <3>. QED BY <2>1, <3>1 DEF Placed, SelectInSeq
  <2>2. CASE I = {}
    <3>1. Placed(list, o) = Append(list, Full(o)) BY <2>2 DEF Placed, SelectInSeq
    <3>2. InsertAt(list, Len(list) + 1, Full(o)) = Append(list, Full(o))
      <4>1. SubSeq(list, 1, Len(list)) = list BY <1>1
      <4>2. SubSeq(list, Len(list) + 1, Len(list)) = <<>> BY <1>1
      <4>3. (Len(list) + 1) - 1 = Len(list) BY <1>1
      <4>4. (list \o <<Full(o)>>) \o <<>> = Append(list, Full(o)) BY <1>1, <1>2
      <4>. QED BY <4>1, <4>2, <4>3, <4>4 DEF InsertAt
    <3>. QED BY <2>2, <3>1, <3>2
  <2>. QED BY <2>1, <2>2
<1>. HIDE DEF i, I
<1>8. \A k \in DOMAIN list : k >= i => Price(o) =< Price(list[k].index)
  <2>. SUFFICES ASSUME NEW k \in DOMAIN list, k >= i PROVE Price(o) =< Price(list[k].index)
    OBVIOUS
  <2>1. i \in DOMAIN list /\ Price(list[i].index) > Price(o) BY <1>1, <1>6
  <2>2. Price(list[i].index) =< Price(list[k].index) BY <1>1, <1>3, <2>1 DEF Ordered
  <2>. QED BY <1>3, <1>4, <2>1, <2>2
<1>. QED BY <1>2, <1>3, <1>6, <1>7, <1>8, InsertedOrdered

-----------------------------------------------------------------------------
(* Transactions.                                                             *)

\* An ordered list that shows an ordered book.
Top(list, book) == Ordered(list) /\ Ordered(book) /\ Shows(list, book)

LEMMA DeletedShows ==
  ASSUME NEW list, NEW book, Top(list, book), NEW o
  PROVE  Top(NodeHandled(list, Node("DeletedNode", o)),
             NodeHandled(book, Node("DeletedNode", o)))
<1>1. Ordered(list) /\ Ordered(book) /\ Shows(list, book) BY DEF Top
<1>2. PICK l : l = NodeHandled(list, Node("DeletedNode", o)) OBVIOUS
<1>3. PICK b : b = NodeHandled(book, Node("DeletedNode", o)) OBVIOUS
<1>4. /\ Ordered(l) /\ ToSet(l) = {e \in ToSet(list) : e.index # o}
      /\ Ordered(b) /\ ToSet(b) = {e \in ToSet(book) : e.index # o}
  BY <1>1, <1>2, <1>3, DeletedIs
<1>5. Shows(l, b) BY <1>1, <1>4 DEF Shows
<1>. QED BY <1>2, <1>3, <1>4, <1>5 DEF Top

LEMMA ModifiedShows ==
  ASSUME NEW list, NEW book, Top(list, book), NEW o
  PROVE  Top(NodeHandled(list, Node("ModifiedNode", o)),
             NodeHandled(book, Node("ModifiedNode", o)))
<1>1. Ordered(list) /\ Ordered(book) /\ Shows(list, book) BY DEF Top
<1>2. PICK l : l = NodeHandled(list, Node("ModifiedNode", o)) OBVIOUS
<1>3. PICK b : b = NodeHandled(book, Node("ModifiedNode", o)) OBVIOUS
<1>4. /\ Ordered(l) /\ ToSet(l) = {Consumed(e, o) : e \in ToSet(list)}
      /\ Ordered(b) /\ ToSet(b) = {Consumed(e, o) : e \in ToSet(book)}
  BY <1>1, <1>2, <1>3, ModifiedIs
<1>5. \A e : Consumed(e, o).index = e.index BY DEF Consumed
<1>6. ToSet(l) \subseteq ToSet(b) BY <1>1, <1>4 DEF Shows
<1>7. ASSUME NEW e \in ToSet(b) \ ToSet(l), NEW f \in ToSet(l)
      PROVE  Price(e.index) > Price(f.index)
  <2>1. PICK d \in ToSet(book) : e = Consumed(d, o) BY <1>4
  <2>2. PICK g \in ToSet(list) : f = Consumed(g, o) BY <1>4
  <2>3. d \notin ToSet(list) BY <1>4, <1>7, <2>1
  <2>4. Price(d.index) > Price(g.index) BY <1>1, <2>1, <2>2, <2>3 DEF Shows
  <2>. QED BY <1>5, <2>1, <2>2, <2>4
<1>. QED BY <1>2, <1>3, <1>4, <1>6, <1>7 DEF Top, Shows

LEMMA CreatedShows ==
  ASSUME NEW list, NEW book, Top(list, book), NEW o \in Offers,
         \A e \in ToSet(book) : e.index # o
  PROVE  Top(NodeHandled(list, Node("CreatedNode", o)), Placed(book, o))
<1>1. Ordered(list) /\ Ordered(book) /\ Shows(list, book) BY DEF Top
<1>2. PICK l : l = NodeHandled(list, Node("CreatedNode", o)) OBVIOUS
<1>3. PICK b : b = Placed(book, o) OBVIOUS
<1>4. l = Inserted(list, o) BY <1>2 DEF NodeHandled, Node
<1>5. \A e \in ToSet(list) : e.index # o BY <1>1 DEF Shows
<1>6. PICK n : n = Full(o) /\ n.index = o
  <2>1. Full(o).index = o BY DEF Full
  <2>. QED BY <2>1
<1>7. Ordered(b) /\ ToSet(b) = ToSet(book) \cup {n} BY <1>1, <1>3, <1>6, PlacedIs
<1>8. /\ Ordered(l)
      /\ \/ /\ ToSet(l) = ToSet(list)
            /\ \A e \in ToSet(list) : Price(o) > Price(e.index)
         \/ /\ ToSet(l) = ToSet(list) \cup {n}
            /\ \E e \in ToSet(list) : Price(o) =< Price(e.index)
  BY <1>1, <1>4, <1>5, <1>6, InsertedIs
<1>9. \A e \in ToSet(list) \cup ToSet(book) : Price(e.index) \in Nat
  BY <1>1, EntriesAre DEF ToSet
<1>10. Price(o) \in Nat BY PriceIs
<1>11. ToSet(l) \subseteq ToSet(b) BY <1>1, <1>7, <1>8 DEF Shows
<1>12. ASSUME NEW e \in ToSet(b) \ ToSet(l), NEW f \in ToSet(l)
       PROVE  Price(e.index) > Price(f.index)
  <2>1. CASE ToSet(l) = ToSet(list) /\ \A g \in ToSet(list) : Price(o) > Price(g.index)
    <3>1. CASE e = n BY <1>6, <1>12, <2>1, <3>1
    <3>2. CASE e # n BY <1>1, <1>7, <1>12, <2>1, <3>2 DEF Shows
    <3>. QED BY <3>1, <3>2
  <2>2. ASSUME ToSet(l) = ToSet(list) \cup {n},
               NEW g \in ToSet(list), Price(o) =< Price(g.index)
        PROVE  Price(e.index) > Price(f.index)
    <3>1. e \in ToSet(book) \ ToSet(list) BY <1>7, <1>12, <2>2
    <3>2. CASE f = n
      <4>1. Price(e.index) > Price(g.index) BY <1>1, <2>2, <3>1 DEF Shows
      <4>. QED BY <1>6, <1>9, <1>10, <2>2, <3>1, <3>2, <4>1
    <3>3. CASE f # n BY <1>1, <1>12, <2>2, <3>1, <3>3 DEF Shows
    <3>. QED BY <3>2, <3>3
  <2>. QED BY <1>8, <2>1, <2>2
<1>. QED BY <1>2, <1>3, <1>7, <1>8, <1>11, <1>12 DEF Top, Shows

\* notify of one node, and of two.
LEMMA NotifiedOne ==
  ASSUME NEW list, NEW an
  PROVE  Notified(list, <<an>>) = NodeHandled(list, an)
<1>. DEFINE nodes == <<an>>
            Def(g, n) == IF n = 0 THEN list ELSE NodeHandled(g[n - 1], nodes[n])
            run == CHOOSE g : g = [n \in 0..Len(nodes) |-> Def(g, n)]
            g == [n \in 0..Len(nodes) |-> IF n = 0 THEN list ELSE NodeHandled(list, an)]
<1>1. g = [n \in 0..Len(nodes) |-> Def(g, n)] OBVIOUS
<1>2. run = [n \in 0..Len(nodes) |-> Def(run, n)]
  <2>. HIDE DEF g
  <2>. QED BY <1>1
<1>3. Notified(list, nodes) = run[Len(nodes)] BY DEF Notified
<1>. HIDE DEF run
<1>4. run[0] = list BY <1>2
<1>5. run[1] = NodeHandled(run[0], an) BY <1>2
<1>. QED BY <1>3, <1>4, <1>5

LEMMA NotifiedTwo ==
  ASSUME NEW list, NEW an, NEW next
  PROVE  Notified(list, <<an, next>>) = NodeHandled(NodeHandled(list, an), next)
<1>. DEFINE nodes == <<an, next>>
            Def(g, n) == IF n = 0 THEN list ELSE NodeHandled(g[n - 1], nodes[n])
            run == CHOOSE g : g = [n \in 0..Len(nodes) |-> Def(g, n)]
            g == [n \in 0..Len(nodes) |->
                    IF n = 0 THEN list
                    ELSE IF n = 1 THEN NodeHandled(list, an)
                    ELSE NodeHandled(NodeHandled(list, an), next)]
<1>1. g = [n \in 0..Len(nodes) |-> Def(g, n)] OBVIOUS
<1>2. run = [n \in 0..Len(nodes) |-> Def(run, n)]
  <2>. HIDE DEF g
  <2>. QED BY <1>1
<1>3. Notified(list, nodes) = run[Len(nodes)] BY DEF Notified
<1>. HIDE DEF run
<1>4. run[0] = list BY <1>2
<1>5. run[1] = NodeHandled(run[0], an) BY <1>2
<1>6. run[2] = NodeHandled(run[1], next) BY <1>2
<1>. QED BY <1>3, <1>4, <1>5, <1>6

-----------------------------------------------------------------------------
(* The list after the messages on their way.                                 *)

Nodes == [diff : {"CreatedNode", "DeletedNode", "ModifiedNode"}, index : Offers]

ToldMessages == [type : {"subscribed"}]
                \cup [type : {"snapshot"}, offers : Seq(Entries)]
                \cup [type : {"tx"}, nodes : Seq(Nodes)]

\* What a message does to the list.
After(list, m) ==
  IF m.type = "snapshot" THEN m.offers
  ELSE IF m.type = "tx" THEN Notified(list, m.nodes) ELSE list

\* list becomes end with messages, one after the other.
Becomes(list, messages, end) ==
  \E run : /\ run[0] = list /\ run[Len(messages)] = end
           /\ \A i \in 1..Len(messages) : run[i] = After(run[i - 1], messages[i])

LEMMA BecomesNothing ==
  ASSUME NEW list
  PROVE  /\ Becomes(list, <<>>, list)
         /\ \A end : Becomes(list, <<>>, end) => end = list
<1>1. Becomes(list, <<>>, list)
  <2>. DEFINE run == [i \in {0} |-> list]
  <2>1. run[0] = list /\ Len(<<>>) = 0 /\ 1..Len(<<>>) = {} OBVIOUS
  <2>. HIDE DEF run
  <2>. QED BY <2>1 DEF Becomes
<1>. QED BY <1>1 DEF Becomes

LEMMA BecomesAppend ==
  ASSUME NEW S, NEW messages \in Seq(S), NEW m \in S, NEW list, NEW end,
         Becomes(list, messages, end)
  PROVE  Becomes(list, Append(messages, m), After(end, m))
<1>. DEFINE n == Len(messages)
            more == Append(messages, m)
<1>1. PICK run : /\ run[0] = list /\ run[n] = end
                 /\ \A i \in 1..n : run[i] = After(run[i - 1], messages[i])
  BY DEF Becomes
<1>2. /\ n \in Nat /\ Len(more) = n + 1 /\ more[n + 1] = m
      /\ \A i \in 1..n : more[i] = messages[i]
  OBVIOUS
<1>. HIDE DEF n, more
<1>. DEFINE new == [i \in 0..n + 1 |-> IF i = n + 1 THEN After(end, m) ELSE run[i]]
<1>3. new[0] = list /\ new[n + 1] = After(end, m) BY <1>1, <1>2
<1>4. ASSUME NEW i \in 1..n + 1 PROVE new[i] = After(new[i - 1], more[i])
  <2>1. CASE i = n + 1
    <3>1. n \in 0..n + 1 /\ n # n + 1 BY <1>2
    <3>2. i - 1 = n /\ new[n] = end BY <1>1, <1>2, <2>1, <3>1
    <3>. QED BY <1>2, <1>3, <2>1, <3>2
  <2>2. CASE i # n + 1
    <3>1. i \in 1..n /\ new[i] = run[i] /\ new[i - 1] = run[i - 1] BY <1>2, <2>2
    <3>. QED BY <1>1, <1>2, <3>1
  <2>. QED BY <2>1, <2>2
<1>. HIDE DEF new
<1>. QED BY <1>2, <1>3, <1>4 DEF Becomes, more

LEMMA BecomesTail ==
  ASSUME NEW S, NEW messages \in Seq(S), messages # <<>>, NEW list, NEW end,
         Becomes(list, messages, end)
  PROVE  Becomes(After(list, Head(messages)), Tail(messages), end)
<1>. DEFINE n == Len(messages)
            rest == Tail(messages)
<1>1. PICK run : /\ run[0] = list /\ run[n] = end
                 /\ \A i \in 1..n : run[i] = After(run[i - 1], messages[i])
  BY DEF Becomes
<1>2. /\ n \in Nat \ {0} /\ Len(rest) = n - 1 /\ messages[1] = Head(messages)
      /\ \A i \in 1..n - 1 : rest[i] = messages[i + 1]
  OBVIOUS
<1>. HIDE DEF n, rest
<1>. DEFINE new == [i \in 0..n - 1 |-> run[i + 1]]
<1>3. new[0] = After(list, Head(messages)) /\ new[n - 1] = end
  <2>1. run[1] = After(run[0], messages[1]) BY <1>1, <1>2
  <2>2. 0 \in 0..n - 1 /\ n - 1 \in 0..n - 1 /\ (n - 1) + 1 = n BY <1>2
  <2>. QED BY <1>1, <1>2, <2>1, <2>2
<1>4. ASSUME NEW i \in 1..n - 1 PROVE new[i] = After(new[i - 1], rest[i])
  <2>1. i + 1 \in 1..n /\ new[i] = run[i + 1] /\ new[i - 1] = run[i] /\ (i + 1) - 1 = i
    BY <1>2
  <2>2. run[i + 1] = After(run[i], messages[i + 1]) BY <1>1, <2>1
  <2>. QED BY <1>2, <2>1, <2>2
<1>. HIDE DEF new
<1>. QED BY <1>2, <1>3, <1>4 DEF Becomes, rest

-----------------------------------------------------------------------------
(* The invariant.                                                            *)

LedgerInv ==
  /\ Ordered(ledger) /\ unmade \subseteq Offers
  /\ \A e \in ToSet(ledger) : e.index \notin unmade

\* `prepare' does not ask for the book.
PreparesNoBook ==
  \A i \in DOMAIN up : up[i].type = "prepare" => "book" \notin up[i].kinds

\* The list, once what is on its way has come, shows the ledger's book while
\* the server is subscribed to it, whether the client believes so or not.
WillShow ==
  \E end : /\ Becomes(offers, down, end)
           /\ "book" \in served => Top(end, ledger)

BookInv == LedgerInv /\ PreparesNoBook /\ down \in Seq(ToldMessages) /\ WillShow

\* Nothing happens to the book.
LEMMA BookStays ==
  ASSUME BookInv, UNCHANGED <<offers, ledger, unmade, down, served, up>>
  PROVE  BookInv'
BY DEF BookInv, LedgerInv, PreparesNoBook, WillShow

\* A transaction changes the ledger as notify changes what shows it.
LEMMA TxKeeps ==
  ASSUME BookInv, NEW nodes \in Seq(Nodes), NEW book, Tx(nodes, book),
         Ordered(book), unmade' \subseteq Offers,
         \A e \in ToSet(book) : e.index \notin unmade',
         \A list : Top(list, ledger) => Top(Notified(list, nodes), book)
  PROVE  BookInv'
<1>1. /\ ledger' = book /\ UNCHANGED <<offers, up, served>>
      /\ down' = IF served # {} THEN Append(down, [type |-> "tx", nodes |-> nodes])
                                ELSE down
  BY DEF Tx, clientVars
<1>2. LedgerInv' /\ PreparesNoBook' BY <1>1 DEF BookInv, LedgerInv, PreparesNoBook
<1>3. PICK end : Becomes(offers, down, end) /\ ("book" \in served => Top(end, ledger))
  BY DEF BookInv, WillShow
<1>4. down \in Seq(ToldMessages) BY DEF BookInv
<1>5. CASE served = {}
  BY <1>1, <1>2, <1>3, <1>4, <1>5 DEF BookInv, WillShow
<1>6. CASE served # {}
  <2>1. PICK m : m = [type |-> "tx", nodes |-> nodes] OBVIOUS
  <2>2. m \in ToldMessages BY <2>1 DEF ToldMessages
  <2>3. down' = Append(down, m) BY <1>1, <1>6, <2>1
  <2>4. After(end, m) = Notified(end, nodes) BY <2>1 DEF After
  <2>5. Becomes(offers', down', Notified(end, nodes))
    BY <1>1, <1>3, <1>4, <2>2, <2>3, <2>4, BecomesAppend
  <2>6. down' \in Seq(ToldMessages) BY <1>4, <2>2, <2>3
  <2>7. WillShow' BY <1>1, <1>3, <2>5 DEF WillShow
  <2>. QED BY <1>2, <2>6, <2>7 DEF BookInv
<1>. QED BY <1>5, <1>6

\* Messages that are sent are not `prepare', but for the first on a socket.
LEMMA SendsNoPrepare ==
  ASSUME AgreeInv, PreparesNoBook,
         \/ up' = up
         \/ \E k \in Kinds : up' = Append(up, On(k)) \/ up' = Append(up, Off(k))
         \/ Connects
         \/ up # <<>> /\ up' = Tail(up)
  PROVE  PreparesNoBook'
<1>1. up \in Seq(Messages) /\ deferred \in Nat BY DEF AgreeInv, Types
<1>2. \A k : On(k).type # "prepare" /\ Off(k).type # "prepare" BY DEF On, Off
<1>3. CASE up' = up BY <1>3 DEF PreparesNoBook
<1>4. ASSUME NEW k \in Kinds, up' = Append(up, On(k)) \/ up' = Append(up, Off(k))
      PROVE  PreparesNoBook'
  <2>1. PICK m : up' = Append(up, m) /\ m.type # "prepare" BY <1>2, <1>4
  <2>2. \A i \in DOMAIN up' : (i \in DOMAIN up /\ up'[i] = up[i]) \/ up'[i] = m
    BY <1>1, <2>1
  <2>. QED BY <2>1, <2>2 DEF PreparesNoBook
<1>5. CASE Connects
  <2>1. PICK m : m = On("book") OBVIOUS
  <2>2. up' = up \o [i \in 1..deferred |-> m] BY <1>5, <2>1 DEF Connects
  <2>3. \A i \in DOMAIN up' : (i \in DOMAIN up /\ up'[i] = up[i]) \/ up'[i] = m
    <3>. DEFINE ons == [i \in 1..deferred |-> m]
    <3>1. ons \in Seq({m}) /\ Len(ons) = deferred BY <1>1
    <3>2. \A i \in 1..deferred : ons[i] = m OBVIOUS
    <3>. HIDE DEF ons
    <3>3. \A i \in DOMAIN (up \o ons) :
            (i \in DOMAIN up /\ (up \o ons)[i] = up[i]) \/ (up \o ons)[i] = m
      BY <1>1, <3>1, <3>2
    <3>. QED BY <2>2, <3>3 DEF ons
  <2>. QED BY <1>2, <2>1, <2>3 DEF PreparesNoBook
<1>6. CASE up # <<>> /\ up' = Tail(up)
  <2>1. \A i \in DOMAIN up' : i + 1 \in DOMAIN up /\ up'[i] = up[i + 1] BY <1>1, <1>6
  <2>. QED BY <2>1 DEF PreparesNoBook
<1>. QED BY <1>3, <1>4, <1>5, <1>6

LEMMA EmitSends ==
  ASSUME NEW synced, EmitModel(synced)
  PROVE  up' = up \/ \E k \in Kinds : up' = Append(up, Off(k))
BY SubscriptionsAssumption DEF EmitModel

\* A message of the server is handled.
LEMMA TakesKeeps ==
  ASSUME BookInv, PreparesNoBook', down # <<>>, down' = Tail(down),
         offers' = After(offers, Head(down)), UNCHANGED <<ledger, unmade, served>>
  PROVE  BookInv'
<1>1. down \in Seq(ToldMessages) /\ down' \in Seq(ToldMessages) BY DEF BookInv
<1>2. PICK end : Becomes(offers, down, end) /\ ("book" \in served => Top(end, ledger))
  BY DEF BookInv, WillShow
<1>3. Becomes(offers', down', end) BY <1>1, <1>2, BecomesTail
<1>4. WillShow' BY <1>2, <1>3 DEF WillShow
<1>. QED BY <1>1, <1>4 DEF BookInv, LedgerInv

\* A first subscription brings the ledger's book.
LEMMA ServesShows == ASSUME AgreeInv, BookInv, Serves PROVE BookInv'
<1>. DEFINE m == Head(up)
<1>1. /\ up # <<>> /\ up' = Tail(up) /\ UNCHANGED <<offers, ledger, unmade>>
  BY DEF Serves, clientVars, ledgerVars
<1>2. up \in Seq(Messages) /\ m \in Messages /\ m = up[1] /\ 1 \in DOMAIN up
  BY <1>1 DEF AgreeInv, Types
<1>3. PreparesNoBook' BY <1>1, SendsNoPrepare DEF BookInv
<1>4. LedgerInv' BY <1>1 DEF BookInv, LedgerInv
<1>5. down \in Seq(ToldMessages) BY DEF BookInv
<1>6. PICK end : Becomes(offers, down, end) /\ ("book" \in served => Top(end, ledger))
  BY DEF BookInv, WillShow
<1>7. m.type = "prepare" => "book" \notin m.kinds BY <1>2 DEF BookInv, PreparesNoBook
<1>8. m.type \in {"prepare", "on", "off"} BY <1>2 DEF Messages
<1>. HIDE DEF m
<1>9. CASE m.type = "prepare"
  <2>1. served' = m.kinds /\ down' = Append(down, [type |-> "subscribed"])
    BY <1>9 DEF Serves, m
  <2>2. PICK t : t = [type |-> "subscribed"] OBVIOUS
  <2>3. t \in ToldMessages /\ After(end, t) = end BY <2>2 DEF ToldMessages, After
  <2>4. Becomes(offers', down', end) BY <1>1, <1>5, <1>6, <2>1, <2>2, <2>3, BecomesAppend
  <2>5. down' \in Seq(ToldMessages) BY <1>5, <2>1, <2>2, <2>3
  <2>6. WillShow' BY <1>7, <1>9, <2>1, <2>4 DEF WillShow
  <2>. QED BY <1>3, <1>4, <2>5, <2>6 DEF BookInv
<1>10. CASE m.type = "on" /\ "book" \in m.kinds
  <2>1. down' = Append(down, [type |-> "snapshot", offers |-> ledger])
    BY <1>10 DEF Serves, m
  <2>2. PICK t : t = [type |-> "snapshot", offers |-> ledger] OBVIOUS
  <2>3. Ordered(ledger) /\ ledger \in Seq(Entries) BY DEF BookInv, LedgerInv, Ordered
  <2>4. t \in ToldMessages /\ After(end, t) = ledger
    BY <2>2, <2>3 DEF ToldMessages, After
  <2>5. Becomes(offers', down', ledger)
    BY <1>1, <1>5, <1>6, <2>1, <2>2, <2>4, BecomesAppend
  <2>6. down' \in Seq(ToldMessages) BY <1>5, <2>1, <2>2, <2>4
  <2>7. Top(ledger, ledger) BY <2>3 DEF Top, Shows
  <2>8. WillShow' BY <1>1, <2>5, <2>7 DEF WillShow
  <2>. QED BY <1>3, <1>4, <2>6, <2>8 DEF BookInv
<1>11. CASE m.type = "on" /\ "book" \notin m.kinds
  <2>1. served' = served \cup m.kinds /\ down' = down BY <1>11 DEF Serves, m
  <2>2. WillShow' BY <1>1, <1>6, <1>11, <2>1 DEF WillShow
  <2>. QED BY <1>3, <1>4, <1>5, <2>1, <2>2 DEF BookInv
<1>12. CASE m.type = "off"
  <2>1. served' = served \ m.kinds /\ down' = down BY <1>12 DEF Serves, m
  <2>2. WillShow' BY <1>1, <1>6, <2>1 DEF WillShow
  <2>. QED BY <1>3, <1>4, <1>5, <2>1, <2>2 DEF BookInv
<1>. QED BY <1>8, <1>9, <1>10, <1>11, <1>12

\* Offers are made, cancelled and consumed.
LEMMA CreatesShows == ASSUME BookInv, NEW o \in Offers, Creates(o) PROVE BookInv'
<1>1. PICK an : an = Node("CreatedNode", o) OBVIOUS
<1>2. an \in Nodes BY <1>1 DEF Node, Nodes
<1>3. <<an>> \in Seq(Nodes) BY <1>2
<1>4. PICK book : book = Placed(ledger, o) OBVIOUS
<1>5. o \in unmade /\ unmade' = unmade \ {o} /\ Tx(<<an>>, book)
  BY <1>1, <1>4 DEF Creates
<1>6. /\ Ordered(ledger) /\ unmade \subseteq Offers
      /\ \A e \in ToSet(ledger) : e.index \notin unmade
  BY DEF BookInv, LedgerInv
<1>7. \A e \in ToSet(ledger) : e.index # o BY <1>5, <1>6
<1>8. Ordered(book) /\ ToSet(book) = ToSet(ledger) \cup {Full(o)}
  BY <1>4, <1>6, <1>7, PlacedIs
<1>9. \A e \in ToSet(book) : e.index \notin unmade' BY <1>5, <1>6, <1>8 DEF Full
<1>10. \A list : Top(list, ledger) => Top(Notified(list, <<an>>), book)
  BY <1>1, <1>4, <1>7, CreatedShows, NotifiedOne
<1>. QED BY <1>3, <1>5, <1>6, <1>8, <1>9, <1>10, TxKeeps

LEMMA CancelsShows == ASSUME BookInv, NEW o \in Offers, Cancels(o) PROVE BookInv'
<1>1. PICK an : an = Node("DeletedNode", o) OBVIOUS
<1>2. an \in Nodes BY <1>1 DEF Node, Nodes
<1>3. <<an>> \in Seq(Nodes) BY <1>2
<1>4. PICK book : book = NodeHandled(ledger, an) OBVIOUS
<1>5. unmade' = unmade /\ Tx(<<an>>, book) BY <1>1, <1>4, NotifiedOne DEF Cancels
<1>6. /\ Ordered(ledger) /\ unmade \subseteq Offers
      /\ \A e \in ToSet(ledger) : e.index \notin unmade
  BY DEF BookInv, LedgerInv
<1>7. Ordered(book) /\ ToSet(book) = {e \in ToSet(ledger) : e.index # o}
  BY <1>1, <1>4, <1>6, DeletedIs
<1>8. \A list : Top(list, ledger) => Top(Notified(list, <<an>>), book)
  BY <1>1, <1>4, DeletedShows, NotifiedOne
<1>. QED BY <1>3, <1>5, <1>6, <1>7, <1>8, TxKeeps

\* The best offer loses a part.
LEMMA ConsumesFirst == ASSUME BookInv, Consumes(0) PROVE BookInv'
<1>1. /\ Ordered(ledger) /\ unmade \subseteq Offers
      /\ \A e \in ToSet(ledger) : e.index \notin unmade
  BY DEF BookInv, LedgerInv
<1>2. Len(ledger) > 0 BY DEF Consumes
<1>3. 1 \in DOMAIN ledger BY <1>1, <1>2 DEF Ordered
<1>4. PICK o \in Offers : o = ledger[1].index BY <1>1, <1>3, EntriesAre
<1>5. PICK an : an = Node("ModifiedNode", o) OBVIOUS
<1>6. an \in Nodes BY <1>5 DEF Node, Nodes
<1>7. PICK nodes : nodes = [i \in 1..0 |-> Node("DeletedNode", ledger[i].index)]
                           \o <<Node("ModifiedNode", ledger[0 + 1].index)>>
  OBVIOUS
<1>8. nodes = <<an>> BY <1>4, <1>5, <1>7
<1>9. PICK book : book = NodeHandled(ledger, an) OBVIOUS
<1>10. unmade' = unmade /\ Tx(<<an>>, book)
  BY <1>7, <1>8, <1>9, NotifiedOne DEF Consumes
<1>11. Ordered(book) /\ ToSet(book) = {Consumed(e, o) : e \in ToSet(ledger)}
  BY <1>1, <1>5, <1>9, ModifiedIs
<1>12. \A e \in ToSet(book) : e.index \notin unmade'
  BY <1>1, <1>10, <1>11 DEF Consumed
<1>13. \A list : Top(list, ledger) => Top(Notified(list, <<an>>), book)
  BY <1>5, <1>9, ModifiedShows, NotifiedOne
<1>14. <<an>> \in Seq(Nodes) BY <1>6
<1>. QED BY <1>1, <1>10, <1>11, <1>12, <1>13, <1>14, TxKeeps

\* The best offer is consumed and the next one loses a part.
LEMMA ConsumesSecond == ASSUME BookInv, Consumes(1) PROVE BookInv'
<1>1. /\ Ordered(ledger) /\ unmade \subseteq Offers
      /\ \A e \in ToSet(ledger) : e.index \notin unmade
  BY DEF BookInv, LedgerInv
<1>2. Len(ledger) > 1 BY DEF Consumes
<1>3. 1 \in DOMAIN ledger /\ 2 \in DOMAIN ledger BY <1>1, <1>2 DEF Ordered
<1>4. PICK o \in Offers : o = ledger[1].index BY <1>1, <1>3, EntriesAre
<1>5. PICK p \in Offers : p = ledger[2].index BY <1>1, <1>3, EntriesAre
<1>6. PICK an : an = Node("DeletedNode", o) OBVIOUS
<1>7. PICK next : next = Node("ModifiedNode", p) OBVIOUS
<1>8. an \in Nodes /\ next \in Nodes BY <1>6, <1>7 DEF Node, Nodes
<1>9. PICK nodes : nodes = [i \in 1..1 |-> Node("DeletedNode", ledger[i].index)]
                           \o <<Node("ModifiedNode", ledger[1 + 1].index)>>
  OBVIOUS
<1>10. nodes = <<an, next>>
  <2>1. [i \in 1..1 |-> Node("DeletedNode", ledger[i].index)] = <<an>> BY <1>4, <1>6
  <2>2. ledger[1 + 1] = ledger[2] OBVIOUS
  <2>3. nodes = <<an>> \o <<next>> BY <1>5, <1>7, <1>9, <2>1, <2>2
  <2>4. <<an>> \o <<next>> = <<an, next>>
    <3>1. <<an>> \in Seq(Nodes) /\ <<next>> \in Seq(Nodes) BY <1>8
    <3>2. /\ <<an>> \o <<next>> \in Seq(Nodes) /\ Len(<<an>> \o <<next>>) = 2
          /\ (<<an>> \o <<next>>)[1] = an /\ (<<an>> \o <<next>>)[2] = next
      BY <3>1
    <3>3. \A s \in Seq(Nodes) : Len(s) = 2 => s = <<s[1], s[2]>> OBVIOUS
    <3>. QED BY <3>2, <3>3
  <2>. QED BY <2>3, <2>4
<1>11. PICK half : half = NodeHandled(ledger, an) OBVIOUS
<1>12. PICK book : book = NodeHandled(half, next) OBVIOUS
<1>13. unmade' = unmade /\ Tx(<<an, next>>, book)
  <2>1. unmade' = unmade /\ Tx(nodes, Notified(ledger, nodes)) BY <1>9 DEF Consumes
  <2>2. Notified(ledger, <<an, next>>) = book BY <1>11, <1>12, NotifiedTwo
  <2>. QED BY <1>10, <2>1, <2>2
<1>14. Ordered(half) /\ ToSet(half) = {e \in ToSet(ledger) : e.index # o}
  BY <1>1, <1>6, <1>11, DeletedIs
<1>15. Ordered(book) /\ ToSet(book) = {Consumed(e, p) : e \in ToSet(half)}
  BY <1>7, <1>12, <1>14, ModifiedIs
<1>16. \A e \in ToSet(book) : e.index \notin unmade'
  BY <1>1, <1>13, <1>14, <1>15 DEF Consumed
<1>17. ASSUME NEW list, Top(list, ledger) PROVE Top(Notified(list, <<an, next>>), book)
  <2>1. Top(NodeHandled(list, an), half) BY <1>6, <1>11, <1>17, DeletedShows
  <2>2. Top(NodeHandled(NodeHandled(list, an), next), book)
    BY <1>7, <1>12, <2>1, ModifiedShows
  <2>. QED BY <2>2, NotifiedTwo
<1>18. <<an, next>> \in Seq(Nodes) BY <1>8
<1>. QED BY <1>1, <1>13, <1>15, <1>16, <1>17, <1>18, TxKeeps

-----------------------------------------------------------------------------

LEMMA BookInvariant == Spec => [](AgreeInv /\ BookInv)
<1>1. Init => BookInv
  <2>. SUFFICES ASSUME Init PROVE BookInv OBVIOUS
  <2>1. /\ up = <<>> /\ down = <<>> /\ served = {} /\ unmade = Offers \ FirstOffers
        /\ \E first \in FirstOrders : ledger = [i \in DOMAIN first |-> Full(first[i])]
    BY DEF Init
  <2>2. PICK first \in FirstOrders : ledger = [i \in DOMAIN first |-> Full(first[i])]
    BY <2>1
  <2>. DEFINE n == Cardinality(FirstOffers)
  <2>3. /\ DOMAIN first = 1..n /\ n \in Nat
        /\ \A i \in DOMAIN first : first[i] \in FirstOffers /\ first[i] \in Offers
        /\ \A i, j \in DOMAIN first : first[i] = first[j] => i = j
        /\ \A i, j \in DOMAIN first : i < j => Price(first[i]) =< Price(first[j])
    <3>1. n \in Nat
      <4>1. IsFiniteSet(Offers)
        BY SubscriptionsAssumption, FS_Interval DEF Offers
      <4>2. IsFiniteSet(FirstOffers) BY <4>1, SubscriptionsAssumption, FS_Subset
      <4>. QED BY <4>2, FS_CardinalityType
    <3>. QED BY <3>1, SubscriptionsAssumption
             DEF FirstOrders, Bijection, Injection, IsInjective
  <2>4. /\ DOMAIN ledger = 1..n
        /\ \A i \in DOMAIN ledger : ledger[i] \in Entries /\ ledger[i].index = first[i]
    BY <2>2, <2>3 DEF Full, Entries
  <2>5. ledger \in Seq(Entries)
    <3>. HIDE DEF n
    <3>1. ledger = [i \in 1..n |-> ledger[i]] BY <2>2, <2>3, <2>4
    <3>. QED BY <2>3, <2>4, <3>1
  <2>6. Ordered(ledger) BY <2>3, <2>4, <2>5 DEF Ordered
  <2>7. \A e \in ToSet(ledger) : e.index \notin unmade BY <2>1, <2>3, <2>4 DEF ToSet
  <2>8. LedgerInv BY <2>1, <2>6, <2>7 DEF LedgerInv
  <2>9. PreparesNoBook BY <2>1 DEF PreparesNoBook
  <2>10. WillShow BY <2>1, BecomesNothing DEF WillShow
  <2>11. down \in Seq(ToldMessages) BY <2>1
  <2>. QED BY <2>8, <2>9, <2>10, <2>11 DEF BookInv
<1>2. AgreeInv /\ BookInv /\ [Next]_vars => BookInv'
  <2>. SUFFICES ASSUME AgreeInv, BookInv, [Next]_vars PROVE BookInv' OBVIOUS
  <2>1. ASSUME UNCHANGED <<offers, ledger, unmade, down, served>>, PreparesNoBook'
        PROVE  BookInv'
    BY <2>1 DEF BookInv, LedgerInv, WillShow
  <2>2. PreparesNoBook BY DEF BookInv
  <2>3. ASSUME NEW k \in Kinds, Listen(k) \/ Unlisten(k) PROVE BookInv'
    <3>1. UNCHANGED <<offers, ledger, unmade, down, served>>
      BY <2>3 DEF Listen, Unlisten, ledgerVars
    <3>2. up' = up \/ up' = Append(up, On(k)) \/ up' = Append(up, Off(k))
      BY <2>3 DEF Listen, Unlisten
    <3>. QED BY <2>1, <2>2, <3>1, <3>2, SendsNoPrepare
  <2>4. CASE Ask
    <3>1. UNCHANGED <<offers, ledger, unmade, down, served>> BY <2>4 DEF Ask, ledgerVars
    <3>2. up' = up \/ up' = Append(up, On("book")) BY <2>4 DEF Ask
    <3>. QED BY <2>1, <2>2, <3>1, <3>2, SendsNoPrepare, SubscriptionsAssumption
  <2>5. ASSUME NEW o \in Offers, Creates(o) \/ Cancels(o) PROVE BookInv'
    BY <2>5, CreatesShows, CancelsShows
  <2>6. CASE Consumes(0) \/ Consumes(1) BY <2>6, ConsumesFirst, ConsumesSecond
  <2>7. CASE Opens
    <3>1. UNCHANGED <<offers, ledger, unmade, down, served>> /\ up' = <<Prepared>>
      BY <2>7 DEF Opens, clientVars, ledgerVars
    <3>2. "book" \notin Prepared.kinds BY DEF Prepared
    <3>3. PreparesNoBook' BY <3>1, <3>2 DEF PreparesNoBook
    <3>. QED BY <2>1, <3>1, <3>3
  <2>8. CASE Serves BY <2>8, ServesShows
  <2>9. CASE Subscribed
    <3>1. /\ down # <<>> /\ Head(down).type = "subscribed" /\ down' = Tail(down)
          /\ UNCHANGED <<offers, ledger, unmade, served>> /\ Connects
      BY <2>9 DEF Subscribed, clientVars, ledgerVars
    <3>2. offers' = After(offers, Head(down)) BY <3>1 DEF After
    <3>. QED BY <2>2, <3>1, <3>2, SendsNoPrepare, TakesKeeps
  <2>10. CASE Snapshot
    <3>1. /\ down # <<>> /\ Head(down).type = "snapshot" /\ down' = Tail(down)
          /\ offers' = Head(down).offers /\ EmitModel(TRUE)
          /\ UNCHANGED <<ledger, unmade, served>>
      BY <2>10 DEF Snapshot, ledgerVars
    <3>2. offers' = After(offers, Head(down)) BY <3>1 DEF After
    <3>. QED BY <2>2, <3>1, <3>2, EmitSends, SendsNoPrepare, TakesKeeps
  <2>11. CASE Notify
    <3>1. /\ down # <<>> /\ Head(down).type = "tx" /\ down' = Tail(down)
          /\ offers' = Notified(offers, Head(down).nodes)
          /\ UNCHANGED <<ledger, unmade, served>>
      BY <2>11 DEF Notify, ledgerVars
    <3>2. offers' = After(offers, Head(down)) BY <3>1 DEF After
    <3>3. EmitModel(sync) \/ up' = up BY <2>11 DEF Notify
    <3>. QED BY <2>2, <3>1, <3>2, <3>3, EmitSends, SendsNoPrepare, TakesKeeps
  <2>12. CASE Drops
    <3>1. /\ up' = <<>> /\ down' = <<>> /\ served' = {}
          /\ UNCHANGED <<offers, ledger, unmade>>
      BY <2>12 DEF Drops, ledgerVars
    <3>2. WillShow' BY <3>1, BecomesNothing DEF WillShow
    <3>3. PreparesNoBook' /\ down' \in Seq(ToldMessages) BY <3>1 DEF PreparesNoBook
    <3>. QED BY <3>1, <3>2, <3>3 DEF BookInv, LedgerInv
  <2>13. CASE StatusOffline \/ UNCHANGED vars
    BY <2>13, BookStays DEF StatusOffline, vars, ledgerVars
  <2>14. CASE StatusOnline
    <3>1. UNCHANGED <<offers, ledger, unmade, down, served>> /\ Connects
      BY <2>14 DEF StatusOnline, clientVars, ledgerVars
    <3>. QED BY <2>1, <2>2, <3>1, SendsNoPrepare
  <2>. QED BY <2>3, <2>4, <2>5, <2>6, <2>7, <2>8, <2>9, <2>10, <2>11, <2>12, <2>13,
              <2>14 DEF Next
<1>. QED BY <1>1, <1>2, AgreeInvariant, PTL DEF Spec

\* A synchronized book that the server is subscribed to, and that has handled
\* what it was told, is a top of the ledger's, for every number of offers and
\* transactions and whatever snapshots, changes and subscriptions crossed
\* (orderbook.js:96, 184).
THEOREM BookFollowsLedger == Spec => []BookIsTop
<1>1. BookInv => BookIsTop
  <2>. SUFFICES ASSUME BookInv, "book" \in served, down = <<>> PROVE IsTop(offers)
    BY DEF BookIsTop
  <2>1. Top(offers, ledger) BY BecomesNothing DEF BookInv, WillShow
  <2>. QED BY <2>1 DEF Top, Shows, Ordered, IsTop, IsInjective
<1>. QED BY <1>1, BookInvariant, PTL
=============================================================================
