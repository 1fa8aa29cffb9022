--------------------------- MODULE RequestRouting ---------------------------
(* Requests on their way: from Request.request() through the Remote that      *)
(* chooses a server, the Server that numbers the message and sends it now or  *)
(* when it is online, to the answer that is matched by its number; with the   *)
(* Remote's count of connected servers, its staggered connect(), lost         *)
(* sockets, and the timer of Request.timeout().                               *)
(*                                                                            *)
(* Sockets are those of ServerConnection, seen from the outside.  Whether a   *)
(* server is online does not depend on them: the messages of a socket told to *)
(* close are handled until it is gone, and one may bring its server online    *)
(* when the socket in use is not open.  What is sent then is lost.            *)
EXTENDS Naturals, FiniteSets, SequencesExt

CONSTANTS
  N,          \* number of servers
  Requests,   \* the application's requests
  Prepared,   \* a server's own `subscribe', made whenever its socket opens
  Timed,      \* those with a timeout
  Subs,       \* those that are `subscribe' commands
  Ones, Anys, Broadcasts, \* those the application may send to a server of its
              \* choice, to whichever is connected, and to all servers
  MaxFaults   \* bound: sockets lost, servers that answer or report to be
              \* offline, calls of disconnect(), and reports of a server to be
              \* online on sockets told to close

ASSUME RoutingAssumption ==
  /\ N \in Nat \ {0} /\ Prepared \notin Requests
  /\ Timed \cup Subs \subseteq Requests
  /\ Ones \cup Anys \cup Broadcasts \subseteq Requests /\ MaxFaults \in Nat

Servers == 1..N

NoServer == 0

VARIABLES
  link,       \* a server's socket in use: none made yet, connecting, open,
              \* told to close when open (closing) or before (aborted), gone
              \* with the timer of a retry (lost) or without (closed)
  online,     \* servers that are _connected
  should,     \* a server's _shouldConnect
  order,      \* the array _servers, which getServer() sorts
  next,       \* index in it of the next server connect() turns to
  count,      \* _connection_count
  connected,  \* the remote's _connected
  box,        \* a server's _id, _requests, once('connect') listeners, and the
              \* messages it has been sent on its sockets and not answered
  late,       \* those of them that are on sockets it no longer uses
  old,        \* servers with such a socket that opened and is not gone
  req,        \* a request's server and message.id
  deferred,   \* requests in the remote's once('connect') listeners
  made,       \* requests with `requested' set
  timer,      \* a request's timer: "off", "running" or "fired"
  calls,      \* how often a request's callback has run
  heard,      \* whose answers a request was given
  lost,       \* requests of which a message was lost (history)
  mixed,      \* a broadcast went to a server that had to wait (history)
  wanted,     \* connect() was called after the last disconnect() (history)
  overtaken,  \* disconnect() came before connect() had turned to all (history)
  shuffled,   \* the array was sorted while it did (history)
  belated,    \* a server went online on no open socket (history)
  faults      \* bound counter

linkVars  == <<link, online, should, next, count, connected, wanted, overtaken,
               belated>>
oldVars   == <<late, old>>
mailVars  == <<box, req, lost>>
reqVars   == <<made, timer, calls, heard>>
orderVars == <<order, shuffled>>
vars == <<link, online, should, order, next, count, connected, box, late, old, req,
          deferred, made, timer, calls, heard, lost, mixed, wanted, overtaken,
          shuffled, belated, faults>>

Messages == Nat \X (Requests \cup {Prepared})

\* Values of the variables: a number is used for one request only, and the
\* servers' array is always a permutation.
TypeOK ==
  /\ link \in [Servers -> {"none", "connecting", "open", "closing", "aborted",
                           "lost", "closed"}]
  /\ online \subseteq Servers /\ old \subseteq Servers /\ belated \in BOOLEAN
  /\ should \in [Servers -> BOOLEAN]
  /\ order \in [Servers -> Servers] /\ IsInjective(order)
  /\ next \in 0..N /\ count \in Nat /\ connected \in BOOLEAN
  /\ \A s \in Servers :
       /\ box[s].id \in Nat /\ box[s].table \subseteq Messages
       /\ box[s].wire \subseteq Messages /\ box[s].waiting \subseteq Requests
       /\ \A m, n \in box[s].table : m[1] = n[1] => m = n
       /\ late[s] \subseteq box[s].wire
  /\ req \in [Requests -> [server : {NoServer} \cup Servers, id : Nat]]
  /\ deferred \in Seq(Requests) /\ made \subseteq Requests
  /\ timer \in [Requests -> {"off", "running", "fired"}]
  /\ calls \in [Requests -> Nat]
  /\ heard \in [Requests -> SUBSET (Requests \cup {Prepared})]
  /\ lost \subseteq Requests /\ mixed \in BOOLEAN
  /\ wanted \in BOOLEAN /\ overtaken \in BOOLEAN /\ shuffled \in BOOLEAN
  /\ faults \in Nat

Init ==
  /\ link = [s \in Servers |-> "none"] /\ online = {} /\ belated = FALSE
  /\ late = [s \in Servers |-> {}] /\ old = {} /\ should = [s \in Servers |-> FALSE]
  /\ order = [i \in Servers |-> i] /\ next = 0
  /\ count = 0 /\ connected = FALSE
  /\ box = [s \in Servers |->
              [id |-> 0, table |-> {}, waiting |-> {}, wire |-> {}]]
  /\ req = [r \in Requests |-> [server |-> NoServer, id |-> 0]]
  /\ deferred = <<>> /\ made = {} /\ timer = [r \in Requests |-> "off"]
  /\ calls = [r \in Requests |-> 0] /\ heard = [r \in Requests |-> {}]
  /\ lost = {} /\ mixed = FALSE /\ wanted = FALSE /\ overtaken = FALSE
  /\ shuffled = FALSE
  /\ faults = 0

-----------------------------------------------------------------------------
(* Sending.                                                                  *)

\* _isConnected, with the servers in on connected: `subscribe' may use a socket
\* that is open.
IsConnected(on, s, r) ==
  s \in on \/ (link[s] = "open" /\ r \in Subs)

\* A message is lost for want of a socket, or of an open one.
Drops(on, s, r) ==
  link[s] = "none" \/ (link[s] # "open" /\ IsConnected(on, s, r))

\* The number a server whose next is n gives to place i of a queue, when it
\* takes the given places of it in order.
Number(n, places, i) == n + Cardinality({j \in places : j < i})

\* Slip: the numbers are taken and not advanced.
TakenUnadvanced(on, b, s, rs, places) ==
  LET msgs == {<<b.id, rs[i]>> : i \in places}
      now  == {m \in msgs : IsConnected(on, s, m[2])}
  IN IF link[s] = "none" THEN b
     ELSE [b EXCEPT !.table = @ \cup msgs,
                    !.wire = @ \cup {m \in now : link[s] = "open"},
                    !.waiting = @ \cup {m[2] : m \in msgs \ now}]

\* Slip: a request is sent now or never.
TakenIfNow(on, b, s, rs, places) ==
  LET msgs == {<<Number(b.id, places, i), rs[i]>> : i \in places}
      now  == {m \in msgs : IsConnected(on, s, m[2])}
  IN IF link[s] = "none" THEN b
     ELSE [b EXCEPT !.id = @ + Cardinality(places), !.table = @ \cup msgs,
                    !.wire = @ \cup {m \in now : link[s] = "open"}]

\* server._request of some places of a queue, in order: without a socket they
\* are dropped; else each gets the server's next number, and is sent, or left
\* to wait for the server's `connect'.
Taken(on, b, s, rs, places) ==
  LET msgs == {<<Number(b.id, places, i), rs[i]>> : i \in places}
      now  == {m \in msgs : IsConnected(on, s, m[2])}
  IN IF link[s] = "none" THEN b
     ELSE [id |-> b.id + Cardinality(places), table |-> b.table \cup msgs,
           wire |-> b.wire \cup {m \in now : link[s] = "open"},
           waiting |-> b.waiting \cup {m[2] : m \in msgs \ now}]

\* sendRequest for those that waited at s: a message carries the number its
\* request has by now.
Sent(b, s, reqs) ==
  [b EXCEPT !.waiting = {},
            !.wire = @ \cup {<<reqs[r].id, r>> : r \in {q \in b.waiting : link[s] = "open"}}]

\* getServer: the first connected server of the array, sorted by scores that
\* depend on delays and load: any order.  (A primary server, when connected,
\* is taken without sorting: also one of these.)
GetServer(on, s) ==
  /\ order' \in {o \in [Servers -> Servers] : IsInjective(o)}
  /\ \E i \in Servers : /\ order'[i] = s /\ s \in on
                        /\ \A j \in 1..(i - 1) : order'[j] \notin on
  /\ shuffled' = (shuffled \/ (next > 0 /\ order' # order))

\* remote.request of r for server s.  (Of a request that is dropped the number
\* is not looked at again.)
RouteTo(s, r) ==
  /\ box' = [box EXCEPT ![s] = Taken(online, @, s, <<r>>, {1})]
  /\ req' = [req EXCEPT ![r] = [server |-> s, id |-> box[s].id]]
  /\ lost' = IF Drops(online, s, r) THEN lost \cup {r} ELSE lost

-----------------------------------------------------------------------------
(* The application's requests.                                               *)

\* Request.request, callback and timeout: done once; the timer starts.
Requested(r) ==
  /\ r \notin made /\ made' = made \cup {r}
  /\ timer' = [timer EXCEPT ![r] = IF r \in Timed THEN "running" ELSE "off"]
  /\ UNCHANGED <<linkVars, oldVars, calls, heard, faults>>

\* remote.request while no server is connected.
Defer(rs) == deferred' = deferred \o rs /\ UNCHANGED <<orderVars, box, lost>>

RequestAny(r) ==
  /\ r \in Anys /\ Requested(r) /\ UNCHANGED mixed
  /\ IF connected
     THEN /\ \E s \in Servers : GetServer(online, s) /\ RouteTo(s, r)
          /\ UNCHANGED deferred
     ELSE Defer(<<r>>) /\ UNCHANGED req

\* setServer, then request.
RequestOne(r) ==
  /\ r \in Ones /\ Requested(r) /\ UNCHANGED mixed
  /\ \E s \in Servers :
       IF connected
       THEN RouteTo(s, r) /\ UNCHANGED <<deferred, orderVars>>
       ELSE req' = [req EXCEPT ![r].server = s] /\ Defer(<<r>>)

\* broadcast: setServer and remote.request for every server of the array.  The
\* request keeps the number of the last that had a socket; deferred, all the
\* copies go to the server set last.
Broadcast(r) ==
  /\ r \in Broadcasts /\ Requested(r)
  /\ IF connected
     THEN LET last == SelectLastInSeq(order, LAMBDA s : link[s] # "none")
          IN /\ box' = [s \in Servers |-> Taken(online, box[s], s, <<r>>, {1})]
             /\ req' = [req EXCEPT ![r] = [server |-> order[N],
                                           id |-> box[order[last]].id]]
             /\ lost' = IF \E s \in Servers : Drops(online, s, r)
                        THEN lost \cup {r} ELSE lost
             /\ mixed' = (mixed \/ \E s \in Servers :
                             link[s] # "none" /\ ~IsConnected(online, s, r))
             /\ UNCHANGED <<deferred, orderVars>>
     ELSE /\ req' = [req EXCEPT ![r].server = order[N]]
          /\ Defer([s \in Servers |-> r]) /\ UNCHANGED mixed

-----------------------------------------------------------------------------
(* Connections.                                                              *)

\* Slip: the requests that wait for the server are dropped with its socket.
AbandonsAll(b, msgs) == [b EXCEPT !.wire = @ \ msgs, !.waiting = {}]

\* What is under way on a socket that is gone is lost; _requests keeps its
\* entries.
Abandons(b, msgs) == [b EXCEPT !.wire = @ \ msgs]

\* The requests of some messages.
Under(msgs) == {r \in Requests : \E m \in msgs : m[2] = r}

\* connect() of a server that is not online: a socket, in place of the one it
\* may have, which is told to close and delivers until it is gone.
Connects(s) ==
  IF s \in online THEN UNCHANGED <<link, should, oldVars>>
  ELSE /\ link' = [link EXCEPT ![s] = "connecting"]
       /\ should' = [should EXCEPT ![s] = TRUE]
       /\ late' = [late EXCEPT ![s] = box[s].wire]
       /\ old' = IF link[s] \in {"open", "closing"} THEN old \cup {s} ELSE old

\* remote.connect, up to its first server; not twice at a time.
Connect ==
  /\ ~wanted /\ next = 0 /\ wanted' = TRUE
  /\ Connects(order[1])
  /\ next' = IF N > 1 THEN 2 ELSE 0
  /\ UNCHANGED <<orderVars, online, count, connected, mailVars, deferred, reqVars,
                 mixed, overtaken, belated, faults>>

\* Slip: the last server is left out.
NextButLast ==
  /\ next > 0
  /\ next' = 0
  /\ UNCHANGED <<link, should, oldVars, orderVars, online, count, connected, mailVars,
                 deferred, reqVars, mixed, wanted, overtaken, belated, faults>>

\* nextServer, after connection_offset: the array may be sorted by now.
NextServer ==
  /\ next > 0
  /\ Connects(order[next])
  /\ next' = IF next < N THEN next + 1 ELSE 0
  /\ UNCHANGED <<orderVars, online, count, connected, mailVars, deferred, reqVars,
                 mixed, wanted, overtaken, belated, faults>>

\* Slip: the numbers start again with the socket.
OpensAfresh(s) ==
  /\ link[s] = "connecting"
  /\ link' = [link EXCEPT ![s] = "open"]
  /\ box' = [box EXCEPT ![s].id = 1,
                        ![s].table = @ \cup {<<0, Prepared>>},
                        ![s].wire = @ \cup {<<0, Prepared>>}]
  /\ UNCHANGED <<online, should, next, count, connected, wanted, overtaken, belated,
                 orderVars, oldVars, req, lost, deferred, reqVars, mixed, faults>>

\* A socket opens and sends its own subscribe.
Opens(s) ==
  /\ link[s] = "connecting"
  /\ link' = [link EXCEPT ![s] = "open"]
  /\ box' = [box EXCEPT ![s].id = @ + 1,
                        ![s].table = @ \cup {<<box[s].id, Prepared>>},
                        ![s].wire = @ \cup {<<box[s].id, Prepared>>}]
  /\ UNCHANGED <<online, should, next, count, connected, wanted, overtaken, belated,
                 orderVars, oldVars, req, lost, deferred, reqVars, mixed, faults>>

\* _setState('online') of a server, and the handlers of its `connect': the
\* remote counts it; the first one makes the remote online and what was
\* deferred is routed; then the requests that waited for this server are sent.
GoesOnline(s, boxes) ==
  LET on == online \cup {s}
      flushed == IF count = 0 THEN deferred ELSE <<>>
      target(r) == IF req[r].server = NoServer THEN s ELSE req[r].server
      for(t) == {i \in DOMAIN flushed : target(flushed[i]) = t}
      last(r) == SelectLastInSeq(flushed, LAMBDA q : q = r)
      number(r) == Number(boxes[target(r)].id, for(target(r)), last(r))
      reqs == [r \in Requests |->
                 IF r \in ToSet(flushed)
                 THEN [server |-> target(r), id |-> number(r)] ELSE req[r]]
      taken == [t \in Servers |-> Taken(on, boxes[t], t, flushed, for(t))]
  IN /\ online' = on /\ count' = count + 1
     /\ connected' = (connected \/ count = 0)
     /\ belated' = (belated \/ link[s] # "open")
     /\ deferred' = IF count = 0 THEN <<>> ELSE deferred
     /\ req' = reqs
     /\ box' = [taken EXCEPT ![s] = Sent(@, s, reqs)]
     /\ lost' = lost \cup {r \in ToSet(flushed) : Drops(on, target(r), r)}
                     \cup {r \in taken[s].waiting : link[s] # "open"}
     /\ IF \E r \in ToSet(flushed) : req[r].server = NoServer
        THEN GetServer(on, s) ELSE UNCHANGED orderVars

\* Slip: a server that is lost while others are connected is still counted.
StillCounted(s) ==
  /\ online' = online \ {s}
  /\ IF s \in online /\ count = 1
     THEN count' = 0 /\ connected' = FALSE
     ELSE UNCHANGED <<count, connected>>

\* _setState('offline') of a server, and serverDisconnect.
GoesOffline(s) ==
  /\ online' = online \ {s}
  /\ IF s \in online
     THEN count' = count - 1 /\ connected' = (connected /\ count > 1)
     ELSE UNCHANGED <<count, connected>>

\* The socket in use has subscribed.
Subscribed(s) ==
  link[s] = "open" /\ \A m \in box[s].wire \ late[s] : m[2] # Prepared

\* One told to close has, and delivers its messages.
Lingers(s) ==
  \/ link[s] = "closing" /\ \A m \in box[s].wire \ late[s] : m[2] # Prepared
  \/ s \in old /\ \A m \in late[s] : m[2] # Prepared

\* A serverStatus message says online, or offline.
StatusOnline(s) ==
  /\ s \notin online /\ (Subscribed(s) \/ Lingers(s))
  /\ faults' = faults + (IF Subscribed(s) THEN 0 ELSE 1) /\ faults' =< MaxFaults
  /\ GoesOnline(s, box)
  /\ UNCHANGED <<link, should, next, wanted, overtaken, oldVars, reqVars, mixed>>

StatusOffline(s) ==
  /\ s \in online /\ (Subscribed(s) \/ Lingers(s))
  /\ faults < MaxFaults /\ faults' = faults + 1
  /\ GoesOffline(s)
  /\ UNCHANGED <<link, should, orderVars, next, wanted, overtaken, belated, oldVars,
                 mailVars, deferred, reqVars, mixed>>

\* _handleClose of the socket in use; what was under way on it is lost.
Closes(s) ==
  /\ GoesOffline(s)
  /\ link' = [link EXCEPT ![s] = "lost"]
  /\ box' = [box EXCEPT ![s] = Abandons(@, @.wire \ late[s])]
  /\ lost' = lost \cup Under(box[s].wire \ late[s])
  /\ UNCHANGED <<should, orderVars, next, wanted, overtaken, belated, oldVars, req,
                 deferred, reqVars, mixed>>

\* It closes by itself, or it was told to.
LosesSocket(s) ==
  /\ link[s] \in {"connecting", "open"}
  /\ faults < MaxFaults /\ faults' = faults + 1 /\ Closes(s)

SocketGone(s) ==
  /\ link[s] \in {"closing", "aborted"}
  /\ Closes(s) /\ UNCHANGED faults

\* A socket the server no longer uses is gone, with what is under way on it.
OldGone(s) ==
  /\ s \in old
  /\ \E gone \in SUBSET late[s] :
       /\ old' = IF gone = late[s] THEN old \ {s} ELSE old
       /\ late' = [late EXCEPT ![s] = @ \ gone]
       /\ box' = [box EXCEPT ![s] = Abandons(@, gone)]
       /\ lost' = lost \cup Under(gone)
  /\ UNCHANGED <<linkVars, orderVars, req, deferred, reqVars, mixed, faults>>

\* Slip: a closed socket is replaced whatever was asked.
AlwaysRetries(s) == link[s] = "lost"

\* connectionRetry.
RetryWanted(s) == link[s] = "lost" /\ should[s]

\* A server that is online by now is left alone: no other timer follows.
Retry(s) ==
  /\ RetryWanted(s)
  /\ IF s \in online
     THEN link' = [link EXCEPT ![s] = "closed"] /\ UNCHANGED <<should, oldVars>>
     ELSE Connects(s)
  /\ UNCHANGED <<next, orderVars, online, count, connected, mailVars, deferred, reqVars,
                 mixed, wanted, overtaken, belated, faults>>

\* ws.close().
ToldToClose(state) ==
  CASE state = "open" -> "closing"
    [] state = "connecting" -> "aborted"
    [] OTHER -> state

\* remote.disconnect: every server is told to; the servers connect() has not
\* turned to yet are still to come, and so are the messages of the sockets.
Disconnect ==
  /\ wanted /\ faults < MaxFaults /\ faults' = faults + 1
  /\ wanted' = FALSE /\ overtaken' = (overtaken \/ next > 0)
  /\ should' = [s \in Servers |-> FALSE]
  /\ link' = [s \in Servers |-> ToldToClose(link[s])]
  /\ online' = {} /\ count' = 0 /\ connected' = FALSE
  /\ UNCHANGED <<orderVars, next, belated, oldVars, mailVars, deferred, reqVars, mixed>>

-----------------------------------------------------------------------------
(* Answers.                                                                  *)

\* Slip: an answer that comes after the timeout is emitted.
EmitTimedOut(r, of) ==
  /\ heard' = [heard EXCEPT ![r] = @ \cup {of}]
  /\ calls' = [calls EXCEPT ![r] = 1]
  /\ timer' = [timer EXCEPT ![r] = IF @ = "running" THEN "off" ELSE @]

\* emit('success') or emit('error'): after a timeout nothing is emitted; else
\* the timer is cleared, and the callback runs the first time.
Emit(r, of) ==
  IF timer[r] = "fired" THEN UNCHANGED <<heard, calls, timer>>
  ELSE /\ heard' = [heard EXCEPT ![r] = @ \cup {of}]
       /\ calls' = [calls EXCEPT ![r] = 1]
       /\ timer' = [timer EXCEPT ![r] = "off"]

\* _handleResponse, of a message on any socket that is not gone: the answer
\* belongs to the request with its number.  Prepared's answer to Prepared brings
\* the server online, or says that it cannot serve yet.
Answer(s) ==
  \E m \in box[s].wire :
    LET asker == {e \in box[s].table : e[1] = m[1]}
        boxes == [box EXCEPT ![s].wire = @ \ {m}, ![s].table = @ \ asker]
        goes  == asker = {m} /\ m[2] = Prepared /\ s \notin online
    IN /\ \/ goes /\ GoesOnline(s, boxes) /\ UNCHANGED faults
          \/ /\ box' = boxes
             /\ faults' = faults + (IF goes THEN 1 ELSE 0) /\ faults' =< MaxFaults
             /\ UNCHANGED <<online, belated, count, connected, req, lost, deferred,
                            orderVars>>
       /\ IF \E e \in asker : e[2] \in Requests
          THEN \E e \in asker : Emit(e[2], m[2])
          ELSE UNCHANGED <<heard, calls, timer>>
       /\ late' = [late EXCEPT ![s] = @ \ {m}]
       /\ UNCHANGED <<link, should, next, wanted, overtaken, old, made, mixed>>

\* The timer of Request.timeout.
TimerFires(r) ==
  /\ timer[r] = "running"
  /\ timer' = [timer EXCEPT ![r] = "fired"]
  /\ UNCHANGED <<linkVars, oldVars, orderVars, mailVars, deferred, made, calls, heard,
                 mixed, faults>>

Next ==
  \/ Connect \/ NextServer \/ Disconnect
  \/ \E r \in Requests : \/ RequestAny(r) \/ RequestOne(r) \/ Broadcast(r)
                         \/ TimerFires(r)
  \/ \E s \in Servers : \/ Opens(s) \/ Answer(s) \/ LosesSocket(s) \/ Retry(s)
                        \/ StatusOnline(s) \/ StatusOffline(s)
                        \/ SocketGone(s) \/ OldGone(s)

Spec == Init /\ [][Next]_vars

\* connect() runs on, servers and sockets answer, a server that reports to be
\* offline recovers, the retry and request timers fire, and an application that
\* wants a connection asks for it.
Fairness ==
  WF_vars(\/ Connect \/ NextServer
          \/ \E r \in Requests : TimerFires(r)
          \/ \E s \in Servers : \/ Opens(s) \/ Retry(s) \/ StatusOnline(s) \/ Answer(s)
                                \/ SocketGone(s) \/ OldGone(s))

FairSpec == Spec /\ Fairness

-----------------------------------------------------------------------------
(* Properties.                                                               *)

\* The remote is connected exactly when one of its servers is, and its count
\* is the number of those: getServer(), which looks for a connected server
\* without a bound, finds one (remote.js:477, 789).
CountsServers ==
  /\ count = Cardinality(online)
  /\ connected <=> online # {}

\* A request hears its own answer, not another's, through lost sockets and
\* numbers that go on counting, unless a broadcast has been left to wait at
\* one server while others numbered it (server.js:535, 665).
AnswersMatch ==
  ~mixed => \A r \in Requests : heard[r] \subseteq {r}

\* The same without that condition, as the comment on _request has it: the
\* message's number is repeated in the response (server.js:647).
AnswersAlwaysMatch == \A r \in Requests : heard[r] \subseteq {r}

\* A request's callback and its timeout's callback run at most once, and not
\* both, however many servers answer a broadcast (request.js:63, 104).
SettledOnce ==
  \A r \in Requests : calls[r] + (IF timer[r] = "fired" THEN 1 ELSE 0) =< 1

Settled(r) == calls[r] > 0 \/ timer[r] = "fired"

\* A request that was made and has not been settled is somewhere: it waits for
\* the remote or for a server's `connect', or its message is under way with the
\* number the server will look for; or a message of it was lost with a socket
\* or for want of one, and no one tells (request.js:13, server.js:657).
Accounted ==
  ~mixed => \A r \in made : \/ Settled(r) \/ r \in lost
                            \/ r \in ToSet(deferred)
                            \/ \E s \in Servers :
                                 \/ r \in box[s].waiting
                                 \/ \E m \in box[s].wire \cap box[s].table : m[2] = r

\* Once connect() has turned to the last server it has turned to all, unless
\* requests had the array sorted in the meantime, or a late message made it
\* leave a server alone (remote.js:526, 784; server.js:323).
AllStarted ==
  wanted /\ next = 0 /\ ~shuffled /\ ~overtaken /\ ~belated =>
    \A s \in Servers : should[s]

\* After disconnect() no socket is made or used, and the remote is online again
\* only by a message that was under way on one told to close, unless connect()
\* was still turning to its servers (remote.js:530, 553; server.js:349).
StaysDisconnected ==
  ~wanted /\ ~overtaken =>
    /\ \A s \in Servers : link[s] \notin {"connecting", "open"}
    /\ connected => belated

\* Every request is settled in the end.  One with a timeout needs nothing else;
\* one without needs that no message of it was lost (request.js:106), and that
\* a wanted connection was made.
SettledInTheEnd ==
  <>[](\A r \in made : \/ Settled(r)
                       \/ r \notin Timed /\ (r \in lost \/ mixed \/ shuffled \/ belated))

=============================================================================
