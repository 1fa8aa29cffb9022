----------------------------- MODULE ServerProofs -----------------------------
(* What holds of ServerConnection for every number of calls and faults.       *)
EXTENDS ServerConnection, TLAPS

Live == {"connecting", "open"}

\* Of a list of sockets only the last may be in use.
OneLive(socks) ==
  \A i \in 1..Len(socks) : socks[i] \in Live => i = Len(socks)

-----------------------------------------------------------------------------
(* The sockets after close() and connect().                                *)

\* Closing the current socket leaves none in use.
LEMMA ClosedSockets ==
  ASSUME NEW socks \in Seq(SocketStates), OneLive(socks)
  PROVE  /\ Closed(socks) \in Seq(SocketStates)
         /\ Len(Closed(socks)) = Len(socks)
         /\ \A i \in 1..Len(socks) : Closed(socks)[i] \notin Live
         /\ OneLive(Closed(socks))
         /\ socks # <<>> =>
              Closed(socks)[Len(socks)] = ToldToClose(socks[Len(socks)])
<1> DEFINE c == Closed(socks)
<1>1. /\ \A x \in SocketStates : ToldToClose(x) \in SocketStates \ Live
      /\ ToldToClose("closing") = "closing"
  BY DEF ToldToClose, SocketStates, Live
<1>2. /\ c = [i \in 1..Len(socks) |->
               IF i = Len(socks) THEN ToldToClose(socks[i]) ELSE socks[i]]
      /\ Len(socks) \in Nat /\ \A i \in 1..Len(socks) : socks[i] \in SocketStates
  BY DEF Closed
<1>3. \A i \in 1..Len(socks) : c[i] \in SocketStates \ Live
  BY <1>1, <1>2 DEF OneLive
<1>4. c \in Seq(SocketStates) /\ Len(c) = Len(socks)
  BY <1>2, <1>3
<1>5. socks # <<>> => c[Len(socks)] = ToldToClose(socks[Len(socks)])
  <2>1. socks # <<>> => Len(socks) \in 1..Len(socks) OBVIOUS
  <2>. QED BY <1>2, <2>1
<1>. QED BY <1>3, <1>4, <1>5 DEF OneLive

\* The sockets that n calls of connect() add.
New(n) == [i \in 1..n |-> IF i = n THEN "connecting" ELSE "aborted"]

LEMMA NewSockets ==
  ASSUME NEW n \in Nat
  PROVE  /\ New(n) \in Seq(SocketStates) /\ Len(New(n)) = n
         /\ \A i \in 1..n : New(n)[i] = IF i = n THEN "connecting" ELSE "aborted"
BY DEF New, SocketStates

\* Two lists of sockets, one after the other.
LEMMA Appended ==
  ASSUME NEW s \in Seq(SocketStates), NEW t \in Seq(SocketStates)
  PROVE  /\ s \o t \in Seq(SocketStates)
         /\ Len(s \o t) = Len(s) + Len(t)
         /\ \A i \in 1..(Len(s) + Len(t)) :
              (s \o t)[i] = IF i <= Len(s) THEN s[i] ELSE t[i - Len(s)]
OBVIOUS

\* connect() keeps one socket in use at most: the last.
LEMMA ConnectedSockets ==
  ASSUME NEW socks \in Seq(SocketStates), OneLive(socks), NEW n \in Nat
  PROVE  /\ Connected(socks, n) \in Seq(SocketStates)
         /\ Len(Connected(socks, n)) = Len(socks) + n
         /\ OneLive(Connected(socks, n))
         /\ n = 0 => Connected(socks, n) = socks
         /\ n > 0 => Connected(socks, n)[Len(socks) + n] = "connecting"
<1> DEFINE c == Connected(socks, n)
<1>1. CASE n = 0 BY <1>1 DEF Connected
<1>2. CASE n > 0
  <2>1. c = Closed(socks) \o New(n) BY <1>2 DEF Connected, New
  <2>2. /\ c \in Seq(SocketStates) /\ Len(c) = Len(socks) + n
        /\ \A i \in 1..(Len(socks) + n) :
             c[i] = IF i <= Len(socks) THEN Closed(socks)[i]
                                       ELSE New(n)[i - Len(socks)]
    <3>1. /\ Closed(socks) \in Seq(SocketStates) /\ Len(Closed(socks)) = Len(socks)
          /\ New(n) \in Seq(SocketStates) /\ Len(New(n)) = n
      BY ClosedSockets, NewSockets
    <3>. DEFINE a == Closed(socks)
                b == New(n)
    <3>2. a \in Seq(SocketStates) /\ b \in Seq(SocketStates) BY <3>1
    <3>. HIDE DEF a, b
    <3>3. /\ a \o b \in Seq(SocketStates) /\ Len(a \o b) = Len(a) + Len(b)
          /\ \A i \in 1..(Len(a) + Len(b)) :
               (a \o b)[i] = IF i <= Len(a) THEN a[i] ELSE b[i - Len(a)]
      BY <3>2, Appended
    <3>. QED BY ONLY <2>1, <3>1, <3>3, Zenon DEF a, b
  <2>. HIDE DEF c
  <2>3. c[Len(socks) + n] = "connecting"
    <3>1. /\ Len(socks) \in Nat /\ Len(socks) + n \in 1..(Len(socks) + n)
          /\ ~(Len(socks) + n <= Len(socks)) /\ (Len(socks) + n) - Len(socks) = n
          /\ n \in 1..n
      BY <1>2
    <3>2. New(n)[n] = "connecting" BY <3>1, NewSockets
    <3>. QED BY ONLY <2>2, <3>1, <3>2
  <2>4. ASSUME NEW i \in 1..Len(c), i # Len(c) PROVE c[i] \notin Live
    <3>1. CASE i <= Len(socks) BY <2>2, <3>1, ClosedSockets
    <3>2. CASE i > Len(socks)
      <4>1. i - Len(socks) \in 1..n /\ i - Len(socks) # n BY <2>2, <2>4, <3>2
      <4>2. New(n)[i - Len(socks)] = "aborted" BY <4>1, NewSockets
      <4>3. i \in 1..(Len(socks) + n) /\ ~(i <= Len(socks)) BY <2>2, <3>2
      <4>4. c[i] = "aborted" BY ONLY <2>2, <4>2, <4>3
      <4>. QED BY <4>4 DEF Live
    <3>. QED BY <2>2, <3>1, <3>2
  <2>5. OneLive(c) BY <2>4 DEF OneLive
  <2>. QED BY <1>2, <2>2, <2>3, <2>5 DEF c
<1>. QED BY <1>1, <1>2

-----------------------------------------------------------------------------

SocketsOK(socks) == socks \in Seq(SocketStates) /\ OneLive(socks)

LastOf(socks) == IF socks = <<>> THEN "none" ELSE socks[Len(socks)]

\* What connect(), n times, and then close() leave in use.
LEMMA Replaced ==
  ASSUME NEW socks, SocketsOK(socks), NEW n \in Nat
  PROVE  /\ SocketsOK(Connected(socks, n))
         /\ SocketsOK(Closed(Connected(socks, n)))
         /\ Len(Connected(socks, n)) = Len(socks) + n
         /\ Len(Closed(Connected(socks, n))) = Len(socks) + n
         /\ n = 0 => Connected(socks, n) = socks
         /\ n > 0 => LastOf(Connected(socks, n)) = "connecting"
         /\ n > 0 => LastOf(Closed(Connected(socks, n))) = "aborted"
         /\ LastOf(Closed(Connected(socks, n))) \notin Live
<1> DEFINE c == Connected(socks, n)
           d == Closed(c)
<1>1. socks \in Seq(SocketStates) /\ OneLive(socks) BY DEF SocketsOK
<1>2. /\ c \in Seq(SocketStates) /\ OneLive(c) /\ Len(c) = Len(socks) + n
      /\ n = 0 => c = socks
      /\ n > 0 => c[Len(socks) + n] = "connecting"
  BY <1>1, ConnectedSockets
<1>. HIDE DEF c
<1>3. /\ d \in Seq(SocketStates) /\ OneLive(d) /\ Len(d) = Len(c)
      /\ \A i \in 1..Len(c) : d[i] \notin Live
      /\ c # <<>> => d[Len(c)] = ToldToClose(c[Len(c)])
  BY <1>2, ClosedSockets
<1>. HIDE DEF d
<1>4. Len(c) \in Nat /\ Len(socks) \in Nat /\ (n > 0 => c # <<>> /\ d # <<>>)
  BY <1>1, <1>2, <1>3
<1>5. n > 0 => LastOf(c) = "connecting" /\ LastOf(d) = "aborted"
  BY <1>2, <1>3, <1>4 DEF LastOf, ToldToClose
<1>6. LastOf(d) \notin Live
  <2>1. CASE d = <<>> BY <2>1 DEF LastOf, Live
  <2>2. CASE d # <<>>
    <3>1. Len(d) \in 1..Len(c) BY <1>3, <2>2
    <3>. QED BY <1>3, <2>2, <3>1 DEF LastOf
  <2>. QED BY <2>1, <2>2
<1>. QED BY <1>2, <1>3, <1>5, <1>6 DEF SocketsOK, c, d

\* One socket changes its state.
LEMMA Moved ==
  ASSUME NEW socks, SocketsOK(socks), NEW i \in 1..Len(socks),
         NEW x \in SocketStates, x \in Live => i = Len(socks)
  PROVE  /\ SocketsOK([socks EXCEPT ![i] = x])
         /\ Len([socks EXCEPT ![i] = x]) = Len(socks)
         /\ LastOf([socks EXCEPT ![i] = x]) =
              IF i = Len(socks) THEN x ELSE LastOf(socks)
<1> DEFINE m == [socks EXCEPT ![i] = x]
<1>1. socks \in Seq(SocketStates) /\ OneLive(socks) BY DEF SocketsOK
<1>2. /\ m \in Seq(SocketStates) /\ Len(m) = Len(socks)
      /\ \A j \in 1..Len(socks) : m[j] = IF j = i THEN x ELSE socks[j]
  BY <1>1
<1>. HIDE DEF m
<1>3. OneLive(m) BY <1>1, <1>2 DEF OneLive
<1>4. Len(socks) \in 1..Len(socks) /\ socks # <<>> /\ m # <<>> BY <1>1, <1>2
<1>5. LastOf(m) = IF i = Len(socks) THEN x ELSE LastOf(socks)
  BY <1>2, <1>4 DEF LastOf
<1>. QED BY <1>2, <1>3, <1>5 DEF SocketsOK, m

-----------------------------------------------------------------------------
(* Types, and the activity interval.                                       *)

\* The types of everything but the sockets.
Values ==
  /\ online \in BOOLEAN /\ should \in BOOLEAN /\ waiting \in Nat
  /\ timer \in BOOLEAN /\ strays \in Nat
  /\ interval \in BOOLEAN /\ leaked \in Nat /\ armed \in Nat
  /\ lastClose \in {"NaN", "recent", "old"}
  /\ wanted \in BOOLEAN /\ reconnected \in BOOLEAN
  /\ calls \in Nat /\ faults \in Nat

SocketTypes == SocketsOK(sockets) /\ asked \subseteq 1..Len(sockets)

LEMMA TypeParts == TypeOK <=> SocketTypes /\ Values
BY DEF TypeOK, SocketTypes, Values, SocketsOK, OneLive, Live, ws

LEMMA LastIsLast == Last = LastOf(sockets)
BY DEF Last, LastOf, ws

WatchInv == TypeOK /\ ActivityWatched

\* Going offline, with w reconnections waiting, keeps an eye on the server.
LEMMA OfflineIsWatched ==
  ASSUME Values, ActivityWatched, NEW w \in Nat, SetOffline(w)
  PROVE  /\ online' = FALSE /\ waiting' \in Nat /\ Reconnects(w) \in Nat
         /\ interval' \in BOOLEAN /\ leaked' \in Nat /\ armed' \in Nat
         /\ lastClose' \in {"NaN", "recent", "old"}
         /\ ActivityWatched'
<1>1. CASE online = TRUE
  <2>1. /\ online' = FALSE /\ waiting' = 0 /\ interval' = FALSE
        /\ armed' = armed + 1 /\ leaked' = leaked /\ lastClose' = lastClose
    BY <1>1 DEF SetOffline
  <2>2. armed \in Nat /\ leaked \in Nat BY DEF Values
  <2>3. armed' \in Nat /\ leaked' \in Nat /\ armed' > 0 /\ waiting' \in Nat
    BY ONLY <2>1, <2>2
  <2>4. Reconnects(w) = w BY <1>1 DEF Reconnects
  <2>. QED BY <2>1, <2>3, <2>4 DEF Values, ActivityWatched
<1>2. CASE online = FALSE
  <2>1. /\ UNCHANGED <<online, interval, armed, leaked, lastClose>>
        /\ waiting' = w
    BY <1>2 DEF SetOffline
  <2>2. Reconnects(w) = 0 BY <1>2 DEF Reconnects
  <2>. QED BY <1>2, <2>1, <2>2 DEF Values, ActivityWatched
<1>. QED BY <1>1, <1>2 DEF Values

\* connect() keeps the types.
LEMMA ConnectTypes ==
  ASSUME SocketTypes, should \in BOOLEAN, Connect, UNCHANGED asked
  PROVE  SocketTypes' /\ should' \in BOOLEAN
<1>1. Len(sockets) \in Nat /\ Len(sockets) <= Len(sockets) + 1
  BY DEF SocketTypes, SocketsOK
<1>2. CASE online BY <1>2 DEF Connect, SocketTypes
<1>3. CASE ~online
  <2>1. sockets' = Connected(sockets, 1) /\ should' = TRUE BY <1>3 DEF Connect
  <2>2. SocketsOK(sockets') /\ Len(sockets') = Len(sockets) + 1
    BY <2>1, Replaced DEF SocketTypes
  <2>3. asked \subseteq 1..Len(sockets') BY <1>1, <2>2 DEF SocketTypes
  <2>. QED BY <2>1, <2>2, <2>3 DEF SocketTypes
<1>. QED BY <1>2, <1>3

\* So do disconnect() and whatever waits for it.
LEMMA DisconnectTypes ==
  ASSUME SocketTypes, Values, ActivityWatched, NEW w \in Nat, Disconnect(w),
         UNCHANGED asked
  PROVE  /\ SocketTypes' /\ online' = FALSE /\ waiting' \in Nat
         /\ should' \in BOOLEAN
         /\ interval' \in BOOLEAN /\ leaked' \in Nat /\ armed' \in Nat
         /\ lastClose' \in {"NaN", "recent", "old"}
         /\ ActivityWatched'
<1>1. SetOffline(w) BY DEF Disconnect
<1>2. Reconnects(w) \in Nat BY <1>1, OfflineIsWatched
<1>3. /\ SocketsOK(sockets')
      /\ Len(sockets') = Len(sockets) + Reconnects(w)
  BY <1>2, Replaced DEF Disconnect, SocketTypes
<1>4. Len(sockets) \in Nat BY DEF SocketTypes, SocketsOK
<1>5. SocketTypes' BY <1>2, <1>3, <1>4 DEF SocketTypes
<1>6. should' \in BOOLEAN BY <1>2 DEF Disconnect
<1>. QED BY <1>1, <1>5, <1>6, OfflineIsWatched


LEMMA WatchStep == WatchInv /\ [Next]_vars => WatchInv'
<1> SUFFICES ASSUME WatchInv, [Next]_vars PROVE WatchInv'
  OBVIOUS
<1>. USE DEF SocketStates
<1>1. SocketTypes /\ Values /\ ActivityWatched BY TypeParts DEF WatchInv
<1>2. Len(sockets) \in Nat /\ SocketsOK(sockets) /\ asked \subseteq 1..Len(sockets)
  BY <1>1 DEF SocketTypes, SocketsOK
<1>3. SUFFICES SocketTypes' /\ Values' /\ ActivityWatched'
  BY TypeParts, PTL DEF WatchInv
<1>4. CASE Call
  <2>1. calls' \in Nat /\ UNCHANGED faults /\ reconnected' \in BOOLEAN
    <3>1. calls' \in Nat /\ UNCHANGED faults BY <1>1, <1>4 DEF Call, Values
    <3>2. CASE UNCHANGED reconnected BY <1>1, <3>1, <3>2 DEF Values
    <3>3. CASE UserReconnect BY <3>1, <3>3 DEF UserReconnect
    <3>. QED BY <1>4, <3>2, <3>3 DEF Call
  <2>2. CASE UserConnect
    <3>1. Connect /\ UNCHANGED <<asked, online, waiting, timerVars, watchVars>>
          /\ wanted' = TRUE
      BY <2>2 DEF UserConnect
    <3>2. SocketTypes' /\ should' \in BOOLEAN
      BY <1>1, <3>1, ConnectTypes DEF Values
    <3>. QED BY <1>1, <2>1, <3>1, <3>2 DEF Values, ActivityWatched, timerVars, watchVars
  <2>3. CASE UserDisconnect
    <3>1. Disconnect(waiting) /\ UNCHANGED <<asked, timerVars>> /\ wanted' = FALSE
      BY <2>3 DEF UserDisconnect
    <3>2. waiting \in Nat BY <1>1 DEF Values
    <3>3. /\ SocketTypes' /\ online' = FALSE /\ waiting' \in Nat
          /\ should' \in BOOLEAN
          /\ interval' \in BOOLEAN /\ leaked' \in Nat /\ armed' \in Nat
          /\ lastClose' \in {"NaN", "recent", "old"} /\ ActivityWatched'
      BY <1>1, <3>1, <3>2, DisconnectTypes
    <3>. QED BY <1>1, <2>1, <3>1, <3>3 DEF Values, timerVars
  <2>4. CASE UserForceReconnect
    <3>1. Connect /\ UNCHANGED <<asked, online, waiting, strays, watchVars>>
          /\ wanted' = TRUE /\ timer' = FALSE
      BY <2>4 DEF UserForceReconnect
    <3>2. SocketTypes' /\ should' \in BOOLEAN
      BY <1>1, <3>1, ConnectTypes DEF Values
    <3>. QED BY <1>1, <2>1, <3>1, <3>2 DEF Values, ActivityWatched, watchVars
  <2>5. CASE UserReconnect
    <3>1. Disconnect(waiting + 1) /\ UNCHANGED <<asked, timerVars>> /\ wanted' = TRUE
      BY <2>5 DEF UserReconnect
    <3>2. waiting + 1 \in Nat BY <1>1 DEF Values
    <3>3. /\ SocketTypes' /\ online' = FALSE /\ waiting' \in Nat
          /\ should' \in BOOLEAN
          /\ interval' \in BOOLEAN /\ leaked' \in Nat /\ armed' \in Nat
          /\ lastClose' \in {"NaN", "recent", "old"} /\ ActivityWatched'
      BY <1>1, <3>1, <3>2, DisconnectTypes
    <3>. QED BY <1>1, <2>1, <3>1, <3>3 DEF Values, timerVars
  <2>. QED BY <1>4, <2>2, <2>3, <2>4, <2>5 DEF Call
<1>5. CASE TimerFires
  <2>1. /\ UNCHANGED <<asked, online, waiting, watchVars, userVars, faults>>
        /\ (Connect \/ UNCHANGED <<sockets, should>>)
    BY <1>5 DEF TimerFires
  <2>2. timer' \in BOOLEAN /\ strays' \in Nat
    <3>1. \/ timer' = FALSE /\ strays' = strays
          \/ strays > 0 /\ strays' = strays - 1 /\ timer' = timer
      BY <1>5 DEF TimerFires
    <3>2. timer \in BOOLEAN /\ strays \in Nat BY <1>1 DEF Values
    <3>3. strays' \in Nat BY ONLY <3>1, <3>2
    <3>4. timer' \in BOOLEAN BY <3>1, <3>2
    <3>. QED BY <3>3, <3>4
  <2>3. SocketTypes' /\ should' \in BOOLEAN
    <3>1. CASE Connect BY <1>1, <2>1, <3>1, ConnectTypes DEF Values
    <3>2. CASE UNCHANGED <<sockets, should>>
      BY <1>1, <2>1, <3>2 DEF Values, SocketTypes
    <3>. QED BY <2>1, <3>1, <3>2
  <2>. QED BY <1>1, <2>1, <2>2, <2>3
       DEF Values, ActivityWatched, watchVars, userVars
<1>6. CASE Silence
  BY <1>1, <1>6
     DEF Silence, SocketTypes, Values, ActivityWatched, timerVars, userVars
<1>7. CASE CheckActivity
  <2>1. /\ sockets' = Closed(Connected(sockets, waiting + 1)) /\ waiting + 1 \in Nat
        /\ online' = FALSE /\ interval' = FALSE /\ should' = TRUE
        /\ waiting' = 0 /\ lastClose' = "NaN"
        /\ armed' = armed + 1 /\ faults' = faults + 1
        /\ armed \in Nat /\ faults \in Nat
        /\ UNCHANGED <<asked, timerVars, leaked, userVars>>
    BY <1>1, <1>7 DEF CheckActivity, Values
  <2>2. armed' \in Nat /\ armed' > 0 /\ faults' \in Nat /\ waiting' \in Nat
    BY ONLY <2>1
  <2>3. SocketsOK(sockets') /\ Len(sockets') = Len(sockets) + (waiting + 1)
    BY <1>2, <2>1, Replaced
  <2>4. asked' \subseteq 1..Len(sockets')
    <3>1. Len(sockets) <= Len(sockets') BY <1>2, <2>1, <2>3
    <3>. QED BY <1>2, <2>1, <2>3, <3>1
  <2>. QED BY <1>1, <2>1, <2>2, <2>3, <2>4
       DEF SocketTypes, Values, ActivityWatched, timerVars, userVars
<1>8. CASE BadScore
  <2>1. Disconnect(waiting + 1) /\ UNCHANGED <<asked, timerVars, userVars>>
        /\ faults' = faults + 1
    BY <1>8 DEF BadScore
  <2>2. waiting + 1 \in Nat /\ faults' \in Nat BY <1>1, <2>1 DEF Values
  <2>3. /\ SocketTypes' /\ online' = FALSE /\ waiting' \in Nat
        /\ should' \in BOOLEAN
        /\ interval' \in BOOLEAN /\ leaked' \in Nat /\ armed' \in Nat
        /\ lastClose' \in {"NaN", "recent", "old"} /\ ActivityWatched'
    BY <1>1, <2>1, <2>2, DisconnectTypes
  <2>. QED BY <1>1, <2>1, <2>2, <2>3 DEF Values, timerVars, userVars
<1>9. CASE Opens
  <2>1. /\ sockets' = [sockets EXCEPT ![ws] = "open"] /\ asked' = asked \cup {ws}
        /\ UNCHANGED <<online, should, waiting, timerVars, watchVars, userVars, faults>>
        /\ sockets # <<>> /\ ws = Len(sockets)
    BY <1>9 DEF Opens, Last, ws
  <2>2. ws \in 1..Len(sockets) BY <1>2, <2>1 DEF SocketsOK
  <2>3. SocketsOK(sockets') /\ Len(sockets') = Len(sockets)
    BY <1>2, <2>1, <2>2, Moved
  <2>4. SocketTypes' BY <1>2, <2>1, <2>2, <2>3 DEF SocketTypes
  <2>. QED BY <1>1, <2>1, <2>4
       DEF Values, ActivityWatched, timerVars, watchVars, userVars
<1>10. ASSUME NEW i \in 1..ws, SocketGone(i)
       PROVE  SocketTypes' /\ Values' /\ ActivityWatched'
  <2> DEFINE gone == [sockets EXCEPT ![i] = "closed"]
  <2>1. SocketsOK(gone) /\ Len(gone) = Len(sockets)
    BY <1>2, <1>10, Moved DEF ws, Live
  <2>2. faults' \in Nat
    <3>1. faults' = faults \/ faults' = faults + 1 BY <1>10 DEF SocketGone
    <3>. QED BY <1>1, <3>1 DEF Values
  <2>3. asked' \subseteq asked /\ UNCHANGED userVars BY <1>10 DEF SocketGone
  <2>4. CASE i = ws
    <3>1. /\ SetOffline(waiting)
          /\ sockets' = Connected(gone, Reconnects(waiting))
          /\ should' = (should \/ Reconnects(waiting) > 0)
          /\ RetryLater \/ UNCHANGED timerVars
      BY <1>10, <2>4 DEF SocketGone
    <3>. HIDE DEF gone
    <3>2. /\ online' = FALSE /\ waiting' \in Nat /\ Reconnects(waiting) \in Nat
          /\ interval' \in BOOLEAN /\ leaked' \in Nat /\ armed' \in Nat
          /\ lastClose' \in {"NaN", "recent", "old"} /\ ActivityWatched'
      BY <1>1, <3>1, OfflineIsWatched DEF Values
    <3>3. SocketsOK(sockets') /\ Len(sockets') = Len(sockets) + Reconnects(waiting)
      <4>1. /\ SocketsOK(Connected(gone, Reconnects(waiting)))
            /\ Len(Connected(gone, Reconnects(waiting)))
                 = Len(gone) + Reconnects(waiting)
        BY <2>1, <3>2, Replaced
      <4>. QED BY ONLY <2>1, <3>1, <4>1
    <3>4. Len(sockets) <= Len(sockets') BY <1>2, <3>2, <3>3
    <3>5. SocketTypes' BY <1>2, <2>3, <3>3, <3>4 DEF SocketTypes
    <3>6. timer' \in BOOLEAN /\ strays' \in Nat
      <4>1. CASE RetryLater
        <5>1. timer' = TRUE /\ (strays' = strays + 1 \/ strays' = strays + 0)
          BY <4>1 DEF RetryLater
        <5>. QED BY <1>1, <5>1 DEF Values
      <4>2. CASE UNCHANGED timerVars BY <1>1, <4>2 DEF Values, timerVars
      <4>. QED BY <3>1, <4>1, <4>2
    <3>7. should' \in BOOLEAN BY <3>1
    <3>. QED BY <1>1, <2>2, <2>3, <3>2, <3>5, <3>6, <3>7 DEF Values, userVars
  <2>5. CASE i # ws
    <3>1. /\ sockets' = gone
          /\ UNCHANGED <<online, should, waiting, timerVars, watchVars>>
      BY <1>10, <2>5 DEF SocketGone
    <3>2. SocketTypes' BY <1>2, <2>1, <2>3, <3>1 DEF SocketTypes
    <3>. QED BY <1>1, <2>2, <2>3, <3>1, <3>2
         DEF Values, ActivityWatched, timerVars, watchVars, userVars
  <2>. QED BY <2>4, <2>5
<1>11. ASSUME NEW i \in 1..ws, NEW up \in BOOLEAN, Subscribed(i, up)
       PROVE  SocketTypes' /\ Values' /\ ActivityWatched'
  BY <1>1, <1>11 DEF Subscribed, SocketTypes, Values, ActivityWatched,
                     timerVars, watchVars, userVars
<1>12. ASSUME NEW i \in 1..ws, StatusOnline(i)
       PROVE  SocketTypes' /\ Values' /\ ActivityWatched'
  BY <1>1, <1>12 DEF StatusOnline, SocketTypes, Values, ActivityWatched,
                     timerVars, watchVars, userVars
<1>13. ASSUME NEW i \in 1..ws, StatusOffline(i)
       PROVE  SocketTypes' /\ Values' /\ ActivityWatched'
  <2>1. /\ SetOffline(waiting) /\ sockets' = Connected(sockets, waiting)
        /\ should' = (should \/ waiting > 0) /\ faults' = faults + 1
        /\ UNCHANGED <<asked, timerVars, userVars>>
        /\ waiting \in Nat /\ faults \in Nat
    BY <1>1, <1>13 DEF StatusOffline, Values
  <2>2. /\ online' = FALSE /\ waiting' \in Nat
        /\ interval' \in BOOLEAN /\ leaked' \in Nat /\ armed' \in Nat
        /\ lastClose' \in {"NaN", "recent", "old"} /\ ActivityWatched'
    BY <1>1, <2>1, OfflineIsWatched
  <2>3. SocketsOK(sockets') /\ Len(sockets') = Len(sockets) + waiting
    BY <1>2, <2>1, Replaced
  <2>4. Len(sockets) <= Len(sockets') /\ faults' \in Nat BY <1>2, <2>1, <2>3
  <2>5. SocketTypes' BY <1>2, <2>1, <2>3, <2>4 DEF SocketTypes
  <2>6. should' \in BOOLEAN BY <2>1
  <2>. QED BY <1>1, <2>1, <2>2, <2>4, <2>5, <2>6 DEF Values, timerVars, userVars
<1>14. ASSUME NEW i \in 1..ws, LedgerClosed(i)
       PROVE  SocketTypes' /\ Values' /\ ActivityWatched'
  <2>1. /\ lastClose' = "recent" /\ armed' = 0
        /\ interval' = (interval \/ armed > 0)
        /\ UNCHANGED <<sockets, asked, online, should, waiting, timerVars, userVars,
                       faults>>
    BY <1>14 DEF LedgerClosed
  <2>2. interval' = TRUE
    BY <1>1, <2>1 DEF ActivityWatched, Values
  <2>3. leaked' \in Nat
    <3>1. leaked \in Nat /\ armed \in Nat BY <1>1 DEF Values
    <3>2. CASE armed = 0
      <4>1. leaked' = leaked + 0 BY <1>14, <3>2 DEF LedgerClosed
      <4>. QED BY <3>1, <4>1
    <3>3. CASE armed # 0
      <4>1. \/ leaked' = leaked + ((armed - 1) + 1)
            \/ leaked' = leaked + ((armed - 1) + 0)
        BY <1>14, <3>3 DEF LedgerClosed
      <4>. QED BY <3>1, <3>3, <4>1
    <3>. QED BY <3>2, <3>3
  <2>4. SocketTypes' BY <1>1, <2>1 DEF SocketTypes
  <2>5. Values'
    BY <1>1, <2>1, <2>2, <2>3 DEF Values, timerVars, userVars
  <2>. QED BY <2>2, <2>4, <2>5 DEF ActivityWatched
<1>15. CASE UNCHANGED vars
  BY <1>1, <1>15 DEF vars, SocketTypes, Values, ActivityWatched
<1>. QED BY <1>4, <1>5, <1>6, <1>7, <1>8, <1>9, <1>10, <1>11, <1>12, <1>13,
            <1>14, <1>15 DEF Next, Messages

LEMMA WatchStart == Init => WatchInv
<1> SUFFICES ASSUME Init PROVE WatchInv
  OBVIOUS
<1>1. Values /\ ActivityWatched
  <2>1. armed \in Nat /\ armed > 0 BY DEF Init
  <2>. QED BY <2>1 DEF Init, Values, ActivityWatched
<1>2. SocketTypes
  BY DEF Init, SocketTypes, SocketsOK, OneLive
<1>. QED BY <1>1, <1>2, TypeParts DEF WatchInv

\* Every variable keeps its type, and of all the sockets that connect() ever
\* made at most the current one is open or opening.
THEOREM TypeCorrect == Spec => []TypeOK
<1>1. WatchInv => TypeOK BY DEF WatchInv
<1>. QED BY <1>1, WatchStart, WatchStep, PTL DEF Spec

\* _checkActivity runs, or the next ledger the server announces starts it,
\* however connections and status changes alternate.
THEOREM AlwaysWatched == Spec => []ActivityWatched
<1>1. WatchInv => ActivityWatched BY DEF WatchInv
<1>. QED BY <1>1, WatchStart, WatchStep, PTL DEF Spec

-----------------------------------------------------------------------------
(* When a socket told to close delivers nothing more.                      *)

OrderlyInv == WatchInv /\ OnlineMeansOpen /\ NotStranded

\* Only the current socket delivers.
LEMMA CurrentDelivers ==
  ASSUME Late = FALSE, TypeOK, NEW i \in 1..ws, Delivers(i)
  PROVE  i = ws /\ sockets # <<>> /\ LastOf(sockets) = "open"
BY TypeParts DEF Delivers, SocketTypes, SocketsOK, OneLive, Live, LastOf, ws

\* Only those that wait for 'disconnect' reconnect, and only if it is emitted.
LEMMA WhoReconnects ==
  ASSUME Values, NEW w \in Nat
  PROVE  Reconnects(w) > 0 => online /\ w > 0
<1>1. CASE online = TRUE
  <2>1. Reconnects(w) = w BY <1>1 DEF Reconnects
  <2>. QED BY <1>1, <2>1
<1>2. CASE online = FALSE
  <2>1. Reconnects(w) = 0 BY <1>2 DEF Reconnects
  <2>. QED BY <2>1
<1>. QED BY <1>1, <1>2 DEF Values

\* disconnect(), and whoever waits for it, leave nothing open and nobody
\* stranded.
LEMMA DisconnectSafely ==
  ASSUME WatchInv, NEW w \in Nat, Disconnect(w)
  PROVE  /\ online' = FALSE /\ LastOf(sockets') \notin Live
         /\ should' => LastOf(sockets') = "aborted"
         /\ should' => (online /\ w > 0)
<1>1. Values /\ SocketsOK(sockets) BY TypeParts DEF WatchInv, SocketTypes
<1>2. online' = FALSE /\ Reconnects(w) \in Nat
  <2>1. SetOffline(w) BY DEF Disconnect
  <2>. QED BY <1>1, <2>1, OfflineIsWatched DEF WatchInv
<1>3. /\ sockets' = Closed(Connected(sockets, Reconnects(w)))
      /\ should' = (Reconnects(w) > 0)
  BY DEF Disconnect
<1>4. should' => (online /\ w > 0) BY <1>1, <1>3, WhoReconnects
<1> DEFINE r == Reconnects(w)
           d == Closed(Connected(sockets, r))
<1>5. LastOf(d) \notin Live /\ (r > 0 => LastOf(d) = "aborted")
  BY <1>1, <1>2, Replaced
<1>. QED BY ONLY <1>2, <1>3, <1>4, <1>5

\* So does connect(), which a server already online ignores.
LEMMA ConnectSafely ==
  ASSUME WatchInv, OnlineMeansOpen, Connect
  PROVE  \/ LastOf(sockets') = "connecting" /\ online = FALSE /\ should' = TRUE
         \/ sockets' = sockets /\ should' = should /\ LastOf(sockets) = "open"
<1>1. Values /\ SocketsOK(sockets) BY TypeParts DEF WatchInv, SocketTypes
<1>2. CASE online BY <1>2, LastIsLast DEF Connect, OnlineMeansOpen
<1>3. CASE ~online
  <2>1. sockets' = Connected(sockets, 1) /\ should' = TRUE BY <1>3 DEF Connect
  <2>2. LastOf(Connected(sockets, 1)) = "connecting" BY <1>1, Replaced
  <2>. QED BY <1>1, <1>3, <2>1, <2>2 DEF Values
<1>. QED BY <1>2, <1>3

\* A socket that is gone: the current one takes the server offline.
LEMMA GoneSafely ==
  ASSUME WatchInv, NEW i \in 1..ws, SocketGone(i)
  PROVE  \/ /\ online' = FALSE
            /\ should' => RetryLater
            /\ should' => (should \/ (online /\ waiting > 0))
            /\ waiting = 0 => LastOf(sockets') = "closed"
         \/ /\ LastOf(sockets') = LastOf(sockets)
            /\ UNCHANGED <<online, should, waiting, timerVars>>
<1>1. Values /\ SocketsOK(sockets) BY TypeParts DEF WatchInv, SocketTypes
<1> DEFINE gone == [sockets EXCEPT ![i] = "closed"]
<1>2. /\ SocketsOK(gone)
      /\ LastOf(gone) = IF i = ws THEN "closed" ELSE LastOf(sockets)
  <2>1. i \in 1..Len(sockets) /\ ("closed" \in Live => i = Len(sockets))
        /\ "closed" \in SocketStates
    BY DEF ws, Live, SocketStates
  <2>2. SocketsOK(sockets) BY <1>1
  <2>. QED BY ONLY <2>1, <2>2, Moved DEF ws
<1>3. CASE i = ws
  <2>1. /\ SetOffline(waiting)
        /\ sockets' = Connected(gone, Reconnects(waiting))
        /\ should' = (should \/ Reconnects(waiting) > 0)
        /\ should' => RetryLater
    BY <1>3 DEF SocketGone
  <2>. HIDE DEF gone
  <2>2. online' = FALSE /\ Reconnects(waiting) \in Nat
    BY <1>1, <2>1, OfflineIsWatched DEF WatchInv, Values
  <2>3. waiting = 0 => Reconnects(waiting) = 0 BY DEF Reconnects
  <2>4. waiting = 0 => sockets' = gone
    <3>1. Connected(gone, 0) = gone BY DEF Connected
    <3>. QED BY <2>1, <2>3, <3>1
  <2>5. should' => (should \/ (online /\ waiting > 0))
    <3>1. Reconnects(waiting) > 0 => online /\ waiting > 0
      BY <1>1, WhoReconnects DEF Values
    <3>. QED BY <2>1, <3>1
  <2>. QED BY <1>2, <1>3, <2>1, <2>2, <2>4, <2>5
<1>4. CASE i # ws
  BY <1>2, <1>4 DEF SocketGone
<1>. QED BY <1>3, <1>4

LEMMA OrderlyStep ==
  ASSUME Late = FALSE
  PROVE  OrderlyInv /\ [Next]_vars => OrderlyInv'
<1> SUFFICES ASSUME OrderlyInv, [Next]_vars PROVE OrderlyInv'
  OBVIOUS
<1>1. WatchInv /\ TypeOK /\ Values /\ OnlineMeansOpen /\ NotStranded
  BY TypeParts DEF OrderlyInv, WatchInv
<1>2. WatchInv' BY <1>1, WatchStep
<1>3. Last = LastOf(sockets) /\ Last' = LastOf(sockets')
  BY DEF Last, LastOf, ws
<1> DEFINE Safe == OnlineMeansOpen' /\ NotStranded'
<1>4. SUFFICES Safe BY <1>2 DEF OrderlyInv
<1>5. ASSUME NEW w \in Nat, Disconnect(w) PROVE Safe
  BY <1>1, <1>3, <1>5, DisconnectSafely DEF OnlineMeansOpen, NotStranded
<1>6. ASSUME Connect, UNCHANGED online PROVE Safe
  <2>1. \/ LastOf(sockets') = "connecting" /\ online = FALSE
        \/ LastOf(sockets') = "open"
    BY <1>1, <1>6, ConnectSafely
  <2>. QED BY <1>3, <1>6, <2>1 DEF OnlineMeansOpen, NotStranded
<1>7. CASE Call
  <2>1. UserConnect \/ UserForceReconnect => Connect /\ UNCHANGED online
    BY DEF UserConnect, UserForceReconnect
  <2>2. UserDisconnect => Disconnect(waiting) BY DEF UserDisconnect
  <2>3. UserReconnect => Disconnect(waiting + 1) BY DEF UserReconnect
  <2>4. waiting \in Nat /\ waiting + 1 \in Nat BY <1>1 DEF Values
  <2>. QED BY <1>5, <1>6, <1>7, <2>1, <2>2, <2>3, <2>4 DEF Call
<1>8. CASE TimerFires
  <2>1. CASE should
    <3>1. Connect /\ UNCHANGED online BY <1>8, <2>1 DEF TimerFires, RetryWanted
    <3>. QED BY <1>6, <3>1
  <2>2. CASE ~should
    <3>1. UNCHANGED <<sockets, should, online>>
      BY <1>8, <2>2 DEF TimerFires, RetryWanted
    <3>. QED BY <1>1, <1>3, <2>2, <3>1 DEF OnlineMeansOpen, NotStranded
  <2>. QED BY <2>1, <2>2
<1>9. CASE CheckActivity
  <2>1. /\ sockets' = Closed(Connected(sockets, waiting + 1)) /\ online' = FALSE
        /\ waiting + 1 \in Nat /\ waiting + 1 > 0
    BY <1>1, <1>9 DEF CheckActivity, Values
  <2>2. LastOf(sockets') = "aborted"
    BY <1>1, <2>1, TypeParts, Replaced DEF SocketTypes
  <2>. QED BY <1>3, <2>1, <2>2 DEF OnlineMeansOpen, NotStranded
<1>10. CASE BadScore
  <2>1. Disconnect(waiting + 1) /\ waiting + 1 \in Nat
    BY <1>1, <1>10 DEF BadScore, Values
  <2>. QED BY <1>5, <2>1
<1>11. CASE Opens
  <2>1. sockets' = [sockets EXCEPT ![ws] = "open"] /\ sockets # <<>>
    BY <1>11 DEF Opens, Last
  <2>2. ws = Len(sockets) /\ ws \in 1..Len(sockets) /\ SocketsOK(sockets)
    BY <1>1, <2>1, TypeParts DEF ws, SocketTypes, SocketsOK
  <2>3. LastOf(sockets') = "open" BY <2>1, <2>2, Moved DEF SocketStates
  <2>. QED BY <1>3, <2>3 DEF OnlineMeansOpen, NotStranded
<1>12. ASSUME NEW i \in 1..ws, SocketGone(i) PROVE Safe
  <2>1. CASE online' = FALSE /\ (should' => RetryLater)
    BY <2>1 DEF OnlineMeansOpen, NotStranded, RetryLater
  <2>2. CASE /\ LastOf(sockets') = LastOf(sockets)
             /\ UNCHANGED <<online, should, waiting, timerVars>>
    BY <1>1, <1>3, <2>2 DEF OnlineMeansOpen, NotStranded, timerVars
  <2>. QED BY <1>1, <1>12, <2>1, <2>2, GoneSafely
<1>13. ASSUME NEW i \in 1..ws, Delivers(i), UNCHANGED sockets PROVE Safe
  <2>1. LastOf(sockets') = "open" BY <1>1, <1>13, CurrentDelivers
  <2>. QED BY <1>3, <2>1 DEF OnlineMeansOpen, NotStranded
<1>14. ASSUME NEW i \in 1..ws, NEW up \in BOOLEAN, Subscribed(i, up) PROVE Safe
  BY <1>13, <1>14 DEF Subscribed
<1>15. ASSUME NEW i \in 1..ws, StatusOnline(i) PROVE Safe
  BY <1>13, <1>15 DEF StatusOnline
<1>16. ASSUME NEW i \in 1..ws, StatusOffline(i) PROVE Safe
  <2>1. /\ Delivers(i) /\ SetOffline(waiting)
        /\ sockets' = Connected(sockets, waiting) /\ waiting \in Nat
    BY <1>1, <1>16 DEF StatusOffline, Values
  <2>2. online' = FALSE BY <1>1, <2>1, OfflineIsWatched DEF WatchInv
  <2>3. LastOf(sockets) = "open" /\ SocketsOK(sockets)
    BY <1>1, <2>1, CurrentDelivers, TypeParts DEF SocketTypes
  <2>4. waiting = 0 \/ waiting > 0 BY <2>1
  <2>5. LastOf(sockets') \in {"open", "connecting"}
    BY <2>1, <2>3, <2>4, Replaced
  <2>. QED BY <1>3, <2>2, <2>5 DEF OnlineMeansOpen, NotStranded
<1>17. ASSUME NEW i \in 1..ws, LedgerClosed(i) PROVE Safe
  BY <1>13, <1>17 DEF LedgerClosed
<1>18. CASE Silence \/ UNCHANGED vars
  <2>1. UNCHANGED <<sockets, online, should, timer, strays>>
    BY <1>18 DEF Silence, vars, timerVars
  <2>. QED BY <1>1, <1>3, <2>1 DEF OnlineMeansOpen, NotStranded
<1>. QED BY <1>7, <1>8, <1>9, <1>10, <1>11, <1>12, <1>14, <1>15, <1>16, <1>17,
            <1>18 DEF Next, Messages

LEMMA OrderlyStart == Init => OrderlyInv
BY WatchStart DEF OrderlyInv, Init, OnlineMeansOpen, NotStranded

\* Where a socket told to close delivers nothing more, a server believed to be
\* connected has an open socket, whatever calls, losses and timers come when.
THEOREM OnlineIsOpen ==
  ASSUME Late = FALSE
  PROVE  Spec => []OnlineMeansOpen
<1>1. OrderlyInv => OnlineMeansOpen BY DEF OrderlyInv
<1>2. OrderlyInv /\ [Next]_vars => OrderlyInv' BY OrderlyStep
<1>. QED BY <1>1, <1>2, OrderlyStart, PTL DEF Spec

\* There, a server that should connect has a socket that is in use or whose end
\* will be noticed, or a timer that will connect it.
THEOREM NeverStranded ==
  ASSUME Late = FALSE
  PROVE  Spec => []NotStranded
<1>1. OrderlyInv => NotStranded BY DEF OrderlyInv
<1>2. OrderlyInv /\ [Next]_vars => OrderlyInv' BY OrderlyStep
<1>. QED BY <1>1, <1>2, OrderlyStart, PTL DEF Spec

-----------------------------------------------------------------------------
(* And as long as the application has not called reconnect().              *)

\* Nobody waits for 'disconnect', and a server told to disconnect neither has
\* nor makes a socket in use.
Quiet ==
  /\ waiting = 0
  /\ ~wanted => ~should /\ LastOf(sockets) \notin Live

DownInv == OrderlyInv /\ (~reconnected => Quiet)

\* A call of reconnect() is not forgotten.
LEMMA Remembered == [Next]_vars /\ ~reconnected' => ~reconnected /\ ~UserReconnect
<1> SUFFICES ASSUME [Next]_vars, ~reconnected' PROVE ~reconnected /\ ~UserReconnect
  OBVIOUS
<1>1. ~UserReconnect BY DEF UserReconnect
<1>2. ASSUME UNCHANGED userVars PROVE ~reconnected BY <1>2 DEF userVars
<1>3. CASE Call BY <1>1, <1>3 DEF Call
<1>4. CASE TimerFires \/ Silence \/ CheckActivity \/ BadScore \/ Opens
  BY <1>1, <1>2, <1>4 DEF TimerFires, Silence, CheckActivity, BadScore, Opens
<1>5. ASSUME NEW i \in 1..ws, SocketGone(i) PROVE ~reconnected
  BY <1>2, <1>5 DEF SocketGone
<1>6. CASE Messages
  BY <1>1, <1>2, <1>6 DEF Messages, Subscribed, StatusOnline, StatusOffline, LedgerClosed
<1>7. CASE UNCHANGED vars BY <1>1, <1>7 DEF vars
<1>. QED BY <1>1, <1>3, <1>4, <1>5, <1>6, <1>7 DEF Next

LEMMA DownStep ==
  ASSUME Late = FALSE
  PROVE  DownInv /\ [Next]_vars => DownInv'
<1> SUFFICES ASSUME DownInv, [Next]_vars PROVE DownInv'
  OBVIOUS
<1>. SUFFICES ASSUME ~reconnected' PROVE Quiet'
  <2>1. OrderlyInv' BY OrderlyStep DEF DownInv
  <2>. QED BY <2>1 DEF DownInv
<1>0. ~reconnected /\ ~UserReconnect BY Remembered
<1>1. /\ WatchInv /\ TypeOK /\ Values /\ OnlineMeansOpen /\ Quiet
      /\ waiting = 0 /\ Last = LastOf(sockets)
  BY <1>0, TypeParts, LastIsLast DEF DownInv, OrderlyInv, WatchInv, Quiet
<1>3. online => wanted
  BY <1>1 DEF Quiet, OnlineMeansOpen, Live
<1>4. SetOffline(0) => waiting' = 0 BY DEF SetOffline
<1>5. SetOffline(1) /\ online => waiting' = 0 BY DEF SetOffline
<1>6. CASE Call
  <2>1. CASE UserConnect \/ UserForceReconnect
    BY <1>1, <2>1 DEF UserConnect, UserForceReconnect, Quiet
  <2>2. CASE UserDisconnect
    <3>1. Disconnect(0) /\ wanted' = FALSE BY <1>1, <2>2 DEF UserDisconnect
    <3>2. /\ LastOf(sockets') \notin Live
          /\ should' => (online /\ 0 > 0)
      BY <1>1, <3>1, DisconnectSafely
    <3>3. should' \in BOOLEAN
      BY <1>1, <3>1 DEF Disconnect
    <3>. QED BY <1>4, <3>1, <3>2, <3>3 DEF Quiet, Disconnect
  <2>. QED BY <1>0, <1>6, <2>1, <2>2 DEF Call
<1>7. CASE TimerFires
  <2>1. /\ UNCHANGED <<waiting, wanted>>
        /\ \/ should /\ Connect
           \/ ~should /\ UNCHANGED <<sockets, should>>
    BY <1>7 DEF TimerFires, RetryWanted, userVars
  <2>. QED BY <1>1, <2>1 DEF Quiet
<1>8. CASE CheckActivity
  BY <1>3, <1>8 DEF CheckActivity, Quiet, userVars
<1>9. CASE BadScore
  <2>1. Disconnect(0 + 1) /\ UNCHANGED wanted /\ online
    BY <1>1, <1>9 DEF BadScore, userVars
  <2>2. 0 + 1 = 1 OBVIOUS
  <2>. QED BY <1>3, <1>5, <2>1, <2>2 DEF Quiet, Disconnect
<1>10. CASE Opens
  <2>1. UNCHANGED <<waiting, wanted, should>> /\ Last = "connecting"
    BY <1>10 DEF Opens, userVars
  <2>. QED BY <1>1, <2>1 DEF Quiet, Live
<1>11. ASSUME NEW i \in 1..ws, SocketGone(i) PROVE Quiet'
  <2>1. UNCHANGED wanted BY <1>11 DEF SocketGone, userVars
  <2>2. CASE /\ should' => (should \/ (online /\ waiting > 0))
             /\ waiting = 0 => LastOf(sockets') = "closed"
    <3>1. should' => should BY <1>1, <2>2
    <3>2. waiting' = 0
      BY <1>1, <1>4, <1>11 DEF SocketGone
    <3>. QED BY <1>1, <2>1, <2>2, <3>1, <3>2 DEF Quiet, Live
  <2>3. CASE /\ LastOf(sockets') = LastOf(sockets)
             /\ UNCHANGED <<online, should, waiting, timerVars>>
    BY <1>1, <2>1, <2>3 DEF Quiet
  <2>. QED BY <1>1, <1>11, <2>2, <2>3, GoneSafely
<1>12. ASSUME NEW i \in 1..ws, Delivers(i), UNCHANGED wanted,
              waiting' = 0 PROVE Quiet'
  <2>1. LastOf(sockets) = "open" BY <1>1, <1>12, CurrentDelivers
  <2>2. wanted BY <1>1, <2>1 DEF Quiet, Live
  <2>. QED BY <1>12, <2>2 DEF Quiet
<1>13. ASSUME NEW i \in 1..ws, NEW up \in BOOLEAN, Subscribed(i, up) PROVE Quiet'
  BY <1>1, <1>12, <1>13 DEF Subscribed, userVars
<1>14. ASSUME NEW i \in 1..ws, StatusOnline(i) PROVE Quiet'
  BY <1>1, <1>12, <1>14 DEF StatusOnline, userVars
<1>15. ASSUME NEW i \in 1..ws, StatusOffline(i) PROVE Quiet'
  BY <1>1, <1>4, <1>12, <1>15 DEF StatusOffline, userVars
<1>16. ASSUME NEW i \in 1..ws, LedgerClosed(i) PROVE Quiet'
  BY <1>1, <1>12, <1>16 DEF LedgerClosed, userVars
<1>17. CASE Silence \/ UNCHANGED vars
  BY <1>1, <1>17 DEF Silence, vars, userVars, Quiet
<1>. QED BY <1>6, <1>7, <1>8, <1>9, <1>10, <1>11, <1>13, <1>14, <1>15, <1>16,
            <1>17 DEF Next, Messages

\* There, and as long as the application has not called reconnect(), a server
\* told to disconnect stays so, whatever timers are left running.
THEOREM ToldToStaysDown ==
  ASSUME Late = FALSE
  PROVE  Spec => []StaysDown
<1>1. DownInv => StaysDown BY DEF DownInv, Quiet, StaysDown
<1>2. DownInv /\ [Next]_vars => DownInv' BY DownStep
<1>3. Init => DownInv
  BY OrderlyStart DEF DownInv, Quiet, Init, LastOf, Live
<1>. QED BY <1>1, <1>2, <1>3, PTL DEF Spec
=============================================================================
