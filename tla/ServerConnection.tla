--------------------------- MODULE ServerConnection ---------------------------
(* One server's connection: Server's sockets, its retry timers and its        *)
(* activity intervals, from the calls of the application to what the remote   *)
(* sees (`connect' and `disconnect').                                         *)
(*                                                                            *)
(* Every connect() makes a socket and tells the one before to close; the last *)
(* one made is server._ws.  A socket told to close is gone only when its      *)
(* `close' event has run, and until then its messages are still handled:      *)
(* onmessage, unlike the other handlers, does not ask whether the socket is   *)
(* the current one.                                                           *)
EXTENDS Naturals, Sequences

CONSTANTS
  UserCalls,  \* which of the public methods the application calls
  Late,       \* a socket told to close may still deliver messages
  MaxCalls,   \* bound: calls of the application
  MaxFaults   \* bound: sockets lost, reconnections for bad score or silence,
              \* and status changes to offline

AllCalls == {"connect", "disconnect", "forceReconnect", "reconnect"}

ASSUME ServerAssumption ==
  /\ UserCalls \subseteq AllCalls /\ Late \in BOOLEAN
  /\ MaxCalls \in Nat /\ MaxFaults \in Nat

VARIABLES
  sockets,    \* every socket made, in order; the last is _ws
  asked,      \* sockets whose subscribe request is not answered
  online,     \* _connected, _state = 'online'
  should,     \* _shouldConnect
  waiting,    \* once('disconnect', connect) listeners reconnect() left
  timer,      \* the timer in _retryTimer is running
  strays,     \* retry timers running that _retryTimer no longer holds
  interval,   \* the interval in _activityInterval is running
  leaked,     \* intervals running that _activityInterval no longer holds
  armed,      \* once('ledger_closed', setActivityInterval) listeners
  lastClose,  \* _lastLedgerClose: NaN, within a minute, or older
  wanted,     \* the last call of the application asked for a connection
  reconnected, \* the application has called reconnect() (history)
  calls, faults \* bound counters

vars == <<sockets, asked, online, should, waiting, timer, strays, interval,
          leaked, armed, lastClose, wanted, reconnected, calls, faults>>

watchVars == <<interval, leaked, armed, lastClose>>
timerVars == <<timer, strays>>
userVars  == <<wanted, reconnected, calls>>

\* A socket told to close while connecting never opens.
SocketStates == {"connecting", "open", "closing", "aborted", "closed"}

ws   == Len(sockets)
Last == IF sockets = <<>> THEN "none" ELSE sockets[ws]

\* Values of the variables; of all the sockets ever made only the current one
\* may be open or opening.
TypeOK ==
  /\ sockets \in Seq(SocketStates) /\ asked \subseteq 1..ws
  /\ \A i \in 1..ws : sockets[i] \in {"connecting", "open"} => i = ws
  /\ online \in BOOLEAN /\ should \in BOOLEAN /\ waiting \in Nat
  /\ timer \in BOOLEAN /\ strays \in Nat
  /\ interval \in BOOLEAN /\ leaked \in Nat /\ armed \in Nat
  /\ lastClose \in {"NaN", "recent", "old"}
  /\ wanted \in BOOLEAN /\ reconnected \in BOOLEAN
  /\ calls \in Nat /\ faults \in Nat

Init ==
  /\ sockets = <<>> /\ asked = {} /\ online = FALSE /\ should = FALSE
  /\ waiting = 0 /\ timer = FALSE /\ strays = 0
  /\ interval = FALSE /\ leaked = 0 /\ armed = 1 /\ lastClose = "NaN"
  /\ wanted = FALSE /\ reconnected = FALSE /\ calls = 0 /\ faults = 0

-----------------------------------------------------------------------------
(* Sockets.                                                                *)

ToldToClose(state) ==
  CASE state = "open" -> "closing"
    [] state = "connecting" -> "aborted"
    [] OTHER -> state

\* ws.close().
Closed(socks) ==
  [i \in 1..Len(socks) |->
     IF i = Len(socks) THEN ToldToClose(socks[i]) ELSE socks[i]]

\* Slip: the socket in use is forgotten, not closed.
ReplacedUnclosed(socks, n) ==
  socks \o [i \in 1..n |-> IF i = n THEN "connecting" ELSE "aborted"]

\* n calls of connect(), one after the other, while not online.
Connected(socks, n) ==
  IF n = 0 THEN socks
  ELSE Closed(socks) \o [i \in 1..n |-> IF i = n THEN "connecting" ELSE "aborted"]

\* Slip: the interval is cleared for good.
OfflineUnwatched(w) ==
  IF online
  THEN /\ online' = FALSE /\ waiting' = 0 /\ interval' = FALSE
       /\ UNCHANGED <<armed, leaked, lastClose>>
  ELSE waiting' = w /\ UNCHANGED <<online, interval, armed, leaked, lastClose>>

\* Slip: closing does not change the state.
StillOnline(w) ==
  waiting' = w /\ UNCHANGED <<online, interval, armed, leaked, lastClose>>

\* _setState('offline'): if it was online, 'disconnect' is emitted.  The
\* interval is cleared and one more listener will set it again; the w
\* reconnect() calls that wait for the event call connect().
SetOffline(w) ==
  IF online
  THEN /\ online' = FALSE /\ waiting' = 0
       /\ interval' = FALSE /\ armed' = armed + 1
       /\ UNCHANGED <<leaked, lastClose>>
  ELSE waiting' = w /\ UNCHANGED <<online, interval, armed, leaked, lastClose>>

\* How many of them do.
Reconnects(w) == IF online THEN w ELSE 0

\* Slip: nothing is retried.
NoRetry == UNCHANGED timerVars

\* _retryConnect.
RetryLater == timer' = TRUE /\ strays' = strays + IF timer THEN 1 ELSE 0

-----------------------------------------------------------------------------
(* Calls.                                                                  *)

\* connect(), unless online.
Connect ==
  IF online THEN UNCHANGED <<sockets, should>>
            ELSE sockets' = Connected(sockets, 1) /\ should' = TRUE

\* disconnect(), with w reconnect() calls waiting: the socket closed is the
\* one in use after 'disconnect' was handled.
Disconnect(w) ==
  /\ SetOffline(w)
  /\ should' = (Reconnects(w) > 0)
  /\ sockets' = Closed(Connected(sockets, Reconnects(w)))

UserConnect ==
  /\ "connect" \in UserCalls
  /\ wanted' = TRUE /\ Connect
  /\ UNCHANGED <<asked, online, waiting, timerVars, watchVars>>

UserDisconnect ==
  /\ "disconnect" \in UserCalls
  /\ wanted' = FALSE /\ Disconnect(waiting)
  /\ UNCHANGED <<asked, timerVars>>

\* forceReconnect(): clears the timer it knows.
UserForceReconnect ==
  /\ "forceReconnect" \in UserCalls
  /\ wanted' = TRUE /\ timer' = FALSE /\ Connect
  /\ UNCHANGED <<asked, online, waiting, strays, watchVars>>

\* reconnect(): does nothing before the first connect().
UserReconnect ==
  /\ "reconnect" \in UserCalls /\ sockets # <<>>
  /\ wanted' = TRUE /\ reconnected' = TRUE /\ Disconnect(waiting + 1)
  /\ UNCHANGED <<asked, timerVars>>

Call ==
  /\ calls < MaxCalls /\ calls' = calls + 1 /\ UNCHANGED faults
  /\ \/ (UserConnect \/ UserDisconnect \/ UserForceReconnect)
          /\ UNCHANGED reconnected
     \/ UserReconnect

-----------------------------------------------------------------------------
(* Timers.                                                                 *)

\* Slip: the retry does not ask whether it is still wanted.
Retries == TRUE

\* connectionRetry: connect only if still wanted.
RetryWanted == should

TimerFires ==
  /\ \/ timer /\ timer' = FALSE /\ UNCHANGED strays
     \/ strays > 0 /\ strays' = strays - 1 /\ UNCHANGED timer
  /\ IF RetryWanted THEN Connect ELSE UNCHANGED <<sockets, should>>
  /\ UNCHANGED <<asked, online, waiting, watchVars, userVars, faults>>

\* A minute passes without a ledger.
Silence ==
  /\ lastClose = "recent" /\ lastClose' = "old"
  /\ UNCHANGED <<sockets, asked, online, should, waiting, timerVars, interval,
                 leaked, armed, userVars, faults>>

\* _checkActivity: the server is online and was silent for a minute.
CheckActivity ==
  /\ interval \/ leaked > 0
  /\ online /\ lastClose = "old"
  /\ faults < MaxFaults /\ faults' = faults + 1
  /\ lastClose' = "NaN"
  /\ online' = FALSE /\ interval' = FALSE /\ armed' = armed + 1
  /\ waiting' = 0 /\ should' = TRUE
  /\ sockets' = Closed(Connected(sockets, waiting + 1))
  /\ UNCHANGED <<asked, timerVars, leaked, userVars>>

\* _updateScore, on a remote event, finds the score over the limit.
BadScore ==
  /\ online
  /\ faults < MaxFaults /\ faults' = faults + 1
  /\ Disconnect(waiting + 1)
  /\ UNCHANGED <<asked, timerVars, userVars>>

-----------------------------------------------------------------------------
(* Sockets' events.                                                        *)

\* onOpen: subscribe.
Opens ==
  /\ Last = "connecting"
  /\ sockets' = [sockets EXCEPT ![ws] = "open"]
  /\ asked' = asked \cup {ws}
  /\ UNCHANGED <<online, should, waiting, timerVars, watchVars, userVars,
                 faults>>

\* onClose, onError: a socket told to close is gone, or one is lost.  The
\* current one takes the server offline and is retried.
SocketGone(i) ==
  /\ sockets[i] # "closed"
  /\ IF sockets[i] \in {"closing", "aborted"}
     THEN UNCHANGED faults
     ELSE faults < MaxFaults /\ faults' = faults + 1
  /\ asked' = asked \ {i}
  /\ LET gone == [sockets EXCEPT ![i] = "closed"] IN
     IF i = ws
     THEN /\ SetOffline(waiting)
          /\ sockets' = Connected(gone, Reconnects(waiting))
          /\ should' = (should \/ Reconnects(waiting) > 0)
          /\ IF should' THEN RetryLater ELSE UNCHANGED timerVars
     ELSE /\ sockets' = gone
          /\ UNCHANGED <<online, should, waiting, timerVars, watchVars>>
  /\ UNCHANGED userVars

\* Socket i delivers a message.
Delivers(i) == sockets[i] = "open" \/ (Late /\ sockets[i] = "closing")

\* The subscribe request is answered; the server can serve (up) or not.
Subscribed(i, up) ==
  /\ Delivers(i) /\ i \in asked
  /\ asked' = asked \ {i}
  /\ online' = (online \/ up)
  /\ UNCHANGED <<sockets, should, waiting, timerVars, watchVars, userVars,
                 faults>>

\* serverStatus: the server can serve again,
StatusOnline(i) ==
  /\ Delivers(i) /\ i \notin asked /\ ~online
  /\ online' = TRUE
  /\ UNCHANGED <<sockets, asked, should, waiting, timerVars, watchVars,
                 userVars, faults>>

\* or no longer: the socket stays open, unless a reconnect() was waiting.
StatusOffline(i) ==
  /\ Delivers(i) /\ i \notin asked /\ online
  /\ faults < MaxFaults /\ faults' = faults + 1
  /\ SetOffline(waiting)
  /\ sockets' = Connected(sockets, waiting)
  /\ should' = (should \/ waiting > 0)
  /\ UNCHANGED <<asked, timerVars, userVars>>

\* ledgerClosed: every listener that waits for it sets an interval.
LedgerClosed(i) ==
  /\ Delivers(i) /\ i \notin asked
  /\ lastClose' = "recent" /\ armed' = 0
  /\ interval' = (interval \/ armed > 0)
  /\ leaked' = leaked + IF armed = 0 THEN 0
                        ELSE armed - 1 + IF interval THEN 1 ELSE 0
  /\ UNCHANGED <<sockets, asked, online, should, waiting, timerVars, userVars,
                 faults>>

-----------------------------------------------------------------------------

Messages ==
  \E i \in 1..ws :
    \/ \E up \in BOOLEAN : Subscribed(i, up)
    \/ StatusOnline(i) \/ StatusOffline(i) \/ LedgerClosed(i)

Next == \/ Call \/ TimerFires \/ Silence \/ CheckActivity \/ BadScore \/ Opens
        \/ \E i \in 1..ws : SocketGone(i)
        \/ Messages

Spec == Init /\ [][Next]_vars

(* Timers and intervals fire.  The server and the network between faults:    *)
(* a socket opens, one told to close goes, the server answers and becomes    *)
(* able to serve.                                                            *)
Fairness ==
  /\ WF_vars(TimerFires) /\ WF_vars(CheckActivity)
  /\ WF_vars(Opens)
  /\ WF_vars(\E i \in 1..ws : sockets[i] \in {"closing", "aborted"} /\ SocketGone(i))
  /\ WF_vars(\E i \in 1..ws, up \in BOOLEAN : Subscribed(i, up))
  /\ WF_vars(\E i \in 1..ws : sockets[i] = "open" /\ StatusOnline(i))

FairSpec == Spec /\ Fairness

-----------------------------------------------------------------------------
(* Properties.                                                             *)

\* connect(): "This means we have recently received a message from the server
\* and the WebSocket has not reported any issues either."  A server believed
\* connected has an open socket.
OnlineMeansOpen == online => Last = "open"

\* However forced, automatic and waiting reconnections mix with closing
\* sockets: a server that should connect has a socket that is in use or whose
\* end will be noticed, or a timer that will connect it.
NotStranded ==
  should => Last \in {"connecting", "open", "closing", "aborted"}
              \/ timer \/ strays > 0

\* However connections and status changes alternate, an interval checks the
\* server's activity or the next ledger it announces will start one.
ActivityWatched == interval \/ armed > 0

\* As long as the application has not called reconnect(): a server it told to
\* disconnect does not connect by itself, whatever timers were left.
StaysDown == ~reconnected /\ ~wanted => ~should

\* "Automatically retry connections" (connect): a server wanted by the
\* application, which does not use reconnect(), is online in the end.
OnlineInTheEnd == wanted ~> (online /\ Last = "open") \/ ~wanted \/ reconnected

\* "Reconnect to rippled WebSocket server" (reconnect): the same of every call.
ReconnectsInTheEnd == wanted ~> (online /\ Last = "open") \/ ~wanted
=============================================================================
