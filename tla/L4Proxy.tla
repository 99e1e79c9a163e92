-------------------------------- MODULE L4Proxy ------------------------------
(***************************************************************************)
(* src/Proxy/src/L4: one client of the layer-4 proxy, its RemoteClient,    *)
(* TcpClient and Connector, and the backend connections that come of them, *)
(* all on one loop (src/Proxy/test/L4/main.cc sets no threads).  What the  *)
(* client sends are the units 1, 2, ... and what a backend sends on its    *)
(* k-th connection <<k, 1>>, <<k, 2>>, ...                                 *)
(*                                                                         *)
(* The connections are TcpConnections: the units handed to one come out in *)
(* order, and its end after them (TcpServer.tla).  An iteration of the     *)
(* loop is Poll, the handlers of what was ready in any order, and the      *)
(* functors queued by then.                                                *)
(***************************************************************************)
EXTENDS Connector

CONSTANTS MaxUp, MaxDown,   \* bounds: units of the client, of a backend
          MaxConns          \* bound: connections to backends

(* RemoteClient enables retry; a TcpClient sets no error callback.         *)
ASSUME L4Assumption ==
  /\ Retrying = TRUE /\ Reporting = FALSE
  /\ MaxUp \in Nat /\ MaxDown \in Nat /\ MaxConns \in Nat

VARIABLES
  ready,         \* what epoll reported and is not handled yet
  todo,          \* functors doPendingFunctors has taken and not run
  polling,       \* the loop is in Poll
  client,        \* the client's connection in the server
  cIn,           \* units on the way from the client
  cEnd,          \* the client has closed its side
  sent, cGot,    \* history: units the client sent; what it was sent
  tcConnect,     \* TcpClient's connect_
  restartTimers, \* timers that will call startInLoop()
  conn,          \* conn_: [fd, state], None when null
  closing,       \* backend connection that is closed and not destroyed
  bIn, bSent,    \* units on the way from the backend; how many it sent
  bEnd,          \* the backend has closed its side
  bFin,          \* the proxy has closed its side towards the backend
  conns,         \* history: connections so far
  pending,       \* pendingBuffer_
  passed,        \* history: units handed to backends
  gaveUp         \* history: connect() failed in a way that is not retried

loopVars == <<ready, todo, polling>>
clientVars == <<client, cIn, cEnd, sent, cGot>>
backendVars == <<conn, closing, bIn, bSent, bEnd, bFin, conns>>
otherVars == <<tcConnect, restartTimers, pending, passed, gaveUp>>
vars == <<connectorVars, loopVars, clientVars, backendVars, otherVars>>

Sources == {"client", "backend", "connector", "timer"}
States == {"kConnected", "kDisconnecting"}
NoConn == [fd |-> None, state |-> "none"]

TypeOK ==
  /\ ConnectorTypeOK
  /\ ready \subseteq Sources /\ todo \in 0..Len(queue) /\ polling \in BOOLEAN
  /\ client \in States \cup {"new", "kDisconnected", "destroyed"}
  /\ cEnd \in BOOLEAN /\ bEnd \in BOOLEAN /\ bFin \in BOOLEAN
  /\ sent \in 0..MaxUp /\ conns \in 0..MaxConns
  /\ tcConnect \in BOOLEAN /\ restartTimers \in 0..1 /\ retryTimers \in 0..1
  /\ conn \in [fd : fds, state : States] \cup {NoConn}
  /\ closing \in fds \cup {None}

Init ==
  /\ ConnectorInit
  /\ ready = {} /\ todo = 0 /\ polling = TRUE
  /\ client = "new" /\ cIn = <<>> /\ cEnd = FALSE
  /\ sent = 0 /\ cGot = <<>>
  /\ conn = NoConn /\ closing = None /\ bIn = <<>> /\ bSent = 0 /\ bEnd = FALSE /\ bFin = FALSE
  /\ conns = 0
  /\ tcConnect = FALSE /\ restartTimers = 0 /\ pending = <<>> /\ passed = <<>>
  /\ gaveUp = FALSE

-----------------------------------------------------------------------------
(* The peers.                                                              *)

ClientSends ==
  /\ client \in States /\ ~cEnd /\ sent < MaxUp
  /\ sent' = sent + 1 /\ cIn' = Append(cIn, sent + 1)
  /\ UNCHANGED <<connectorVars, loopVars, client, cEnd, cGot, backendVars, otherVars>>

ClientEnds ==
  /\ client \in States /\ ~cEnd /\ cEnd' = TRUE
  /\ UNCHANGED <<connectorVars, loopVars, client, cIn, sent, cGot, backendVars, otherVars>>

BackendSends ==
  /\ conn # NoConn /\ ~bEnd /\ bSent < MaxDown
  /\ bSent' = bSent + 1 /\ bIn' = Append(bIn, <<conns, bSent + 1>>)
  /\ UNCHANGED <<connectorVars, loopVars, clientVars, conn, closing, bEnd, bFin,
                 conns, otherVars>>

BackendEnds ==
  /\ conn # NoConn /\ ~bEnd /\ bEnd' = TRUE
  /\ UNCHANGED <<connectorVars, loopVars, clientVars, conn, closing, bIn,
                 bSent, bFin, conns, otherVars>>

-----------------------------------------------------------------------------
(* The loop.                                                               *)

Pollable ==
  {s \in Sources :
     CASE s = "client" -> client \in States /\ (cIn # <<>> \/ cEnd)
       [] s = "backend" -> conn # NoConn /\ (bIn # <<>> \/ bEnd)
       [] s = "connector" -> channel # None /\ state = "kConnecting"
       [] s = "timer" -> retryTimers + restartTimers > 0}

(* Data and ends are reported as soon as they are there; the connector and *)
(* the timers when they please.                                            *)
Poll ==
  /\ polling /\ polling' = FALSE
  /\ ready' \in {Pollable \ S : S \in SUBSET {"connector", "timer"}}
  /\ ready' # {} \/ queue # <<>>
  /\ UNCHANGED <<connectorVars, todo, clientVars, backendVars, otherVars>>

SwapFunctors ==
  /\ ~polling /\ ready = {} /\ todo = 0
  /\ todo' = Len(queue) /\ polling' = (queue = <<>>)
  /\ UNCHANGED <<connectorVars, ready, clientVars, backendVars, otherVars>>

Handling(s) == s \in ready /\ ready' = ready \ {s} /\ UNCHANGED <<todo, polling>>

Calling(f) == /\ todo > 0 /\ Head(queue)[1] = f
              /\ todo' = todo - 1 /\ polling' = (todo = 1)
              /\ UNCHANGED ready

-----------------------------------------------------------------------------
(* The client's side: LB_Server.                                           *)

(* start() on the loop: an attempt, a failure that is retried, or one of   *)
(* which nobody hears.                                                     *)
StartNow(t) ==
  /\ Start(queue, t)
  /\ gaveUp' = (gaveUp \/ (state' # "kConnecting" /\ retryTimers' = t))

(* onConnection of a new client, for which the selector has a backend. *)
ClientUp ==
  /\ client = "new" /\ client' = "kConnected"
  /\ tcConnect' = TRUE
  /\ StartNow(retryTimers)
  /\ UNCHANGED <<loopVars, cIn, cEnd, sent, cGot, backendVars, restartTimers,
                 pending, passed>>

(* TcpClient::send: conn_ takes the units, or the answer is false and they *)
(* are put off.  conn_ is shut down only after the client's end, so it     *)
(* takes what it is given.                                                 *)
Sent(units) == conn # NoConn /\ passed' = passed \o units /\ UNCHANGED pending
PutOff(units) == conn = NoConn /\ pending' = pending \o units /\ UNCHANGED passed

(* onMessage and sendToBackend. *)
ClientData ==
  /\ Handling("client") /\ cIn # <<>>
  /\ cIn' = <<>>
  /\ Sent(cIn) \/ PutOff(cIn)
  /\ UNCHANGED <<connectorVars, client, cEnd, sent, cGot, backendVars, tcConnect,
                 restartTimers, gaveUp>>

Shut(c) == IF c.state = "kConnected" THEN [c EXCEPT !.state = "kDisconnecting"] ELSE c

(* Mutant: the backend connection is left to itself. *)
ClientDownNotStopping ==
  /\ Handling("client") /\ cIn = <<>>
  /\ client' = "kDisconnected"
  /\ queue' = Append(queue, <<"destroy", "client">>)
  /\ UNCHANGED <<state, connect, channel, fds, retryTimers, cIn, cEnd, sent,
                 cGot, backendVars, otherVars>>

(* TcpClient::stop and the first half of Connector::stop. *)
StopClient ==
  /\ tcConnect' = FALSE /\ connect' = FALSE
  /\ conn' = Shut(conn) /\ bFin' = (conn # NoConn)

(* handleClose: onConnection calls RemoteClient::stop, which queues        *)
(* stopInLoop; TcpServer::removeConnection queues connectDestroyed.        *)
ClientDown ==
  /\ Handling("client") /\ cIn = <<>>
  /\ client' = "kDisconnected"
  /\ StopClient
  /\ queue' = queue \o << <<"stopInLoop">>, <<"destroy", "client">> >>
  /\ UNCHANGED <<state, channel, fds, retryTimers, cIn, cEnd, sent, cGot,
                 closing, bIn, bSent, bEnd, conns, restartTimers, pending, passed,
                 gaveUp>>

(* The last reference to a TcpClient goes with the RemoteClient or with    *)
(* the backend connection's closeCallback, and with it the connector: its  *)
(* timers find nobody, its channel goes, the channel's descriptor stays.   *)
FreeConnector == channel' = None /\ retryTimers' = 0 /\ restartTimers' = 0

(* The client's connection is destroyed, and the RemoteClient with it. *)
DestroyClient ==
  /\ Calling("destroy") /\ Head(queue)[2] = "client"
  /\ client' = "destroyed" /\ queue' = Tail(queue)
  /\ IF conn = NoConn /\ closing = None THEN FreeConnector
     ELSE UNCHANGED <<channel, retryTimers, restartTimers>>
  /\ UNCHANGED <<state, connect, fds, cIn, cEnd, sent, cGot, backendVars,
                 tcConnect, pending, passed, gaveUp>>

-----------------------------------------------------------------------------
(* The connector: its channel, its timers and its functor.                 *)

HandleError ==
  /\ Handling("connector") /\ state = "kConnecting"
  /\ Retry(channel, "ECONNREFUSED", connect, queue, retryTimers)
  /\ UNCHANGED connect
  /\ UNCHANGED <<clientVars, backendVars, otherVars>>

HandleWriteUnwanted ==
  /\ Handling("connector") /\ state = "kConnecting" /\ ~connect
  /\ ConnectedUnwanted
  /\ UNCHANGED <<clientVars, backendVars, otherVars>>

(* Mutant: what was put off is not sent. *)
ConnectNotFlushing ==
  /\ Handling("connector") /\ state = "kConnecting" /\ connect /\ conns < MaxConns
  /\ Connected
  /\ conn' = [fd |-> channel, state |-> "kConnected"]
  /\ conns' = conns + 1 /\ bIn' = <<>> /\ bSent' = 0 /\ bEnd' = FALSE /\ bFin' = FALSE
  /\ UNCHANGED <<fds, queue, clientVars, closing, otherVars>>

(* RemoteClient's onConnection, up. *)
Flush == passed' = passed \o pending /\ pending' = <<>>

(* TcpClient::newConnection: connectEstablished calls onConnection, and    *)
(* conn_ is set.                                                           *)
HandleWriteConnects ==
  /\ Handling("connector") /\ state = "kConnecting" /\ connect /\ conns < MaxConns
  /\ Connected
  /\ conn' = [fd |-> channel, state |-> "kConnected"]
  /\ Flush
  /\ conns' = conns + 1 /\ bIn' = <<>> /\ bSent' = 0 /\ bEnd' = FALSE /\ bFin' = FALSE
  /\ UNCHANGED <<fds, queue, clientVars, closing, tcConnect, restartTimers, gaveUp>>

(* retry's timer calls start(), which wants the connection again. *)
RetryTimer ==
  /\ Handling("timer") /\ retryTimers > 0
  /\ StartNow(retryTimers - 1)
  /\ UNCHANGED <<clientVars, backendVars, tcConnect, restartTimers, pending, passed>>

(* restart's timer calls startInLoop(). *)
RestartTimer ==
  /\ Handling("timer") /\ restartTimers > 0
  /\ restartTimers' = restartTimers - 1
  /\ IF connect THEN StartNow(retryTimers) ELSE UNCHANGED <<connectorVars, gaveUp>>
  /\ UNCHANGED <<clientVars, backendVars, tcConnect, pending, passed>>

RunStopInLoop ==
  /\ Calling("stopInLoop") /\ StopInLoop(Tail(queue))
  /\ UNCHANGED <<clientVars, backendVars, otherVars>>

-----------------------------------------------------------------------------
(* The backend's side: RemoteClient.                                       *)

(* onMessage; a client that was shut down takes nothing any more, and for  *)
(* one that is destroyed the connection is shut down.                      *)
BackendData ==
  /\ Handling("backend") /\ bIn # <<>>
  /\ bIn' = <<>>
  /\ cGot' = IF client = "kConnected" THEN cGot \o bIn ELSE cGot
  /\ IF client = "destroyed" THEN conn' = Shut(conn) /\ bFin' = TRUE
                             ELSE UNCHANGED <<conn, bFin>>
  /\ UNCHANGED <<connectorVars, client, cIn, cEnd, sent, closing, bSent, bEnd,
                 conns, otherVars>>

(* Mutant: the connection is forgotten and none is made instead. *)
BackendDownNotRestarting ==
  /\ Handling("backend") /\ bIn = <<>>
  /\ client' = IF client = "kConnected" THEN "kDisconnecting" ELSE client
  /\ conn' = NoConn /\ closing' = conn.fd
  /\ queue' = Append(queue, <<"destroy", "backend">>)
  /\ UNCHANGED <<state, connect, channel, fds, retryTimers, cIn, cEnd, sent, cGot,
                 bIn, bSent, bEnd, bFin, conns, otherVars>>

(* Mutant: the client is not told. *)
BackendDownSilently ==
  /\ Handling("backend") /\ bIn = <<>>
  /\ conn' = NoConn /\ closing' = conn.fd
  /\ queue' = Append(queue, <<"destroy", "backend">>)
  /\ IF tcConnect
       THEN state' = "kDisconnected" /\ connect' = TRUE /\ restartTimers' = restartTimers + 1
       ELSE UNCHANGED <<state, connect, restartTimers>>
  /\ UNCHANGED <<channel, fds, retryTimers, clientVars, bIn, bSent, bEnd, bFin,
                 conns, tcConnect, pending, passed, gaveUp>>

(* TcpClient::removeConnection: conn_ is reset and, unless the client has  *)
(* gone, the connector restarted.                                          *)
RemoveConnection ==
  /\ conn' = NoConn /\ closing' = conn.fd
  /\ queue' = Append(queue, <<"destroy", "backend">>)
  /\ IF tcConnect
       THEN state' = "kDisconnected" /\ connect' = TRUE /\ restartTimers' = restartTimers + 1
       ELSE UNCHANGED <<state, connect, restartTimers>>

(* handleClose: onConnection shuts the client down.                        *)
BackendDown ==
  /\ Handling("backend") /\ bIn = <<>>
  /\ client' = IF client = "kConnected" THEN "kDisconnecting" ELSE client
  /\ RemoveConnection
  /\ UNCHANGED <<channel, fds, retryTimers, cIn, cEnd, sent, cGot, bIn, bSent, bEnd,
                 bFin, conns, tcConnect, pending, passed, gaveUp>>

(* The closed backend connection is destroyed. *)
DestroyBackend ==
  /\ Calling("destroy") /\ Head(queue)[2] = "backend"
  /\ closing' = None /\ fds' = fds \ {closing} /\ queue' = Tail(queue)
  /\ IF client = "destroyed" THEN FreeConnector
     ELSE UNCHANGED <<channel, retryTimers, restartTimers>>
  /\ UNCHANGED <<state, connect, clientVars, conn, bIn, bSent, bEnd, bFin, conns,
                 tcConnect, pending, passed, gaveUp>>

-----------------------------------------------------------------------------
Peers == ClientSends \/ ClientEnds \/ BackendSends \/ BackendEnds

Loop ==
  \/ Poll \/ SwapFunctors
  \/ ClientData \/ ClientDown \/ DestroyClient
  \/ HandleError \/ HandleWriteUnwanted \/ HandleWriteConnects
  \/ RetryTimer \/ RestartTimer \/ RunStopInLoop
  \/ BackendData \/ BackendDown \/ DestroyBackend

Next == ClientUp \/ Peers \/ Loop

Spec == Init /\ [][Next]_vars

(* The loop runs, the timers ring, and a backend that is tried again and   *)
(* again takes the attempt and accepts it in the end; the peers need do    *)
(* nothing.                                                                *)
Attempting(timer) == timer /\ state' = "kConnecting"

FairSpec == Spec /\ WF_vars(Loop) /\ SF_vars(HandleWriteConnects)
                 /\ SF_vars(Attempting(RetryTimer)) /\ SF_vars(Attempting(RestartTimer))

-----------------------------------------------------------------------------
(* Properties.                                                             *)

(* While a client stays, what it sent is handed on or waits, each unit     *)
(* once and in order, whenever the backend came, left and came back        *)
(* (L4/RemoteClient.cc:25-36 and 70-75).                                   *)
UpConserved ==
  client \in States => passed \o pending \o cIn = [i \in 1..sent |-> i]

(* A client gets the beginning of what one backend connection sent, never  *)
(* anything of the next one (L4/RemoteClient.cc:38-70).                    *)
OneAnswerer ==
  \E k \in 0..conns : cGot = [j \in 1..Len(cGot) |-> <<k, j>>]

(* Both directions of the proxy keep the stream they carry.                *)
StreamsKept == TypeOK /\ UpConserved /\ OneAnswerer

(* While a client stays, exactly one thing is under way for it: a          *)
(* connection, an attempt, or a timer that starts one                      *)
(* (TcpClient.cc:80-96, Connector.cc:140-173).                             *)
OneEndeavour ==
  client \in States =>
    LET attempt == IF channel # None THEN 1 ELSE 0
        connected == IF conn # NoConn THEN 1 ELSE 0
        n == attempt + connected + retryTimers + restartTimers
    IN  n <= 1 /\ (gaveUp \/ n = 1)

(* No connection is made for a client that has gone, though the retry      *)
(* timer sets connect_ again after stop() (Connector.cc:168-173, 190-205). *)
NoConnectionForNobody ==
  [][(client \in {"kDisconnected", "destroyed"}) => conns' = conns]_vars

(* The end of one side reaches the other (L4/LB_Server.h:58-64,            *)
(* L4/RemoteClient.cc:38-52).                                              *)
EndsArePassedOn ==
  /\ cEnd ~> (conn = NoConn \/ bFin)
  /\ (conn # NoConn /\ bEnd) ~> (client # "kConnected")

(* What was put off is sent once a backend accepts, if connect() does not  *)
(* fail for good (Connector.cc:76-79) and the client stays.                *)
PutOffIsSent ==
  (pending # <<>>) ~> (pending = <<>> \/ client \notin States \/ gaveUp
                       \/ conns = MaxConns)
=============================================================================
