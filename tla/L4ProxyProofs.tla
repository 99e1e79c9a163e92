----------------------------- MODULE L4ProxyProofs ----------------------------
(***************************************************************************)
(* The layer-4 proxy keeps both streams, and has one thing under way for   *)
(* its client: for any numbers of units, connections and descriptors.      *)
(***************************************************************************)
EXTENDS L4Proxy, SequenceTheorems, TLAPS

Functors == {<<"stopInLoop">>, <<"destroy", "client">>, <<"destroy", "backend">>}
Timers == retryTimers + restartTimers

(* What was ready is still there when it is handled, and functors run when *)
(* nothing is left to handle.  stop() is called for clients that end only. *)
LoopInv ==
  /\ queue \in Seq(Functors)
  /\ client \in States \cup {"new"} => queue \in Seq({<<"destroy", "backend">>})
  /\ polling => todo = 0 /\ ready = {}
  /\ todo > 0 => ready = {}
  /\ "client" \in ready => client \in States
  /\ "backend" \in ready => conn # NoConn
  /\ "connector" \in ready => state = "kConnecting" /\ channel # None

(* At most one of a connection, an attempt and a timer; for a client that  *)
(* stays, one.                                                             *)
EffortInv ==
  /\ Timers <= 1
  /\ state = "kConnecting" => Timers = 0 /\ conn = NoConn
  /\ channel # None => Timers = 0 /\ conn = NoConn
  /\ conn # NoConn => Timers = 0
  /\ client = "new" =>
       conn = NoConn /\ Timers = 0 /\ channel = None /\ state = "kDisconnected"
  /\ client \in States =>
       /\ connect /\ tcConnect
       /\ state = "kConnecting" <=> channel # None
       /\ gaveUp \/ channel # None \/ conn # NoConn \/ Timers = 1

(* The descriptors of an attempt, of the connection and of the one before  *)
(* are three.                                                              *)
FdInv ==
  /\ state = "kConnecting" /\ channel # None => channel \in fds
  /\ closing # None => closing # channel
  /\ conn # NoConn => conn.fd # closing

UpInv ==
  /\ passed \in Seq(Nat) /\ pending \in Seq(Nat) /\ cIn \in Seq(Nat)
  /\ conn # NoConn => pending = <<>>
  /\ client = "new" => passed = <<>> /\ pending = <<>> /\ cIn = <<>> /\ sent = 0
  /\ UpConserved

(* A connected client has all that its first backend connection has sent.  *)
DownInv ==
  /\ bSent \in Nat /\ bIn \in Seq(Nat \X Nat) /\ cGot \in Seq(Nat \X Nat)
  /\ client = "new" => cGot = <<>>
  /\ client = "kConnected" =>
       IF conn = NoConn THEN cGot = <<>>
       ELSE cGot \o bIn = [j \in 1..bSent |-> <<conns, j>>]
  /\ OneAnswerer

ProxyInv == TypeOK /\ LoopInv /\ EffortInv /\ FdInv /\ UpInv /\ DownInv

-----------------------------------------------------------------------------
(* What an attempt to connect leaves behind: an attempt, a timer, or       *)
(* nothing at all (Connector.cc:44-92).                                    *)
LEMMA StartOutcomes ==
  ASSUME ConnectorAssumption, L4Assumption, NEW t \in Nat, StartNow(t)
  PROVE  /\ connect' = TRUE /\ queue' = queue
         /\ gaveUp => gaveUp'
         /\ \/ /\ state' = "kConnecting" /\ retryTimers' = t
               /\ channel' \in Fds \ fds /\ channel' # None
               /\ fds' = (fds \ {channel}) \cup {channel'}
            \/ /\ state' = "kDisconnected" /\ retryTimers' = t + 1
               /\ channel' = None /\ fds' = fds
            \/ /\ retryTimers' = t /\ UNCHANGED <<state, channel, fds>>
               /\ state # "kConnecting" => gaveUp'
<1>1. connect' = TRUE /\ Connect(queue, t)
  BY DEF StartNow, Start
<1>2. gaveUp => gaveUp'
  BY DEF StartNow
<1>3. state' # "kConnecting" /\ retryTimers' = t => gaveUp'
  BY DEF StartNow
<1>4. CASE \E fd \in Fds : Free(fd, fds) /\ Connecting(fd, queue, t)
  BY <1>1, <1>2, <1>4 DEF Free, Connecting, None, ConnectorAssumption
<1>5. CASE \E fd \in Fds, err \in {"EAGAIN", "ECONNREFUSED"} :
             Free(fd, fds) /\ Retry(fd, err, TRUE, queue, t)
  <2>1. PICK fd \in Fds, err \in {"EAGAIN", "ECONNREFUSED"} :
               Free(fd, fds) /\ Retry(fd, err, TRUE, queue, t)
    BY <1>5
  <2>2. fd \notin fds
    BY <2>1 DEF Free
  <2>3. /\ state' = "kDisconnected" /\ channel' = None /\ fds' = fds \ {fd}
        /\ retryTimers' = t + 1 /\ queue' = queue
    BY <2>1 DEF Retry, L4Assumption
  <2> QED BY <1>1, <1>2, <2>2, <2>3
<1>6. CASE /\ Fds # fds
           /\ queue' = queue /\ retryTimers' = t /\ UNCHANGED <<state, channel, fds>>
  BY <1>1, <1>2, <1>3, <1>6
<1> QED BY <1>1, <1>4, <1>5, <1>6 DEF Connect

(* Whoever starts an attempt has no other thing under way, so one comes of *)
(* it at most, and nobody hears of none.                                   *)
LEMMA StartEffort ==
  ASSUME ConnectorAssumption, L4Assumption, NEW t \in Nat, StartNow(t),
         t = 0, restartTimers' = 0, conn = NoConn, conn' = conn,
         channel = None, state # "kConnecting",
         client' \in States => tcConnect', client' # "new"
  PROVE  EffortInv'
<1> USE DEF EffortInv, Timers
<1>1. CASE /\ connect' = TRUE /\ state' = "kConnecting" /\ retryTimers' = t
           /\ channel' # None
  BY <1>1
<1>2. CASE /\ connect' = TRUE /\ state' = "kDisconnected" /\ retryTimers' = t + 1
           /\ channel' = None
  BY <1>2
<1>3. CASE /\ connect' = TRUE /\ retryTimers' = t /\ UNCHANGED <<state, channel>>
           /\ gaveUp'
  BY <1>3
<1> QED BY <1>1, <1>2, <1>3, StartOutcomes

(* The queue holds functors; taking the head leaves what it held behind.   *)
LEMMA QueueFacts ==
  ASSUME NEW S, queue \in Seq(S), todo > 0, todo \in 0..Len(queue)
  PROVE  /\ queue # <<>> /\ Head(queue) \in S /\ Tail(queue) \in Seq(S)
         /\ todo - 1 \in 0..Len(Tail(queue))
  OBVIOUS

LEMMA FunctorsAre ==
  /\ <<"stopInLoop">> \in Functors
  /\ \A c \in {"client", "backend"} : <<"destroy", c>> \in Functors
  /\ {<<"destroy", "backend">>} \subseteq Functors
  /\ <<"destroy", "client">> \notin {<<"destroy", "backend">>}
  /\ <<"stopInLoop">> \notin {<<"destroy", "backend">>}
  BY DEF Functors

(* A functor of a client that stays is the end of a closed connection      *)
(* (TcpClient.cc:59-67, L4/RemoteClient.cc:54-58).                         *)
LEMMA OthersRunLater ==
  ASSUME TypeOK, LoopInv,
         Calling("stopInLoop") \/ (Calling("destroy") /\ Head(queue)[2] = "client")
  PROVE  client \notin States \cup {"new"}
<1> SUFFICES ASSUME client \in States \cup {"new"} PROVE FALSE
  OBVIOUS
<1>1. queue \in Seq({<<"destroy", "backend">>}) /\ todo > 0 /\ todo \in 0..Len(queue)
  BY DEF LoopInv, TypeOK, Calling
<1>2. Head(queue) = <<"destroy", "backend">>
  BY <1>1
<1> QED BY <1>2 DEF Calling

LEMMA StepEffort ==
  ASSUME ConnectorAssumption, L4Assumption, TypeOK, LoopInv, EffortInv, [Next]_vars
  PROVE  EffortInv'
<1> USE DEF EffortInv, Timers, States, None
<1>1. /\ ConnectorTypeOK /\ retryTimers \in Nat /\ restartTimers \in Nat
  BY DEF TypeOK, ConnectorTypeOK
<1>2. CASE ClientUp
  <2>1. /\ client' = "kConnected" /\ tcConnect' /\ StartNow(retryTimers)
        /\ UNCHANGED <<conn, restartTimers>>
    BY <1>2 DEF ClientUp, backendVars
  <2>2. client = "new"
    BY <1>2 DEF ClientUp
  <2>3. /\ retryTimers \in Nat /\ retryTimers = 0 /\ restartTimers' = 0
        /\ conn = NoConn /\ conn' = conn /\ channel = None /\ state # "kConnecting"
        /\ client' \in States => tcConnect'
        /\ client' # "new"
    BY <1>1, <2>1, <2>2
  <2> QED BY <2>1, <2>3, StartEffort
<1>3. CASE ClientSends \/ ClientEnds \/ ClientData
  BY <1>3 DEF ClientSends, ClientEnds, ClientData, connectorVars, backendVars, otherVars
<1>4. CASE BackendSends \/ BackendEnds
  BY <1>4 DEF BackendSends, BackendEnds, connectorVars, clientVars, otherVars
<1>5. CASE Poll \/ SwapFunctors \/ UNCHANGED vars
  BY <1>5 DEF Poll, SwapFunctors, vars, connectorVars, clientVars, backendVars, otherVars
<1>6. CASE ClientDown
  BY <1>6 DEF ClientDown, StopClient, Shut, NoConn
<1>7. CASE DestroyClient
  BY <1>1, <1>7 DEF DestroyClient, FreeConnector, backendVars
<1>8. CASE HandleError
  BY <1>1, <1>8 DEF HandleError, Handling, Retry, LoopInv, clientVars, backendVars, otherVars
<1>9. CASE HandleWriteUnwanted
  BY <1>9 DEF HandleWriteUnwanted, ConnectedUnwanted, clientVars, backendVars, otherVars
<1>10. CASE HandleWriteConnects
  BY <1>1, <1>10 DEF HandleWriteConnects, Connected, NoConn, clientVars
<1>11. CASE RetryTimer
  <2>1. retryTimers - 1 \in Nat /\ retryTimers > 0
    BY <1>1, <1>11 DEF RetryTimer
  <2>2. StartNow(retryTimers - 1) /\ UNCHANGED <<client, conn, tcConnect, restartTimers>>
    BY <1>11 DEF RetryTimer, clientVars, backendVars
  <2>3. /\ retryTimers - 1 \in Nat /\ retryTimers - 1 = 0 /\ restartTimers' = 0
        /\ conn = NoConn /\ conn' = conn /\ channel = None /\ state # "kConnecting"
        /\ client' \in States => tcConnect'
        /\ client' # "new"
    BY <1>1, <2>1, <2>2
  <2> QED BY <2>2, <2>3, StartEffort
<1>12. CASE RestartTimer
  <2>1. restartTimers > 0 /\ restartTimers' = restartTimers - 1
    BY <1>12 DEF RestartTimer
  <2>2. CASE connect
    <3>1. StartNow(retryTimers) /\ UNCHANGED <<client, conn, tcConnect>>
      BY <1>12, <2>2 DEF RestartTimer, clientVars, backendVars
    <3>2. /\ retryTimers \in Nat /\ retryTimers = 0 /\ restartTimers' = 0
          /\ conn = NoConn /\ conn' = conn /\ channel = None /\ state # "kConnecting"
          /\ client' \in States => tcConnect'
          /\ client' # "new"
      BY <1>1, <2>1, <3>1
    <3> QED BY <3>1, <3>2, StartEffort
  <2>3. CASE ~connect
    BY <1>1, <1>12, <2>1, <2>3 DEF RestartTimer, connectorVars, clientVars, backendVars
  <2> QED BY <2>2, <2>3
<1>13. CASE RunStopInLoop
  BY <1>13, OthersRunLater DEF RunStopInLoop, StopInLoop, clientVars, backendVars, otherVars
<1>14. CASE BackendData
  BY <1>14 DEF BackendData, Shut, NoConn, connectorVars, otherVars
<1>15. CASE BackendDown
  BY <1>1, <1>15 DEF BackendDown, RemoveConnection, Handling, LoopInv
<1>16. CASE DestroyBackend
  BY <1>1, <1>16 DEF DestroyBackend, FreeConnector, clientVars
<1> QED
  BY <1>2, <1>3, <1>4, <1>5, <1>6, <1>7, <1>8, <1>9, <1>10, <1>11, <1>12, <1>13,
     <1>14, <1>15, <1>16 DEF Next, Peers, Loop

(* Handling an event takes it from what is ready (EventLoop.cc:70-80).     *)
LEMMA HandlingFacts ==
  ASSUME TypeOK, LoopInv, NEW s, Handling(s)
  PROVE  /\ s \in ready /\ s \notin ready' /\ ready' \subseteq ready
         /\ todo' = 0 /\ todo = 0 /\ ~polling' /\ ~polling
  BY DEF TypeOK, LoopInv, Handling

(* A functor run: the queue is shorter, and nothing is ready.              *)
LEMMA CallingFacts ==
  ASSUME TypeOK, LoopInv, NEW f, Calling(f), queue' = Tail(queue)
  PROVE  /\ ready' = {} /\ ready = {}
         /\ polling' => todo' = 0
         /\ todo' \in 0..Len(queue') /\ queue' \in Seq(Functors)
         /\ client \in States \cup {"new"} => queue' \in Seq({<<"destroy", "backend">>})
<1>1. todo > 0 /\ todo \in 0..Len(queue) /\ queue \in Seq(Functors)
  BY DEF TypeOK, LoopInv, Calling
<1>2. todo' \in 0..Len(queue') /\ queue' \in Seq(Functors)
  BY <1>1, QueueFacts DEF Calling
<1>3. polling' => todo' = 0
  <2>1. polling' => todo = 1
    BY DEF Calling
  <2> QED BY <1>1, <2>1 DEF Calling
<1>4. ready' = {} /\ ready = {}
  BY <1>1 DEF LoopInv, Calling
<1>5. CASE client \in States \cup {"new"}
  <2>1. queue' \in Seq({<<"destroy", "backend">>})
    BY <1>1, <1>5, QueueFacts DEF LoopInv
  <2> QED BY <1>2, <1>3, <1>4, <2>1
<1>6. CASE client \notin States \cup {"new"}
  BY <1>2, <1>6, <1>3, <1>4
<1> QED BY <1>5, <1>6

LEMMA StepLoop ==
  ASSUME ConnectorAssumption, L4Assumption, TypeOK, LoopInv, EffortInv, [Next]_vars
  PROVE  LoopInv' /\ todo' \in 0..Len(queue')
<1> USE DEF States
<1>1. /\ todo \in 0..Len(queue) /\ ready \subseteq Sources /\ polling \in BOOLEAN
      /\ ConnectorTypeOK /\ retryTimers \in Nat /\ restartTimers \in Nat
  BY DEF TypeOK, ConnectorTypeOK
<1>2. CASE ClientUp
  <2>1. "connector" \notin ready
    BY <1>2 DEF ClientUp, EffortInv, LoopInv
  <2>2. client = "new" /\ client' = "kConnected" /\ queue' = queue
        /\ UNCHANGED <<ready, todo, polling, conn>>
    BY <1>1, <1>2, StartOutcomes DEF ClientUp, loopVars, backendVars
  <2> QED BY <1>1, <2>1, <2>2 DEF LoopInv
<1>3. CASE ClientSends \/ ClientEnds
  BY <1>1, <1>3 DEF ClientSends, ClientEnds, connectorVars, backendVars, loopVars, LoopInv
<1>4. CASE BackendSends \/ BackendEnds
  BY <1>1, <1>4 DEF BackendSends, BackendEnds, connectorVars, clientVars, loopVars, LoopInv
<1>5. CASE Poll
  <2>1. ready' \subseteq Pollable /\ ~polling' /\ todo = 0
        /\ UNCHANGED <<queue, todo, client, conn, state, channel>>
    BY <1>5 DEF Poll, LoopInv, connectorVars, clientVars, backendVars
  <2>2. /\ "client" \in Pollable => client \in States
        /\ "backend" \in Pollable => conn # NoConn
        /\ "connector" \in Pollable => channel # None /\ state = "kConnecting"
    BY DEF Pollable
  <2> QED BY <1>1, <2>1, <2>2 DEF LoopInv
<1>6. CASE SwapFunctors
  <2>1. /\ ready = {} /\ ready' = {} /\ todo' = Len(queue) /\ polling' = (queue = <<>>)
        /\ UNCHANGED <<queue, client>>
    BY <1>6 DEF SwapFunctors, connectorVars, clientVars
  <2>2. polling' => todo' = 0
    BY <2>1
  <2>3. queue \in Seq(Functors)
    BY DEF LoopInv
  <2> QED BY <2>1, <2>2, <2>3 DEF LoopInv
<1>7. CASE UNCHANGED vars
  BY <1>1, <1>7 DEF vars, connectorVars, loopVars, clientVars, backendVars, LoopInv
<1>8. CASE ClientData
  <2>1. Handling("client") /\ UNCHANGED <<queue, client, conn, state, channel>>
    BY <1>8 DEF ClientData, connectorVars, backendVars
  <2> QED BY <1>1, <2>1, HandlingFacts DEF LoopInv
<1>9. CASE BackendData
  <2>1. Handling("backend") /\ UNCHANGED <<queue, client, state, channel>>
    BY <1>9 DEF BackendData, connectorVars
  <2>2. conn # NoConn => conn' # NoConn
    BY <1>9 DEF BackendData, Shut, NoConn
  <2> QED BY <1>1, <2>1, <2>2, HandlingFacts DEF LoopInv
<1>10. CASE HandleError
  <2>1. Handling("connector") /\ queue' = queue /\ UNCHANGED <<client, conn>>
    BY <1>10 DEF HandleError, Retry, L4Assumption, clientVars, backendVars
  <2> QED BY <1>1, <2>1, HandlingFacts DEF LoopInv
<1>11. CASE HandleWriteUnwanted
  <2>1. Handling("connector") /\ queue' = queue /\ UNCHANGED <<client, conn>>
    BY <1>11 DEF HandleWriteUnwanted, ConnectedUnwanted, clientVars, backendVars
  <2> QED BY <1>1, <2>1, HandlingFacts DEF LoopInv
<1>12. CASE HandleWriteConnects
  <2>1. Handling("connector") /\ UNCHANGED <<queue, client>>
    BY <1>12 DEF HandleWriteConnects, clientVars
  <2>2. conn' # NoConn
    BY <1>12 DEF HandleWriteConnects, NoConn
  <2> QED BY <1>1, <2>1, <2>2, HandlingFacts DEF LoopInv
<1>13. CASE RetryTimer
  <2>1. Handling("timer") /\ UNCHANGED <<client, conn>>
    BY <1>13 DEF RetryTimer, clientVars, backendVars
  <2>2. retryTimers - 1 \in Nat /\ StartNow(retryTimers - 1)
    BY <1>1, <1>13 DEF RetryTimer
  <2>3. queue' = queue
    BY <2>2, StartOutcomes
  <2>4. "connector" \notin ready
    BY <1>1, <1>13 DEF RetryTimer, EffortInv, Timers, LoopInv
  <2> QED BY <1>1, <2>1, <2>3, <2>4, HandlingFacts DEF LoopInv
<1>14. CASE RestartTimer
  <2>1. Handling("timer") /\ UNCHANGED <<client, conn>>
    BY <1>14 DEF RestartTimer, clientVars, backendVars
  <2>2. queue' = queue
    BY <1>1, <1>14, StartOutcomes DEF RestartTimer, connectorVars
  <2>3. "connector" \notin ready
    BY <1>1, <1>14 DEF RestartTimer, EffortInv, Timers, LoopInv
  <2> QED BY <1>1, <2>1, <2>2, <2>3, HandlingFacts DEF LoopInv
<1>15. CASE ClientDown
  <2>1. /\ Handling("client") /\ client' = "kDisconnected" /\ UNCHANGED <<state, channel>>
        /\ queue' = queue \o << <<"stopInLoop">>, <<"destroy", "client">> >>
    BY <1>15 DEF ClientDown
  <2>2. conn # NoConn => conn' # NoConn
    BY <1>15 DEF ClientDown, StopClient, Shut, NoConn
  <2>3. << <<"stopInLoop">>, <<"destroy", "client">> >> \in Seq(Functors)
    BY FunctorsAre
  <2>4. queue' \in Seq(Functors) /\ 0 \in 0..Len(queue')
    BY <2>1, <2>3 DEF LoopInv
  <2> QED BY <1>1, <2>1, <2>2, <2>4, HandlingFacts DEF LoopInv
<1>16. CASE BackendDown
  <2>1. /\ Handling("backend") /\ channel' = channel
        /\ client' = IF client = "kConnected" THEN "kDisconnecting" ELSE client
        /\ queue' = Append(queue, <<"destroy", "backend">>)
    BY <1>16 DEF BackendDown, RemoveConnection
  <2>2. "connector" \notin ready
    BY <2>1 DEF Handling, LoopInv, EffortInv
  <2>3. queue' \in Seq(Functors) /\ 0 \in 0..Len(queue')
    BY <2>1, FunctorsAre DEF LoopInv
  <2>4. client' \in States \cup {"new"} => queue' \in Seq({<<"destroy", "backend">>})
    BY <2>1 DEF LoopInv
  <2> QED BY <1>1, <2>1, <2>2, <2>3, <2>4, HandlingFacts DEF LoopInv
<1>17. CASE DestroyClient
  <2>1. Calling("destroy") /\ queue' = Tail(queue) /\ client' = "destroyed"
    BY <1>17 DEF DestroyClient
  <2> QED BY <2>1, CallingFacts DEF LoopInv
<1>18. CASE RunStopInLoop
  <2>1. Calling("stopInLoop") /\ queue' = Tail(queue) /\ client' = client
    BY <1>18 DEF RunStopInLoop, StopInLoop, clientVars
  <2> QED BY <2>1, CallingFacts DEF LoopInv
<1>19. CASE DestroyBackend
  <2>1. Calling("destroy") /\ queue' = Tail(queue) /\ client' = client
    BY <1>19 DEF DestroyBackend, clientVars
  <2> QED BY <2>1, CallingFacts DEF LoopInv
<1> QED
  BY <1>2, <1>3, <1>4, <1>5, <1>6, <1>7, <1>8, <1>9, <1>10, <1>11, <1>12, <1>13,
     <1>14, <1>15, <1>16, <1>17, <1>18, <1>19 DEF Next, Peers, Loop

DescriptorsTyped ==
  /\ channel \in Fds \cup {None} /\ fds \subseteq Fds
  /\ conn \in [fd : fds, state : States] \cup {NoConn}
  /\ closing \in fds \cup {None}

(* An attempt with a new descriptor leaves those of the others open.       *)
LEMMA StartDescriptors ==
  ASSUME ConnectorAssumption, L4Assumption, NEW t \in Nat, StartNow(t),
         DescriptorsTyped, FdInv, conn = NoConn, conn' = conn, closing' = closing,
         channel = None, state # "kConnecting"
  PROVE  DescriptorsTyped' /\ FdInv'
<1> USE DEF DescriptorsTyped, FdInv, None, ConnectorAssumption
<1>1. CASE /\ channel' \in Fds \ fds
           /\ fds' = (fds \ {channel}) \cup {channel'}
  BY <1>1
<1>2. CASE channel' = None /\ fds' = fds
  BY <1>2
<1>3. CASE UNCHANGED <<state, channel, fds>>
  BY <1>3
<1> QED BY <1>1, <1>2, <1>3, StartOutcomes

LEMMA StepDescriptors ==
  ASSUME ConnectorAssumption, L4Assumption, TypeOK, LoopInv, EffortInv, FdInv,
         [Next]_vars
  PROVE  DescriptorsTyped' /\ FdInv'
<1>1. /\ DescriptorsTyped /\ None \notin Fds
      /\ retryTimers \in Nat /\ restartTimers \in Nat
  BY DEF TypeOK, ConnectorTypeOK, DescriptorsTyped, ConnectorAssumption, None
<1> USE DEF DescriptorsTyped, FdInv
<1>2. CASE ClientUp
  <2>1. /\ StartNow(retryTimers) /\ conn = NoConn /\ conn' = conn /\ closing' = closing
        /\ channel = None /\ state # "kConnecting"
    BY <1>2 DEF ClientUp, backendVars, EffortInv
  <2> QED BY <1>1, <2>1, StartDescriptors
<1>3. CASE ClientSends \/ ClientEnds \/ ClientData
  BY <1>1, <1>3 DEF ClientSends, ClientEnds, ClientData, connectorVars, backendVars
<1>4. CASE BackendSends \/ BackendEnds
  BY <1>1, <1>4 DEF BackendSends, BackendEnds, connectorVars
<1>5. CASE Poll \/ SwapFunctors \/ UNCHANGED vars
  BY <1>1, <1>5 DEF Poll, SwapFunctors, vars, connectorVars, backendVars
<1>6. CASE ClientDown
  <2>1. /\ conn' = Shut(conn) /\ UNCHANGED <<state, channel, fds, closing>>
    BY <1>6 DEF ClientDown, StopClient
  <2> QED BY <1>1, <2>1 DEF Shut, NoConn, States
<1>7. CASE BackendData
  <2>1. /\ conn' = conn \/ conn' = Shut(conn)
        /\ UNCHANGED <<state, channel, fds, closing>>
    BY <1>7 DEF BackendData, connectorVars, Handling, LoopInv
  <2> QED BY <1>1, <2>1 DEF Shut, NoConn, States
<1>8. CASE DestroyClient
  BY <1>1, <1>8 DEF DestroyClient, FreeConnector, backendVars
<1>9. CASE HandleError
  <2>1. /\ state' = "kDisconnected" /\ channel' = None /\ fds' = fds \ {channel}
        /\ UNCHANGED <<conn, closing>> /\ conn = NoConn /\ channel # None
    BY <1>9 DEF HandleError, Retry, backendVars, Handling, LoopInv, EffortInv
  <2> QED BY <1>1, <2>1
<1>10. CASE HandleWriteUnwanted
  <2>1. /\ state' = "kConnected" /\ channel' = channel /\ fds' = fds \ {channel}
        /\ UNCHANGED <<conn, closing>> /\ conn = NoConn /\ channel # None
    BY <1>10 DEF HandleWriteUnwanted, ConnectedUnwanted, backendVars, Handling,
                 LoopInv, EffortInv
  <2> QED BY <1>1, <2>1
<1>11. CASE HandleWriteConnects
  <2>1. /\ state = "kConnecting" /\ channel # None
        /\ state' = "kConnected" /\ channel' = None /\ UNCHANGED <<fds, closing>>
        /\ conn' = [fd |-> channel, state |-> "kConnected"]
    BY <1>11 DEF HandleWriteConnects, Connected, Handling, LoopInv
  <2> QED BY <1>1, <2>1 DEF States
<1>12. CASE RetryTimer
  <2>1. retryTimers - 1 \in Nat /\ retryTimers > 0
    BY <1>1, <1>12 DEF RetryTimer
  <2>2. /\ StartNow(retryTimers - 1) /\ conn = NoConn /\ conn' = conn
        /\ closing' = closing /\ channel = None /\ state # "kConnecting"
    BY <1>1, <1>12, <2>1 DEF RetryTimer, backendVars, EffortInv, Timers
  <2> QED BY <1>1, <2>1, <2>2, StartDescriptors
<1>13. CASE RestartTimer
  <2>1. conn = NoConn /\ UNCHANGED <<conn, closing>> /\ channel = None
        /\ state # "kConnecting"
    BY <1>1, <1>13 DEF RestartTimer, backendVars, EffortInv, Timers
  <2>2. CASE StartNow(retryTimers)
    BY <1>1, <2>1, <2>2, StartDescriptors
  <2>3. CASE UNCHANGED connectorVars
    BY <1>1, <2>1, <2>3 DEF connectorVars
  <2> QED BY <1>13, <2>2, <2>3 DEF RestartTimer
<1>14. CASE RunStopInLoop
  BY <1>1, <1>14 DEF RunStopInLoop, StopInLoop, backendVars
<1>15. CASE BackendDown
  <2>1. /\ conn # NoConn /\ channel = None /\ channel' = channel /\ fds' = fds
        /\ conn' = NoConn /\ closing' = conn.fd
    BY <1>15 DEF BackendDown, RemoveConnection, Handling, LoopInv, EffortInv
  <2> QED BY <1>1, <2>1
<1>16. CASE DestroyBackend
  <2>1. /\ closing' = None /\ fds' = fds \ {closing} /\ UNCHANGED <<state, conn>>
        /\ channel' = channel \/ channel' = None
    BY <1>16 DEF DestroyBackend, FreeConnector
  <2>2. CASE conn = NoConn
    BY <1>1, <2>1, <2>2
  <2>3. CASE conn # NoConn
    BY <1>1, <2>1, <2>3 DEF NoConn
  <2> QED BY <2>2, <2>3
<1> QED
  BY <1>2, <1>3, <1>4, <1>5, <1>6, <1>7, <1>8, <1>9, <1>10, <1>11, <1>12, <1>13,
     <1>14, <1>15, <1>16 DEF Next, Peers, Loop

LEMMA StartTypes ==
  ASSUME ConnectorAssumption, L4Assumption, NEW t \in Nat, StartNow(t),
         state \in {"kDisconnected", "kConnecting", "kConnected"}
  PROVE  /\ state' \in {"kDisconnected", "kConnecting", "kConnected"}
         /\ retryTimers' \in Nat
<1>1. retryTimers' = t \/ retryTimers' = t + 1
  BY StartOutcomes
<1>2. t + 1 \in Nat
  OBVIOUS
<1> QED BY <1>1, <1>2, StartOutcomes

LEMMA StepTypes ==
  ASSUME ConnectorAssumption, L4Assumption, TypeOK, LoopInv, EffortInv, FdInv,
         [Next]_vars
  PROVE  TypeOK'
<1>1. DescriptorsTyped' /\ todo' \in 0..Len(queue')
  BY StepDescriptors, StepLoop
<1>2. /\ state' \in {"kDisconnected", "kConnecting", "kConnected"}
      /\ retryTimers' \in Nat /\ restartTimers' \in Nat
  <2>1. /\ state \in {"kDisconnected", "kConnecting", "kConnected"}
        /\ retryTimers \in Nat /\ restartTimers \in Nat
    BY DEF TypeOK, ConnectorTypeOK
  <2>2. CASE ClientUp
    <3>1. StartNow(retryTimers) /\ restartTimers' = restartTimers
      BY <2>2 DEF ClientUp
    <3> QED BY <2>1, <3>1, StartTypes
  <2>3. CASE Peers \/ ClientData \/ BackendData
    BY <2>1, <2>3 DEF Peers, ClientSends, ClientEnds, BackendSends, BackendEnds,
                      ClientData, BackendData, connectorVars, otherVars
  <2>4. CASE Poll \/ SwapFunctors \/ UNCHANGED vars
    BY <2>1, <2>4 DEF Poll, SwapFunctors, vars, connectorVars, otherVars
  <2>5. CASE ClientDown \/ DestroyClient
    BY <2>1, <2>5 DEF ClientDown, StopClient, DestroyClient, FreeConnector
  <2>6. CASE HandleError \/ HandleWriteUnwanted \/ HandleWriteConnects
    BY <2>1, <2>6 DEF HandleError, Retry, HandleWriteUnwanted, ConnectedUnwanted,
                      HandleWriteConnects, Connected, otherVars
  <2>7. CASE RetryTimer
    <3>1. retryTimers - 1 \in Nat /\ StartNow(retryTimers - 1)
          /\ restartTimers' = restartTimers
      BY <2>1, <2>7 DEF RetryTimer
    <3> QED BY <2>1, <3>1, StartTypes
  <2>8. CASE RestartTimer
    <3>1. restartTimers' \in Nat
      BY <2>1, <2>8 DEF RestartTimer
    <3>2. CASE StartNow(retryTimers)
      BY <2>1, <3>1, <3>2, StartTypes
    <3>3. CASE UNCHANGED connectorVars
      BY <2>1, <3>1, <3>3 DEF connectorVars
    <3> QED BY <2>8, <3>2, <3>3 DEF RestartTimer
  <2>9. CASE RunStopInLoop
    BY <2>1, <2>9 DEF RunStopInLoop, StopInLoop, otherVars
  <2>10. CASE BackendDown
    BY <2>1, <2>10 DEF BackendDown, RemoveConnection
  <2>11. CASE DestroyBackend
    BY <2>1, <2>11 DEF DestroyBackend, FreeConnector
  <2> QED BY <2>2, <2>3, <2>4, <2>5, <2>6, <2>7, <2>8, <2>9, <2>10, <2>11
          DEF Next, Loop
<1>3. Timers' <= 1
  BY StepEffort DEF EffortInv
<1>4. restartTimers' \in 0..1 /\ retryTimers' \in 0..1
  <2>1. retryTimers' + restartTimers' <= 1
    BY <1>3 DEF Timers
  <2>2. \A a, b \in Nat : a + b <= 1 => a \in 0..1 /\ b \in 0..1
    OBVIOUS
  <2> QED BY <1>2, <2>1, <2>2
<1>5. /\ ready' \subseteq Sources /\ polling' \in BOOLEAN
  <2>1. todo \in Nat /\ ready \subseteq Sources /\ polling \in BOOLEAN
    BY DEF TypeOK
  <2>2. CASE UNCHANGED loopVars
    BY <2>1, <2>2 DEF loopVars
  <2>3. CASE \E s \in Sources : Handling(s)
    BY <2>1, <2>3 DEF Handling
  <2>4. CASE \E f \in {"destroy", "stopInLoop"} : Calling(f)
    BY <2>1, <2>4 DEF Calling
  <2>5. CASE Poll \/ SwapFunctors
    BY <2>1, <2>5 DEF Poll, SwapFunctors, Pollable
  <2> QED
    BY <2>2, <2>3, <2>4, <2>5
       DEF Next, Peers, Loop, vars, Sources, ClientUp, ClientSends, ClientEnds,
           BackendSends, BackendEnds, ClientData, ClientDown, DestroyClient,
           HandleError, HandleWriteUnwanted, HandleWriteConnects, RetryTimer,
           RestartTimer, RunStopInLoop, BackendData, BackendDown, DestroyBackend
<1>6. /\ client' \in States \cup {"new", "kDisconnected", "destroyed"}
      /\ cEnd' \in BOOLEAN /\ sent' \in 0..MaxUp
  <2>1. sent < MaxUp => sent + 1 \in 0..MaxUp
    BY DEF TypeOK, L4Assumption
  <2> QED
    BY <2>1
       DEF TypeOK, States, Next, Peers, Loop, vars, clientVars, ClientUp, ClientSends,
           ClientEnds, BackendSends, BackendEnds, Poll, SwapFunctors, ClientData,
           ClientDown, DestroyClient, HandleError, HandleWriteUnwanted,
           HandleWriteConnects, RetryTimer, RestartTimer, RunStopInLoop, BackendData,
           BackendDown, DestroyBackend
<1>7. bEnd' \in BOOLEAN /\ bFin' \in BOOLEAN /\ conns' \in 0..MaxConns
  <2>1. conns < MaxConns => conns + 1 \in 0..MaxConns
    BY DEF TypeOK, L4Assumption
  <2>2. (conn # NoConn) \in BOOLEAN
    OBVIOUS
  <2> QED
    BY <2>1, <2>2
       DEF TypeOK, Next, Peers, Loop, vars, backendVars, ClientUp, ClientSends,
           ClientEnds, BackendSends, BackendEnds, Poll, SwapFunctors, ClientData,
           ClientDown, StopClient, DestroyClient, HandleError, HandleWriteUnwanted,
           HandleWriteConnects, RetryTimer, RestartTimer, RunStopInLoop, BackendData,
           BackendDown, RemoveConnection, DestroyBackend
<1>8. connect' \in BOOLEAN
  <2>1. connect' = connect \/ connect' = TRUE \/ connect' = FALSE
    BY DEF Next, Peers, Loop, vars, connectorVars, ClientUp, StartNow, Start,
           ClientSends, ClientEnds, BackendSends, BackendEnds, Poll, SwapFunctors,
           ClientData, ClientDown, StopClient, DestroyClient, HandleError,
           HandleWriteUnwanted, ConnectedUnwanted, HandleWriteConnects, Connected,
           RetryTimer, RestartTimer, RunStopInLoop, StopInLoop, BackendData,
           BackendDown, RemoveConnection, DestroyBackend
  <2> QED BY <2>1 DEF TypeOK, ConnectorTypeOK
<1>9. tcConnect' \in BOOLEAN
  BY DEF TypeOK, Next, Peers, Loop, vars, otherVars, ClientUp, ClientSends,
         ClientEnds, BackendSends, BackendEnds, Poll, SwapFunctors, ClientData,
         ClientDown, StopClient, DestroyClient, HandleError, HandleWriteUnwanted,
         HandleWriteConnects, RetryTimer, RestartTimer, RunStopInLoop, BackendData,
         BackendDown, RemoveConnection, DestroyBackend
<1> QED
  BY <1>1, <1>2, <1>4, <1>5, <1>6, <1>7, <1>8, <1>9
     DEF TypeOK, ConnectorTypeOK, DescriptorsTyped

-----------------------------------------------------------------------------
(* From the client to the backends.                                        *)

UpVars == <<passed, pending, cIn, sent>>

(* The units are numbered as they are sent. *)
LEMMA OneMoreUnit ==
  ASSUME NEW n \in Nat, NEW s \in Seq(Nat), s = [i \in 1..n |-> i]
  PROVE  s \o <<n + 1>> = [i \in 1..(n + 1) |-> i]
<1>1. Len(s) = n
  OBVIOUS
<1>2. s \o <<n + 1>> \in Seq(Nat) /\ Len(s \o <<n + 1>>) = n + 1
  BY <1>1
<1>3. \A i \in 1..(n + 1) : (s \o <<n + 1>>)[i] = i
  BY <1>1
<1>4. s \o <<n + 1>> = [i \in 1..(n + 1) |-> (s \o <<n + 1>>)[i]]
  BY <1>2
<1> QED BY <1>3, <1>4

(* What moves none of the units, for a client that stays, keeps them.      *)
LEMMA UpUnmoved ==
  ASSUME UpInv, UNCHANGED UpVars, client' \in States => client \in States \cup {"new"},
         client' = "new" => client = "new",
         conn' = NoConn \/ conn # NoConn
  PROVE  UpInv'
<1>1. UNCHANGED <<passed, pending, cIn, sent>>
  BY DEF UpVars
<1>2. CASE client' = "new"
  BY <1>1, <1>2 DEF UpInv, UpConserved, States
<1>3. CASE client' \in States /\ client \in States
  BY <1>1, <1>3 DEF UpInv, UpConserved, States
<1>4. CASE client' \in States /\ client = "new"
  <2>1. <<>> \o <<>> \o <<>> = [i \in 1..0 |-> i]
    OBVIOUS
  <2> QED BY <1>1, <1>4, <2>1 DEF UpInv, UpConserved, States
<1>5. CASE client' \notin States \cup {"new"}
  BY <1>1, <1>5 DEF UpInv, UpConserved
<1> QED BY <1>2, <1>3, <1>4, <1>5

LEMMA StepUp ==
  ASSUME TypeOK, LoopInv, EffortInv, UpInv, [Next]_vars
  PROVE  UpInv'
<1>1. passed \in Seq(Nat) /\ pending \in Seq(Nat) /\ cIn \in Seq(Nat) /\ sent \in Nat
  BY DEF UpInv, TypeOK
<1>2. CASE ClientSends
  <2>1. /\ client \in States /\ client' = client /\ sent' = sent + 1
        /\ cIn' = Append(cIn, sent + 1) /\ UNCHANGED <<conn, pending, passed>>
    BY <1>2 DEF ClientSends, backendVars, otherVars
  <2>2. cIn' = cIn \o <<sent + 1>> /\ cIn' \in Seq(Nat)
    BY <1>1, <2>1, AppendIsConcat
  <2>3. passed \o pending \in Seq(Nat) /\ passed \o pending \o cIn \in Seq(Nat)
        /\ <<sent + 1>> \in Seq(Nat)
    BY <1>1
  <2>4. passed \o pending \o (cIn \o <<sent + 1>>) = (passed \o pending \o cIn) \o <<sent + 1>>
    BY <1>1, <2>3, ConcatAssociative
  <2>5. UpConserved'
    BY <1>1, <2>1, <2>2, <2>3, <2>4, OneMoreUnit DEF UpInv, UpConserved
  <2> QED BY <2>1, <2>2, <2>5 DEF UpInv, States
<1>3. CASE ClientData
  <2>1. /\ client \in States /\ cIn' = <<>> /\ UNCHANGED <<client, sent, conn>>
        /\ Sent(cIn) \/ PutOff(cIn)
    BY <1>3 DEF ClientData, Handling, LoopInv, backendVars
  <2>2. CASE Sent(cIn)
    <3>1. /\ pending = <<>> /\ passed' = passed \o cIn /\ pending' = pending
      BY <2>2 DEF Sent, UpInv
    <3>2. passed \o pending \o cIn = passed \o cIn
      BY <1>1, <3>1, ConcatEmptySeq
    <3>3. passed' \in Seq(Nat) /\ pending' \in Seq(Nat) /\ cIn' \in Seq(Nat)
      BY <1>1, <2>1, <3>1
    <3>4. passed' \o pending' \o cIn' = passed \o cIn
      BY <3>1, <3>3, <2>1, ConcatEmptySeq
    <3> QED BY <2>1, <3>1, <3>2, <3>3, <3>4 DEF UpInv, UpConserved, States
  <2>3. CASE PutOff(cIn)
    <3>1. conn = NoConn /\ pending' = pending \o cIn /\ passed' = passed
      BY <2>3 DEF PutOff
    <3>2. passed' \in Seq(Nat) /\ pending' \in Seq(Nat) /\ cIn' \in Seq(Nat)
      BY <1>1, <2>1, <3>1
    <3>3. passed \o pending' \in Seq(Nat) /\ passed \o pending' \o <<>> = passed \o pending'
      BY <1>1, <3>2, ConcatEmptySeq
    <3>4. passed \o pending' = passed \o pending \o cIn
      <4>1. (passed \o pending) \o cIn = passed \o (pending \o cIn)
        BY <1>1, ConcatAssociative, SMTT(30)
      <4> QED BY <3>1, <4>1
    <3>5. passed' \o pending' \o cIn' = passed \o pending \o cIn
      BY <2>1, <3>1, <3>3, <3>4
    <3> QED BY <2>1, <3>1, <3>2, <3>5 DEF UpInv, UpConserved, States
  <2> QED BY <2>1, <2>2, <2>3
<1>4. CASE HandleWriteConnects
  <2>1. /\ passed' = passed \o pending /\ pending' = <<>>
        /\ UNCHANGED <<client, cIn, sent>>
    BY <1>4 DEF HandleWriteConnects, Flush, clientVars
  <2>2. client # "new"
    BY <1>4 DEF HandleWriteConnects, EffortInv
  <2>3. passed' \in Seq(Nat) /\ pending' \in Seq(Nat) /\ passed' \o pending' = passed'
    BY <1>1, <2>1, ConcatEmptySeq
  <2> QED BY <1>1, <2>1, <2>2, <2>3 DEF UpInv, UpConserved
<1>5. CASE ClientUp
  <2>1. UNCHANGED UpVars /\ UNCHANGED conn /\ client = "new" /\ client' = "kConnected"
    BY <1>5 DEF ClientUp, UpVars, backendVars
  <2> QED BY <2>1, UpUnmoved
<1>6. CASE ClientEnds \/ BackendSends \/ BackendEnds
  <2>1. UNCHANGED UpVars /\ UNCHANGED <<conn, client>>
    BY <1>6 DEF ClientEnds, BackendSends, BackendEnds, UpVars, clientVars, backendVars,
                otherVars
  <2> QED BY <2>1, UpUnmoved
<1>7. CASE Poll \/ SwapFunctors \/ UNCHANGED vars
  <2>1. UNCHANGED UpVars /\ UNCHANGED <<conn, client>>
    BY <1>7 DEF Poll, SwapFunctors, vars, UpVars, clientVars, backendVars, otherVars
  <2> QED BY <2>1, UpUnmoved
<1>8. CASE ClientDown
  <2>1. UNCHANGED UpVars /\ conn' = Shut(conn) /\ client' = "kDisconnected"
    BY <1>8 DEF ClientDown, StopClient, UpVars
  <2> QED BY <2>1, UpUnmoved DEF Shut, NoConn, States
<1>9. CASE DestroyClient
  <2>1. UNCHANGED UpVars /\ UNCHANGED conn /\ client' = "destroyed"
    BY <1>9 DEF DestroyClient, UpVars, backendVars
  <2> QED BY <2>1, UpUnmoved DEF States
<1>10. CASE HandleError \/ HandleWriteUnwanted \/ RunStopInLoop
  <2>1. UNCHANGED UpVars /\ UNCHANGED <<conn, client>>
    BY <1>10 DEF HandleError, HandleWriteUnwanted, RunStopInLoop, UpVars, clientVars,
                 backendVars, otherVars
  <2> QED BY <2>1, UpUnmoved
<1>11. CASE RetryTimer \/ RestartTimer
  <2>1. UNCHANGED UpVars /\ UNCHANGED <<conn, client>>
    BY <1>11 DEF RetryTimer, RestartTimer, UpVars, clientVars, backendVars
  <2> QED BY <2>1, UpUnmoved
<1>12. CASE BackendData
  <2>1. UNCHANGED UpVars /\ client' = client /\ conn # NoConn
    BY <1>12 DEF BackendData, Handling, LoopInv, UpVars, otherVars
  <2> QED BY <2>1, UpUnmoved
<1>13. CASE BackendDown
  <2>1. /\ UNCHANGED UpVars /\ conn' = NoConn
        /\ client' = IF client = "kConnected" THEN "kDisconnecting" ELSE client
    BY <1>13 DEF BackendDown, RemoveConnection, UpVars
  <2> QED BY <2>1, UpUnmoved DEF States
<1>14. CASE DestroyBackend
  <2>1. UNCHANGED UpVars /\ UNCHANGED <<conn, client>>
    BY <1>14 DEF DestroyBackend, UpVars, clientVars
  <2> QED BY <2>1, UpUnmoved
<1> QED
  BY <1>2, <1>3, <1>4, <1>5, <1>6, <1>7, <1>8, <1>9, <1>10, <1>11, <1>12, <1>13,
     <1>14 DEF Next, Peers, Loop

-----------------------------------------------------------------------------
(* From the backends to the client.                                        *)

DownVars == <<cGot, bIn, bSent, conns>>

LEMMA DownUnmoved ==
  ASSUME DownInv, UNCHANGED DownVars,
         client' = "new" => client = "new",
         client' = "kConnected" => /\ client \in {"kConnected", "new"}
                                   /\ conn' = NoConn <=> conn = NoConn
                                   /\ client = "new" => conn = NoConn
  PROVE  DownInv'
<1>1. UNCHANGED <<cGot, bIn, bSent, conns>>
  BY DEF DownVars
<1>2. OneAnswerer'
  BY <1>1 DEF DownInv, OneAnswerer
<1>3. CASE client' # "kConnected"
  BY <1>1, <1>2, <1>3 DEF DownInv
<1>4. CASE client' = "kConnected" /\ client = "kConnected"
  BY <1>1, <1>2, <1>4 DEF DownInv
<1>5. CASE client' = "kConnected" /\ client = "new"
  BY <1>1, <1>2, <1>5 DEF DownInv
<1> QED BY <1>3, <1>4, <1>5

(* The units of the k-th connection are numbered as they are sent. *)
LEMMA OneMoreAnswer ==
  ASSUME NEW k \in Nat, NEW n \in Nat, NEW s \in Seq(Nat \X Nat),
         s = [j \in 1..n |-> <<k, j>>]
  PROVE  s \o << <<k, n + 1>> >> = [j \in 1..(n + 1) |-> <<k, j>>]
<1> DEFINE t == s \o << <<k, n + 1>> >>
<1>1. Len(s) = n
  OBVIOUS
<1>2. <<k, n + 1>> \in Nat \X Nat
  OBVIOUS
<1>3. << <<k, n + 1>> >> \in Seq(Nat \X Nat) /\ Len(<< <<k, n + 1>> >>) = 1
      /\ << <<k, n + 1>> >>[1] = <<k, n + 1>>
  BY <1>2
<1>4. t \in Seq(Nat \X Nat) /\ Len(t) = n + 1
  BY <1>1, <1>3, ConcatProperties
<1>5. \A j \in 1..(n + 1) : t[j] = <<k, j>>
  BY <1>1, <1>3, ConcatProperties
<1>6. t = [j \in 1..(n + 1) |-> t[j]]
  BY <1>4
<1> QED BY <1>5, <1>6

LEMMA StepDown ==
  ASSUME TypeOK, LoopInv, EffortInv, DownInv, [Next]_vars
  PROVE  DownInv'
<1>1. /\ bSent \in Nat /\ conns \in Nat
      /\ bIn \in Seq(Nat \X Nat) /\ cGot \in Seq(Nat \X Nat)
  BY DEF DownInv, TypeOK
<1>2. CASE BackendSends
  <2>1. /\ conn # NoConn /\ bSent' = bSent + 1 /\ bIn' = Append(bIn, <<conns, bSent + 1>>)
        /\ UNCHANGED <<client, cGot, conns, conn>>
    BY <1>2 DEF BackendSends, clientVars
  <2>2. <<conns, bSent + 1>> \in Nat \X Nat
    BY <1>1
  <2> DEFINE one == << <<conns, bSent + 1>> >>
  <2>3. one \in Seq(Nat \X Nat) /\ bIn' = bIn \o one /\ bIn' \in Seq(Nat \X Nat)
    <3>1. bIn' = bIn \o one
      BY <1>1, <2>1, <2>2, AppendIsConcat
    <3>2. bIn' \in Seq(Nat \X Nat)
      BY <1>1, <2>1, <2>2, AppendProperties
    <3>3. one \in Seq(Nat \X Nat)
      BY <2>2
    <3> QED BY <3>1, <3>2, <3>3
  <2>4. OneAnswerer'
    BY <2>1 DEF DownInv, OneAnswerer
  <2>5. CASE client = "kConnected"
    <3>1. cGot \o bIn = [j \in 1..bSent |-> <<conns, j>>]
      BY <2>1, <2>5 DEF DownInv
    <3>2. cGot \o bIn \in Seq(Nat \X Nat) /\ cGot \o (bIn \o one) = (cGot \o bIn) \o one
      BY <1>1, <2>3, ConcatProperties, ConcatAssociative, SMTT(30)
    <3>3. (cGot \o bIn) \o one = [j \in 1..(bSent + 1) |-> <<conns, j>>]
      BY <1>1, <3>1, <3>2, OneMoreAnswer
    <3>4. cGot' \o bIn' = [j \in 1..bSent' |-> <<conns', j>>]
      BY <2>1, <2>3, <3>2, <3>3
    <3>5. bSent' \in Nat /\ client' = "kConnected" /\ conn' # NoConn
      BY <1>1, <2>1, <2>5
    <3> QED BY <1>1, <2>1, <2>3, <2>4, <3>4, <3>5 DEF DownInv
  <2>6. CASE client # "kConnected"
    BY <1>1, <2>1, <2>3, <2>4, <2>6 DEF DownInv
  <2> QED BY <2>5, <2>6
<1>3. CASE BackendData
  <2>1. /\ conn # NoConn /\ bIn' = <<>> /\ UNCHANGED <<client, bSent, conns>>
        /\ cGot' = IF client = "kConnected" THEN cGot \o bIn ELSE cGot
    BY <1>3 DEF BackendData, Handling, LoopInv
  <2>2. conn' # NoConn
    BY <1>3, <2>1 DEF BackendData, Shut, NoConn
  <2>3. CASE client = "kConnected"
    <3>1. cGot' = cGot \o bIn /\ cGot' = [j \in 1..bSent |-> <<conns, j>>]
      BY <2>1, <2>3 DEF DownInv
    <3>2. cGot' \in Seq(Nat \X Nat) /\ Len(cGot') = bSent /\ cGot' \o <<>> = cGot'
      BY <1>1, <3>1, ConcatProperties, ConcatEmptySeq
    <3>3. cGot' \o bIn' = [j \in 1..bSent' |-> <<conns', j>>]
      BY <2>1, <3>1, <3>2
    <3>4. OneAnswerer'
      <4>1. cGot' = [j \in 1..Len(cGot') |-> <<conns, j>>]
        BY <3>1, <3>2
      <4>2. conns \in 0..conns'
        BY <1>1, <2>1
      <4> QED BY <4>1, <4>2 DEF OneAnswerer
    <3> QED BY <1>1, <2>1, <2>2, <2>3, <3>2, <3>3, <3>4 DEF DownInv
  <2>4. CASE client # "kConnected"
    <3>1. OneAnswerer'
      BY <2>1, <2>4 DEF DownInv, OneAnswerer
    <3>2. bIn' \in Seq(Nat \X Nat)
      BY <2>1
    <3> QED BY <1>1, <2>1, <2>4, <3>1, <3>2 DEF DownInv
  <2> QED BY <2>3, <2>4
<1>4. CASE HandleWriteConnects
  <2>1. /\ conn = NoConn /\ bIn' = <<>> /\ bSent' = 0 /\ conns' = conns + 1
        /\ UNCHANGED <<client, cGot>>
    BY <1>4 DEF HandleWriteConnects, EffortInv, clientVars
  <2>2. bIn' \in Seq(Nat \X Nat) /\ bSent' \in Nat
    BY <2>1
  <2>3. OneAnswerer'
    <3>1. PICK k \in 0..conns : cGot = [j \in 1..Len(cGot) |-> <<k, j>>]
      BY DEF DownInv, OneAnswerer
    <3>2. k \in 0..conns' /\ cGot' = [j \in 1..Len(cGot') |-> <<k, j>>]
      BY <1>1, <2>1, <3>1
    <3> QED BY <3>2 DEF OneAnswerer
  <2>4. CASE client = "kConnected"
    <3>1. cGot' = <<>>
      BY <2>1, <2>4 DEF DownInv
    <3>2. <<>> \o <<>> = [j \in 1..0 |-> <<conns', j>>]
      OBVIOUS
    <3>3. cGot' \o bIn' = [j \in 1..bSent' |-> <<conns', j>>]
      BY <2>1, <3>1, <3>2
    <3>4. conn' # NoConn
      BY <1>4 DEF HandleWriteConnects, NoConn
    <3> QED BY <1>1, <2>1, <2>2, <2>3, <2>4, <3>3, <3>4 DEF DownInv
  <2>5. CASE client # "kConnected"
    BY <1>1, <2>1, <2>2, <2>3, <2>5 DEF DownInv
  <2> QED BY <2>4, <2>5
<1>5. CASE ClientUp
  <2>1. UNCHANGED DownVars /\ UNCHANGED conn /\ client = "new" /\ conn = NoConn
        /\ client' = "kConnected"
    BY <1>5 DEF ClientUp, DownVars, backendVars, EffortInv
  <2> QED BY <2>1, DownUnmoved
<1>6. CASE ClientSends \/ ClientEnds \/ ClientData \/ BackendEnds
  <2>1. UNCHANGED DownVars /\ UNCHANGED <<conn, client>>
    BY <1>6 DEF ClientSends, ClientEnds, ClientData, BackendEnds, DownVars, clientVars,
                backendVars
  <2>2. client' = "kConnected" => client # "new"
    BY <2>1
  <2> QED BY <2>1, <2>2, DownUnmoved
<1>7. CASE Poll \/ SwapFunctors \/ UNCHANGED vars
  <2>1. UNCHANGED DownVars /\ UNCHANGED <<conn, client>>
    BY <1>7 DEF Poll, SwapFunctors, vars, DownVars, clientVars, backendVars
  <2> QED BY <2>1, DownUnmoved
<1>8. CASE ClientDown
  <2>1. UNCHANGED DownVars /\ client' = "kDisconnected"
    BY <1>8 DEF ClientDown, DownVars
  <2> QED BY <2>1, DownUnmoved
<1>9. CASE DestroyClient
  <2>1. UNCHANGED DownVars /\ client' = "destroyed"
    BY <1>9 DEF DestroyClient, DownVars, backendVars
  <2> QED BY <2>1, DownUnmoved
<1>10. CASE HandleError \/ HandleWriteUnwanted \/ RunStopInLoop
  <2>1. UNCHANGED DownVars /\ UNCHANGED <<conn, client>>
    BY <1>10 DEF HandleError, HandleWriteUnwanted, RunStopInLoop, DownVars, clientVars,
                 backendVars
  <2> QED BY <2>1, DownUnmoved
<1>11. CASE RetryTimer \/ RestartTimer
  <2>1. UNCHANGED DownVars /\ UNCHANGED <<conn, client>>
    BY <1>11 DEF RetryTimer, RestartTimer, DownVars, clientVars, backendVars
  <2> QED BY <2>1, DownUnmoved
<1>12. CASE BackendDown
  <2>1. UNCHANGED DownVars
        /\ client' = IF client = "kConnected" THEN "kDisconnecting" ELSE client
    BY <1>12 DEF BackendDown, DownVars
  <2> QED BY <2>1, DownUnmoved
<1>13. CASE DestroyBackend
  <2>1. UNCHANGED DownVars /\ UNCHANGED <<conn, client>>
    BY <1>13 DEF DestroyBackend, DownVars, clientVars
  <2> QED BY <2>1, DownUnmoved
<1> QED
  BY <1>2, <1>3, <1>4, <1>5, <1>6, <1>7, <1>8, <1>9, <1>10, <1>11, <1>12, <1>13
     DEF Next, Peers, Loop

-----------------------------------------------------------------------------
LEMMA InitProxy ==
  ASSUME L4Assumption, Init PROVE ProxyInv
<1>1. TypeOK
  <2>1. polling \in BOOLEAN /\ cEnd \in BOOLEAN /\ bEnd \in BOOLEAN /\ bFin \in BOOLEAN
        /\ tcConnect \in BOOLEAN /\ connect \in BOOLEAN
    BY DEF Init, ConnectorInit
  <2>2. todo \in 0..Len(queue) /\ sent \in 0..MaxUp /\ conns \in 0..MaxConns
        /\ restartTimers \in 0..1 /\ retryTimers \in 0..1 /\ retryTimers \in Nat
    BY DEF Init, ConnectorInit, L4Assumption
  <2>3. /\ state \in {"kDisconnected", "kConnecting", "kConnected"}
        /\ channel \in Fds \cup {None} /\ fds \subseteq Fds
        /\ ready \subseteq Sources /\ client \in {"new"}
        /\ conn = NoConn /\ closing = None
    BY DEF Init, ConnectorInit
  <2> QED BY <2>1, <2>2, <2>3 DEF TypeOK, ConnectorTypeOK
<1>2. LoopInv
  BY DEF Init, ConnectorInit, LoopInv, States
<1>3. EffortInv /\ FdInv
  BY DEF Init, ConnectorInit, EffortInv, Timers, FdInv, States
<1>4. UpInv
  BY DEF Init, UpInv, UpConserved, States
<1>5. DownInv
  <2>1. cGot = <<>> /\ bIn = <<>> /\ bSent = 0 /\ conns = 0 /\ client = "new"
    BY DEF Init
  <2>2. cGot = [j \in 1..Len(cGot) |-> <<0, j>>] /\ 0 \in 0..conns
    BY <2>1
  <2>3. OneAnswerer
    BY <2>2 DEF OneAnswerer
  <2> QED BY <2>1, <2>3 DEF DownInv
<1> QED BY <1>1, <1>2, <1>3, <1>4, <1>5 DEF ProxyInv

LEMMA StepProxy ==
  ASSUME ConnectorAssumption, L4Assumption, ProxyInv, [Next]_vars PROVE ProxyInv'
  BY StepTypes, StepLoop, StepEffort, StepDescriptors, StepUp, StepDown DEF ProxyInv

LEMMA SpecProxy == Spec => []ProxyInv
<1>1. Init => ProxyInv
  BY L4Assumption, InitProxy
<1>2. ProxyInv /\ [Next]_vars => ProxyInv'
  BY ConnectorAssumption, L4Assumption, StepProxy
<1> QED BY <1>1, <1>2, PTL DEF Spec

(* Both streams are kept: what the client sends is handed on or waits, in  *)
(* order and once, and what it gets is of one backend connection           *)
(* (L4/RemoteClient.cc:25-75).                                             *)
THEOREM StreamsAreKept == Spec => []StreamsKept
<1>1. ProxyInv => StreamsKept
  BY DEF ProxyInv, StreamsKept, UpInv, DownInv
<1> QED BY <1>1, SpecProxy, PTL

(* One thing is under way for a client that stays                          *)
(* (TcpClient.cc:80-96, Connector.cc:140-173).                             *)
THEOREM OneIsUnderWay == Spec => []OneEndeavour
<1>1. ASSUME ProxyInv PROVE OneEndeavour
  <2> SUFFICES ASSUME client \in States
               PROVE  LET attempt == IF channel # None THEN 1 ELSE 0
                          connected == IF conn # NoConn THEN 1 ELSE 0
                          n == attempt + connected + retryTimers + restartTimers
                      IN  n <= 1 /\ (gaveUp \/ n = 1)
    BY DEF OneEndeavour
  <2>1. /\ retryTimers \in Nat /\ restartTimers \in Nat
        /\ retryTimers + restartTimers <= 1
        /\ channel # None => retryTimers + restartTimers = 0 /\ conn = NoConn
        /\ conn # NoConn => retryTimers + restartTimers = 0
        /\ gaveUp \/ channel # None \/ conn # NoConn \/ retryTimers + restartTimers = 1
    BY <1>1 DEF ProxyInv, TypeOK, ConnectorTypeOK, EffortInv, Timers
  <2>2. CASE channel # None
    BY <2>1, <2>2
  <2>3. CASE channel = None /\ conn # NoConn
    BY <2>1, <2>3
  <2>4. CASE channel = None /\ conn = NoConn
    BY <2>1, <2>4
  <2> QED BY <2>2, <2>3, <2>4
<1> QED BY <1>1, SpecProxy, PTL

-----------------------------------------------------------------------------
(* Nobody connects for a client that has gone.  What stop() leaves to      *)
(* stopInLoop runs before the client's connection is destroyed, and both   *)
(* before the loop polls again: a retry timer that wants the connection    *)
(* again starts an attempt whose channel is never heard of.                *)
B == <<"destroy", "backend">>
S == <<"stopInLoop">>
C == <<"destroy", "client">>

Gone == client \in {"kDisconnected", "destroyed"}

(* The functors that are queued, and in which order.                       *)
Queues ==
  IF client = "kDisconnected"
    THEN IF closing = None THEN {<<S, C>>, <<C>>} ELSE {<<B, S, C>>, <<S, C, B>>, <<C, B>>}
    ELSE IF closing = None THEN {<<>>} ELSE {<<B>>}

(* The functors that are queued are run together, and before the next poll.*)
BatchInv ==
  /\ queue \in Queues
  /\ polling => queue = <<>>
  /\ todo > 0 => todo = Len(queue)
  /\ queue \in {<<C>>, <<C, B>>} => todo > 0

GoneInv ==
  /\ BatchInv
  /\ queue \in {<<C>>, <<C, B>>} => channel = None
  /\ queue \in {<<S, C, B>>, <<C, B>>} => Timers = 0
  /\ closing # None => conn = NoConn /\ "connector" \notin ready
  /\ client = "destroyed" => channel = None /\ Timers = 0
  /\ Gone => ~tcConnect /\ ("connector" \in ready => ~connect)

LEMMA ThreeFunctors ==
  /\ B # S /\ B # C /\ S # C
  /\ B[1] = "destroy" /\ B[2] = "backend" /\ C[1] = "destroy" /\ C[2] = "client"
  /\ S[1] = "stopInLoop"
  BY DEF B, S, C

LEMMA ShortQueues ==
  ASSUME NEW b, NEW s, NEW c
  PROVE  /\ <<>> \o <<s, c>> = <<s, c>> /\ <<b>> \o <<s, c>> = <<b, s, c>>
         /\ Append(<<>>, b) = <<b>> /\ Append(<<c>>, b) = <<c, b>>
         /\ Append(<<s, c>>, b) = <<s, c, b>>
<1>1. <<>> \o <<s, c>> = <<s, c>> /\ Append(<<>>, b) = <<b>>
  OBVIOUS
<1>2. <<b>> \o <<s, c>> = <<b, s, c>>
  <2> DEFINE p == <<b>> \o <<s, c>>
             q == <<b, s, c>>
  <2>1. /\ <<s, c>> \in Seq({b, s, c}) /\ Len(<<s, c>>) = 2
        /\ <<s, c>>[1] = s /\ <<s, c>>[2] = c
        /\ <<b>> \in Seq({b, s, c}) /\ Len(<<b>>) = 1 /\ <<b>>[1] = b
    OBVIOUS
  <2>2. q \in Seq({b, s, c}) /\ Len(q) = 3 /\ q[1] = b /\ q[2] = s /\ q[3] = c
    OBVIOUS
  <2>3. p \in Seq({b, s, c}) /\ Len(p) = 3 /\ p[1] = b /\ p[2] = s /\ p[3] = c
    BY <2>1, ConcatProperties
  <2> HIDE DEF p, q
  <2>4. \A i \in 1..Len(p) : p[i] = q[i]
    BY <2>2, <2>3
  <2>5. p = q
    BY <2>2, <2>3, <2>4, SeqEqual
  <2> QED BY <2>5 DEF p, q
<1>3. Append(<<c>>, b) = <<c, b>>
  <2> DEFINE p == Append(<<c>>, b)
             q == <<c, b>>
  <2>1. <<c>> \in Seq({b, s, c}) /\ Len(<<c>>) = 1 /\ <<c>>[1] = c
    OBVIOUS
  <2>2. q \in Seq({b, s, c}) /\ Len(q) = 2 /\ q[1] = c /\ q[2] = b
    OBVIOUS
  <2>3. p \in Seq({b, s, c}) /\ Len(p) = 2 /\ p[1] = c /\ p[2] = b
    BY <2>1, AppendProperties
  <2> HIDE DEF p, q
  <2>4. \A i \in 1..Len(p) : p[i] = q[i]
    BY <2>2, <2>3
  <2>5. p = q
    BY <2>2, <2>3, <2>4, SeqEqual
  <2> QED BY <2>5 DEF p, q
<1>4. Append(<<s, c>>, b) = <<s, c, b>>
  <2> DEFINE p == Append(<<s, c>>, b)
             q == <<s, c, b>>
  <2>1. /\ <<s, c>> \in Seq({b, s, c}) /\ Len(<<s, c>>) = 2
        /\ <<s, c>>[1] = s /\ <<s, c>>[2] = c
    OBVIOUS
  <2>2. q \in Seq({b, s, c}) /\ Len(q) = 3 /\ q[1] = s /\ q[2] = c /\ q[3] = b
    OBVIOUS
  <2>3. p \in Seq({b, s, c}) /\ Len(p) = 3 /\ p[1] = s /\ p[2] = c /\ p[3] = b
    BY <2>1, AppendProperties
  <2> HIDE DEF p, q
  <2>4. \A i \in 1..Len(p) : p[i] = q[i]
    BY <2>2, <2>3
  <2>5. p = q
    BY <2>2, <2>3, <2>4, SeqEqual
  <2> QED BY <2>5 DEF p, q
<1> QED BY <1>1, <1>2, <1>3, <1>4

LEMMA ShortTails ==
  ASSUME NEW b, NEW s, NEW c
  PROVE  /\ Tail(<<b>>) = <<>> /\ Tail(<<b, s>>) = <<s>> /\ Tail(<<b, s, c>>) = <<s, c>>
         /\ Head(<<b>>) = b /\ Head(<<b, s>>) = b /\ Head(<<b, s, c>>) = b
         /\ Len(<<>>) = 0 /\ Len(<<b>>) = 1 /\ Len(<<b, s>>) = 2 /\ Len(<<b, s, c>>) = 3
<1>1. Tail(<<b>>) = <<>> /\ Tail(<<b, s>>) = <<s>>
  OBVIOUS
<1>2. Tail(<<b, s, c>>) = <<s, c>>
  OBVIOUS
<1>3. /\ Head(<<b>>) = b /\ Head(<<b, s>>) = b /\ Head(<<b, s, c>>) = b
      /\ Len(<<>>) = 0 /\ Len(<<b>>) = 1 /\ Len(<<b, s>>) = 2 /\ Len(<<b, s, c>>) = 3
  OBVIOUS
<1> QED BY <1>1, <1>2, <1>3

(* The steps that queue nothing, run nothing and do not end a side.        *)
Quiet ==
  /\ UNCHANGED <<queue, closing, todo, polling>>
  /\ client' = client \/ (~Gone /\ ~Gone')
  /\ ready' \subseteq ready

LEMMA QuietSteps ==
  ASSUME ConnectorAssumption, L4Assumption, TypeOK, [Next]_vars
  PROVE  \/ Poll \/ SwapFunctors \/ ClientDown \/ DestroyClient \/ RunStopInLoop
         \/ BackendDown \/ DestroyBackend \/ Quiet
<1>1. retryTimers \in Nat
  BY DEF TypeOK, ConnectorTypeOK
<1> USE DEF Quiet, Gone, Handling
<1>2. CASE ClientUp
  BY <1>1, <1>2, StartOutcomes DEF ClientUp, loopVars, backendVars
<1>3. CASE ClientSends \/ ClientEnds \/ BackendSends \/ BackendEnds \/ ClientData \/ BackendData
  BY <1>3 DEF ClientSends, ClientEnds, BackendSends, BackendEnds, ClientData, BackendData,
              connectorVars, loopVars, clientVars, backendVars
<1>4. CASE HandleError \/ HandleWriteUnwanted \/ HandleWriteConnects
  BY <1>4 DEF HandleError, HandleWriteUnwanted, HandleWriteConnects, Retry, L4Assumption,
              ConnectedUnwanted, clientVars, backendVars
<1>5. CASE RetryTimer
  <2>1. retryTimers - 1 \in Nat /\ StartNow(retryTimers - 1)
    BY <1>1, <1>5 DEF RetryTimer
  <2> QED BY <1>5, <2>1, StartOutcomes DEF RetryTimer, clientVars, backendVars
<1>6. CASE RestartTimer
  <2>1. queue' = queue
    BY <1>1, <1>6, StartOutcomes DEF RestartTimer, connectorVars
  <2> QED BY <1>6, <2>1 DEF RestartTimer, clientVars, backendVars
<1>7. CASE UNCHANGED vars
  BY <1>7 DEF vars, connectorVars, loopVars, clientVars, backendVars
<1> QED BY <1>2, <1>3, <1>4, <1>5, <1>6, <1>7 DEF Next, Peers, Loop

(* What the loop runs is the head of one of the known queues.              *)
LEMMA BatchStep ==
  ASSUME ConnectorAssumption, L4Assumption, TypeOK, LoopInv, GoneInv, [Next]_vars
  PROVE  /\ BatchInv'
         /\ queue' \in {<<C>>, <<C, B>>} => queue' = queue \/ RunStopInLoop
         /\ queue' \in {<<S, C, B>>, <<C, B>>} =>
              queue \in {<<S, C, B>>, <<C, B>>} \/ BackendDown
<1>1. /\ todo \in Nat /\ B # S /\ B # C /\ S # C /\ None \notin fds
  BY ThreeFunctors DEF TypeOK, ConnectorTypeOK, ConnectorAssumption, None
<1> USE DEF Gone
<1>2. CASE Poll
  <2>1. polling /\ ~polling' /\ UNCHANGED <<queue, todo, client, closing>>
    BY <1>2 DEF Poll, connectorVars, clientVars, backendVars
  <2> QED BY <2>1 DEF GoneInv, BatchInv, Queues
<1>3. CASE SwapFunctors
  <2>1. /\ todo' = Len(queue) /\ polling' = (queue = <<>>)
        /\ UNCHANGED <<queue, client, closing>>
    BY <1>3 DEF SwapFunctors, connectorVars, clientVars, backendVars
  <2>2. queue \in {<<C>>, <<C, B>>} => Len(queue) > 0
    OBVIOUS
  <2> QED BY <2>1, <2>2 DEF GoneInv, BatchInv, Queues
<1>4. CASE ClientDown
  <2>1. /\ queue' = queue \o <<S, C>> /\ client' = "kDisconnected"
        /\ todo' = 0 /\ ~polling' /\ closing' = closing /\ client \in States
    BY <1>4, HandlingFacts DEF ClientDown, S, C, LoopInv
  <2>2. queue = IF closing = None THEN <<>> ELSE <<B>>
    BY <2>1 DEF GoneInv, BatchInv, Queues, States
  <2>3. queue' = IF closing = None THEN <<S, C>> ELSE <<B, S, C>>
    BY <2>1, <2>2, ShortQueues
  <2>4. queue' \notin {<<C>>, <<C, B>>, <<S, C, B>>}
    BY <1>1, <2>3
  <2>5. queue' \in Queues'
    BY <2>1, <2>3 DEF Queues
  <2> QED BY <2>1, <2>4, <2>5 DEF BatchInv
<1>5. CASE DestroyClient
  <2>1. /\ Head(queue) \notin {S, B} /\ todo > 0 /\ queue' = Tail(queue)
        /\ todo' = todo - 1 /\ polling' = (todo = 1) /\ client' = "destroyed"
        /\ closing' = closing
    BY <1>5, ThreeFunctors DEF DestroyClient, Calling, backendVars
  <2>2. queue \in Queues /\ todo = Len(queue)
    BY <2>1 DEF GoneInv, BatchInv
  <2>3. /\ client = "kDisconnected"
        /\ queue = IF closing = None THEN <<C>> ELSE <<C, B>>
    BY <2>1, <2>2, ShortTails DEF Queues
  <2>4. /\ queue' = IF closing = None THEN <<>> ELSE <<B>>
        /\ todo = IF closing = None THEN 1 ELSE 2
    BY <2>1, <2>2, <2>3, ShortTails
  <2>5. queue' \notin {<<C>>, <<C, B>>, <<S, C, B>>}
    BY <1>1, <2>4
  <2>6. Len(queue') = IF closing = None THEN 0 ELSE 1
    BY <2>4, ShortTails
  <2>7. todo' = Len(queue')
    BY <2>1, <2>4, <2>6
  <2>8. polling' => queue' = <<>>
    BY <2>1, <2>4
  <2>9. queue' \in Queues'
    BY <2>1, <2>4 DEF Queues
  <2> QED BY <2>5, <2>7, <2>8, <2>9 DEF BatchInv
<1>6. CASE RunStopInLoop
  <2>1. /\ Head(queue) \notin {B, C} /\ todo > 0 /\ queue' = Tail(queue)
        /\ todo' = todo - 1 /\ polling' = (todo = 1) /\ UNCHANGED <<client, closing>>
    BY <1>6, ThreeFunctors
       DEF RunStopInLoop, StopInLoop, Calling, backendVars, clientVars
  <2>2. queue \in Queues /\ todo = Len(queue)
    BY <2>1 DEF GoneInv, BatchInv
  <2>3. /\ client = "kDisconnected"
        /\ queue = IF closing = None THEN <<S, C>> ELSE <<S, C, B>>
    BY <2>1, <2>2, ShortTails DEF Queues
  <2>4. /\ queue' = IF closing = None THEN <<C>> ELSE <<C, B>>
        /\ todo = IF closing = None THEN 2 ELSE 3
    BY <2>1, <2>2, <2>3, ShortTails
  <2>5. Len(queue') = IF closing = None THEN 1 ELSE 2
    BY <2>4, ShortTails
  <2>6. todo' = Len(queue') /\ todo' > 0
    BY <2>1, <2>4, <2>5
  <2>7. ~polling'
    BY <2>1, <2>4
  <2>8. queue' \in Queues'
    BY <2>1, <2>3, <2>4 DEF Queues
  <2>9. queue' = <<C, B>> => queue = <<S, C, B>>
    BY <1>1, <2>3, <2>4
  <2>10. queue' # <<S, C, B>>
    BY <1>1, <2>4
  <2> QED BY <1>6, <2>6, <2>7, <2>8, <2>9, <2>10 DEF BatchInv
<1>7. CASE BackendDown
  <2>1. /\ queue' = Append(queue, B) /\ conn # NoConn /\ closing' = conn.fd
        /\ closing' # None
        /\ todo' = 0 /\ todo = 0 /\ ~polling'
        /\ client' = client \/ (~Gone /\ ~Gone')
    BY <1>1, <1>7, HandlingFacts
       DEF BackendDown, RemoveConnection, B, LoopInv, Handling, TypeOK
  <2>2. closing = None /\ queue \notin {<<C>>, <<C, B>>}
    BY <2>1 DEF GoneInv, BatchInv
  <2>3. queue = IF client = "kDisconnected" THEN <<S, C>> ELSE <<>>
    BY <2>2 DEF GoneInv, BatchInv, Queues
  <2>4. queue' = IF client' = "kDisconnected" THEN <<S, C, B>> ELSE <<B>>
    BY <2>1, <2>3, ShortQueues
  <2>5. queue' \notin {<<C>>, <<C, B>>}
    BY <1>1, <2>4
  <2> QED BY <1>7, <2>1, <2>4, <2>5 DEF BatchInv, Queues
<1>8. CASE DestroyBackend
  <2>1. /\ Head(queue) \notin {S, C} /\ todo > 0 /\ queue' = Tail(queue)
        /\ todo' = todo - 1 /\ polling' = (todo = 1) /\ client' = client
        /\ closing' = None
    BY <1>8, ThreeFunctors DEF DestroyBackend, Calling, clientVars
  <2>2. queue \in Queues /\ todo = Len(queue)
    BY <2>1 DEF GoneInv, BatchInv
  <2>3. queue = IF client = "kDisconnected" THEN <<B, S, C>> ELSE <<B>>
    BY <2>1, <2>2, ShortTails DEF Queues
  <2>4. /\ queue' = IF client = "kDisconnected" THEN <<S, C>> ELSE <<>>
        /\ todo = IF client = "kDisconnected" THEN 3 ELSE 1
    BY <2>1, <2>2, <2>3, ShortTails
  <2>5. queue' \notin {<<C>>, <<C, B>>, <<S, C, B>>}
    BY <1>1, <2>4
  <2>6. Len(queue') = IF client = "kDisconnected" THEN 2 ELSE 0
    BY <2>4, ShortTails
  <2>7. todo' = Len(queue')
    BY <2>1, <2>4, <2>6
  <2>8. polling' => queue' = <<>>
    BY <2>1, <2>4
  <2>9. queue' \in Queues'
    BY <2>1, <2>4 DEF Queues
  <2> QED BY <2>5, <2>7, <2>8, <2>9 DEF BatchInv
<1>9. CASE Quiet
  BY <1>9 DEF Quiet, GoneInv, BatchInv, Queues
<1> QED BY <1>2, <1>3, <1>4, <1>5, <1>6, <1>7, <1>8, <1>9, QuietSteps

(* Only an attempt that was wanted, or a client that stays, sets a timer;  *)
(* only a timer or a new client starts an attempt.                         *)
LEMMA NothingStarts ==
  ASSUME ConnectorAssumption, L4Assumption, TypeOK, LoopInv, EffortInv, GoneInv, [Next]_vars,
         Gone
  PROVE  /\ Timers = 0 => Timers' = 0
         /\ Timers = 0 /\ channel = None => channel' = None
         /\ ready = {} /\ channel = None => channel' = None
<1>1. /\ retryTimers \in Nat /\ restartTimers \in Nat
      /\ ~tcConnect /\ ("connector" \in ready => ~connect)
  BY DEF TypeOK, ConnectorTypeOK, GoneInv
<1> USE DEF Gone, Timers
<1>2. CASE Peers \/ Poll \/ SwapFunctors \/ ClientData \/ ClientDown \/ BackendData
           \/ UNCHANGED vars
  BY <1>2 DEF Peers, ClientSends, ClientEnds, BackendSends, BackendEnds, Poll, SwapFunctors,
              ClientData, ClientDown, BackendData, connectorVars, otherVars, vars
<1>3. CASE DestroyClient \/ DestroyBackend \/ RunStopInLoop
  BY <1>3 DEF DestroyClient, DestroyBackend, FreeConnector, RunStopInLoop, StopInLoop, otherVars
<1>4. CASE HandleError
  <2>1. /\ retryTimers' = retryTimers /\ restartTimers' = restartTimers /\ channel' = None
    BY <1>1, <1>4 DEF HandleError, Handling, Retry, otherVars
  <2> QED BY <2>1
<1>5. CASE HandleWriteUnwanted
  BY <1>5 DEF HandleWriteUnwanted, ConnectedUnwanted, otherVars
<1>6. CASE HandleWriteConnects
  BY <1>1, <1>6 DEF HandleWriteConnects, Handling
<1>7. CASE RetryTimer \/ RestartTimer
  <2>1. "timer" \in ready /\ Timers # 0
    BY <1>1, <1>7 DEF RetryTimer, RestartTimer, Handling
  <2> QED BY <2>1
<1>8. CASE BackendDown
  BY <1>1, <1>8 DEF BackendDown, RemoveConnection
<1>9. CASE ClientUp
  BY <1>9 DEF ClientUp
<1> QED BY <1>2, <1>3, <1>4, <1>5, <1>6, <1>7, <1>8, <1>9 DEF Next, Loop

LEMMA StepGone ==
  ASSUME ConnectorAssumption, L4Assumption, TypeOK, LoopInv, EffortInv, FdInv, GoneInv,
         [Next]_vars
  PROVE  GoneInv'
<1>1. /\ BatchInv'
      /\ queue' \in {<<C>>, <<C, B>>} => queue' = queue \/ RunStopInLoop
      /\ queue' \in {<<S, C, B>>, <<C, B>>} =>
           queue \in {<<S, C, B>>, <<C, B>>} \/ BackendDown
  BY BatchStep
<1>2. /\ retryTimers \in Nat /\ restartTimers \in Nat /\ B # S /\ B # C /\ S # C
  BY ThreeFunctors DEF TypeOK, ConnectorTypeOK
<1>3. queue \in {<<C>>, <<C, B>>, <<S, C, B>>} => client = "kDisconnected"
  BY <1>2 DEF GoneInv, BatchInv, Queues
<1>4. queue' \in {<<C>>, <<C, B>>} => channel' = None
  <2>1. CASE RunStopInLoop
    BY <2>1 DEF RunStopInLoop, StopInLoop
  <2>2. CASE queue' = queue /\ queue \in {<<C>>, <<C, B>>}
    <3>1. ready = {} /\ channel = None /\ Gone
      BY <1>3, <2>2 DEF GoneInv, BatchInv, LoopInv, Gone
    <3> QED BY <3>1, NothingStarts
  <2> QED BY <1>1, <2>1, <2>2
<1>5. queue' \in {<<S, C, B>>, <<C, B>>} => Timers' = 0
  <2>1. CASE queue \in {<<S, C, B>>, <<C, B>>}
    <3>1. Timers = 0 /\ Gone
      BY <1>3, <2>1 DEF GoneInv, Gone
    <3> QED BY <3>1, NothingStarts
  <2>2. CASE BackendDown /\ queue' \in {<<S, C, B>>, <<C, B>>}
    <3>1. Timers = 0 /\ client' \in {client, "kDisconnecting"}
      BY <1>2, <2>2 DEF BackendDown, Handling, LoopInv, EffortInv, Timers
    <3>2. client' = "kDisconnected"
      BY <1>1, <1>2, <2>2 DEF BatchInv, Queues
    <3>3. Gone
      BY <3>1, <3>2 DEF Gone
    <3> QED BY <3>1, <3>3, NothingStarts
  <2> QED BY <1>1, <2>1, <2>2
<1>6. closing' # None => conn' = NoConn /\ "connector" \notin ready'
  <2>1. CASE BackendDown
    <3>1. conn # NoConn /\ conn' = NoConn /\ ready' \subseteq ready
      BY <2>1 DEF BackendDown, RemoveConnection, Handling, LoopInv
    <3> QED BY <3>1 DEF LoopInv, EffortInv
  <2>2. CASE Poll
    <3>1. closing = None
      <4>1. queue = <<>> /\ queue \in Queues
        BY <2>2 DEF Poll, GoneInv, BatchInv
      <4> QED BY <4>1 DEF Queues
    <3> QED BY <2>2, <3>1 DEF Poll, backendVars
  <2>3. CASE ~BackendDown /\ ~Poll /\ closing' # None
    <3>1. /\ closing' = closing /\ ready' \subseteq ready
      BY <2>3, QuietSteps
         DEF SwapFunctors, ClientDown, DestroyClient, RunStopInLoop, DestroyBackend, Quiet,
             Handling, Calling, backendVars
    <3>2. conn = NoConn /\ "connector" \notin ready
      BY <2>3, <3>1 DEF GoneInv
    <3>3. ~HandleWriteConnects /\ ~BackendData
      BY <3>2 DEF HandleWriteConnects, BackendData, Handling, LoopInv
    <3>4. conn' = NoConn
      BY <2>3, <3>2, <3>3
         DEF Next, Peers, Loop, ClientUp, ClientSends, ClientEnds, BackendSends, BackendEnds,
             SwapFunctors, ClientData, ClientDown, StopClient, Shut, NoConn, DestroyClient,
             HandleError, HandleWriteUnwanted, RetryTimer, RestartTimer, RunStopInLoop,
             DestroyBackend, vars, backendVars
    <3> QED BY <3>1, <3>2, <3>4
  <2> QED BY <2>1, <2>2, <2>3
<1>7. client' = "destroyed" => channel' = None /\ Timers' = 0
  <2>1. CASE DestroyClient
    <3>1. CASE conn = NoConn /\ closing = None
      BY <2>1, <3>1 DEF DestroyClient, FreeConnector, Timers
    <3>2. CASE conn # NoConn
      BY <1>2, <2>1, <3>2 DEF DestroyClient, EffortInv, Timers
    <3>3. CASE closing # None
      <4>1. queue = <<C, B>>
        <5>1. Head(queue) \notin {S, B} /\ queue \in Queues
          BY <2>1, ThreeFunctors DEF DestroyClient, Calling, GoneInv, BatchInv
        <5> QED BY <3>3, <5>1, ShortTails DEF Queues
      <4>2. channel = None /\ Timers = 0 /\ Gone
        BY <1>3, <4>1 DEF GoneInv, Gone
      <4> QED BY <4>2, NothingStarts
    <3> QED BY <3>1, <3>2, <3>3
  <2>2. CASE ~DestroyClient /\ client' = "destroyed"
    <3>1. client = "destroyed"
      BY <2>2
         DEF Next, Peers, Loop, ClientUp, ClientSends, ClientEnds, BackendSends, BackendEnds,
             Poll, SwapFunctors, ClientData, ClientDown, HandleError, HandleWriteUnwanted,
             HandleWriteConnects, RetryTimer, RestartTimer, RunStopInLoop, BackendData,
             BackendDown, DestroyBackend, vars, clientVars
    <3>2. channel = None /\ Timers = 0 /\ Gone
      BY <3>1 DEF GoneInv, Gone
    <3> QED BY <3>2, NothingStarts
  <2> QED BY <2>1, <2>2
<1>8. Gone' => ~tcConnect' /\ ("connector" \in ready' => ~connect')
  <2>1. CASE ClientDown
    BY <2>1 DEF ClientDown, StopClient
  <2>2. CASE ~ClientDown /\ Gone'
    <3>1. CASE DestroyClient
      <4>1. Gone
        BY <3>1, OthersRunLater DEF DestroyClient, Gone, TypeOK
      <4>2. ready' = {} /\ tcConnect' = tcConnect
        BY <3>1, CallingFacts DEF DestroyClient
      <4> QED BY <4>1, <4>2 DEF GoneInv
    <3>2. CASE ~DestroyClient
      <4>1. Gone
        BY <2>2, <3>2
           DEF Gone, Next, Peers, Loop, ClientUp, ClientSends, ClientEnds, BackendSends,
               BackendEnds, Poll, SwapFunctors, ClientData, HandleError,
               HandleWriteUnwanted, HandleWriteConnects, RetryTimer, RestartTimer,
               RunStopInLoop, BackendData, BackendDown, DestroyBackend, vars, clientVars
      <4>2. ~tcConnect /\ ("connector" \in ready => ~connect)
        BY <4>1 DEF GoneInv
      <4>3. ~tcConnect'
        BY <2>2, <3>2, <4>1, <4>2
           DEF Gone, Next, Peers, Loop, ClientUp, ClientSends, ClientEnds, BackendSends,
               BackendEnds, Poll, SwapFunctors, ClientData, HandleError,
               HandleWriteUnwanted, HandleWriteConnects, RetryTimer, RestartTimer,
               RunStopInLoop, BackendData, BackendDown, DestroyBackend, vars, otherVars
      <4>4. CASE Poll
        <5>1. client = "destroyed"
          BY <4>1, <4>4 DEF Poll, Gone, GoneInv, BatchInv, Queues
        <5>2. "connector" \notin ready'
          BY <4>4, <5>1 DEF Poll, Pollable, GoneInv
        <5> QED BY <4>3, <5>2
      <4>5. CASE RetryTimer \/ RestartTimer
        <5>1. "connector" \notin ready /\ ready' \subseteq ready
          BY <1>2, <4>5 DEF RetryTimer, RestartTimer, Handling, EffortInv, Timers, LoopInv
        <5> QED BY <4>3, <5>1
      <4>6. CASE ~Poll /\ ~RetryTimer /\ ~RestartTimer
        <5>1. ready' \subseteq ready
          BY <3>2, <4>1, <4>6, <2>2, QuietSteps
             DEF SwapFunctors, DestroyBackend, RunStopInLoop, BackendDown, Calling, Handling, Quiet
        <5>2. connect' = connect
          BY <2>2, <3>2, <4>1, <4>2, <4>6
             DEF Gone, Next, Peers, Loop, ClientUp, ClientSends, ClientEnds, BackendSends,
                 BackendEnds, SwapFunctors, ClientData, HandleError, Retry,
                 HandleWriteUnwanted, ConnectedUnwanted, HandleWriteConnects, Connected,
                 RunStopInLoop, StopInLoop, BackendData, BackendDown, RemoveConnection,
                 DestroyBackend, vars, connectorVars
        <5> QED BY <4>2, <4>3, <5>1, <5>2
      <4> QED BY <4>4, <4>5, <4>6
    <3> QED BY <3>1, <3>2
  <2> QED BY <2>1, <2>2
<1> QED BY <1>1, <1>4, <1>5, <1>6, <1>7, <1>8 DEF GoneInv

LEMMA SpecGone == Spec => []GoneInv
<1>1. Init => GoneInv
  BY DEF Init, ConnectorInit, GoneInv, BatchInv, Queues, Gone, Timers
<1>2. ProxyInv /\ GoneInv /\ [Next]_vars => GoneInv'
  BY ConnectorAssumption, L4Assumption, StepGone DEF ProxyInv
<1> QED BY <1>1, <1>2, SpecProxy, PTL DEF Spec

(* No backend is connected to for a client that has gone, though the retry *)
(* timer of its connector wants the connection again after stop()          *)
(* (Connector.cc:168-173, 190-205).                                        *)
THEOREM NobodyIsConnectedFor == Spec => NoConnectionForNobody
<1>1. ASSUME GoneInv, [Next]_vars, client \in {"kDisconnected", "destroyed"}
      PROVE  conns' = conns
  <2>1. Gone
    BY <1>1 DEF Gone
  <2>2. ~HandleWriteConnects
    BY <1>1, <2>1 DEF GoneInv, HandleWriteConnects, Handling
  <2> QED
    BY <1>1, <2>2
       DEF Next, Peers, Loop, ClientUp, ClientSends, ClientEnds, BackendSends, BackendEnds,
           Poll, SwapFunctors, ClientData, ClientDown, DestroyClient, HandleError,
           HandleWriteUnwanted, RetryTimer, RestartTimer, RunStopInLoop, BackendData,
           BackendDown, DestroyBackend, vars, backendVars
<1>2. GoneInv /\ [Next]_vars =>
        [(client \in {"kDisconnected", "destroyed"}) => conns' = conns]_vars
  BY <1>1
<1> QED BY <1>2, SpecGone, PTL DEF Spec, NoConnectionForNobody
=============================================================================
