--------------------------- MODULE TcpServerProofs ---------------------------
(***************************************************************************)
(* Proofs about TcpConnection.tla in the life that TcpServer.tla gives it, *)
(* for any messages, any number of threads that call it and any number of  *)
(* their calls.                                                            *)
(***************************************************************************)
EXTENDS TcpServer, SequenceTheorems, TLAPS

ByteSet == ToSet(Messages) \X {1, 2}

(* What is queued once the connection is established. *)
Later == (Guarded \cup Raw) \ {"connectEstablished"}

(* What is queued before the connection is closed or the server destroyed. *)
Open == Later \ {"connectDestroyed"}

Calling ==
  {<<"idle", "idle">>} \cup ({"set"} \X {"shutdown", "forceClose"}) \cup ({"push"} \X Open)

ServerTypeOK ==
  /\ ConnTypeOK
  /\ output \in Seq(ByteSet) /\ wire \in Seq(ByteSet) /\ sent \in Seq(ByteSet)
  /\ pc \in [Threads -> Calling]
  /\ given \in 0..Len(Messages)
  /\ closes \in Nat /\ late \in Nat
  /\ inMap \in BOOLEAN /\ phase \in {"listening", "serving", "gone"}

(* Until connectEstablished runs, nothing but the queue changes, and       *)
(* nothing but the destruction of the server is queued after it; then it   *)
(* is never queued again.                                                  *)
Unborn ==
  /\ state = "kConnecting" /\ events = {} /\ index = "kNew"
  /\ output = <<>> /\ wire = <<>> /\ sent = <<>> /\ fin = FALSE
  /\ late = 0 /\ revents = {} /\ callback = "none"
  /\ downs = 0 /\ removals = 0
  /\ \A t \in Threads : pc[t] = <<"idle", "idle">>
  /\ queue \in {<<>>, <<"connectEstablished">>,
                <<"connectEstablished", "connectDestroyed">>}
  /\ phase # "gone" => queue \in {<<>>, <<"connectEstablished">>}
  /\ inMap => queue = <<"connectEstablished">>

Life ==
  /\ ups = 0 => Unborn
  /\ ups # 0 => ups = 1 /\ queue \in Seq(Later) /\ state # "kConnecting"
  /\ phase = "listening" => ups = 0 /\ queue = <<>> /\ ~inMap

(* A hang-up or something to read was reported of a channel in the epoll   *)
(* set, and is handled before any callback of the user.                    *)
Reported ==
  /\ {"hup", "in"} \cap revents # {} => index = "kAdded" /\ callback = "none"
  /\ ~({"hup", "in"} \subseteq revents)
  /\ callback # "none" => revents \subseteq {"out"}

Registered ==
  /\ state = "kConnected" => index = "kAdded"
  /\ state \in {"kConnected", "kDisconnecting"} /\ downs = 0 =>
       index \in {"kAdded", "kNew"} /\ "read" \in events
  /\ state = "kDisconnecting" /\ index = "kNew" => late > 0 \/ phase = "gone"
  /\ state = "kDisconnected" => events = {}

(* EPOLLOUT is asked for exactly while bytes wait. *)
Watched == downs = 0 => ("write" \in events <=> output # <<>>)

(* As long as the server is there, only a closed connection is destroyed.  *)
Undestroyed ==
  phase # "gone" /\ ups # 0 /\ downs = 0 => removals = 0 /\ queue \in Seq(Open)

Gone == IF phase = "gone" THEN 1 ELSE 0

(* What is reported of the end, for each state the late stores can leave.  *)
Reports ==
  /\ state = "kConnected" => downs = 0 /\ late = 0
  /\ state # "kDisconnected" =>
       /\ downs >= late /\ (late = 0 => downs = 0)
       /\ late > 0 => downs <= 2 * late - 1 + Gone
  /\ state = "kDisconnected" =>
       /\ downs > late
       /\ downs <= 2 * late + Gone + (IF index = "kAdded" THEN 0 ELSE 1)

ServerInv ==
  /\ ServerTypeOK /\ Life /\ Reported /\ Registered /\ Watched
  /\ BytesInOrder /\ FinAfterBytes /\ Undestroyed /\ Reports

-----------------------------------------------------------------------------
(* Sequences: what a write takes and leaves.                               *)

LEMMA Split ==
  ASSUME NEW S, NEW s \in Seq(S), NEW k \in 0..Len(s)
  PROVE  /\ SubSeq(s, 1, k) \in Seq(S) /\ Len(SubSeq(s, 1, k)) = k
         /\ SubSeq(s, k + 1, Len(s)) \in Seq(S)
         /\ Len(SubSeq(s, k + 1, Len(s))) = Len(s) - k
         /\ SubSeq(s, 1, k) \o SubSeq(s, k + 1, Len(s)) = s
<1>1. Len(s) \in Nat /\ \A i \in 1..Len(s) : s[i] \in S
  BY ElementOfSeq, LenProperties
<1>2. SubSeq(s, 1, k) \in Seq(S) /\ Len(SubSeq(s, 1, k)) = k
  BY <1>1, SubSeqProperties
<1>3. SubSeq(s, k + 1, Len(s)) \in Seq(S) /\ Len(SubSeq(s, k + 1, Len(s))) = Len(s) - k
  BY <1>1, SubSeqProperties
<1>4. SubSeq(s, 1, k) \o SubSeq(s, k + 1, Len(s)) = SubSeq(s, 1, Len(s))
  <2>1. 1 \in 1..Len(s) + 1 /\ k \in 1 - 1..Len(s) /\ Len(s) \in k..Len(s)
    BY <1>1
  <2>2. QED
    BY <2>1, ConcatAdjacentSubSeq
<1>5. SubSeq(s, 1, Len(s)) = s
  BY SubSeqFull
<1>6. QED
  BY <1>2, <1>3, <1>4, <1>5

LEMMA Lengths ==
  ASSUME NEW S, NEW s \in Seq(S)
  PROVE  Len(s) \in Nat /\ (s = <<>> <=> Len(s) = 0)
  BY EmptySeq, LenProperties

LEMMA StreamsAssociate ==
  \A s, t, u \in Seq(ByteSet) : (s \o t) \o u = s \o (t \o u)
  BY ConcatAssociative

LEMMA BytesAreTyped ==
  ASSUME NEW m \in ToSet(Messages)
  PROVE  Bytes(m) \in Seq(ByteSet) /\ Len(Bytes(m)) = 2
<1>1. PICK a \in ByteSet, b \in ByteSet : a = <<m, 1>> /\ b = <<m, 2>>
  BY DEF ByteSet
<1>2. <<a, b>> \in Seq(ByteSet) /\ Len(<<a, b>>) = 2
  OBVIOUS
<1>3. QED
  BY <1>1, <1>2 DEF Bytes

(* What the stream is after sendInLoop.                                    *)
LEMMA SendStream ==
  ASSUME ServerTypeOK, BytesInOrder,
         NEW m \in ToSet(Messages), NEW q, SendInLoop(m, q)
  PROVE  /\ output' \in Seq(ByteSet) /\ wire' \in Seq(ByteSet) /\ sent' \in Seq(ByteSet)
         /\ BytesInOrder'
<1>1. output \in Seq(ByteSet) /\ wire \in Seq(ByteSet) /\ sent \in Seq(ByteSet)
  BY DEF ServerTypeOK
<1>2. CASE UNCHANGED <<output, wire, sent>>
  BY <1>1, <1>2 DEF BytesInOrder
<1>3. CASE ~UNCHANGED <<output, wire, sent>>
  <2>1. PICK k \in 0..2 :
          /\ wire' = wire \o SubSeq(Bytes(m), 1, k)
          /\ output' = output \o SubSeq(Bytes(m), k + 1, 2)
          /\ sent' = sent \o Bytes(m)
          /\ output = <<>> \/ k = 0
    BY <1>3 DEF SendInLoop
  <2>2. PICK b \in Seq(ByteSet) : b = Bytes(m) /\ Len(b) = 2
    BY BytesAreTyped
  <2>3. PICK x \in Seq(ByteSet), y \in Seq(ByteSet) :
          /\ x = SubSeq(b, 1, k) /\ y = SubSeq(b, k + 1, 2) /\ x \o y = b /\ Len(x) = k
    <3>1. k \in 0..Len(b)
      BY <2>2
    <3>2. /\ SubSeq(b, 1, k) \in Seq(ByteSet) /\ Len(SubSeq(b, 1, k)) = k
          /\ SubSeq(b, k + 1, Len(b)) \in Seq(ByteSet)
          /\ SubSeq(b, 1, k) \o SubSeq(b, k + 1, Len(b)) = b
      BY <3>1, Split
    <3>3. QED
      BY <2>2, <3>2
  <2>4. /\ wire' = wire \o x /\ output' = output \o y /\ sent' = sent \o b
    BY <2>1, <2>2, <2>3
  <2>5. wire' \in Seq(ByteSet) /\ output' \in Seq(ByteSet) /\ sent' \in Seq(ByteSet)
    BY <1>1, <2>4, ConcatProperties
  <2>6. sent = wire \o output
    BY DEF BytesInOrder
  <2>7. sent' = wire' \o output'
    <3>1. CASE output = <<>>
      <4>1. sent = wire /\ output' = y
        BY <1>1, <2>4, <2>6, <3>1, ConcatEmptySeq
      <4>2. (wire \o x) \o y = wire \o (x \o y)
        BY <1>1, StreamsAssociate, ZenonT(60)
      <4>3. QED
        BY <2>3, <2>4, <4>1, <4>2
    <3>2. CASE k = 0
      <4>1. x = <<>>
        BY <2>3, <3>2, Lengths
      <4>2. wire' = wire /\ y = b
        BY <1>1, <2>3, <2>4, <4>1, ConcatEmptySeq
      <4>3. (wire \o output) \o y = wire \o (output \o y)
        BY <1>1, StreamsAssociate, ZenonT(60)
      <4>4. QED
        BY <2>4, <2>6, <4>2, <4>3
    <3>3. QED
      BY <2>1, <3>1, <3>2
  <2>8. QED
    BY <2>5, <2>7 DEF BytesInOrder
<1>4. QED
  BY <1>2, <1>3

LEMMA WriteStream ==
  ASSUME ServerTypeOK, BytesInOrder, HandleWrite
  PROVE  /\ output' \in Seq(ByteSet) /\ wire' \in Seq(ByteSet) /\ sent' \in Seq(ByteSet)
         /\ BytesInOrder'
<1>1. PICK o \in Seq(ByteSet), w \in Seq(ByteSet) : o = output /\ w = wire /\ sent = w \o o
  BY DEF ServerTypeOK, BytesInOrder
<1>2. PICK k \in 0..Len(o) :
        /\ wire' = w \o SubSeq(o, 1, k)
        /\ output' = SubSeq(o, k + 1, Len(o))
        /\ sent' = sent
  BY <1>1 DEF HandleWrite
<1>3. PICK x \in Seq(ByteSet), y \in Seq(ByteSet) :
        x = SubSeq(o, 1, k) /\ y = SubSeq(o, k + 1, Len(o)) /\ x \o y = o
  <2>1. /\ SubSeq(o, 1, k) \in Seq(ByteSet) /\ SubSeq(o, k + 1, Len(o)) \in Seq(ByteSet)
        /\ SubSeq(o, 1, k) \o SubSeq(o, k + 1, Len(o)) = o
    BY Split
  <2>2. QED
    BY <2>1
<1>4. wire' = w \o x /\ output' = y
  BY <1>2, <1>3
<1>5. wire' \in Seq(ByteSet) /\ sent \in Seq(ByteSet)
  BY <1>4, ConcatProperties DEF ServerTypeOK
<1>6. (w \o x) \o y = w \o (x \o y)
  BY StreamsAssociate, Zenon
<1>7. QED
  BY <1>1, <1>2, <1>3, <1>4, <1>5, <1>6 DEF BytesInOrder

LEMMA StreamStep ==
  ASSUME ServerTypeOK, BytesInOrder, [Next]_vars
  PROVE  /\ output' \in Seq(ByteSet) /\ wire' \in Seq(ByteSet) /\ sent' \in Seq(ByteSet)
         /\ BytesInOrder'
<1>1. \/ UNCHANGED <<output, wire, sent>>
      \/ \E m \in ToSet(Messages) : RunSend(m)
      \/ UserSends \/ HandleWrite
  BY DEF Next, Connection, LoopStep, UserStep, PeerStep, ThreadStep, ThreadReturns, vars, connVars,
         socketVars, NewConnection, RemoveConnection, DestroyServer, ConnUnchangedBut,
         SwapFunctors, ConnectEstablished, RunShutdown, RunForceClose, RunWriteComplete,
         ConnectDestroyed, Poll, HandleHup, HandleError, HandleRead, HandleReadFails,
         HandleReadEnds, UserReturns, UserShutsDown, UserForceCloses, ThreadPushes,
         ThreadSetsState, ThreadSends, ThreadCloses, ThreadUnchanged,
         PeerSends, PeerCloses, PeerResets, Drain, PeerUnchanged
<1>2. CASE UNCHANGED <<output, wire, sent>>
  BY <1>2 DEF BytesInOrder, ServerTypeOK
<1>3. ASSUME NEW m \in ToSet(Messages), RunSend(m)
      PROVE  /\ output' \in Seq(ByteSet) /\ wire' \in Seq(ByteSet) /\ sent' \in Seq(ByteSet)
             /\ BytesInOrder'
  BY <1>3, SendStream DEF RunSend
<1>4. CASE UserSends
  <2>1. Messages[given + 1] \in ToSet(Messages)
    BY <1>4, ConnectionAssumption, ElementOfSeq DEF UserSends, ServerTypeOK
  <2>2. UNCHANGED <<output, wire, sent>> \/ SendInLoop(Messages[given + 1], queue)
    BY <1>4 DEF UserSends
  <2>3. QED
    BY <1>2, <2>1, <2>2, SendStream
<1>5. QED
  BY <1>1, <1>2, <1>3, <1>4, WriteStream
-----------------------------------------------------------------------------
(* Before and after connectEstablished.                                    *)

LEMMA QueueElements ==
  /\ "connectEstablished" \notin Later
  /\ "connectDestroyed" \in Later \ Open /\ Open \subseteq Later
  /\ {"forceCloseInLoop", "shutdownInLoop", "writeComplete"} \subseteq Open
  /\ ToSet(Messages) \subseteq Open
  BY ConnectionAssumption DEF Open, Later, Guarded, Raw

LEMMA PushedAreOpen ==
  ASSUME ServerTypeOK, NEW t \in Threads, pc[t][1] = "push"
  PROVE  pc[t][2] \in Open
  BY DEF ServerTypeOK, Calling

(* Only a new connection queues connectEstablished, only the server queues *)
(* connectDestroyed.                                                       *)
LEMMA QueueStep ==
  ASSUME ServerTypeOK, [Next]_vars, NEW S, Open \subseteq S, queue \in Seq(S),
         "connectEstablished" \in S \/ phase # "listening",
         "connectDestroyed" \in S \/ ~(RemoveConnection \/ DestroyServer)
  PROVE  queue' \in Seq(S)
<1>1. CASE queue' = queue
  BY <1>1
<1>2. ASSUME queue # <<>>, NEW q, q = Tail(queue)
      PROVE  q \in Seq(S)
  BY <1>2, HeadTailProperties
<1>3. ASSUME NEW m \in ToSet(Messages), NEW q \in Seq(S), SendInLoop(m, q)
      PROVE  queue' \in Seq(S)
  <2>1. queue' = q \/ queue' = Append(q, "writeComplete")
    BY <1>3 DEF SendInLoop
  <2>2. QED
    BY <2>1, QueueElements, AppendProperties
<1>4. ASSUME NEW f, Call(f)
      PROVE  queue # <<>>
  BY <1>4 DEF Call, ServerTypeOK, ConnTypeOK
<1>5. ASSUME NEW m \in ToSet(Messages), RunSend(m)
      PROVE  queue' \in Seq(S)
  BY <1>2, <1>3, <1>4, <1>5 DEF RunSend
<1>6. CASE UserSends
  <2>1. Messages[given + 1] \in ToSet(Messages)
    BY <1>6, ConnectionAssumption, ElementOfSeq DEF UserSends, ServerTypeOK
  <2>2. queue' = queue \/ SendInLoop(Messages[given + 1], queue)
    BY <1>6 DEF UserSends
  <2>3. QED
    BY <1>1, <1>3, <2>1, <2>2
<1>7. ASSUME NEW f, Call(f), queue' = Tail(queue)
      PROVE  queue' \in Seq(S)
  BY <1>2, <1>4, <1>7
<1>8. ASSUME NEW f \in S, queue' = Append(queue, f)
      PROVE  queue' \in Seq(S)
  BY <1>8, AppendProperties
<1>9. CASE HandleWrite \/ NewConnection \/ RemoveConnection \/ DestroyServer
  BY <1>1, <1>8, <1>9, QueueElements
     DEF HandleWrite, NewConnection, RemoveConnection, DestroyServer, ConnUnchangedBut
<1>10. ASSUME NEW t \in Threads, ThreadPushes(t)
       PROVE  queue' \in Seq(S)
  BY <1>8, <1>10, PushedAreOpen DEF ThreadPushes
<1>11. \/ queue' = queue
       \/ \E f : Call(f) /\ queue' = Tail(queue)
       \/ \E m \in ToSet(Messages) : RunSend(m)
       \/ UserSends \/ HandleWrite \/ NewConnection \/ RemoveConnection \/ DestroyServer
       \/ \E t \in Threads : ThreadPushes(t)
  BY DEF Next, Connection, LoopStep, UserStep, PeerStep, ThreadStep, ThreadReturns, vars, connVars,
         SwapFunctors, ConnectEstablished, RunShutdown, RunForceClose,
         RunWriteComplete, ConnectDestroyed, Poll, HandleHup, HandleError, HandleRead,
         HandleReadFails, HandleReadEnds, UserReturns, UserShutsDown, UserForceCloses,
         ThreadSetsState, ThreadSends, ThreadCloses,
         PeerSends, PeerCloses, PeerResets, Drain, PeerUnchanged
<1>12. QED
  BY <1>1, <1>5, <1>6, <1>7, <1>9, <1>10, <1>11

LEMMA TodoStep ==
  ASSUME ServerTypeOK, [Next]_vars, queue' \in Seq(Guarded \cup Raw)
  PROVE  todo' \in 0..Len(queue')
<1> DEFINE S == Guarded \cup Raw
<1> USE Lengths
<1>1. queue \in Seq(S) /\ todo \in 0..Len(queue) /\ Len(queue) \in Nat
  BY DEF ServerTypeOK, ConnTypeOK
<1>2. ASSUME NEW q \in Seq(S), NEW x \in S
      PROVE  Len(Append(q, x)) = Len(q) + 1 /\ Len(q) \in Nat
  BY AppendProperties
<1>3. ASSUME queue # <<>>
      PROVE  Tail(queue) \in Seq(S) /\ Len(Tail(queue)) = Len(queue) - 1
  BY <1>1, <1>3, HeadTailProperties
<1>4. ASSUME NEW f, Call(f)
      PROVE  queue # <<>> /\ todo' = todo - 1 /\ todo \in 1..Len(queue)
  BY <1>1, <1>4 DEF Call
<1>5. ASSUME NEW m, NEW q \in Seq(S), SendInLoop(m, q)
      PROVE  Len(queue') >= Len(q) /\ Len(queue') \in Nat /\ Len(q) \in Nat
  <2>1. "writeComplete" \in S
    BY DEF Raw
  <2>2. queue' = q \/ queue' = Append(q, "writeComplete")
    BY <1>5 DEF SendInLoop
  <2>3. QED
    BY <1>2, <2>1, <2>2
<1>6. ASSUME NEW m \in ToSet(Messages), RunSend(m)
      PROVE  todo' \in 0..Len(queue')
  <2>1. Call(m) /\ SendInLoop(m, Tail(queue))
    BY <1>6 DEF RunSend
  <2>2. queue # <<>> /\ todo' = todo - 1 /\ todo \in 1..Len(queue)
    BY <1>4, <2>1
  <2>3. PICK q \in Seq(S) : q = Tail(queue) /\ Len(q) = Len(queue) - 1
    BY <1>3, <2>2
  <2>4. Len(queue') >= Len(q) /\ Len(queue') \in Nat
    BY <1>5, <2>1, <2>3
  <2>5. QED
    BY <1>1, <2>2, <2>3, <2>4
<1>7. CASE UserSends
  <2>1. queue' = queue \/ SendInLoop(Messages[given + 1], queue)
    BY <1>7 DEF UserSends
  <2>2. todo' = todo
    BY <1>7 DEF UserSends
  <2>3. QED
    BY <1>1, <1>5, <2>1, <2>2
<1>8. ASSUME NEW f, Call(f), queue' = Tail(queue)
      PROVE  todo' \in 0..Len(queue')
  BY <1>3, <1>4, <1>8
<1>9. ASSUME NEW f \in S, queue' = Append(queue, f), todo' = todo
      PROVE  todo' \in 0..Len(queue')
  BY <1>1, <1>2, <1>9
<1>10. {"connectEstablished", "connectDestroyed", "writeComplete"} \subseteq S
  BY DEF Guarded, Raw
<1>11. CASE HandleWrite \/ NewConnection \/ RemoveConnection \/ DestroyServer
  BY <1>1, <1>9, <1>10, <1>11
     DEF HandleWrite, NewConnection, RemoveConnection, DestroyServer, ConnUnchangedBut
<1>12. ASSUME NEW t \in Threads, ThreadPushes(t)
       PROVE  todo' \in 0..Len(queue')
  BY <1>9, <1>12, PushedAreOpen DEF ThreadPushes, ThreadUnchanged, Open, Later
<1>13. CASE SwapFunctors
  BY <1>1, <1>13 DEF SwapFunctors
<1>14. \/ queue' = queue /\ todo' = todo
       \/ \E f : Call(f) /\ queue' = Tail(queue)
       \/ \E m \in ToSet(Messages) : RunSend(m)
       \/ UserSends \/ HandleWrite \/ NewConnection \/ RemoveConnection \/ DestroyServer
       \/ SwapFunctors \/ \E t \in Threads : ThreadPushes(t)
  BY SMTT(30) DEF Next, Connection, LoopStep, UserStep, PeerStep, ThreadStep, ThreadReturns, vars, connVars,
         ConnectEstablished, RunShutdown, RunForceClose,
         RunWriteComplete, ConnectDestroyed, Poll, HandleHup, HandleError, HandleRead,
         HandleReadFails, HandleReadEnds, UserReturns, UserShutsDown, UserForceCloses,
         ThreadSetsState, ThreadSends, ThreadCloses, ThreadUnchanged,
         PeerSends, PeerCloses, PeerResets, Drain, PeerUnchanged
<1>15. QED
  BY <1>1, <1>6, <1>7, <1>8, <1>11, <1>12, <1>13, <1>14

(* The flags and counters of the connection and of the socket.             *)
LEMMA FieldsStep ==
  ASSUME ServerTypeOK, [Next]_vars
  PROVE  /\ state' \in States /\ events' \subseteq {"read", "write"}
         /\ index' \in {"kNew", "kAdded", "kDeleted"}
         /\ revents' \subseteq {"hup", "err", "in", "out"}
         /\ callback' \in {"none", "up", "message"}
         /\ peer' \in {"open", "closed", "reset"}
         /\ phase' \in {"listening", "serving", "gone"}
<1> USE DEF ServerTypeOK, ConnTypeOK
<1> USE DEF Next, Connection, LoopStep, UserStep, PeerStep, ThreadStep, ThreadReturns, vars,
            connVars, socketVars, channelVars, userVars, serverVars, NewConnection,
            RemoveConnection, DestroyServer, ConnUnchangedBut, SwapFunctors, Call,
            ConnectEstablished, RunShutdown, ShutdownInLoop, RunForceClose, RunWriteComplete,
            RunSend, SendInLoop, ConnectDestroyed, Poll, Dispatch, HandleHup, HandleError,
            HandleRead, HandleReadFails, HandleReadEnds, HandleWrite, UserReturns, UserSends,
            UserShutsDown, UserForceCloses, HandleClose, ForceCloseInLoop, ThreadPushes,
            ThreadSetsState, ThreadSends, ThreadCloses, ThreadUnchanged,
            PeerSends, PeerCloses, PeerResets, Drain, PeerUnchanged
<1>1. state' \in States
  BY SMTT(30) DEF States
<1>2. events' \subseteq {"read", "write"} /\ index' \in {"kNew", "kAdded", "kDeleted"}
  BY SMTT(30) DEF Update
<1>3. revents' \subseteq {"hup", "err", "in", "out"}
  BY DEF Ready
<1>4. callback' \in {"none", "up", "message"} /\ peer' \in {"open", "closed", "reset"}
  OBVIOUS
<1>5. phase' \in {"listening", "serving", "gone"}
  BY SMTT(30)
<1>6. QED
  BY <1>1, <1>2, <1>3, <1>4, <1>5, SMTT(30)

LEMMA CountsStep ==
  ASSUME ServerTypeOK, [Next]_vars
  PROVE  removals' \in Nat /\ ups' \in Nat /\ downs' \in Nat /\ given' \in 0..Len(Messages)
<1> USE DEF ServerTypeOK, ConnTypeOK
<1> USE DEF Next, Connection, LoopStep, UserStep, PeerStep, ThreadStep, ThreadReturns, vars,
            connVars, socketVars, channelVars, userVars, serverVars, NewConnection,
            RemoveConnection, DestroyServer, ConnUnchangedBut, SwapFunctors, Call,
            ConnectEstablished, RunShutdown, ShutdownInLoop, RunForceClose, RunWriteComplete,
            RunSend, SendInLoop, ConnectDestroyed, Poll, Dispatch, HandleHup, HandleError,
            HandleRead, HandleReadFails, HandleReadEnds, HandleWrite, UserReturns, UserSends,
            UserShutsDown, UserForceCloses, HandleClose, ForceCloseInLoop, ThreadPushes,
            ThreadSetsState, ThreadSends, ThreadCloses, ThreadUnchanged,
            PeerSends, PeerCloses, PeerResets, Drain, PeerUnchanged
<1>1. removals' \in Nat
  BY SMTT(30)
<1>2. ups' \in Nat /\ downs' \in Nat
  BY SMTT(30)
<1>3. given' \in 0..Len(Messages)
  BY ConnectionAssumption, Lengths, SMTT(30)
<1>4. QED
  BY <1>1, <1>2, <1>3, SMTT(30)

LEMMA FlagsStep ==
  ASSUME ServerTypeOK, [Next]_vars
  PROVE  /\ held' \in BOOLEAN /\ soError' \in BOOLEAN /\ input' \in BOOLEAN
         /\ room' \in BOOLEAN /\ fin' \in BOOLEAN
         /\ closes' \in Nat /\ late' \in Nat /\ inMap' \in BOOLEAN
<1> USE DEF ServerTypeOK, ConnTypeOK
<1> USE DEF Next, Connection, LoopStep, UserStep, PeerStep, ThreadStep, ThreadReturns, vars,
            connVars, socketVars, channelVars, userVars, serverVars, NewConnection,
            RemoveConnection, DestroyServer, ConnUnchangedBut, SwapFunctors, Call,
            ConnectEstablished, RunShutdown, ShutdownInLoop, RunForceClose, RunWriteComplete,
            RunSend, SendInLoop, ConnectDestroyed, Poll, Dispatch, HandleHup, HandleError,
            HandleRead, HandleReadFails, HandleReadEnds, HandleWrite, UserReturns, UserSends,
            UserShutsDown, UserForceCloses, HandleClose, ForceCloseInLoop, ThreadPushes,
            ThreadSetsState, ThreadSends, ThreadCloses, ThreadUnchanged,
            PeerSends, PeerCloses, PeerResets, Drain, PeerUnchanged
<1>1. held' \in BOOLEAN
  OBVIOUS
<1>2. soError' \in BOOLEAN /\ input' \in BOOLEAN
  OBVIOUS
<1>3. room' \in BOOLEAN
  OBVIOUS
<1>4. fin' \in BOOLEAN
  OBVIOUS
<1>5. closes' \in Nat /\ late' \in Nat
  BY SMTT(40)
<1>6. inMap' \in BOOLEAN
  OBVIOUS
<1>7. QED
  BY <1>1, <1>2, <1>3, <1>4, <1>5, <1>6, SMTT(30)

LEMMA CallersStep ==
  ASSUME ServerTypeOK, [Next]_vars
  PROVE  pc' \in [Threads -> Calling]
<1>1. pc \in [Threads -> Calling]
  BY DEF ServerTypeOK
<1>2. ASSUME NEW t \in Threads, NEW c \in Calling, pc' = [pc EXCEPT ![t] = c]
      PROVE  pc' \in [Threads -> Calling]
  BY <1>1, <1>2
<1>3. ASSUME NEW t \in Threads, ThreadSends(t)
      PROVE  pc' \in [Threads -> Calling]
  <2>1. Messages[given + 1] \in ToSet(Messages)
    BY <1>3, ConnectionAssumption, ElementOfSeq DEF ThreadSends, ServerTypeOK
  <2>2. <<"push", Messages[given + 1]>> \in Calling
    BY <2>1, QueueElements DEF Calling
  <2>3. pc' = [pc EXCEPT ![t] = <<"push", Messages[given + 1]>>]
    BY <1>3 DEF ThreadSends, Goto
  <2>4. QED
    BY <1>2, <2>2, <2>3
<1>4. ASSUME NEW t \in Threads, NEW call \in CallNames, ThreadCloses(t, call)
      PROVE  pc' \in [Threads -> Calling]
  <2>1. <<"set", call>> \in Calling
    BY <1>4 DEF ThreadCloses, CallNames, Calling
  <2>2. QED
    BY <1>2, <1>4, <2>1 DEF ThreadCloses, Goto
<1>5. ASSUME NEW t \in Threads, NEW call \in CallNames, ThreadSetsState(t, call)
      PROVE  pc' \in [Threads -> Calling]
  <2>1. PICK f \in Open :
          f = IF call = "shutdown" THEN "shutdownInLoop" ELSE "forceCloseInLoop"
    BY QueueElements
  <2>2. <<"push", f>> \in Calling
    BY DEF Calling
  <2>3. QED
    BY <1>2, <1>5, <2>1, <2>2 DEF ThreadSetsState, Goto
<1>6. ASSUME NEW t \in Threads, ThreadPushes(t)
      PROVE  pc' \in [Threads -> Calling]
  <2>1. <<"idle", "idle">> \in Calling
    BY DEF Calling
  <2>2. QED
    BY <1>2, <1>6, <2>1 DEF ThreadPushes, Goto
<1>7. pc' = pc \/ \E t \in Threads :
                    \/ ThreadSends(t) \/ ThreadPushes(t)
                    \/ \E call \in CallNames : ThreadCloses(t, call) \/ ThreadSetsState(t, call)
  BY DEF Next, Connection, LoopStep, UserStep, PeerStep, ThreadStep, ThreadReturns, vars, connVars,
         userVars, NewConnection, RemoveConnection, DestroyServer, ConnUnchangedBut,
         SwapFunctors, ConnectEstablished, RunShutdown, RunForceClose, RunWriteComplete, RunSend,
         ConnectDestroyed, Poll, HandleHup, HandleError, HandleRead, HandleReadFails,
         HandleReadEnds, HandleWrite, UserReturns, UserSends, UserShutsDown, UserForceCloses,
         PeerSends, PeerCloses, PeerResets, Drain, PeerUnchanged
<1>8. QED
  BY <1>1, <1>3, <1>4, <1>5, <1>6, <1>7

LEMMA TypeStep ==
  ASSUME ServerTypeOK, BytesInOrder, [Next]_vars
  PROVE  ServerTypeOK'
<1>1. queue \in Seq(Guarded \cup Raw)
  BY DEF ServerTypeOK, ConnTypeOK
<1>2. "connectEstablished" \in Guarded \cup Raw /\ {"connectDestroyed"} \cup Open \subseteq Guarded \cup Raw
  BY DEF Guarded, Open, Later
<1>3. queue' \in Seq(Guarded \cup Raw)
  BY <1>1, <1>2, QueueStep
<1>4. QED
  BY <1>3, StreamStep, TodoStep, FieldsStep, CountsStep, FlagsStep, CallersStep
     DEF ServerTypeOK, ConnTypeOK

LEMMA ShortQueues ==
  ASSUME NEW f, NEW g
  PROVE  Append(<<f>>, g) = <<f, g>> /\ Tail(<<f>>) = <<>> /\ Tail(<<f, g>>) = <<g>>
<1>1. Append(<<f>>, g) = <<f, g>>
  <2> DEFINE a == Append(<<f>>, g)
             b == <<f, g>>
  <2>1. <<f>> \in Seq({f, g}) /\ Len(<<f>>) = 1 /\ <<f>>[1] = f
    OBVIOUS
  <2>2. b \in Seq({f, g}) /\ Len(b) = 2 /\ b[1] = f /\ b[2] = g
    OBVIOUS
  <2>3. a \in Seq({f, g}) /\ Len(a) = 2 /\ a[1] = f /\ a[2] = g
    BY <2>1, AppendProperties
  <2> HIDE DEF a, b
  <2>4. \A i \in 1..Len(a) : a[i] = b[i]
    BY <2>2, <2>3
  <2>5. a = b
    BY <2>2, <2>3, <2>4, SeqEqual
  <2>6. QED
    BY <2>5 DEF a, b
<1>2. Tail(<<f>>) = <<>>
  OBVIOUS
<1>3. Tail(<<f, g>>) = <<g>>
  OBVIOUS
<1>4. QED
  BY <1>1, <1>2, <1>3

(* Before connectEstablished nothing else can happen to the connection.    *)
LEMMA UnbornSteps ==
  ASSUME ServerTypeOK, Unborn, ups = 0, [Next]_vars
  PROVE  \/ SwapFunctors /\ UNCHANGED serverVars
         \/ ConnectEstablished /\ UNCHANGED serverVars
         \/ PeerStep /\ UNCHANGED serverVars
         \/ NewConnection \/ DestroyServer \/ UNCHANGED vars
<1>1. ASSUME NEW f, Call(f)
      PROVE  f = "connectEstablished"
  <2>1. queue # <<>>
    BY <1>1 DEF Call, ServerTypeOK, ConnTypeOK
  <2>2. Head(queue) = "connectEstablished"
    BY <2>1 DEF Unborn
  <2>3. QED
    BY <1>1, <2>2 DEF Call
<1>2. ~(RunShutdown \/ RunForceClose \/ RunWriteComplete \/ ConnectDestroyed)
  BY <1>1 DEF RunShutdown, RunForceClose, RunWriteComplete, ConnectDestroyed
<1>3. ~\E m \in ToSet(Messages) : RunSend(m)
  BY <1>1, QueueElements DEF RunSend
<1>4. ~Poll
  BY DEF Poll, Ready, Unborn
<1>5. ~(HandleHup \/ HandleError \/ HandleRead \/ HandleReadFails \/ HandleReadEnds \/ HandleWrite)
  BY DEF HandleHup, HandleError, HandleRead, HandleReadFails, HandleReadEnds, HandleWrite,
         Dispatch, Unborn
<1>6. ~(UserReturns \/ UserStep)
  BY DEF UserReturns, UserStep, UserSends, UserShutsDown, UserForceCloses, InCallback, Unborn
<1>7. ASSUME NEW t \in Threads
      PROVE  ~ThreadStep(t)
  <2>1. pc[t] = <<"idle", "idle">>
    BY DEF Unborn
  <2>2. ~ThreadPushes(t)
    BY <2>1 DEF ThreadPushes
  <2>3. ASSUME NEW call PROVE ~ThreadSetsState(t, call) /\ ~ThreadCloses(t, call)
    BY <2>1 DEF ThreadSetsState, ThreadCloses, At
  <2>4. ~ThreadSends(t)
    BY DEF ThreadSends
  <2>5. QED
    BY <2>2, <2>3, <2>4 DEF ThreadStep, ThreadReturns
<1>8. ~RemoveConnection
  BY DEF RemoveConnection, Unborn
<1>9. QED
  BY <1>2, <1>3, <1>4, <1>5, <1>6, <1>7, <1>8 DEF Next, Connection, LoopStep

LEMMA UnbornStep ==
  ASSUME ServerTypeOK, Life, ups = 0, [Next]_vars
  PROVE  Life'
<1> USE DEF Life, Unborn
<1>1. Unborn
  OBVIOUS
<1>2. CASE (SwapFunctors \/ PeerStep) /\ UNCHANGED serverVars
  <2>1. /\ UNCHANGED <<state, events, index, output, wire, sent, fin, late, revents, callback>>
        /\ UNCHANGED <<downs, removals, pc, queue, inMap, ups, phase>>
    BY <1>2 DEF SwapFunctors, PeerStep, PeerSends, PeerCloses, PeerResets, Drain, PeerUnchanged,
                serverVars, channelVars, userVars, socketVars
  <2>2. QED
    BY <2>1
<1>3. CASE UNCHANGED vars
  BY <1>3 DEF vars, connVars, serverVars, channelVars, userVars, socketVars
<1>4. CASE NewConnection
  <2>1. /\ UNCHANGED <<state, events, index, output, wire, sent, fin, late, revents, callback>>
        /\ UNCHANGED <<downs, removals, pc, ups>>
        /\ phase' = "serving" /\ queue' = Append(queue, "connectEstablished") /\ queue = <<>>
    BY <1>4 DEF NewConnection, ConnUnchangedBut, channelVars, userVars, socketVars
  <2>2. queue' = <<"connectEstablished">>
    BY <2>1
  <2>3. QED
    BY <2>1, <2>2
<1>5. CASE DestroyServer
  <2>1. /\ UNCHANGED <<state, events, index, output, wire, sent, fin, late, revents, callback>>
        /\ UNCHANGED <<downs, pc, ups>>
        /\ phase' = "gone" /\ inMap' = FALSE /\ removals' = 0
        /\ queue' = IF inMap THEN Append(queue, "connectDestroyed") ELSE queue
    BY <1>5 DEF DestroyServer, ConnUnchangedBut, channelVars, userVars, socketVars
  <2>2. queue' = queue \/ queue' = <<"connectEstablished", "connectDestroyed">>
    <3>1. CASE inMap
      <4>1. queue = <<"connectEstablished">> /\ queue' = Append(queue, "connectDestroyed")
        BY <2>1, <3>1
      <4>2. QED
        BY <4>1, ShortQueues
    <3>2. CASE ~inMap
      BY <2>1, <3>2
    <3>3. QED
      BY <3>1, <3>2
  <2>3. QED
    BY <2>1, <2>2
<1>6. CASE ConnectEstablished /\ UNCHANGED serverVars
  <2>1. state' = "kConnected" /\ ups' = 1 /\ queue' = Tail(queue) /\ queue # <<>> /\ phase' = phase
    BY <1>6 DEF ConnectEstablished, Call, serverVars, ServerTypeOK, ConnTypeOK
  <2>2. queue' = <<>> \/ queue' = <<"connectDestroyed">>
    <3>1. \/ queue = <<"connectEstablished">>
          \/ queue = <<"connectEstablished", "connectDestroyed">>
      BY <2>1
    <3>2. QED
      BY <2>1, <3>1, ShortQueues
  <2>3. queue' \in Seq(Later)
    <3>1. PICK d \in Later : d = "connectDestroyed"
      BY QueueElements
    <3>2. <<>> \in Seq(Later) /\ <<d>> \in Seq(Later)
      OBVIOUS
    <3>3. QED
      BY <2>2, <3>1, <3>2
  <2>4. QED
    BY <2>1, <2>3
<1>7. QED
  BY <1>1, <1>2, <1>3, <1>4, <1>5, <1>6, UnbornSteps

LEMMA EstablishedOnce ==
  ASSUME ServerTypeOK, Life, ups # 0
  PROVE  ~ConnectEstablished
<1> SUFFICES ASSUME ConnectEstablished PROVE FALSE
  OBVIOUS
<1>1. queue # <<>> /\ Head(queue) = "connectEstablished"
  BY DEF ConnectEstablished, Call, ServerTypeOK, ConnTypeOK
<1>2. Head(queue) \in Later
  BY <1>1, HeadTailProperties DEF Life
<1>3. QED
  BY <1>1, <1>2, QueueElements

LEMMA LifeStep ==
  ASSUME ServerTypeOK, Life, [Next]_vars
  PROVE  Life'
<1>1. CASE ups = 0
  BY <1>1, UnbornStep
<1>2. CASE ups # 0
  <2>1. ups = 1 /\ queue \in Seq(Later) /\ state # "kConnecting" /\ phase # "listening"
    BY <1>2 DEF Life
  <2>2. queue' \in Seq(Later)
    BY <2>1, QueueStep, QueueElements
  <2>3. ~ConnectEstablished
    BY <1>2, EstablishedOnce, SMTT(30)
  <2>4. ups' = ups /\ state' # "kConnecting" /\ phase' # "listening"
    BY <2>1, <2>3
       DEF Next, Connection, LoopStep, UserStep, PeerStep, ThreadStep, ThreadReturns, vars,
            connVars, socketVars, channelVars, userVars, serverVars, NewConnection,
            RemoveConnection, DestroyServer, ConnUnchangedBut, SwapFunctors, Call,
            ConnectEstablished, RunShutdown, ShutdownInLoop, RunForceClose, RunWriteComplete,
            RunSend, SendInLoop, ConnectDestroyed, Poll, Dispatch, HandleHup, HandleError,
            HandleRead, HandleReadFails, HandleReadEnds, HandleWrite, UserReturns, UserSends,
            UserShutsDown, UserForceCloses, HandleClose, ForceCloseInLoop, ThreadPushes,
            ThreadSetsState, ThreadSends, ThreadCloses, ThreadUnchanged,
            PeerSends, PeerCloses, PeerResets, Drain, PeerUnchanged
  <2>5. QED
    BY <2>1, <2>2, <2>4 DEF Life
<1>3. QED
  BY <1>1, <1>2
(* Nothing but a close and the end of the server queues connectDestroyed.  *)
LEMMA UndestroyedStep ==
  ASSUME ServerTypeOK, Life, Undestroyed, [Next]_vars, ups # 0
  PROVE  Undestroyed'
<1> SUFFICES ASSUME phase' # "gone", downs' = 0
             PROVE  removals' = 0 /\ queue' \in Seq(Open)
  BY DEF Undestroyed
<1>1. ~DestroyServer
  BY DEF DestroyServer
<1>2. phase # "gone"
  BY <1>1 DEF Next, Connection, vars, serverVars, NewConnection, RemoveConnection
<1>3. downs = 0 /\ ~HandleClose
  BY SMTT(30) DEF Next, Connection, LoopStep, UserStep, PeerStep, ThreadStep, ThreadReturns, vars,
         connVars, NewConnection, RemoveConnection, DestroyServer, ConnUnchangedBut,
         SwapFunctors, ConnectEstablished, RunShutdown, RunForceClose, RunWriteComplete,
         RunSend, ConnectDestroyed, Poll, HandleHup, HandleError, HandleRead,
         HandleReadFails, HandleReadEnds, HandleWrite, UserReturns, UserSends,
         UserShutsDown, UserForceCloses, HandleClose, ForceCloseInLoop, ThreadPushes,
         ThreadSetsState, ThreadSends, ThreadCloses, ThreadUnchanged,
         PeerSends, PeerCloses, PeerResets, Drain, PeerUnchanged,
         ServerTypeOK, ConnTypeOK
<1>4. removals = 0 /\ queue \in Seq(Open)
  BY <1>2, <1>3 DEF Undestroyed
<1>5. ~RemoveConnection
  BY <1>4 DEF RemoveConnection
<1>6. queue' \in Seq(Open)
  BY <1>1, <1>4, <1>5, QueueStep DEF Life
<1>7. removals' = removals
  BY <1>1, <1>3, <1>5
     DEF Next, Connection, LoopStep, UserStep, PeerStep, ThreadStep, ThreadReturns, vars,
         connVars, NewConnection, SwapFunctors, ConnectEstablished, RunShutdown,
         RunForceClose, RunWriteComplete, RunSend, ConnectDestroyed, Poll, HandleHup,
         HandleError, HandleRead, HandleReadFails, HandleReadEnds, HandleWrite, UserReturns,
         UserSends, UserShutsDown, UserForceCloses, ForceCloseInLoop, ThreadPushes,
         ThreadSetsState, ThreadSends, ThreadCloses, ThreadUnchanged,
         PeerSends, PeerCloses, PeerResets, Drain, PeerUnchanged
<1>8. QED
  BY <1>4, <1>6, <1>7

-----------------------------------------------------------------------------
(* What the connection and the epoll set say of each other.                *)

ConnectionInv == Registered /\ Watched /\ FinAfterBytes /\ Reports

(* sendInLoop either leaves outputBuffer_ and the channel as they are, or  *)
(* something waits afterwards and EPOLLOUT is asked for.                   *)
LEMMA SendWaits ==
  ASSUME ServerTypeOK, NEW m \in ToSet(Messages), NEW q, SendInLoop(m, q)
  PROVE  \/ UNCHANGED <<output, events, index>>
         \/ /\ output' # <<>> /\ events' = events \cup {"write"}
            /\ index' = "kAdded" \/ (index' = index /\ "write" \in events)
            /\ state # "kDisconnected"
            /\ ~(fin /\ "write" \notin events /\ output = <<>>)
<1>1. CASE state = "kDisconnected" \/ ("write" \notin events /\ output = <<>> /\ Fault)
  BY <1>1 DEF SendInLoop, channelVars
<1>2. CASE ~(state = "kDisconnected" \/ ("write" \notin events /\ output = <<>> /\ Fault))
  <2>1. PICK k \in 0..2 :
          /\ output' = output \o SubSeq(Bytes(m), k + 1, 2)
          /\ IF k < 2 /\ "write" \notin events
               THEN Update(events \cup {"write"}) ELSE UNCHANGED channelVars
    BY <1>2 DEF SendInLoop
  <2>2. output \in Seq(ByteSet)
    BY DEF ServerTypeOK
  <2>3. PICK b \in Seq(ByteSet) : b = Bytes(m) /\ Len(b) = 2
    BY BytesAreTyped
  <2>4. PICK y \in Seq(ByteSet) : y = SubSeq(b, k + 1, 2) /\ Len(y) = 2 - k
    <3>1. SubSeq(b, k + 1, Len(b)) \in Seq(ByteSet) /\ Len(SubSeq(b, k + 1, Len(b))) = Len(b) - k
      BY <2>3, Split
    <3>2. QED
      BY <2>3, <3>1
  <2>5. output' = output \o y
    BY <2>1, <2>3, <2>4
  <2>6. CASE k = 2
    <3>1. y = <<>>
      BY <2>4, <2>6, Lengths
    <3>2. output' = output
      BY <2>2, <2>5, <3>1, ConcatEmptySeq
    <3>3. QED
      BY <2>1, <2>6, <3>2 DEF channelVars
  <2>7. CASE k # 2
    <3>1. y # <<>>
      <4>1. Len(y) # 0
        BY <2>1, <2>4, <2>7
      <4>2. QED
        BY <4>1, EmptySeq
    <3>2. output' # <<>>
      BY <2>2, <2>5, <3>1, ConcatEqualIffEmpty
    <3>3. events' = events \cup {"write"}
          /\ (index' = "kAdded" \/ (index' = index /\ "write" \in events))
      BY <2>1, <2>7 DEF Update, channelVars
    <3>4. QED
      BY <1>2, <3>2, <3>3 DEF Fault
  <2>8. QED
    BY <2>6, <2>7
<1>3. QED
  BY <1>1, <1>2

LEMMA SendKeeps ==
  ASSUME ServerTypeOK, state # "kConnecting", ConnectionInv,
         NEW m \in ToSet(Messages), NEW q, SendInLoop(m, q),
         UNCHANGED <<state, fin, late, downs, phase>>
  PROVE  ConnectionInv'
<1>1. CASE UNCHANGED <<output, events, index>>
  BY <1>1 DEF ConnectionInv, Registered, Watched, FinAfterBytes, Reports, Gone
<1>2. CASE /\ output' # <<>> /\ events' = events \cup {"write"}
           /\ index' = "kAdded" \/ (index' = index /\ "write" \in events)
           /\ state # "kDisconnected"
           /\ ~(fin /\ "write" \notin events /\ output = <<>>)
  <2>1. Registered' /\ Watched' /\ FinAfterBytes'
    <3>1. Registered' /\ Watched'
      BY <1>2 DEF ConnectionInv, Registered, Watched
    <3>2. FinAfterBytes'
      BY <1>2 DEF ConnectionInv, Watched, FinAfterBytes, ServerTypeOK, ConnTypeOK
    <3>3. QED
      BY <3>1, <3>2
  <2>2. Reports'
    BY <1>2 DEF ConnectionInv, Reports, Gone
  <2>3. QED
    BY <2>1, <2>2 DEF ConnectionInv
<1>3. QED
  BY <1>1, <1>2, SendWaits

LEMMA CloseKeeps ==
  ASSUME ServerTypeOK, state # "kConnecting", ConnectionInv, HandleClose,
         index = "kAdded" \/ state # "kDisconnected", UNCHANGED <<fin, late, phase>>
  PROVE  ConnectionInv'
<1> USE DEF ServerTypeOK, ConnTypeOK
<1>1. /\ state' = "kDisconnected" /\ events' = {} /\ downs' = downs + 1
      /\ index' = IF index = "kAdded" THEN "kDeleted" ELSE "kAdded"
  BY DEF HandleClose, Update
<1>2. Registered' /\ Watched' /\ FinAfterBytes'
  BY <1>1 DEF Registered, Watched, FinAfterBytes
<1>3. CASE state = "kDisconnected"
  <2>1. index = "kAdded"
    BY <1>3
  <2>2. QED
    BY <1>1, <1>2, <1>3, <2>1 DEF ConnectionInv, Reports, Gone
<1>4. CASE state # "kDisconnected" /\ index = "kAdded"
  BY <1>1, <1>2, <1>4 DEF ConnectionInv, Reports, Gone
<1>5. CASE state # "kDisconnected" /\ index # "kAdded"
  <2>1. state = "kDisconnecting"
    BY <1>5 DEF ConnectionInv, Registered, States
  <2>2. late > 0 \/ phase = "gone"
    BY <1>5, <2>1 DEF ConnectionInv, Registered, Reports
  <2>3. QED
    BY <1>1, <1>2, <1>5, <2>2 DEF ConnectionInv, Reports, Gone
<1>6. QED
  BY <1>3, <1>4, <1>5

LEMMA ForceCloseKeeps ==
  ASSUME ServerTypeOK, state # "kConnecting", ConnectionInv, ForceCloseInLoop,
         UNCHANGED <<output, fin, late, phase>>
  PROVE  ConnectionInv'
<1>1. CASE HandleClose /\ state \in {"kConnected", "kDisconnecting"}
  BY <1>1, CloseKeeps
<1>2. CASE UNCHANGED <<state, channelVars, downs>>
  BY <1>2 DEF ConnectionInv, Registered, Watched, FinAfterBytes, Reports, channelVars, Gone
<1>3. QED
  BY <1>1, <1>2 DEF ForceCloseInLoop

LEMMA WriteKeeps ==
  ASSUME ServerTypeOK, state # "kConnecting", ConnectionInv, HandleWrite, phase' = phase
  PROVE  ConnectionInv'
<1>1. PICK o \in Seq(ByteSet) : o = output /\ Len(o) \in Nat
  BY Lengths DEF ServerTypeOK
<1>2. PICK k \in 0..Len(o) :
        /\ output' = SubSeq(o, k + 1, Len(o))
        /\ IF k > 0 /\ k = Len(o)
             THEN Update(events \ {"write"}) /\ fin' = (fin \/ state = "kDisconnecting")
             ELSE UNCHANGED channelVars /\ fin' = fin
        /\ k > 0 => "write" \in events /\ ~Fault
        /\ UNCHANGED <<state, late, downs>>
  BY <1>1 DEF HandleWrite, userVars, Takes
<1>3. output' \in Seq(ByteSet) /\ Len(output') = Len(o) - k
  <2>1. /\ SubSeq(o, k + 1, Len(o)) \in Seq(ByteSet)
        /\ Len(SubSeq(o, k + 1, Len(o))) = Len(o) - k
    BY Split
  <2>2. QED
    BY <1>2, <2>1
<1>4. (output' = <<>> <=> k = Len(o)) /\ (o = <<>> <=> Len(o) = 0)
  BY <1>1, <1>3, Lengths
<1>5. CASE k > 0 /\ k = Len(o)
  <2>1. output' = <<>> /\ events' = events \ {"write"} /\ "write" \in events
    BY <1>2, <1>4, <1>5 DEF Update
  <2>2. "read" \in events => index' = "kAdded" /\ "read" \in events'
    BY <1>2, <1>5, <2>1 DEF Update
  <2>3. state # "kDisconnected"
    BY <2>1 DEF ConnectionInv, Registered
  <2>4. index' # "kNew"
    BY <1>2, <1>5 DEF Update
  <2>5. QED
    BY <1>2, <2>1, <2>2, <2>3, <2>4
       DEF Gone, ServerTypeOK, ConnTypeOK, ConnectionInv, Registered, Watched, FinAfterBytes, Reports
<1>6. CASE ~(k > 0 /\ k = Len(o))
  <2>1. UNCHANGED <<events, index, fin, state, late, downs>>
    BY <1>2, <1>6 DEF channelVars
  <2>2. output' = <<>> <=> output = <<>>
    BY <1>1, <1>4, <1>6
  <2>3. QED
    BY <2>1, <2>2 DEF ConnectionInv, Registered, Watched, FinAfterBytes, Reports, Gone
<1>7. QED
  BY <1>5, <1>6
LEMMA ReportedStep ==
  ASSUME ServerTypeOK, Life, Reported, [Next]_vars, ups # 0
  PROVE  Reported'
<1> USE DEF Reported, ServerTypeOK, ConnTypeOK
<1>1. CASE UNCHANGED <<revents, callback>>
  <2>1. CASE {"hup", "in"} \cap revents = {}
    BY <1>1, <2>1
  <2>2. CASE {"hup", "in"} \cap revents # {}
    <3>1. callback = "none" /\ revents # {}
      BY <2>2
    <3>2. index' = index
      BY <1>1, <3>1
         DEF Next, Connection, LoopStep, UserStep, PeerStep, ThreadStep, ThreadReturns, vars, connVars,
             channelVars, NewConnection, RemoveConnection, DestroyServer, ConnUnchangedBut,
             SwapFunctors, Call, LoopFree, InCallback, ConnectEstablished, RunShutdown,
             RunForceClose, RunWriteComplete, RunSend, ConnectDestroyed, Poll, Dispatch,
             HandleHup, HandleError, HandleRead, HandleReadFails, HandleReadEnds, HandleWrite,
             UserReturns, UserSends, UserShutsDown, UserForceCloses, ThreadPushes,
             ThreadSetsState, ThreadSends, ThreadCloses, ThreadUnchanged,
             PeerSends, PeerCloses, PeerResets, Drain, PeerUnchanged
    <3>3. QED
      BY <1>1, <3>2
  <2>3. QED
    BY <2>1, <2>2
<1>2. CASE Poll
  BY <1>2 DEF Poll, Ready, LoopFree, channelVars
<1>3. CASE HandleHup
  BY <1>3 DEF HandleHup, Dispatch
<1>4. CASE HandleError \/ HandleReadFails
  BY <1>4 DEF HandleError, HandleReadFails, Dispatch, channelVars
<1>5. CASE HandleRead
  BY <1>5 DEF HandleRead, Dispatch
<1>6. CASE HandleReadEnds
  BY <1>6 DEF HandleReadEnds, Dispatch
<1>7. CASE HandleWrite
  BY <1>7 DEF HandleWrite, Dispatch
<1>8. CASE UserReturns
  BY <1>8 DEF UserReturns, InCallback, channelVars
<1>9. \/ UNCHANGED <<revents, callback>>
      \/ Poll \/ HandleHup \/ HandleError \/ HandleReadFails \/ HandleRead \/ HandleReadEnds
      \/ HandleWrite \/ UserReturns \/ ConnectEstablished
  BY DEF Next, Connection, LoopStep, UserStep, PeerStep, ThreadStep, ThreadReturns, vars, connVars,
         NewConnection, RemoveConnection, DestroyServer, ConnUnchangedBut,
         SwapFunctors, RunShutdown, RunForceClose, RunWriteComplete, RunSend, ConnectDestroyed,
         UserSends, UserShutsDown, UserForceCloses, ThreadPushes,
         ThreadSetsState, ThreadSends, ThreadCloses, ThreadUnchanged,
         PeerSends, PeerCloses, PeerResets, Drain, PeerUnchanged
<1>10. QED
  BY <1>1, <1>2, <1>3, <1>4, <1>5, <1>6, <1>7, <1>8, <1>9, EstablishedOnce

LEMMA ConnectionStep ==
  ASSUME ServerTypeOK, Life, Reported, Undestroyed, ConnectionInv, [Next]_vars, ups # 0
  PROVE  ConnectionInv'
<1>1. state # "kConnecting"
  BY DEF Life
<1>2. CASE UNCHANGED <<state, events, index, output, fin, late, downs, phase>>
  BY <1>2 DEF Gone, ConnectionInv, Registered, Watched, FinAfterBytes, Reports
<1>3. CASE (RunShutdown \/ UserShutsDown) /\ phase' = phase
  <2>1. /\ UNCHANGED <<events, index, output, late, downs>>
        /\ fin' = (fin \/ "write" \notin events)
        /\ state' = state \/ (state = "kConnected" /\ state' = "kDisconnecting")
    BY <1>3 DEF RunShutdown, UserShutsDown, ShutdownInLoop, channelVars, userVars
  <2>2. Registered' /\ Watched'
    BY <1>3, <2>1 DEF ConnectionInv, Registered, Watched
  <2>3. FinAfterBytes'
    BY <2>1 DEF ConnectionInv, Watched, FinAfterBytes, ServerTypeOK, ConnTypeOK
  <2>4. Reports'
    BY <1>3, <2>1 DEF ConnectionInv, Reports, Gone
  <2>5. QED
    BY <2>2, <2>3, <2>4 DEF ConnectionInv
<1>4. CASE (RunForceClose \/ UserForceCloses) /\ phase' = phase
  BY <1>1, <1>4, ForceCloseKeeps DEF RunForceClose, UserForceCloses, userVars, socketVars
<1>5. CASE (HandleHup \/ HandleReadEnds) /\ phase' = phase
  <2>1. index = "kAdded"
    BY <1>5 DEF HandleHup, HandleReadEnds, Dispatch, Reported
  <2>2. HandleClose /\ UNCHANGED <<fin, late, phase>>
    BY <1>5 DEF HandleHup, HandleReadEnds, userVars, socketVars
  <2>3. QED
    BY <1>1, <2>1, <2>2, CloseKeeps
<1>6. ASSUME NEW m \in ToSet(Messages), RunSend(m), phase' = phase
      PROVE  ConnectionInv'
  <2>1. SendInLoop(m, Tail(queue)) /\ UNCHANGED <<state, fin, late, downs, phase>>
    BY <1>6 DEF RunSend, userVars
  <2>2. QED
    BY <1>1, <2>1, SendKeeps
<1>7. CASE UserSends /\ phase' = phase
  <2>1. Messages[given + 1] \in ToSet(Messages)
    BY <1>7, ConnectionAssumption, ElementOfSeq DEF UserSends, ServerTypeOK
  <2>2. UNCHANGED <<state, fin, late, downs, phase>>
    BY <1>7 DEF UserSends
  <2>3. CASE state = "kConnected"
    <3>1. SendInLoop(Messages[given + 1], queue)
      BY <1>7, <2>3 DEF UserSends
    <3>2. QED
      BY <1>1, <2>1, <2>2, <3>1, SendKeeps
  <2>4. CASE state # "kConnected"
    BY <1>2, <1>7, <2>2, <2>4 DEF UserSends, channelVars
  <2>5. QED
    BY <2>3, <2>4
<1>8. CASE HandleWrite /\ phase' = phase
  BY <1>1, <1>8, WriteKeeps
<1>9. CASE ConnectDestroyed /\ phase' = phase
  <2>1. index' = "kNew" /\ UNCHANGED <<output, fin, late>>
    BY <1>9 DEF ConnectDestroyed, userVars, socketVars
  <2>2. CASE state = "kConnected"
    <3>1. state' = "kDisconnected" /\ downs' = downs + 1 /\ events' = {}
      BY <1>9, <2>2 DEF ConnectDestroyed
    <3>2. QED
      BY <1>9, <2>1, <2>2, <3>1
         DEF ServerTypeOK, ConnTypeOK, ConnectionInv, Registered, Watched, FinAfterBytes, Reports, Gone
  <2>3. CASE state = "kDisconnecting"
    <3>1. UNCHANGED <<state, downs, events>>
      BY <1>9, <2>3 DEF ConnectDestroyed
    <3>2. late > 0 \/ phase = "gone"
      <4>1. queue # <<>> /\ Head(queue) = "connectDestroyed"
        BY <1>9 DEF ConnectDestroyed, Call, ServerTypeOK, ConnTypeOK
      <4>2. queue \notin Seq(Open)
        BY <4>1, HeadTailProperties, QueueElements
      <4>3. downs # 0 \/ phase = "gone"
        BY <4>2 DEF Undestroyed
      <4>4. QED
        BY <2>3, <4>3 DEF ConnectionInv, Reports, ServerTypeOK
    <3>3. QED
      BY <1>9, <2>1, <2>3, <3>1, <3>2
         DEF ConnectionInv, Registered, Watched, FinAfterBytes, Reports, Gone
  <2>4. CASE state = "kDisconnected"
    <3>1. UNCHANGED <<state, downs, events>>
      BY <1>9, <2>4 DEF ConnectDestroyed
    <3>2. QED
      BY <1>9, <2>1, <2>4, <3>1
         DEF ServerTypeOK, ConnTypeOK, ConnectionInv, Registered, Watched, FinAfterBytes, Reports, Gone
  <2>5. QED
    BY <1>1, <2>2, <2>3, <2>4 DEF ServerTypeOK, ConnTypeOK, States
<1>10. ASSUME NEW t \in Threads, NEW call \in CallNames, ThreadSetsState(t, call), phase' = phase
       PROVE  ConnectionInv'
  <2>1. /\ state' = "kDisconnecting" /\ UNCHANGED <<events, index, output, fin, downs>>
        /\ late' = IF state = "kDisconnected" THEN late + 1 ELSE late
    BY <1>10 DEF ThreadSetsState, ThreadUnchanged, channelVars, socketVars
  <2>2. CASE state = "kDisconnected"
    BY <1>10, <2>1, <2>2
       DEF ServerTypeOK, ConnTypeOK, ConnectionInv, Registered, Watched, FinAfterBytes, Reports, Gone
  <2>3. CASE state \in {"kConnected", "kDisconnecting"}
    BY <1>10, <2>1, <2>3
       DEF ServerTypeOK, ConnTypeOK, ConnectionInv, Registered, Watched, FinAfterBytes, Reports, Gone
  <2>4. QED
    BY <1>1, <2>2, <2>3 DEF ServerTypeOK, ConnTypeOK, States
<1>11. CASE /\ DestroyServer
            /\ UNCHANGED <<state, events, index, output, fin, late, downs>> /\ phase' = "gone"
  BY <1>11 DEF ServerTypeOK, ConnTypeOK, ConnectionInv, Registered, Watched, FinAfterBytes, Reports, Gone
<1>12. \/ UNCHANGED <<state, events, index, output, fin, late, downs, phase>>
       \/ /\ DestroyServer
          /\ UNCHANGED <<state, events, index, output, fin, late, downs>> /\ phase' = "gone"
       \/ /\ phase' = phase
          /\ \/ RunShutdown \/ UserShutsDown \/ RunForceClose \/ UserForceCloses
             \/ HandleHup \/ HandleReadEnds \/ \E m \in ToSet(Messages) : RunSend(m)
             \/ UserSends \/ HandleWrite \/ ConnectDestroyed \/ ConnectEstablished
             \/ \E t \in Threads, call \in CallNames : ThreadSetsState(t, call)
  <2>1. ~NewConnection
    BY DEF NewConnection, Life
  <2>2. QED
    BY <2>1, SMTT(30)
       DEF Next, Connection, LoopStep, UserStep, PeerStep, ThreadStep, ThreadReturns, vars, connVars,
         channelVars, userVars, socketVars, serverVars, RemoveConnection, DestroyServer,
         ConnUnchangedBut, SwapFunctors, RunWriteComplete, Poll, HandleError, HandleRead,
         HandleReadFails, UserReturns, ThreadPushes, ThreadSends, ThreadCloses, ThreadUnchanged,
         PeerSends, PeerCloses, PeerResets, Drain, PeerUnchanged
<1>13. ~ConnectEstablished
  BY EstablishedOnce
<1>14. CASE phase' = phase /\ \E t \in Threads, call \in CallNames : ThreadSetsState(t, call)
  BY <1>10, <1>14
<1>15. CASE phase' = phase /\ \E m \in ToSet(Messages) : RunSend(m)
  BY <1>6, <1>15
<1>16. QED
  BY <1>2, <1>3, <1>4, <1>5, <1>7, <1>8, <1>9, <1>11, <1>12, <1>13, <1>14, <1>15

LEMMA ServerStep ==
  ASSUME ServerInv, [Next]_vars
  PROVE  ServerInv'
<1> USE DEF ServerInv
<1>1. ServerTypeOK' /\ BytesInOrder' /\ Life'
  BY TypeStep, StreamStep, LifeStep
<1>2. CASE ups # 0
  <2>1. ConnectionInv
    BY DEF ConnectionInv
  <2>2. ConnectionInv' /\ Reported' /\ Undestroyed'
    BY <1>2, <2>1, ConnectionStep, ReportedStep, UndestroyedStep
  <2>3. QED
    BY <1>1, <2>2 DEF ConnectionInv
<1>3. CASE ups' = 0
  <2>1. Unborn'
    BY <1>1, <1>3 DEF Life
  <2>2. Reported' /\ ConnectionInv' /\ Undestroyed'
    BY <1>3, <2>1 DEF Unborn, Reported, ConnectionInv, Registered, Watched, FinAfterBytes,
                Undestroyed, Reports
  <2>3. QED
    BY <1>1, <2>2 DEF ConnectionInv
<1>4. CASE ups = 0 /\ ups' # 0
  <2>1. ConnectEstablished
    BY <1>4, UnbornSteps
       DEF Life, SwapFunctors, PeerStep, PeerSends, PeerCloses, PeerResets, Drain, PeerUnchanged,
           NewConnection, DestroyServer, ConnUnchangedBut, vars, connVars
  <2>2. /\ state' = "kConnected" /\ events' = {"read"} /\ index' = "kAdded"
        /\ output' = <<>> /\ fin' = FALSE /\ downs' = 0 /\ revents' = {} /\ late' = 0
    BY <1>4, <2>1 DEF Life, Unborn, ConnectEstablished, Update, socketVars, userVars
  <2>3. Reported' /\ ConnectionInv'
    BY <2>2 DEF Reported, ConnectionInv, Registered, Watched, FinAfterBytes, Reports
  <2>4. Undestroyed'
    <3>1. SUFFICES ASSUME phase' # "gone" PROVE removals' = 0 /\ queue' \in Seq(Open)
      BY DEF Undestroyed
    <3>2. removals' = removals /\ queue' = Tail(queue) /\ queue # <<>> /\ phase' = phase
      BY <1>4, <2>1, UnbornSteps
         DEF ConnectEstablished, Call, ServerTypeOK, ConnTypeOK, Life, NewConnection,
             DestroyServer, ConnUnchangedBut, vars, connVars, serverVars, SwapFunctors,
             PeerStep, PeerSends, PeerCloses, PeerResets, Drain, PeerUnchanged
    <3>3. queue = <<"connectEstablished">> /\ removals = 0
      BY <1>4, <3>1, <3>2 DEF Life, Unborn
    <3>4. queue' = <<>>
      BY <3>2, <3>3, ShortQueues
    <3>5. QED
      BY <3>2, <3>3, <3>4
  <2>5. QED
    BY <1>1, <2>3, <2>4 DEF ConnectionInv
<1>5. QED
  BY <1>2, <1>3, <1>4

LEMMA ServerInvHolds == Spec => []ServerInv
<1>1. Init => ServerInv
  <2> SUFFICES ASSUME Init PROVE ServerInv
    OBVIOUS
  <2> USE DEF Init, ConnInit
  <2>1. /\ queue = <<>> /\ output = <<>> /\ wire = <<>> /\ sent = <<>>
        /\ <<>> \in Seq(ByteSet) /\ <<>> \in Seq(Guarded \cup Raw)
    BY EmptySeq
  <2>2. Len(queue) = 0 /\ 0 \in 0..Len(queue) /\ Len(Messages) \in Nat
    BY ConnectionAssumption, Lengths
  <2>3. pc \in [Threads -> Calling] /\ \A t \in Threads : pc[t] = <<"idle", "idle">>
    BY DEF Calling
  <2>4. ConnTypeOK
    <3>1. /\ state \in States /\ events \subseteq {"read", "write"}
          /\ index \in {"kNew", "kAdded", "kDeleted"}
          /\ revents \subseteq {"hup", "err", "in", "out"}
      BY DEF States
    <3>2. todo \in 0..Len(queue) /\ removals \in Nat /\ ups \in Nat /\ downs \in Nat
      BY <2>2
    <3>3. /\ held \in BOOLEAN /\ soError \in BOOLEAN /\ input \in BOOLEAN
          /\ room \in BOOLEAN /\ fin \in BOOLEAN
      OBVIOUS
    <3>4. callback \in {"none", "up", "message"} /\ peer \in {"open", "closed", "reset"}
      OBVIOUS
    <3>5. QED
      BY <2>1, <3>1, <3>2, <3>3, <3>4 DEF ConnTypeOK
  <2>5. ServerTypeOK
    <3>1. closes \in Nat /\ late \in Nat /\ inMap \in BOOLEAN
      OBVIOUS
    <3>2. given \in 0..Len(Messages) /\ phase \in {"listening", "serving", "gone"}
      BY <2>2
    <3>3. QED
      BY <2>1, <2>3, <2>4, <3>1, <3>2 DEF ServerTypeOK
  <2>6. Unborn /\ Life
    BY <2>3 DEF Unborn, Life
  <2>7. BytesInOrder
    BY <2>1 DEF BytesInOrder
  <2>8. Reported /\ ConnectionInv /\ Undestroyed
    BY DEF Reported, ConnectionInv, Registered, Watched, FinAfterBytes, Undestroyed, Reports
  <2>9. QED
    BY <2>5, <2>6, <2>7, <2>8 DEF ServerInv, ConnectionInv
<1>2. ServerInv /\ [Next]_vars => ServerInv'
  BY ServerStep
<1>3. QED
  BY <1>1, <1>2, PTL DEF Spec

-----------------------------------------------------------------------------

(* The bytes sendInLoop took on reach the peer in order and without a gap, *)
(* and the end of the stream only after them, unless the connection was    *)
(* closed with bytes waiting, however the sends of the callbacks, of other *)
(* threads and of handleWrite alternate (TcpConnection.cc:116-155,         *)
(* 184-192, 233-254).                                                      *)
THEOREM TheStreamIsInOrder == Spec => []StreamInOrder
<1>1. ServerInv => StreamInOrder
  BY DEF ServerInv, StreamInOrder
<1>2. QED
  BY <1>1, ServerInvHolds, PTL

(* Until it is closed or destroyed a connection is read from, and EPOLLOUT *)
(* is asked for while bytes wait; a disconnected one waits for nothing,    *)
(* and only a late store to state_ or the end of the server can have put   *)
(* it back into the epoll set (TcpConnection.cc:152-154, 194-209, 239-242, *)
(* 265-276, EPollPoller.cc:52-86).                                         *)
THEOREM TheEpollSetAgrees == Spec => []EventsAsWanted
<1>1. ServerInv => EventsAsWanted
  <2> SUFFICES ASSUME ServerInv PROVE EventsAsWanted
    OBVIOUS
  <2> USE DEF ServerInv, ServerTypeOK, ConnTypeOK
  <2>1. OpenAreRead
    BY DEF Registered, OpenAreRead
  <2>2. ClosedAreSilent
    BY DEF Registered, Reports, Gone, ClosedAreSilent
  <2>3. WaitingBytesAreWatched
    <3> SUFFICES ASSUME output # <<>>, downs = 0, index # "kNew"
                 PROVE  index = "kAdded" /\ "write" \in events
      BY DEF WaitingBytesAreWatched
    <3>1. state \in {"kConnected", "kDisconnecting"}
      BY DEF Life, Unborn, Reports, States
    <3>2. QED
      BY <3>1 DEF Registered, Watched
  <2>4. ConnTypeOK
    OBVIOUS
  <2>5. QED
    BY <2>1, <2>2, <2>3, <2>4 DEF EventsAsWanted
<1>2. QED
  BY <1>1, ServerInvHolds, PTL

(* The user is told once that the connection is up, of every disconnection *)
(* that it is down, and of that once, but for two reports more of every    *)
(* late store to state_ and one of a connection that outlives the server   *)
(* (TcpConnection.cc:158-183, 202-209, 265-276).                           *)
THEOREM DownIsToldOnce == Spec => []DownOnce
<1>1. ServerInv => DownOnce
  <2> SUFFICES ASSUME ServerInv PROVE DownOnce
    OBVIOUS
  <2> USE DEF ServerInv, ServerTypeOK, ConnTypeOK
  <2>1. ups <= 1 /\ (downs > 0 => ups = 1)
    BY DEF Life, Unborn
  <2>2. state = "kDisconnected" => downs > late
    BY DEF Reports
  <2>3. downs <= 1 + 2 * late + Gone
    BY DEF Reports, Gone
  <2>4. QED
    BY <2>1, <2>2, <2>3 DEF DownOnce, Gone
<1>2. QED
  BY <1>1, ServerInvHolds, PTL
=============================================================================
